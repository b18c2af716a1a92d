----------------------------- MODULE McpBridge -----------------------------
(***************************************************************************)
(* The stdio bridge of the Mayon server (server/src/mcp.ts): one WebSocket *)
(* per connection, a table of child processes per socket, and a counter of *)
(* live children shared by every socket of the server process.             *)
(*                                                                         *)
(* Handlers are atomic: node runs each callback to completion.  A child is *)
(* an identity that is spawned at most once; its process moves on its own  *)
(* between callbacks (it crashes, or dies some time after a signal), and   *)
(* the 'error' or 'exit' callback runs later still.                        *)
(***************************************************************************)
EXTENDS Naturals, Sequences, FiniteSets

CONSTANTS
  Sockets,       \* WebSocket connections
  Servers,       \* serverId values a client puts into its frames
  Children,      \* identities for child processes
  Lines,         \* lines a child can print
  MaxChildren,   \* getMaxChildren(): 32, or MCP_MAX_CHILDREN
  MaxFrames,     \* bound: no refusal or line is sent past this many unread frames
  NoChild,       \* "no entry" in a table of children
  NoHome,        \* the home of a child that was never spawned
  NoLine         \* the data of a frame that carries no line

ASSUME BridgeAssumption ==
  /\ MaxChildren \in Nat
  /\ MaxFrames \in Nat
  /\ IsFiniteSet(Servers)
  /\ IsFiniteSet(Children)
  /\ NoChild \notin Children
  /\ NoHome \notin Sockets \X Servers

VARIABLES
  open,      \* the sockets that are connected
  children,  \* per socket: serverId -> child, the Map of the connection
  proc,      \* what each process is doing
  home,      \* the socket and serverId whose closure watches the child
  liveChildren,
  toClient   \* frames sent on each socket and not yet read by the client

bridgeVars == <<open, children, proc, home, liveChildren, toClient>>

\* "failing": spawn() returned, the binary cannot be run, 'error' is pending.
\* "up": running.  "signalled": kill() was called.  "dead": the process is
\* gone and its 'exit' callback is pending.  "reaped": the callback has run.
ProcState == {"unborn", "failing", "up", "signalled", "dead", "reaped"}

Frame == [kind : {"spawned", "exit", "stdout"}, server : Servers,
          data : Lines \union {NoLine}]

Spawned(k)   == [kind |-> "spawned", server |-> k, data |-> NoLine]
Exit(k)      == [kind |-> "exit", server |-> k, data |-> NoLine]
Stdout(k, l) == [kind |-> "stdout", server |-> k, data |-> l]

\* Processes the operating system holds for the bridge.
Running == {c \in Children : proc[c] \in {"up", "signalled"}}

\* Children whose 'error' or 'exit' callback has not run yet.
Unreaped == {c \in Children : proc[c] \notin {"unborn", "reaped"}}

BridgeTypeOK ==
  /\ open \subseteq Sockets
  /\ children \in [Sockets -> [Servers -> Children \union {NoChild}]]
  /\ proc \in [Children -> ProcState]
  /\ home \in [Children -> (Sockets \X Servers) \union {NoHome}]
  /\ liveChildren \in Nat
  /\ toClient \in [Sockets -> Seq(Frame)]

BridgeInit ==
  /\ open = {}
  /\ children = [s \in Sockets |-> [k \in Servers |-> NoChild]]
  /\ proc = [c \in Children |-> "unborn"]
  /\ home = [c \in Children |-> NoHome]
  /\ liveChildren = 0
  /\ toClient = [s \in Sockets |-> <<>>]

-----------------------------------------------------------------------------
\* A frame reaches the client only while the socket is open.
Send(s, frame) ==
  IF s \in open THEN [toClient EXCEPT ![s] = Append(@, frame)] ELSE toClient

\* Math.max(0, liveChildren - n)
Minus(n) == IF n > liveChildren THEN 0 ELSE liveChildren - n

Entries(s) == {k \in Servers : children[s][k] # NoChild}
TableOf(s) == {children[s][k] : k \in Entries(s)}

Connect(s) ==
  /\ s \notin open
  /\ open' = open \union {s}
  /\ UNCHANGED <<children, proc, home, liveChildren, toClient>>

\* A 'spawn' frame that is refused: missing command, over the limit, command
\* not on PATH, or spawn() throws.
RefuseSpawn(s, k) ==
  /\ s \in open
  /\ Len(toClient[s]) < MaxFrames
  /\ toClient' = Send(s, Exit(k))
  /\ UNCHANGED <<open, children, proc, home, liveChildren>>

\* A 'spawn' frame that is accepted.  The entry of the table is overwritten
\* whatever it held; the callbacks of the child remember the socket and the
\* serverId of the frame.
AcceptSpawn(s, k, c) ==
  /\ s \in open
  /\ liveChildren < MaxChildren
  /\ proc[c] = "unborn"
  /\ \E first \in {"up", "failing"} : proc' = [proc EXCEPT ![c] = first]
  /\ home' = [home EXCEPT ![c] = <<s, k>>]
  /\ liveChildren' = liveChildren + 1
  /\ children' = [children EXCEPT ![s][k] = c]
  /\ toClient' = Send(s, Spawned(k))
  /\ UNCHANGED open

\* child.kill() signals a running process and does nothing to a dead one.
Signal(cs) ==
  [c \in Children |-> IF c \in cs /\ proc[c] = "up" THEN "signalled" ELSE proc[c]]

\* A 'kill' frame.
Kill(s, k) ==
  /\ s \in open
  /\ children[s][k] # NoChild
  /\ proc' = Signal({children[s][k]})
  /\ children' = [children EXCEPT ![s][k] = NoChild]
  /\ UNCHANGED <<open, home, liveChildren, toClient>>

\* Mutant: the children are forgotten, not killed.
DisconnectMutant(s) ==
  /\ s \in open
  /\ open' = open \ {s}
  /\ liveChildren' = Minus(Cardinality(Entries(s)))
  /\ children' = [children EXCEPT ![s] = [k \in Servers |-> NoChild]]
  /\ toClient' = [toClient EXCEPT ![s] = <<>>]
  /\ UNCHANGED <<proc, home>>

\* The socket closes, for whatever reason: every child of the table is
\* signalled and discounted at once, and the table is cleared.
Disconnect(s) ==
  /\ s \in open
  /\ open' = open \ {s}
  /\ proc' = Signal(TableOf(s))
  /\ liveChildren' = Minus(Cardinality(Entries(s)))
  /\ children' = [children EXCEPT ![s] = [k \in Servers |-> NoChild]]
  /\ toClient' = [toClient EXCEPT ![s] = <<>>]
  /\ UNCHANGED home

-----------------------------------------------------------------------------
\* A process ends: by itself, or because of the signal.
Die(c) ==
  /\ c \in Running
  /\ proc' = [proc EXCEPT ![c] = "dead"]
  /\ UNCHANGED <<open, children, home, liveChildren, toClient>>

\* Mutant: 'error' does not give the slot back.
ReapMutant(c) ==
  /\ proc[c] \in {"failing", "dead"}
  /\ proc' = [proc EXCEPT ![c] = "reaped"]
  /\ liveChildren' = IF proc[c] = "failing" THEN liveChildren ELSE Minus(1)
  /\ children' = [children EXCEPT ![home[c][1]][home[c][2]] = NoChild]
  /\ toClient' = Send(home[c][1], Exit(home[c][2]))
  /\ UNCHANGED <<open, home>>

\* The 'error' callback (the binary could not be run) and the 'exit' callback
\* do the same: discount, drop the entry of the serverId, report the exit.
Reap(c) ==
  /\ proc[c] \in {"failing", "dead"}
  /\ proc' = [proc EXCEPT ![c] = "reaped"]
  /\ liveChildren' = Minus(1)
  /\ children' = [children EXCEPT ![home[c][1]][home[c][2]] = NoChild]
  /\ toClient' = Send(home[c][1], Exit(home[c][2]))
  /\ UNCHANGED <<open, home>>

\* A child that runs, or whose pipe is still being drained, prints a line.
PrintLine(c, line) ==
  /\ proc[c] \in {"up", "signalled", "dead"}
  /\ Len(toClient[home[c][1]]) < MaxFrames
  /\ toClient' = Send(home[c][1], Stdout(home[c][2], line))
  /\ UNCHANGED <<open, children, proc, home, liveChildren>>

\* The other end takes the next frame off the socket.
Deliver(s) ==
  /\ toClient[s] # <<>>
  /\ toClient' = [toClient EXCEPT ![s] = Tail(@)]
  /\ UNCHANGED <<open, children, proc, home, liveChildren>>

-----------------------------------------------------------------------------
FromSocket(s) ==
  \/ Connect(s)
  \/ Disconnect(s)
  \/ Deliver(s)
  \/ \E k \in Servers :
       \/ RefuseSpawn(s, k)
       \/ \E c \in Children : AcceptSpawn(s, k, c)
       \/ Kill(s, k)

FromProcess(c) ==
  \/ Die(c)
  \/ Reap(c)
  \/ \E line \in Lines : PrintLine(c, line)

BridgeNext ==
  \/ \E s \in Sockets : FromSocket(s)
  \/ \E c \in Children : FromProcess(c)

BridgeSpec == BridgeInit /\ [][BridgeNext]_bridgeVars

-----------------------------------------------------------------------------
\* Whatever sequence of spawns, kills, crashes and disconnects, the counter
\* never exceeds the children whose callback is still to come: no slot leaks,
\* so a spawn is refused only while that many children are really there.
NoLeakedSlots == liveChildren <= Cardinality(Unreaped)

\* An entry of a table names a child that was spawned for that socket and
\* serverId, that nobody has killed, and whose callback has not run: what
\* 'stdin' writes to and 'kill' signals is never somebody else's child.
TableIsSound ==
  \A s \in Sockets, k \in Servers :
    LET c == children[s][k] IN
    c # NoChild => /\ home[c] = <<s, k>>
                   /\ proc[c] \in {"failing", "up", "dead"}

\* "kill-on-disconnect: socket close kills children" (server/src/mcp.test.ts):
\* no child runs unsignalled for a socket that is gone, even when the spawn
\* frame and the end of the socket cross.
NoOrphans ==
  \A c \in Children : proc[c] = "up" => home[c][1] \in open

\* "rejects second spawn with too many children", the test of the limit says
\* (server/src/mcp.test.ts:428): the bridge never runs more children than the
\* limit, not counting the ones it has signalled and that are about to go.
CapHolds == Cardinality({c \in Running : proc[c] = "up"}) <= MaxChildren
=============================================================================
