----------------------------- MODULE McpSession -----------------------------
(***************************************************************************)
(* MCP sessions over the stdio bridge: the browser's transport             *)
(* (ServerStdioMcpTransport in src/lib/mcp/server-stdio.ts), its WebSocket *)
(* and the bridge of McpBridge.  Each turn of a chat that has a stdio      *)
(* server enabled opens a session of its own: one socket, one spawn frame. *)
(* The sessions here are all of one configured server.                     *)
(*                                                                         *)
(* A socket carries frames in order each way.  It is closed by the client  *)
(* after the frames it has sent, or it is lost with the frames in flight   *)
(* (the page reloads, the network drops); each end notices for itself.     *)
(***************************************************************************)
EXTENDS McpBridge

CONSTANTS
  Ids,          \* bound: request ids 1.. of a session
  ServerAsks    \* BOOLEAN: the MCP server sends requests of its own

Sessions == Sockets

\* The serverId of the sessions.
Server == CHOOSE k \in Servers : TRUE

ASSUME SessionAssumption ==
  /\ Servers # {}
  /\ Ids = 1..Cardinality(Ids)
  /\ Lines = {"response", "request"} \X Ids
  /\ ServerAsks \in BOOLEAN

VARIABLES
  phase,     \* of each transport: start() running or settled, close() called
  dead,      \* #dead is set
  requests,  \* each request id: unsent, waiting in #pending, or settled
  wire,      \* of each WebSocket
  noticed,   \* the client's 'close' listeners have run
  toBridge,  \* frames sent and not yet read by the bridge
  asked      \* request ids the child has read and not yet answered

clientVars == <<phase, dead, requests, noticed>>
wireVars   == <<wire, toBridge>>
sessionVars == <<bridgeVars, clientVars, wireVars, asked>>

SessionTypeOK ==
  /\ BridgeTypeOK
  /\ phase \in [Sessions -> {"new", "connecting", "spawning", "up", "failed", "closed"}]
  /\ dead \in [Sessions -> BOOLEAN]
  /\ requests \in [Sessions -> [Ids -> {"unsent", "waiting", "answered", "rejected"}]]
  /\ wire \in [Sessions -> {"none", "connecting", "open", "closing", "lost", "gone"}]
  /\ noticed \in [Sessions -> BOOLEAN]
  /\ toBridge \in [Sessions -> Seq([kind : {"spawn", "stdin", "kill"}, id : Ids \union {0}])]
  /\ asked \in [Sessions -> SUBSET Ids]

SessionInit ==
  /\ BridgeInit
  /\ phase = [s \in Sessions |-> "new"]
  /\ dead = [s \in Sessions |-> FALSE]
  /\ requests = [s \in Sessions |-> [i \in Ids |-> "unsent"]]
  /\ wire = [s \in Sessions |-> "none"]
  /\ noticed = [s \in Sessions |-> FALSE]
  /\ toBridge = [s \in Sessions |-> <<>>]
  /\ asked = [s \in Sessions |-> {}]

-----------------------------------------------------------------------------
\* Sending on a socket that is not open does nothing.
Emit(s, kind, id) ==
  toBridge' = IF wire[s] = "open"
              THEN [toBridge EXCEPT ![s] = Append(@, [kind |-> kind, id |-> id])]
              ELSE toBridge

Rejected(s) ==
  [requests EXCEPT ![s] =
    [i \in Ids |-> IF @[i] = "waiting" THEN "rejected" ELSE @[i]]]

\* failAllPending, and the rejection of a start() that is still running.
FailAllPending(s) ==
  /\ dead' = [dead EXCEPT ![s] = TRUE]
  /\ requests' = Rejected(s)
  /\ phase' = [phase EXCEPT ![s] = IF @ \in {"connecting", "spawning"} THEN "failed" ELSE @]

Begin(s) ==
  /\ phase[s] = "new"
  /\ phase' = [phase EXCEPT ![s] = "connecting"]
  /\ wire' = [wire EXCEPT ![s] = "connecting"]
  /\ UNCHANGED <<bridgeVars, dead, requests, noticed, toBridge, asked>>

\* The handshake completes; the 'open' listener sends the spawn frame.
Opens(s) ==
  /\ wire[s] = "connecting"
  /\ Connect(s)
  /\ wire' = [wire EXCEPT ![s] = "open"]
  /\ phase' = [phase EXCEPT ![s] = "spawning"]
  /\ toBridge' = [toBridge EXCEPT ![s] = <<[kind |-> "spawn", id |-> 0]>>]
  /\ UNCHANGED <<dead, requests, noticed, asked>>

\* The client handles the next frame.  A line is matched by its id alone.
ClientReads(s) ==
  /\ wire[s] = "open"
  /\ Deliver(s)
  /\ LET frame == Head(toClient[s]) IN
     \/ /\ frame.kind = "spawned"
        /\ phase' = [phase EXCEPT ![s] = IF @ = "spawning" THEN "up" ELSE @]
        /\ UNCHANGED <<dead, requests>>
     \/ /\ frame.kind = "exit"
        /\ FailAllPending(s)
     \/ /\ frame.kind = "stdout"
        /\ requests' = [requests EXCEPT ![s][frame.data[2]] =
                          IF @ = "waiting" THEN "answered" ELSE @]
        /\ UNCHANGED <<phase, dead>>
  /\ UNCHANGED <<noticed, wireVars, asked>>

\* start() runs out of time and closes the socket.
SpawnTimeout(s) ==
  /\ phase[s] \in {"connecting", "spawning"}
  /\ phase' = [phase EXCEPT ![s] = "failed"]
  /\ wire' = [wire EXCEPT ![s] = CASE @ = "connecting" -> "gone"
                                   [] @ = "open" -> "closing"
                                   [] OTHER -> @]
  /\ UNCHANGED <<bridgeVars, dead, requests, noticed, toBridge, asked>>

\* Mutant: the check of #dead is gone.
RequestMutant(s, id) ==
  /\ phase[s] = "up"
  /\ requests[s][id] = "unsent"
  /\ \A i \in Ids : i < id => requests[s][i] # "unsent"
  /\ requests' = [requests EXCEPT ![s][id] = "waiting"]
  /\ Emit(s, "stdin", id)
  /\ UNCHANGED <<bridgeVars, phase, dead, noticed, wire, asked>>

\* request(): refused at once by a transport that is dead or closed.
Request(s, id) ==
  /\ phase[s] = "up" /\ ~dead[s]
  /\ requests[s][id] = "unsent"
  /\ \A i \in Ids : i < id => requests[s][i] # "unsent"
  /\ requests' = [requests EXCEPT ![s][id] = "waiting"]
  /\ Emit(s, "stdin", id)
  /\ UNCHANGED <<bridgeVars, phase, dead, noticed, wire, asked>>

RequestTimeout(s, id) ==
  /\ requests[s][id] = "waiting"
  /\ requests' = [requests EXCEPT ![s][id] = "rejected"]
  /\ UNCHANGED <<bridgeVars, phase, dead, noticed, wireVars, asked>>

\* close(): a kill frame, then the socket.
Close(s) ==
  /\ phase[s] = "up"
  /\ phase' = [phase EXCEPT ![s] = "closed"]
  /\ requests' = Rejected(s)
  /\ Emit(s, "kill", 0)
  /\ wire' = [wire EXCEPT ![s] = IF @ = "open" THEN "closing" ELSE @]
  /\ UNCHANGED <<bridgeVars, dead, noticed, asked>>

\* The 'close' event of the client's socket.
SocketClosed(s) ==
  /\ wire[s] \in {"lost", "gone"}
  /\ ~noticed[s]
  /\ noticed' = [noticed EXCEPT ![s] = TRUE]
  /\ FailAllPending(s)
  /\ UNCHANGED <<bridgeVars, wireVars, asked>>

\* The connection breaks.
Lose(s) ==
  /\ wire[s] \in {"connecting", "open", "closing"}
  /\ wire' = [wire EXCEPT ![s] = IF @ = "connecting" THEN "gone" ELSE "lost"]
  /\ toBridge' = [toBridge EXCEPT ![s] = <<>>]
  /\ UNCHANGED <<bridgeVars, clientVars, asked>>

-----------------------------------------------------------------------------
BridgeReads(s) ==
  /\ s \in open
  /\ toBridge[s] # <<>>
  /\ toBridge' = [toBridge EXCEPT ![s] = Tail(@)]
  /\ LET frame == Head(toBridge[s]) IN
     \/ /\ frame.kind = "spawn"
        /\ RefuseSpawn(s, Server) \/ \E c \in Children : AcceptSpawn(s, Server, c)
        /\ UNCHANGED asked
     \/ /\ frame.kind = "stdin"
        /\ asked' = [asked EXCEPT ![s] =
             IF children[s][Server] = NoChild THEN @ ELSE @ \union {frame.id}]
        /\ UNCHANGED bridgeVars
     \/ /\ frame.kind = "kill"
        /\ IF children[s][Server] = NoChild THEN UNCHANGED bridgeVars ELSE Kill(s, Server)
        /\ UNCHANGED asked
  /\ UNCHANGED <<clientVars, wire>>

\* The bridge's end of the socket closes, after the frames it was sent.
BridgeClosed(s) ==
  /\ wire[s] = "lost" \/ (wire[s] = "closing" /\ toBridge[s] = <<>>)
  /\ Disconnect(s)
  /\ wire' = [wire EXCEPT ![s] = IF @ = "closing" THEN "gone" ELSE @]
  /\ UNCHANGED <<clientVars, toBridge, asked>>

\* The MCP server answers a request it has read, or asks something itself.
ChildSpeaks(c) ==
  /\ home[c] # NoHome
  /\ LET s == home[c][1] IN
     \/ \E id \in asked[s] :
          /\ PrintLine(c, <<"response", id>>)
          /\ asked' = [asked EXCEPT ![s] = @ \ {id}]
     \/ /\ ServerAsks
        /\ \E id \in Ids : PrintLine(c, <<"request", id>>)
        /\ UNCHANGED asked
  /\ UNCHANGED <<clientVars, wireVars>>

ChildMoves(c) ==
  /\ Die(c) \/ Reap(c)
  /\ UNCHANGED <<clientVars, wireVars, asked>>

-----------------------------------------------------------------------------
SessionNext ==
  \/ \E s \in Sessions :
       \/ Begin(s) \/ Opens(s) \/ ClientReads(s) \/ SpawnTimeout(s)
       \/ Close(s) \/ SocketClosed(s) \/ Lose(s)
       \/ BridgeReads(s) \/ BridgeClosed(s)
       \/ \E id \in Ids : Request(s, id) \/ RequestTimeout(s, id)
  \/ \E c \in Children : ChildSpeaks(c) \/ ChildMoves(c)

SessionSpec == SessionInit /\ [][SessionNext]_sessionVars

\* The event loop of the bridge runs its callbacks, sockets deliver, and a
\* child that was signalled exits.  Nothing is assumed of a child otherwise.
SessionFairness ==
  /\ \A s \in Sessions : WF_sessionVars(BridgeReads(s)) /\ WF_sessionVars(BridgeClosed(s))
  /\ \A c \in Children : WF_sessionVars(proc[c] = "signalled" /\ ChildMoves(c))

SessionFairSpec == SessionSpec /\ SessionFairness

-----------------------------------------------------------------------------
\* No call of a tool waits out its timeout on a transport that is known to be
\* dead or closed, in whichever order exit frames, close events, requests and
\* close() happen.
NoneWaitsOnTheDead ==
  \A s \in Sessions : dead[s] \/ phase[s] = "closed" =>
    \A id \in Ids : requests[s][id] # "waiting"

\* Once its session is closed, a child stops running.
ClosedSessionsEnd ==
  \A s \in Sessions :
    phase[s] = "closed" ~> \A c \in Running : home[c][1] # s

\* "server request: id + method -> onRequest" (server-stdio.test.ts:264): a
\* request of the MCP server is never taken for the answer to one of ours.
OnlyResponsesAnswer ==
  [][\A s \in Sessions, id \in Ids :
       requests[s][id] = "waiting" /\ requests'[s][id] = "answered" =>
         Head(toClient[s]).data[1] = "response"]_sessionVars
=============================================================================
