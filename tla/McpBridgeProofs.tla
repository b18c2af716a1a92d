-------------------------- MODULE McpBridgeProofs --------------------------
(***************************************************************************)
(* Theorems of McpBridge, for any number of sockets, servers and children. *)
(***************************************************************************)
EXTENDS McpSession, FiniteSetTheorems, TLAPS

\* A child that was spawned has a home.
Homed == \A c \in Children : proc[c] # "unborn" => home[c] \in Sockets \X Servers

BridgeInv == BridgeTypeOK /\ Homed /\ TableIsSound /\ NoLeakedSlots

LEMMA FrameTypes ==
  ASSUME NEW k \in Servers
  PROVE  Exit(k) \in Frame /\ Spawned(k) \in Frame
BY DEF Exit, Spawned, Frame

LEMMA StdoutType ==
  ASSUME NEW k \in Servers, NEW l \in Lines
  PROVE  Stdout(k, l) \in Frame
BY DEF Stdout, Frame

LEMMA SendType ==
  ASSUME BridgeTypeOK, NEW s \in Sockets, NEW f \in Frame
  PROVE  Send(s, f) \in [Sockets -> Seq(Frame)]
<1>1. toClient \in [Sockets -> Seq(Frame)]
  BY DEF BridgeTypeOK
<1>2. Append(toClient[s], f) \in Seq(Frame)
  BY <1>1
<1> QED
  BY <1>1, <1>2 DEF Send

\* Discounting never adds.
LEMMA MinusBounds ==
  ASSUME liveChildren \in Nat, NEW n \in Nat
  PROVE  /\ Minus(n) \in Nat /\ Minus(n) <= liveChildren
         /\ liveChildren >= 1 => Minus(1) = liveChildren - 1
         /\ liveChildren = 0 => Minus(1) = 0
BY DEF Minus

LEMMA EntriesCounted == ASSUME NEW s \in Sockets PROVE Cardinality(Entries(s)) \in Nat
<1>1. Entries(s) \subseteq Servers
  BY DEF Entries
<1> QED
  BY <1>1, BridgeAssumption, FS_Subset, FS_CardinalityType

LEMMA UnreapedFinite == IsFiniteSet(Unreaped)
<1>1. Unreaped \subseteq Children
  BY DEF Unreaped
<1> QED
  BY <1>1, BridgeAssumption, FS_Subset

LEMMA BridgeInvInit == BridgeInit => BridgeInv
<1> SUFFICES ASSUME BridgeInit PROVE BridgeInv
  OBVIOUS
<1>1. BridgeTypeOK
  <2>1. <<>> \in Seq(Frame)
    OBVIOUS
  <2> QED
    BY <2>1 DEF BridgeInit, BridgeTypeOK, ProcState
<1>2. Homed /\ TableIsSound
  BY DEF BridgeInit, Homed, TableIsSound
<1>3. Cardinality(Unreaped) \in Nat
  BY UnreapedFinite, FS_CardinalityType
<1>4. NoLeakedSlots
  BY <1>3 DEF BridgeInit, NoLeakedSlots
<1> QED
  BY <1>1, <1>2, <1>4 DEF BridgeInv

\* A step that leaves the processes, the tables and the counter alone.
LEMMA OnlyFrames ==
  ASSUME BridgeInv, UNCHANGED <<children, proc, home, liveChildren>>,
         open' \subseteq Sockets, toClient' \in [Sockets -> Seq(Frame)]
  PROVE  BridgeInv'
<1>1. BridgeTypeOK' /\ Homed' /\ TableIsSound'
  BY DEF BridgeInv, BridgeTypeOK, Homed, TableIsSound
<1>2. UNCHANGED Unreaped
  BY DEF Unreaped
<1> QED
  BY <1>1, <1>2 DEF BridgeInv, NoLeakedSlots

\* Signalling moves nobody in or out of the children still to be reaped.
LEMMA SignalKeeps ==
  ASSUME BridgeTypeOK, NEW cs, proc' = Signal(cs)
  PROVE  /\ proc' \in [Children -> ProcState]
         /\ UNCHANGED Unreaped
         /\ \A c \in Children : proc'[c] = "unborn" <=> proc[c] = "unborn"
         /\ \A c \in Children \ cs : proc'[c] = proc[c]
BY DEF BridgeTypeOK, Signal, ProcState, Unreaped

LEMMA AcceptSpawnStep ==
  ASSUME BridgeInv, NEW s \in Sockets, NEW k \in Servers, NEW c \in Children,
         AcceptSpawn(s, k, c)
  PROVE  BridgeInv'
<1> USE DEF BridgeInv, AcceptSpawn
<1>1. toClient' \in [Sockets -> Seq(Frame)]
  BY SendType, FrameTypes
<1>2. PICK first \in {"up", "failing"} : proc' = [proc EXCEPT ![c] = first]
  OBVIOUS
<1>3. BridgeTypeOK'
  <2>1. proc' \in [Children -> ProcState]
    BY <1>2 DEF BridgeTypeOK, ProcState
  <2>2. home' \in [Children -> (Sockets \X Servers) \union {NoHome}]
    BY DEF BridgeTypeOK
  <2>3. children' \in [Sockets -> [Servers -> Children \union {NoChild}]]
    BY DEF BridgeTypeOK
  <2> QED
    BY <1>1, <2>1, <2>2, <2>3 DEF BridgeTypeOK
<1>4. Homed'
  BY <1>2 DEF BridgeTypeOK, Homed
<1>5. TableIsSound'
  <2> SUFFICES ASSUME NEW t \in Sockets, NEW j \in Servers, children'[t][j] # NoChild
               PROVE  /\ home'[children'[t][j]] = <<t, j>>
                      /\ proc'[children'[t][j]] \in {"failing", "up", "dead"}
    BY DEF TableIsSound
  <2>1. CASE t = s /\ j = k
    <3>1. children'[t][j] = c
      BY <2>1 DEF BridgeTypeOK
    <3> QED
      BY <1>2, <2>1, <3>1 DEF BridgeTypeOK
  <2>2. CASE ~(t = s /\ j = k)
    <3>1. children'[t][j] = children[t][j]
      BY <2>2 DEF BridgeTypeOK
    <3>2. children[t][j] \in Children
      BY <3>1 DEF BridgeTypeOK
    <3>3. children[t][j] # c
      BY <3>1, <3>2 DEF TableIsSound
    <3> QED
      BY <1>2, <3>1, <3>2, <3>3 DEF BridgeTypeOK, TableIsSound
  <2> QED
    BY <2>1, <2>2
<1>6. NoLeakedSlots'
  <2>1. Unreaped' = Unreaped \union {c} /\ c \notin Unreaped
    BY <1>2 DEF Unreaped, BridgeTypeOK
  <2>2. Cardinality(Unreaped') = Cardinality(Unreaped) + 1
    BY <2>1, UnreapedFinite, FS_AddElement
  <2>3. Cardinality(Unreaped) \in Nat
    BY UnreapedFinite, FS_CardinalityType
  <2> QED
    BY <2>2, <2>3 DEF NoLeakedSlots, BridgeTypeOK
<1> QED
  BY <1>3, <1>4, <1>5, <1>6

LEMMA KillStep ==
  ASSUME BridgeInv, NEW s \in Sockets, NEW k \in Servers, Kill(s, k)
  PROVE  BridgeInv'
<1> USE DEF BridgeInv, Kill
<1> DEFINE c == children[s][k]
<1>1. /\ proc' \in [Children -> ProcState]
      /\ UNCHANGED Unreaped
      /\ \A d \in Children : proc'[d] = "unborn" <=> proc[d] = "unborn"
      /\ \A d \in Children \ {c} : proc'[d] = proc[d]
  BY SignalKeeps
<1>2. children' \in [Sockets -> [Servers -> Children \union {NoChild}]]
  BY DEF BridgeTypeOK
<1>3. BridgeTypeOK' /\ Homed'
  BY <1>1, <1>2 DEF BridgeTypeOK, Homed
<1>4. TableIsSound'
  <2> SUFFICES ASSUME NEW t \in Sockets, NEW j \in Servers, children'[t][j] # NoChild
               PROVE  /\ home'[children'[t][j]] = <<t, j>>
                      /\ proc'[children'[t][j]] \in {"failing", "up", "dead"}
    BY DEF TableIsSound
  <2>1. ~(t = s /\ j = k) /\ children'[t][j] = children[t][j]
    BY DEF BridgeTypeOK
  <2>2. children[t][j] \in Children /\ c \in Children
    BY <2>1 DEF BridgeTypeOK
  <2>3. children[t][j] # c
    BY <2>1, <2>2 DEF TableIsSound
  <2>4. proc'[children[t][j]] = proc[children[t][j]]
    BY <1>1, <2>2, <2>3
  <2>5. /\ home[children[t][j]] = <<t, j>>
        /\ proc[children[t][j]] \in {"failing", "up", "dead"}
    BY <2>1 DEF TableIsSound
  <2> QED
    BY <2>1, <2>4, <2>5
<1> QED
  BY <1>1, <1>3, <1>4 DEF NoLeakedSlots

LEMMA DisconnectStep ==
  ASSUME BridgeInv, NEW s \in Sockets, Disconnect(s)
  PROVE  BridgeInv'
<1> USE DEF BridgeInv, Disconnect
<1>1. /\ proc' \in [Children -> ProcState]
      /\ UNCHANGED Unreaped
      /\ \A d \in Children : proc'[d] = "unborn" <=> proc[d] = "unborn"
      /\ \A d \in Children \ TableOf(s) : proc'[d] = proc[d]
  BY SignalKeeps
<1>2. liveChildren' \in Nat /\ liveChildren' <= liveChildren
  BY EntriesCounted, MinusBounds DEF BridgeTypeOK
<1>3. BridgeTypeOK' /\ Homed'
  <2>1. toClient' \in [Sockets -> Seq(Frame)]
    <3>1. <<>> \in Seq(Frame) /\ toClient \in [Sockets -> Seq(Frame)]
      BY DEF BridgeTypeOK
    <3> QED
      BY <3>1
  <2>2. children' \in [Sockets -> [Servers -> Children \union {NoChild}]]
    BY DEF BridgeTypeOK
  <2> QED
    BY <1>1, <1>2, <2>1, <2>2 DEF BridgeTypeOK, Homed
<1>4. TableIsSound'
  <2> SUFFICES ASSUME NEW t \in Sockets, NEW j \in Servers, children'[t][j] # NoChild
               PROVE  /\ home'[children'[t][j]] = <<t, j>>
                      /\ proc'[children'[t][j]] \in {"failing", "up", "dead"}
    BY DEF TableIsSound
  <2>1. t # s /\ children'[t][j] = children[t][j]
    BY DEF BridgeTypeOK
  <2>2. children[t][j] \in Children
    BY <2>1 DEF BridgeTypeOK
  <2>3. children[t][j] \notin TableOf(s)
    BY <2>1, <2>2 DEF TableIsSound, TableOf, Entries
  <2> QED
    BY <1>1, <2>1, <2>2, <2>3 DEF TableIsSound
<1>5. Cardinality(Unreaped) \in Nat
  BY UnreapedFinite, FS_CardinalityType
<1>6. NoLeakedSlots'
  BY <1>1, <1>2, <1>5 DEF NoLeakedSlots, BridgeTypeOK
<1> QED
  BY <1>3, <1>4, <1>6

LEMMA DieStep ==
  ASSUME BridgeInv, NEW c \in Children, Die(c)
  PROVE  BridgeInv'
<1> USE DEF BridgeInv, Die
<1>1. proc' \in [Children -> ProcState] /\ UNCHANGED Unreaped
  BY DEF BridgeTypeOK, ProcState, Unreaped, Running
<1>2. BridgeTypeOK' /\ Homed' /\ TableIsSound'
  BY <1>1 DEF BridgeTypeOK, Homed, TableIsSound, Running
<1> QED
  BY <1>1, <1>2 DEF NoLeakedSlots

\* The callback of a child drops the entry of its home, whichever child that
\* entry names by then.
LEMMA ReapStep ==
  ASSUME BridgeInv, NEW c \in Children, Reap(c)
  PROVE  BridgeInv'
<1> USE DEF BridgeInv, Reap
<1>1. home[c] \in Sockets \X Servers
  BY DEF Homed
<1> DEFINE s == home[c][1]
           k == home[c][2]
<1>2. s \in Sockets /\ k \in Servers /\ home[c] = <<s, k>>
  BY <1>1
<1>3. toClient' \in [Sockets -> Seq(Frame)]
  BY <1>2, SendType, FrameTypes
<1>4. children' \in [Sockets -> [Servers -> Children \union {NoChild}]]
  BY <1>2 DEF BridgeTypeOK
<1>5. liveChildren \in Nat /\ liveChildren' = Minus(1) /\ liveChildren' \in Nat
  BY MinusBounds DEF BridgeTypeOK
<1>6. BridgeTypeOK' /\ Homed'
  BY <1>3, <1>4, <1>5 DEF BridgeTypeOK, ProcState, Homed
<1>7. TableIsSound'
  <2> SUFFICES ASSUME NEW t \in Sockets, NEW j \in Servers, children'[t][j] # NoChild
               PROVE  /\ home'[children'[t][j]] = <<t, j>>
                      /\ proc'[children'[t][j]] \in {"failing", "up", "dead"}
    BY DEF TableIsSound
  <2>1. ~(t = s /\ j = k) /\ children'[t][j] = children[t][j]
    BY <1>2 DEF BridgeTypeOK
  <2>2. children[t][j] \in Children
    BY <2>1 DEF BridgeTypeOK
  <2>3. children[t][j] # c
    BY <1>2, <2>1, <2>2 DEF TableIsSound
  <2> QED
    BY <2>1, <2>2, <2>3 DEF TableIsSound, BridgeTypeOK
<1>8. NoLeakedSlots'
  <2>1. Unreaped' = Unreaped \ {c} /\ c \in Unreaped
    BY DEF Unreaped, BridgeTypeOK
  <2>2. Cardinality(Unreaped') = Cardinality(Unreaped) - 1
    BY <2>1, UnreapedFinite, FS_RemoveElement
  <2>3. Cardinality(Unreaped) \in Nat /\ Cardinality(Unreaped') \in Nat
    <3>1. IsFiniteSet(Unreaped')
      BY <2>1, UnreapedFinite, FS_RemoveElement
    <3> QED
      BY <3>1, UnreapedFinite, FS_CardinalityType
  <2>4. liveChildren <= Cardinality(Unreaped)
    BY DEF NoLeakedSlots
  <2> QED
    BY <1>5, <2>2, <2>3, <2>4, MinusBounds DEF NoLeakedSlots
<1> QED
  BY <1>6, <1>7, <1>8

LEMMA FrameStep ==
  ASSUME BridgeInv, NEW s \in Sockets,
         \/ Connect(s) \/ Deliver(s)
         \/ \E k \in Servers : RefuseSpawn(s, k)
         \/ \E c \in Children, l \in Lines : PrintLine(c, l)
  PROVE  BridgeInv'
<1>1. toClient \in [Sockets -> Seq(Frame)] /\ open \subseteq Sockets
  BY DEF BridgeInv, BridgeTypeOK
<1>2. CASE Connect(s)
  BY <1>1, <1>2, OnlyFrames DEF Connect
<1>3. CASE Deliver(s)
  <2>1. Tail(toClient[s]) \in Seq(Frame)
    BY <1>1, <1>3 DEF Deliver
  <2>2. toClient' \in [Sockets -> Seq(Frame)]
    BY <1>1, <1>3, <2>1 DEF Deliver
  <2> QED
    BY <1>1, <1>3, <2>2, OnlyFrames DEF Deliver
<1>4. ASSUME NEW k \in Servers, RefuseSpawn(s, k) PROVE BridgeInv'
  <2>1. toClient' \in [Sockets -> Seq(Frame)]
    BY <1>4, SendType, FrameTypes DEF RefuseSpawn, BridgeInv
  <2> QED
    BY <1>1, <1>4, <2>1, OnlyFrames DEF RefuseSpawn
<1>5. ASSUME NEW c \in Children, NEW l \in Lines, PrintLine(c, l) PROVE BridgeInv'
  <2>1. home[c][1] \in Sockets /\ home[c][2] \in Servers
    BY <1>5 DEF PrintLine, BridgeInv, Homed
  <2>2. toClient' \in [Sockets -> Seq(Frame)]
    BY <1>5, <2>1, SendType, StdoutType DEF PrintLine, BridgeInv
  <2> QED
    BY <1>1, <1>5, <2>2, OnlyFrames DEF PrintLine
<1> QED
  BY <1>2, <1>3, <1>4, <1>5

LEMMA BridgeInvStep == BridgeInv /\ [BridgeNext]_bridgeVars => BridgeInv'
<1> SUFFICES ASSUME BridgeInv, [BridgeNext]_bridgeVars PROVE BridgeInv'
  OBVIOUS
<1>1. ASSUME NEW s \in Sockets, FromSocket(s) PROVE BridgeInv'
  BY <1>1, FrameStep, AcceptSpawnStep, KillStep, DisconnectStep DEF FromSocket
<1>2. ASSUME NEW c \in Children, FromProcess(c) PROVE BridgeInv'
  <2>1. CASE Die(c) \/ Reap(c)
    BY <2>1, DieStep, ReapStep
  <2>2. ASSUME NEW l \in Lines, PrintLine(c, l) PROVE BridgeInv'
    <3>1. home[c][1] \in Sockets
      BY <2>2 DEF PrintLine, BridgeInv, Homed
    <3> QED
      BY <2>2, <3>1, FrameStep
  <2> QED
    BY <1>2, <2>1, <2>2 DEF FromProcess
<1>3. CASE UNCHANGED bridgeVars
  <2>1. UNCHANGED <<open, children, proc, home, liveChildren, toClient>>
    BY <1>3 DEF bridgeVars
  <2> QED
    BY <2>1, OnlyFrames DEF BridgeInv, BridgeTypeOK
<1> QED
  BY <1>1, <1>2, <1>3 DEF BridgeNext

\* What 'stdin' writes to and 'kill' signals is a child of that socket and
\* serverId that nobody has killed and that has not been reaped, whatever
\* order frames, crashes, callbacks and disconnects come in.
THEOREM TablesSound == BridgeSpec => []TableIsSound
<1>1. BridgeInv => TableIsSound
  BY DEF BridgeInv
<1> QED
  BY <1>1, BridgeInvInit, BridgeInvStep, PTL DEF BridgeSpec

\* No slot of the counter of live children is ever lost: a spawn that is
\* refused for the limit is refused because of children that are there.
THEOREM SlotsReturn == BridgeSpec => []NoLeakedSlots
<1>1. BridgeInv => NoLeakedSlots
  BY DEF BridgeInv
<1> QED
  BY <1>1, BridgeInvInit, BridgeInvStep, PTL DEF BridgeSpec

-----------------------------------------------------------------------------
(* Sessions over the bridge.                                               *)

\* The children that were spawned for a session.
ChildrenOf(s) == {c \in Children : home[c] # NoHome /\ home[c][1] = s}

\* A session sends one spawn frame, before any other; while it has not, or the frame is on
\* its way, the session has no child, and it never has two.
OneSpawn ==
  /\ \A s \in Sessions : phase[s] = "new" \/ wire[s] = "connecting" =>
       toBridge[s] = <<>> /\ ChildrenOf(s) = {}
  /\ \A s \in Sessions : \A i \in DOMAIN toBridge[s] :
       /\ toBridge[s][i].kind = "stdin" => toBridge[s][i].id \in Ids
       /\ toBridge[s][i].kind = "spawn" => i = 1 /\ ChildrenOf(s) = {}
  /\ \A s \in Sessions : \A c, d \in ChildrenOf(s) : c = d

\* So an entry is overwritten by nobody, and a child that runs has its entry, where the end
\* of the socket finds it.
InTable ==
  \A c \in Children : proc[c] = "up" =>
    home[c][1] \in open /\ home[c][2] = Server /\ children[home[c][1]][Server] = c

SessionInv == BridgeInv /\ SessionTypeOK /\ OneSpawn /\ InTable

ToBridge == [kind : {"spawn", "stdin", "kill"}, id : Ids \union {0}]

LEMMA ServerIsOne == Server \in Servers
BY SessionAssumption DEF Server

LEMMA EmitType ==
  ASSUME SessionTypeOK, NEW s \in Sessions, NEW kind \in {"stdin", "kill"},
         NEW id \in Ids \union {0}, Emit(s, kind, id)
  PROVE  /\ toBridge' \in [Sessions -> Seq(ToBridge)]
         /\ \A t \in Sessions \ {s} : toBridge'[t] = toBridge[t]
         /\ wire[s] # "open" => toBridge' = toBridge
         /\ \A i \in DOMAIN toBridge'[s] :
              \/ i \in DOMAIN toBridge[s] /\ toBridge'[s][i] = toBridge[s][i]
              \/ toBridge'[s][i] = [kind |-> kind, id |-> id]
<1> DEFINE f == [kind |-> kind, id |-> id]
<1>1. toBridge \in [Sessions -> Seq(ToBridge)] /\ f \in ToBridge
  BY DEF SessionTypeOK, ToBridge
<1>2. Append(toBridge[s], f) \in Seq(ToBridge)
  BY <1>1
<1>3. \A i \in DOMAIN Append(toBridge[s], f) :
        \/ i \in DOMAIN toBridge[s] /\ Append(toBridge[s], f)[i] = toBridge[s][i]
        \/ Append(toBridge[s], f)[i] = f
  BY <1>1
<1>4. CASE wire[s] = "open"
  <2>1. toBridge' = [toBridge EXCEPT ![s] = Append(toBridge[s], f)]
    BY <1>4 DEF Emit
  <2> QED
    BY <1>1, <1>2, <1>3, <1>4, <2>1
<1>5. CASE wire[s] # "open"
  BY <1>1, <1>5 DEF Emit
<1> QED
  BY <1>4, <1>5

LEMMA TailOfFrames ==
  ASSUME SessionTypeOK, NEW s \in Sessions, toBridge[s] # <<>>,
         toBridge' = [toBridge EXCEPT ![s] = Tail(@)]
  PROVE  /\ toBridge' \in [Sessions -> Seq(ToBridge)]
         /\ Head(toBridge[s]) = toBridge[s][1] /\ 1 \in DOMAIN toBridge[s]
         /\ Head(toBridge[s]) \in ToBridge
         /\ \A t \in Sessions \ {s} : toBridge'[t] = toBridge[t]
         /\ \A i \in DOMAIN toBridge'[s] :
              i + 1 \in DOMAIN toBridge[s] /\ i + 1 # 1 /\ toBridge'[s][i] = toBridge[s][i + 1]
<1>1. toBridge \in [Sessions -> Seq(ToBridge)] /\ toBridge[s] \in Seq(ToBridge)
  BY DEF SessionTypeOK, ToBridge
<1>2. /\ Tail(toBridge[s]) \in Seq(ToBridge)
      /\ Head(toBridge[s]) = toBridge[s][1] /\ 1 \in DOMAIN toBridge[s]
      /\ Head(toBridge[s]) \in ToBridge
      /\ \A i \in DOMAIN Tail(toBridge[s]) :
           i + 1 \in DOMAIN toBridge[s] /\ i + 1 # 1 /\ Tail(toBridge[s])[i] = toBridge[s][i + 1]
  BY <1>1
<1> QED
  BY <1>1, <1>2

\* What a session does is, on the server, a step of the bridge or nothing.
LEMMA SessionIsBridge ==
  ASSUME SessionInv, [SessionNext]_sessionVars
  PROVE  [BridgeNext]_bridgeVars
<1> USE DEF SessionInv, Sessions
<1>1. ASSUME NEW s \in Sessions, FromSocket(s) PROVE [BridgeNext]_bridgeVars
  BY <1>1 DEF BridgeNext
<1>2. ASSUME NEW s \in Sessions,
             \/ Begin(s) \/ SpawnTimeout(s) \/ Close(s) \/ SocketClosed(s) \/ Lose(s)
             \/ \E id \in Ids : Request(s, id) \/ RequestTimeout(s, id)
      PROVE  [BridgeNext]_bridgeVars
  BY <1>2 DEF Begin, SpawnTimeout, Close, SocketClosed, Lose, Request, RequestTimeout
<1>3. ASSUME NEW s \in Sessions, Opens(s) \/ ClientReads(s) \/ BridgeClosed(s)
      PROVE  [BridgeNext]_bridgeVars
  BY <1>1, <1>3 DEF Opens, ClientReads, BridgeClosed, FromSocket
<1>4. ASSUME NEW s \in Sessions, BridgeReads(s) PROVE [BridgeNext]_bridgeVars
  <2>1. \/ UNCHANGED bridgeVars \/ RefuseSpawn(s, Server) \/ Kill(s, Server)
        \/ \E c \in Children : AcceptSpawn(s, Server, c)
    BY <1>4 DEF BridgeReads
  <2> QED
    BY <1>1, <2>1, ServerIsOne DEF FromSocket
<1>5. ASSUME NEW c \in Children, ChildSpeaks(c) PROVE [BridgeNext]_bridgeVars
  <2>1. home[c][1] \in Sessions /\ asked[home[c][1]] \subseteq Ids
    BY <1>5 DEF ChildSpeaks, SessionTypeOK, BridgeTypeOK
  <2>2. PICK l \in {"response", "request"} \X Ids : PrintLine(c, l)
    BY <1>5, <2>1 DEF ChildSpeaks
  <2>3. l \in Lines
    BY SessionAssumption
  <2> QED
    BY <2>2, <2>3 DEF BridgeNext, FromProcess
<1>6. ASSUME NEW c \in Children, ChildMoves(c) PROVE [BridgeNext]_bridgeVars
  BY <1>6 DEF ChildMoves, BridgeNext, FromProcess
<1>7. CASE UNCHANGED sessionVars
  BY <1>7 DEF sessionVars
<1> QED
  BY <1>2, <1>3, <1>4, <1>5, <1>6, <1>7 DEF SessionNext

Phases    == {"new", "connecting", "spawning", "up", "failed", "closed"}
Wires     == {"none", "connecting", "open", "closing", "lost", "gone"}
ReqStates == {"unsent", "waiting", "answered", "rejected"}

ClientTyped ==
  /\ phase \in [Sessions -> Phases]
  /\ dead \in [Sessions -> BOOLEAN]
  /\ requests \in [Sessions -> [Ids -> ReqStates]]

LEMMA SessionTyped ==
  SessionTypeOK <=>
    /\ BridgeTypeOK
    /\ ClientTyped
    /\ wire \in [Sessions -> Wires]
    /\ noticed \in [Sessions -> BOOLEAN]
    /\ toBridge \in [Sessions -> Seq(ToBridge)]
    /\ asked \in [Sessions -> SUBSET Ids]
BY DEF SessionTypeOK, ClientTyped, Phases, Wires, ReqStates, ToBridge

\* What each way of changing the client's tables keeps, and whom it leaves alone.
LEMMA PhaseChange ==
  ASSUME ClientTyped, NEW s \in Sessions, NEW p \in Phases,
         phase' = [phase EXCEPT ![s] = p]
  PROVE  /\ phase' \in [Sessions -> Phases] /\ phase'[s] = p
         /\ \A t \in Sessions \ {s} : phase'[t] = phase[t]
BY DEF ClientTyped

LEMMA RequestChange ==
  ASSUME ClientTyped, NEW s \in Sessions, NEW id \in Ids, NEW r \in ReqStates,
         requests' = [requests EXCEPT ![s][id] = r]
  PROVE  /\ requests' \in [Sessions -> [Ids -> ReqStates]]
         /\ \A t \in Sessions \ {s} : requests'[t] = requests[t]
         /\ requests'[s][id] = r
         /\ \A i \in Ids \ {id} : requests'[s][i] = requests[s][i]
<1>1. requests \in [Sessions -> [Ids -> ReqStates]] /\ requests[s] \in [Ids -> ReqStates]
  BY DEF ClientTyped
<1>2. [requests[s] EXCEPT ![id] = r] \in [Ids -> ReqStates]
  BY <1>1
<1>3. requests' = [requests EXCEPT ![s] = [requests[s] EXCEPT ![id] = r]]
  BY <1>1
<1> QED
  BY <1>1, <1>2, <1>3

LEMMA RejectedChange ==
  ASSUME ClientTyped, NEW s \in Sessions, requests' = Rejected(s)
  PROVE  /\ requests' \in [Sessions -> [Ids -> ReqStates]]
         /\ \A t \in Sessions \ {s} : requests'[t] = requests[t]
         /\ \A id \in Ids : requests'[s][id] # "waiting"
<1> DEFINE row == [i \in Ids |-> IF requests[s][i] = "waiting" THEN "rejected" ELSE requests[s][i]]
<1>1. requests \in [Sessions -> [Ids -> ReqStates]] /\ requests[s] \in [Ids -> ReqStates]
  BY DEF ClientTyped
<1>2. row \in [Ids -> ReqStates] /\ \A id \in Ids : row[id] # "waiting"
  BY <1>1 DEF ReqStates
<1>3. requests' = [requests EXCEPT ![s] = row]
  BY <1>1 DEF Rejected
<1> HIDE DEF row
<1> QED
  BY <1>1, <1>2, <1>3

LEMMA FailAllChange ==
  ASSUME ClientTyped, NEW s \in Sessions, FailAllPending(s)
  PROVE  /\ ClientTyped'
         /\ \A id \in Ids : requests'[s][id] # "waiting"
         /\ phase'[s] = "new" => phase[s] = "new"
         /\ \A t \in Sessions \ {s} :
              /\ phase'[t] = phase[t] /\ dead'[t] = dead[t] /\ requests'[t] = requests[t]
<1> DEFINE p == IF phase[s] \in {"connecting", "spawning"} THEN "failed" ELSE phase[s]
<1>1. p \in Phases /\ (p = "new" => phase[s] = "new")
  BY DEF ClientTyped, Phases
<1>2. phase' = [phase EXCEPT ![s] = p]
  BY DEF ClientTyped, FailAllPending
<1>3. /\ phase' \in [Sessions -> Phases] /\ phase'[s] = p
      /\ \A t \in Sessions \ {s} : phase'[t] = phase[t]
  BY <1>1, <1>2, PhaseChange
<1>4. dead' \in [Sessions -> BOOLEAN] /\ \A t \in Sessions \ {s} : dead'[t] = dead[t]
  BY DEF ClientTyped, FailAllPending
<1>5. requests' = Rejected(s)
  BY DEF FailAllPending
<1> QED
  BY <1>1, <1>3, <1>4, <1>5, RejectedChange DEF ClientTyped

LEMMA ClientReadsChange ==
  ASSUME ClientTyped, NEW s \in Sessions, ClientReads(s)
  PROVE  /\ ClientTyped'
         /\ phase'[s] = "new" => phase[s] = "new"
         /\ phase'[s] = "closed" => phase[s] = "closed"
         /\ \A t \in Sessions \ {s} :
              /\ phase'[t] = phase[t] /\ dead'[t] = dead[t] /\ requests'[t] = requests[t]
         /\ \/ \A id \in Ids : requests'[s][id] # "waiting"
            \/ /\ dead'[s] = dead[s]
               /\ \A id \in Ids : requests'[s][id] = "waiting" => requests[s][id] = "waiting"
<1> DEFINE frame == Head(toClient[s])
<1>1. CASE /\ phase' = [phase EXCEPT ![s] = IF @ = "spawning" THEN "up" ELSE @]
           /\ UNCHANGED <<dead, requests>>
  <2> DEFINE p == IF phase[s] = "spawning" THEN "up" ELSE phase[s]
  <2>1. p \in Phases /\ (p \in {"new", "closed"} => p = phase[s])
    BY DEF ClientTyped, Phases
  <2>2. phase' = [phase EXCEPT ![s] = p]
    BY <1>1 DEF ClientTyped
  <2> HIDE DEF p
  <2>3. /\ phase' \in [Sessions -> Phases] /\ phase'[s] = p
        /\ \A t \in Sessions \ {s} : phase'[t] = phase[t]
    BY <2>1, <2>2, PhaseChange
  <2> QED
    BY <1>1, <2>1, <2>3 DEF ClientTyped
<1>2. CASE FailAllPending(s)
  <2>1. phase'[s] = "closed" => phase[s] = "closed"
    BY <1>2 DEF FailAllPending, ClientTyped
  <2> QED
    BY <1>2, <2>1, FailAllChange
<1>3. CASE /\ requests' = [requests EXCEPT ![s][frame.data[2]] =
                             IF @ = "waiting" THEN "answered" ELSE @]
           /\ UNCHANGED <<phase, dead>>
  <2> DEFINE id == frame.data[2]
             r == IF requests[s][id] = "waiting" THEN "answered" ELSE requests[s][id]
  <2>1. requests' = [requests EXCEPT ![s] = [requests[s] EXCEPT ![id] = r]]
    BY <1>3 DEF ClientTyped
  <2>2. requests[s] \in [Ids -> ReqStates]
    BY DEF ClientTyped
  <2>3. CASE id \in Ids
    <3>1. r \in ReqStates /\ r # "waiting"
      BY <2>2, <2>3 DEF ReqStates
    <3>2. requests' = [requests EXCEPT ![s][id] = r]
      BY <1>3
    <3> HIDE DEF r, id
    <3>3. /\ requests' \in [Sessions -> [Ids -> ReqStates]]
          /\ \A t \in Sessions \ {s} : requests'[t] = requests[t]
          /\ requests'[s][id] = r
          /\ \A i \in Ids \ {id} : requests'[s][i] = requests[s][i]
      BY <2>3, <3>1, <3>2, RequestChange
    <3>4. UNCHANGED <<phase, dead>>
      BY <1>3
    <3>5. \A i \in Ids : requests'[s][i] = "waiting" => requests[s][i] = "waiting"
      BY <3>1, <3>3
    <3> QED
      BY <3>3, <3>4, <3>5 DEF ClientTyped
  <2>4. CASE id \notin Ids
    <3>1. [requests[s] EXCEPT ![id] = r] = requests[s]
      BY <2>2, <2>4
    <3>2. requests' = requests
      BY <2>1, <3>1 DEF ClientTyped
    <3> QED
      BY <1>3, <3>2 DEF ClientTyped
  <2> QED
    BY <2>3, <2>4
<1> QED
  BY <1>1, <1>2, <1>3 DEF ClientReads

LEMMA WireChange ==
  ASSUME SessionTypeOK, NEW s \in Sessions,
         Begin(s) \/ SpawnTimeout(s) \/ Close(s) \/ Lose(s) \/ BridgeClosed(s)
  PROVE  /\ wire' \in [Sessions -> Wires]
         /\ \A t \in Sessions \ {s} : wire'[t] = wire[t]
         /\ wire'[s] = "connecting" => Begin(s) \/ wire[s] = "connecting"
         /\ ~Begin(s) /\ ~Close(s) => wire'[s] # "connecting" \/ UNCHANGED wire
<1>1. wire \in [Sessions -> Wires]
  BY SessionTyped
<1>2. PICK w \in Wires : wire' = [wire EXCEPT ![s] = w]
  <2>1. CASE Begin(s)
    BY <2>1 DEF Begin, Wires
  <2>2. CASE SpawnTimeout(s)
    <3> DEFINE w == CASE wire[s] = "connecting" -> "gone"
                      [] wire[s] = "open" -> "closing"
                      [] OTHER -> wire[s]
    <3>1. w \in Wires /\ wire' = [wire EXCEPT ![s] = w]
      BY <1>1, <2>2 DEF SpawnTimeout, Wires
    <3> QED
      BY <3>1
  <2>3. CASE Close(s)
    <3> DEFINE w == IF wire[s] = "open" THEN "closing" ELSE wire[s]
    <3>1. w \in Wires /\ wire' = [wire EXCEPT ![s] = w]
      BY <1>1, <2>3 DEF Close, Wires
    <3> QED
      BY <3>1
  <2>4. CASE Lose(s)
    <3> DEFINE w == IF wire[s] = "connecting" THEN "gone" ELSE "lost"
    <3>1. w \in Wires /\ wire' = [wire EXCEPT ![s] = w]
      BY <1>1, <2>4 DEF Lose, Wires
    <3> QED
      BY <3>1
  <2>5. CASE BridgeClosed(s)
    <3> DEFINE w == IF wire[s] = "closing" THEN "gone" ELSE wire[s]
    <3>1. w \in Wires /\ wire' = [wire EXCEPT ![s] = w]
      BY <1>1, <2>5 DEF BridgeClosed, Wires
    <3> QED
      BY <3>1
  <2> QED
    BY <2>1, <2>2, <2>3, <2>4, <2>5
<1>3. wire' \in [Sessions -> Wires] /\ \A t \in Sessions \ {s} : wire'[t] = wire[t]
  BY <1>1, <1>2
<1>4. wire'[s] = "connecting" => Begin(s) \/ wire[s] = "connecting"
  BY <1>1 DEF Begin, SpawnTimeout, Close, Lose, BridgeClosed
<1>5. ~Begin(s) /\ ~Close(s) => wire'[s] # "connecting" \/ UNCHANGED wire
  BY <1>1 DEF SpawnTimeout, Lose, BridgeClosed
<1> QED
  BY <1>3, <1>4, <1>5

LEMMA SessionTypes ==
  ASSUME SessionInv, BridgeTypeOK', [SessionNext]_sessionVars
  PROVE  SessionTypeOK'
<1> USE DEF clientVars, wireVars
<1>0. /\ SessionTypeOK /\ ClientTyped /\ OneSpawn
      /\ wire \in [Sessions -> Wires] /\ noticed \in [Sessions -> BOOLEAN]
      /\ toBridge \in [Sessions -> Seq(ToBridge)] /\ asked \in [Sessions -> SUBSET Ids]
  BY SessionTyped DEF SessionInv
<1> DEFINE Typed == /\ ClientTyped /\ wire \in [Sessions -> Wires]
                    /\ noticed \in [Sessions -> BOOLEAN]
                    /\ toBridge \in [Sessions -> Seq(ToBridge)]
                    /\ asked \in [Sessions -> SUBSET Ids]
<1>s. SUFFICES Typed'
  BY SessionTyped DEF SessionTypeOK, ClientTyped, Phases, Wires, ReqStates, ToBridge
<1>1. ASSUME NEW s \in Sessions, Begin(s) \/ SpawnTimeout(s) PROVE Typed'
  <2>1. PICK p \in Phases : phase' = [phase EXCEPT ![s] = p]
    BY <1>1 DEF Begin, SpawnTimeout, Phases
  <2>2. wire' \in [Sessions -> Wires]
    BY <1>0, <1>1, WireChange
  <2>3. UNCHANGED <<dead, requests, noticed, toBridge, asked>>
    BY <1>1 DEF Begin, SpawnTimeout
  <2> QED
    BY <1>0, <2>1, <2>2, <2>3, PhaseChange DEF ClientTyped
<1>2. ASSUME NEW s \in Sessions, Opens(s) PROVE Typed'
  <2>1. <<[kind |-> "spawn", id |-> 0]>> \in Seq(ToBridge) /\ "open" \in Wires
        /\ "spawning" \in Phases
    BY DEF ToBridge, Wires, Phases
  <2>2. toBridge' \in [Sessions -> Seq(ToBridge)] /\ wire' \in [Sessions -> Wires]
    BY <1>0, <1>2, <2>1 DEF Opens
  <2>3. ClientTyped' /\ UNCHANGED <<noticed, asked>>
    BY <1>0, <1>2, <2>1 DEF Opens, ClientTyped
  <2> QED
    BY <1>0, <2>2, <2>3
<1>3. ASSUME NEW s \in Sessions, ClientReads(s) PROVE Typed'
  <2>1. ClientTyped'
    BY <1>0, <1>3, ClientReadsChange
  <2>2. UNCHANGED <<noticed, wire, toBridge, asked>>
    BY <1>3 DEF ClientReads
  <2> QED
    BY <1>0, <2>1, <2>2
<1>4. ASSUME NEW s \in Sessions, Close(s) PROVE Typed'
  <2>1. toBridge' \in [Sessions -> Seq(ToBridge)]
    BY <1>0, <1>4, EmitType DEF Close
  <2>2. requests' \in [Sessions -> [Ids -> ReqStates]]
    BY <1>0, <1>4, RejectedChange DEF Close
  <2>3. wire' \in [Sessions -> Wires]
    BY <1>0, <1>4, WireChange
  <2>4. phase' \in [Sessions -> Phases] /\ UNCHANGED <<dead, noticed, asked>>
    BY <1>0, <1>4 DEF Close, ClientTyped, Phases
  <2> QED
    BY <1>0, <2>1, <2>2, <2>3, <2>4 DEF ClientTyped
<1>5. ASSUME NEW s \in Sessions, NEW id \in Ids, Request(s, id) \/ RequestTimeout(s, id)
      PROVE  Typed'
  <2>1. toBridge' \in [Sessions -> Seq(ToBridge)]
    BY <1>0, <1>5, EmitType DEF Request, RequestTimeout
  <2>2. PICK r \in ReqStates : requests' = [requests EXCEPT ![s][id] = r]
    BY <1>5 DEF Request, RequestTimeout, ReqStates
  <2>3. requests' \in [Sessions -> [Ids -> ReqStates]]
    BY <1>0, <2>2, RequestChange
  <2>4. UNCHANGED <<phase, dead, noticed, wire, asked>>
    BY <1>5 DEF Request, RequestTimeout
  <2> QED
    BY <1>0, <2>1, <2>3, <2>4 DEF ClientTyped
<1>6. ASSUME NEW s \in Sessions, BridgeReads(s) PROVE Typed'
  <2>1. toBridge' \in [Sessions -> Seq(ToBridge)] /\ Head(toBridge[s]) = toBridge[s][1]
        /\ 1 \in DOMAIN toBridge[s]
    BY <1>0, <1>6, TailOfFrames DEF BridgeReads
  <2>2. Head(toBridge[s]).kind = "stdin" => Head(toBridge[s]).id \in Ids
    BY <1>0, <2>1 DEF OneSpawn
  <2>3. asked' \in [Sessions -> SUBSET Ids]
    <3>1. \/ UNCHANGED asked
          \/ /\ Head(toBridge[s]).id \in Ids
             /\ asked' = [asked EXCEPT ![s] =
                  IF children[s][Server] = NoChild THEN @ ELSE @ \union {Head(toBridge[s]).id}]
      BY <1>6, <2>2 DEF BridgeReads
    <3> DEFINE v == IF children[s][Server] = NoChild THEN asked[s]
                    ELSE asked[s] \union {Head(toBridge[s]).id}
    <3>2. UNCHANGED asked \/ (v \in SUBSET Ids /\ asked' = [asked EXCEPT ![s] = v])
      <4>1. asked[s] \in SUBSET Ids
        BY <1>0
      <4> QED
        BY <3>1, <4>1
    <3> HIDE DEF v
    <3> QED
      BY <1>0, <3>2
  <2>4. UNCHANGED <<phase, dead, requests, noticed, wire>>
    BY <1>6 DEF BridgeReads
  <2> QED
    BY <1>0, <2>1, <2>3, <2>4 DEF ClientTyped
<1>7. ASSUME NEW c \in Children, ChildSpeaks(c) \/ ChildMoves(c) PROVE Typed'
  <2>1. asked' \in [Sessions -> SUBSET Ids]
    BY <1>0, <1>7 DEF ChildSpeaks, ChildMoves
  <2>2. UNCHANGED <<phase, dead, requests, noticed, wire, toBridge>>
    BY <1>7 DEF ChildSpeaks, ChildMoves
  <2> QED
    BY <1>0, <2>1, <2>2 DEF ClientTyped
<1>8. ASSUME NEW s \in Sessions, SocketClosed(s) PROVE Typed'
  <2>1. ClientTyped'
    BY <1>0, <1>8, FailAllChange DEF SocketClosed
  <2> QED
    BY <1>0, <1>8, <2>1 DEF SocketClosed
<1>9. ASSUME NEW s \in Sessions, Lose(s) \/ BridgeClosed(s) PROVE Typed'
  <2>1. wire' \in [Sessions -> Wires]
    BY <1>0, <1>9, WireChange
  <2>2. toBridge' \in [Sessions -> Seq(ToBridge)]
    <3>1. toBridge' = [toBridge EXCEPT ![s] = <<>>] \/ toBridge' = toBridge
      BY <1>9 DEF Lose, BridgeClosed
    <3>2. <<>> \in Seq(ToBridge)
      OBVIOUS
    <3> QED
      BY <1>0, <3>1, <3>2
  <2> QED
    BY <1>0, <1>9, <2>1, <2>2 DEF ClientTyped, Lose, BridgeClosed
<1>10. CASE UNCHANGED sessionVars
  BY <1>0, <1>10 DEF sessionVars, ClientTyped
<1> QED
  BY <1>1, <1>2, <1>3, <1>4, <1>5, <1>6, <1>7, <1>8, <1>9, <1>10 DEF SessionNext

\* A step that leaves the children alone and sends no second spawn frame.
LEMMA OnClientSide ==
  ASSUME SessionInv, UNCHANGED <<children, proc, home>>, open \subseteq open',
         \A s \in Sessions : phase'[s] = "new" \/ wire'[s] = "connecting" =>
           toBridge'[s] = <<>> /\ (phase[s] = "new" \/ wire[s] = "connecting"),
         \A s \in Sessions : \A i \in DOMAIN toBridge'[s] :
           \/ i \in DOMAIN toBridge[s] /\ toBridge'[s][i] = toBridge[s][i]
           \/ /\ toBridge'[s][i].kind # "spawn"
              /\ toBridge'[s][i].kind = "stdin" => toBridge'[s][i].id \in Ids
           \/ /\ toBridge'[s][i].kind = "spawn"
              /\ i = 1 /\ ChildrenOf(s) = {}
  PROVE  OneSpawn' /\ InTable'
<1>1. \A s \in Sessions : ChildrenOf(s)' = ChildrenOf(s)
  BY DEF ChildrenOf
<1>2. OneSpawn'
  BY <1>1 DEF SessionInv, OneSpawn
<1>3. InTable'
  BY DEF SessionInv, InTable
<1> QED
  BY <1>2, <1>3

LEMMA ClientSteps ==
  ASSUME SessionInv, NEW s \in Sessions,
         \/ Begin(s) \/ Opens(s) \/ ClientReads(s) \/ SpawnTimeout(s) \/ Close(s)
         \/ SocketClosed(s) \/ Lose(s)
         \/ \E id \in Ids : Request(s, id) \/ RequestTimeout(s, id)
  PROVE  OneSpawn' /\ InTable'
<1> USE DEF SessionTypeOK, bridgeVars, clientVars, wireVars
<1>t. SessionTypeOK /\ OneSpawn
  BY DEF SessionInv
<1>1. CASE Begin(s) \/ SpawnTimeout(s) \/ SocketClosed(s)
  <2>1. UNCHANGED <<children, proc, home, open, toBridge>>
    BY <1>1 DEF Begin, SpawnTimeout, SocketClosed
  <2>2. \A t \in Sessions : phase'[t] = "new" \/ wire'[t] = "connecting" =>
          phase[t] = "new" \/ wire[t] = "connecting"
    BY <1>t, <1>1 DEF Begin, SpawnTimeout, SocketClosed, FailAllPending
  <2> QED
    BY <1>t, <2>1, <2>2, OnClientSide DEF OneSpawn
<1>2. CASE Opens(s)
  <2>1. UNCHANGED <<children, proc, home>> /\ open \subseteq open'
        /\ toBridge' = [toBridge EXCEPT ![s] = <<[kind |-> "spawn", id |-> 0]>>]
    BY <1>2 DEF Opens, Connect
  <2>2. ChildrenOf(s) = {}
    BY <1>2 DEF Opens, SessionInv, OneSpawn
  <2>3. \A t \in Sessions : phase'[t] = "new" \/ wire'[t] = "connecting" =>
          t # s /\ (phase[t] = "new" \/ wire[t] = "connecting")
    BY <1>t, <1>2 DEF Opens
  <2>4. \A t \in Sessions \ {s} : toBridge'[t] = toBridge[t]
    BY <1>t, <2>1
  <2>5. \A i \in DOMAIN toBridge'[s] : i = 1 /\ toBridge'[s][i].kind = "spawn"
    BY <1>t, <2>1
  <2> QED
    BY <1>t, <2>1, <2>2, <2>3, <2>4, <2>5, OnClientSide DEF OneSpawn
<1>3. CASE ClientReads(s)
  <2>1. UNCHANGED <<children, proc, home, open, toBridge, wire>>
    BY <1>3 DEF ClientReads, Deliver
  <2>2. \A t \in Sessions : phase'[t] = "new" => phase[t] = "new"
    BY <1>t, <1>3, ClientReadsChange, SessionTyped
  <2> QED
    BY <1>t, <2>1, <2>2, OnClientSide DEF OneSpawn
<1>4. CASE Lose(s)
  <2>1. UNCHANGED <<children, proc, home, open, phase>>
    BY <1>4 DEF Lose
  <2>2. \A t \in Sessions : wire'[t] = "connecting" => t # s /\ wire[t] = "connecting"
    BY <1>t, <1>4 DEF Lose
  <2>3. \A t \in Sessions : toBridge'[t] = toBridge[t] \/ toBridge'[t] = <<>>
    BY <1>t, <1>4 DEF Lose
  <2>4. \A t \in Sessions : toBridge'[t] = <<>> => DOMAIN toBridge'[t] = {}
    OBVIOUS
  <2> QED
    BY <1>t, <2>1, <2>2, <2>3, <2>4, OnClientSide DEF OneSpawn
<1>5. ASSUME NEW id \in Ids, Request(s, id) \/ RequestTimeout(s, id) PROVE OneSpawn' /\ InTable'
  <2>1. UNCHANGED <<children, proc, home, open, phase, wire>>
    BY <1>5 DEF Request, RequestTimeout
  <2>2. CASE RequestTimeout(s, id)
    <3>1. UNCHANGED toBridge
      BY <2>2 DEF RequestTimeout
    <3> QED
      BY <1>t, <2>1, <3>1, OnClientSide DEF OneSpawn
  <2>3. CASE Request(s, id)
    <3>1. phase[s] = "up" /\ Emit(s, "stdin", id)
      BY <2>3 DEF Request
    <3>2. /\ \A t \in Sessions \ {s} : toBridge'[t] = toBridge[t]
          /\ wire[s] # "open" => toBridge' = toBridge
          /\ \A i \in DOMAIN toBridge'[s] :
               \/ i \in DOMAIN toBridge[s] /\ toBridge'[s][i] = toBridge[s][i]
               \/ toBridge'[s][i] = [kind |-> "stdin", id |-> id]
      <4> HIDE DEF SessionTypeOK
      <4> QED
        BY <1>t, <3>1, EmitType
    <3>3. \A t \in Sessions : phase'[t] = "new" \/ wire'[t] = "connecting" =>
            toBridge'[t] = <<>> /\ (phase[t] = "new" \/ wire[t] = "connecting")
      BY <1>t, <2>1, <3>1, <3>2 DEF OneSpawn
    <3>4. \A t \in Sessions : \A i \in DOMAIN toBridge'[t] :
            \/ i \in DOMAIN toBridge[t] /\ toBridge'[t][i] = toBridge[t][i]
            \/ toBridge'[t][i] = [kind |-> "stdin", id |-> id]
      BY <3>2
    <3> QED
      BY <2>1, <3>3, <3>4, OnClientSide
  <2> QED
    BY <1>5, <2>2, <2>3
<1>6. CASE Close(s)
  <2>1. UNCHANGED <<children, proc, home, open>> /\ phase[s] = "up" /\ Emit(s, "kill", 0)
    BY <1>6 DEF Close
  <2>2. /\ \A t \in Sessions \ {s} : toBridge'[t] = toBridge[t]
        /\ wire[s] # "open" => toBridge' = toBridge
        /\ \A i \in DOMAIN toBridge'[s] :
             \/ i \in DOMAIN toBridge[s] /\ toBridge'[s][i] = toBridge[s][i]
             \/ toBridge'[s][i] = [kind |-> "kill", id |-> 0]
    <3> HIDE DEF SessionTypeOK
    <3> QED
      BY <1>t, <2>1, EmitType
  <2>3. /\ phase'[s] = "closed" /\ \A t \in Sessions \ {s} : phase'[t] = phase[t]
        /\ wire'[s] = "connecting" => wire[s] = "connecting"
        /\ \A t \in Sessions \ {s} : wire'[t] = wire[t]
    BY <1>t, <1>6 DEF Close
  <2>4. \A t \in Sessions : phase'[t] = "new" \/ wire'[t] = "connecting" =>
          toBridge'[t] = <<>> /\ (phase[t] = "new" \/ wire[t] = "connecting")
    BY <1>t, <2>2, <2>3 DEF OneSpawn
  <2>5. \A t \in Sessions : \A i \in DOMAIN toBridge'[t] :
          \/ i \in DOMAIN toBridge[t] /\ toBridge'[t][i] = toBridge[t][i]
          \/ toBridge'[t][i].kind = "kill"
    BY <2>2
  <2> QED
    BY <2>1, <2>4, <2>5, OnClientSide
<1> QED
  BY <1>1, <1>2, <1>3, <1>4, <1>5, <1>6

\* A spawn frame is the first of its session, which has no child yet.
LEMMA BridgeReadsStep ==
  ASSUME SessionInv, NEW s \in Sessions, BridgeReads(s)
  PROVE  OneSpawn' /\ InTable'
<1>t. SessionTypeOK /\ OneSpawn /\ InTable /\ BridgeTypeOK /\ UNCHANGED <<phase, wire>>
  BY DEF SessionInv, SessionTypeOK, BridgeReads, clientVars
<1> DEFINE frame == Head(toBridge[s])
<1>1. /\ frame = toBridge[s][1] /\ 1 \in DOMAIN toBridge[s] /\ toBridge[s] # <<>>
      /\ \A t \in Sessions \ {s} : toBridge'[t] = toBridge[t]
      /\ \A i \in DOMAIN toBridge'[s] :
           i + 1 \in DOMAIN toBridge[s] /\ i + 1 # 1 /\ toBridge'[s][i] = toBridge[s][i + 1]
  BY <1>t, TailOfFrames DEF BridgeReads
<1>2. ~(phase[s] = "new" \/ wire[s] = "connecting")
  BY <1>t, <1>1 DEF OneSpawn
<1>3. \A i \in DOMAIN toBridge'[s] :
        /\ toBridge'[s][i].kind # "spawn"
        /\ toBridge'[s][i].kind = "stdin" => toBridge'[s][i].id \in Ids
  BY <1>t, <1>1 DEF OneSpawn
<1>4. ASSUME UNCHANGED <<open, children, proc, home>> PROVE OneSpawn' /\ InTable'
  BY <1>t, <1>1, <1>2, <1>3, <1>4, OnClientSide DEF OneSpawn
<1>5. CASE frame.kind = "stdin" /\ UNCHANGED bridgeVars
  BY <1>4, <1>5 DEF bridgeVars
<1>6. ASSUME NEW c \in Children, AcceptSpawn(s, Server, c), frame.kind = "spawn"
      PROVE  OneSpawn' /\ InTable'
  <2>1. ChildrenOf(s) = {}
    BY <1>t, <1>1, <1>6 DEF OneSpawn
  <2>2. /\ home' = [home EXCEPT ![c] = <<s, Server>>] /\ s \in open /\ UNCHANGED open
        /\ children' = [children EXCEPT ![s][Server] = c]
        /\ \A d \in Children \ {c} : proc'[d] = proc[d]
    BY <1>t, <1>6 DEF AcceptSpawn, BridgeTypeOK
  <2>3. /\ home'[c] = <<s, Server>> /\ \A d \in Children \ {c} : home'[d] = home[d]
        /\ children'[s][Server] = c
        /\ \A t \in Sockets \ {s} : children'[t] = children[t]
    BY <1>t, <2>2, ServerIsOne DEF BridgeTypeOK
  <2>4. /\ ChildrenOf(s)' \subseteq {c}
        /\ \A t \in Sessions \ {s} : ChildrenOf(t)' \subseteq ChildrenOf(t)
    BY <2>1, <2>3 DEF ChildrenOf
  <2>5. OneSpawn'
    <3>1. \A t \in Sessions : phase'[t] = "new" \/ wire'[t] = "connecting" =>
            t # s /\ toBridge'[t] = <<>> /\ ChildrenOf(t)' = {}
      BY <1>t, <1>1, <1>2, <2>4 DEF OneSpawn
    <3>2. \A t \in Sessions : \A i \in DOMAIN toBridge'[t] :
            /\ toBridge'[t][i].kind = "stdin" => toBridge'[t][i].id \in Ids
            /\ toBridge'[t][i].kind = "spawn" => i = 1 /\ ChildrenOf(t)' = {}
      BY <1>t, <1>1, <1>3, <2>4 DEF OneSpawn
    <3>3. \A t \in Sessions : \A d, e \in ChildrenOf(t)' : d = e
      BY <1>t, <2>4 DEF OneSpawn
    <3> QED
      BY <3>1, <3>2, <3>3 DEF OneSpawn
  <2>6. InTable'
    <3> SUFFICES ASSUME NEW d \in Children, proc'[d] = "up"
                 PROVE  /\ home'[d][1] \in open' /\ home'[d][2] = Server
                        /\ children'[home'[d][1]][Server] = d
      BY DEF InTable
    <3>1. CASE d = c
      BY <2>2, <2>3, <3>1
    <3>2. CASE d # c
      <4>1. /\ home[d][1] \in open /\ home[d][2] = Server
            /\ children[home[d][1]][Server] = d /\ proc[d] = "up"
        BY <1>t, <2>2, <3>2 DEF InTable
      <4>2. home[d] \in Sockets \X Servers /\ home[d] # NoHome
        BY <4>1, BridgeAssumption DEF SessionInv, BridgeInv, Homed
      <4>3. home[d][1] \in Sockets /\ home[d][1] # s
        BY <2>1, <4>2 DEF ChildrenOf
      <4> QED
        BY <2>2, <2>3, <3>2, <4>1, <4>3
    <3> QED
      BY <3>1, <3>2
  <2> QED
    BY <2>5, <2>6
<1>7. CASE RefuseSpawn(s, Server)
  BY <1>4, <1>7 DEF RefuseSpawn
<1>8. CASE Kill(s, Server)
  <2>1. /\ UNCHANGED <<open, home>> /\ children[s][Server] \in Children
        /\ proc' = Signal({children[s][Server]})
        /\ children' = [children EXCEPT ![s][Server] = NoChild]
    BY <1>t, <1>8, ServerIsOne DEF Kill, BridgeTypeOK
  <2>2. \A t \in Sessions : ChildrenOf(t)' = ChildrenOf(t)
    BY <2>1 DEF ChildrenOf
  <2>3. OneSpawn'
    BY <1>t, <1>1, <1>2, <1>3, <2>2 DEF OneSpawn
  <2>4. InTable'
    <3> SUFFICES ASSUME NEW d \in Children, proc'[d] = "up"
                 PROVE  /\ home'[d][1] \in open' /\ home'[d][2] = Server
                        /\ children'[home'[d][1]][Server] = d
      BY DEF InTable
    <3>1. proc[d] = "up" /\ d # children[s][Server]
      BY <2>1 DEF Signal
    <3>2. /\ home[d][1] \in open /\ home[d][2] = Server
          /\ children[home[d][1]][Server] = d
      BY <1>t, <3>1 DEF InTable
    <3>3. home[d][1] \in Sockets /\ home[d][1] # s
      BY <1>t, <3>1, <3>2 DEF BridgeTypeOK
    <3>4. children'[home[d][1]] = children[home[d][1]]
      BY <1>t, <2>1, <3>3 DEF BridgeTypeOK
    <3> QED
      BY <2>1, <3>2, <3>4
  <2> QED
    BY <2>3, <2>4
<1>9. CASE frame.kind = "kill" /\ UNCHANGED bridgeVars
  BY <1>4, <1>9 DEF bridgeVars
<1> QED
  BY <1>5, <1>6, <1>7, <1>8, <1>9 DEF BridgeReads

\* The end of the socket finds every child of its session that runs in the table.
LEMMA BridgeClosedStep ==
  ASSUME SessionInv, NEW s \in Sessions, BridgeClosed(s)
  PROVE  OneSpawn' /\ InTable'
<1>t. SessionTypeOK /\ OneSpawn /\ InTable /\ BridgeTypeOK
  BY DEF SessionInv, SessionTypeOK
<1>1. /\ UNCHANGED <<home, phase, toBridge>> /\ open' = open \ {s} /\ proc' = Signal(TableOf(s))
      /\ children' = [children EXCEPT ![s] = [k \in Servers |-> NoChild]]
      /\ \A t \in Sessions : wire'[t] = "connecting" => wire[t] = "connecting"
  BY <1>t DEF BridgeClosed, Disconnect, clientVars, SessionTypeOK
<1>2. \A t \in Sessions : ChildrenOf(t)' = ChildrenOf(t)
  BY <1>1 DEF ChildrenOf
<1>3. OneSpawn'
  BY <1>t, <1>1, <1>2 DEF OneSpawn
<1>4. InTable'
  <2> SUFFICES ASSUME NEW d \in Children, proc'[d] = "up"
               PROVE  /\ home'[d][1] \in open' /\ home'[d][2] = Server
                      /\ children'[home'[d][1]][Server] = d
    BY DEF InTable
  <2>1. proc[d] = "up" /\ d \notin TableOf(s)
    BY <1>1 DEF Signal
  <2>2. /\ home[d][1] \in open /\ home[d][2] = Server
        /\ children[home[d][1]][Server] = d
    BY <1>t, <2>1 DEF InTable
  <2>3. home[d][1] # s
    BY <2>1, <2>2, ServerIsOne, BridgeAssumption DEF TableOf, Entries
  <2>4. children'[home[d][1]] = children[home[d][1]]
    BY <1>t, <1>1, <2>2, <2>3 DEF BridgeTypeOK
  <2> QED
    BY <1>1, <2>2, <2>3, <2>4
<1> QED
  BY <1>3, <1>4

\* The callback of a child drops its own entry, as its session has no other child.
LEMMA ChildMovesStep ==
  ASSUME SessionInv, NEW c \in Children, ChildMoves(c)
  PROVE  OneSpawn' /\ InTable'
<1>t. SessionTypeOK /\ OneSpawn /\ InTable /\ BridgeTypeOK
  BY DEF SessionInv, SessionTypeOK
<1>1. UNCHANGED <<home, phase, toBridge, wire, open>>
  BY DEF ChildMoves, Die, Reap, clientVars, wireVars
<1>2. \A t \in Sessions : ChildrenOf(t)' = ChildrenOf(t)
  BY <1>1 DEF ChildrenOf
<1>3. OneSpawn'
  BY <1>t, <1>1, <1>2 DEF OneSpawn
<1>4. InTable'
  <2> SUFFICES ASSUME NEW d \in Children, proc'[d] = "up"
               PROVE  children'[home[d][1]][Server] = d /\ proc[d] = "up"
    BY <1>t, <1>1 DEF InTable
  <2>1. proc[d] = "up" /\ d # c /\ proc[c] # "unborn"
    BY <1>t DEF ChildMoves, Die, Reap, BridgeTypeOK, Running
  <2>2. /\ home[c] # NoHome /\ home[d] # NoHome
        /\ home[c] \in Sockets \X Servers /\ home[d] \in Sockets \X Servers
    BY <2>1, BridgeAssumption DEF SessionInv, BridgeInv, Homed
  <2>3. home[c][1] # home[d][1]
    BY <1>t, <2>1, <2>2 DEF OneSpawn, ChildrenOf, Sessions
  <2>4. children'[home[d][1]] = children[home[d][1]]
    BY <1>t, <2>2, <2>3 DEF ChildMoves, Die, Reap, BridgeTypeOK
  <2> QED
    BY <1>t, <2>1, <2>4 DEF InTable
<1> QED
  BY <1>3, <1>4

LEMMA ChildSpeaksStep ==
  ASSUME SessionInv, NEW c \in Children, ChildSpeaks(c)
  PROVE  OneSpawn' /\ InTable'
<1>1. UNCHANGED <<children, proc, home, open, phase, wire, toBridge>>
  BY DEF ChildSpeaks, PrintLine, clientVars, wireVars
<1> QED
  BY <1>1, OnClientSide DEF SessionInv, OneSpawn

LEMMA SessionInvInit == SessionInit => SessionInv
<1> SUFFICES ASSUME SessionInit PROVE SessionInv
  OBVIOUS
<1>1. BridgeInv
  BY BridgeInvInit DEF SessionInit
<1>2. SessionTypeOK
  <2>1. <<>> \in Seq(ToBridge)
    OBVIOUS
  <2> QED
    BY <1>1, <2>1 DEF SessionInit, SessionTypeOK, BridgeInv, ToBridge
<1>3. OneSpawn
  <2>1. \A s \in Sessions : ChildrenOf(s) = {} /\ toBridge[s] = <<>> /\ DOMAIN toBridge[s] = {}
    BY DEF SessionInit, BridgeInit, ChildrenOf
  <2> QED
    BY <2>1 DEF OneSpawn
<1>4. InTable
  BY DEF SessionInit, BridgeInit, InTable
<1> QED
  BY <1>1, <1>2, <1>3, <1>4 DEF SessionInv

LEMMA SessionInvStep == SessionInv /\ [SessionNext]_sessionVars => SessionInv'
<1> SUFFICES ASSUME SessionInv, [SessionNext]_sessionVars PROVE SessionInv'
  OBVIOUS
<1>1. BridgeInv'
  BY SessionIsBridge, BridgeInvStep DEF SessionInv
<1>2. SessionTypeOK'
  BY <1>1, SessionTypes DEF BridgeInv
<1>3. OneSpawn' /\ InTable'
  <2>1. CASE UNCHANGED sessionVars
    <3>1. UNCHANGED <<children, proc, home, open, phase, wire, toBridge>>
      BY <2>1 DEF sessionVars, bridgeVars, clientVars, wireVars
    <3> QED
      BY <3>1, OnClientSide DEF SessionInv, OneSpawn
  <2>2. CASE SessionNext
    BY <2>2, ClientSteps, BridgeReadsStep, BridgeClosedStep, ChildMovesStep, ChildSpeaksStep
    DEF SessionNext
  <2> QED
    BY <2>1, <2>2
<1> QED
  BY <1>1, <1>2, <1>3 DEF SessionInv

\* mcp.ts with server-stdio.ts: what sessions do to the server, frames in flight and lost
\* sockets included, is what the bridge allows.
LEMMA SessionsKeepToTheBridge == SessionSpec => BridgeSpec
<1>1. SessionInit => BridgeInit
  BY DEF SessionInit
<1> QED
  BY <1>1, SessionInvInit, SessionInvStep, SessionIsBridge, PTL DEF SessionSpec, BridgeSpec

\* The counter of mcp.ts:135 under sessions.
THEOREM SessionSlotsReturn == SessionSpec => []NoLeakedSlots
BY SessionsKeepToTheBridge, SlotsReturn, PTL

\* mcp.ts:173: no child runs unsignalled for a socket that is gone.  The bridge alone does
\* not promise it, as a second spawn frame for a serverId overwrites the entry of the first.
THEOREM NobodyIsOrphaned == SessionSpec => []NoOrphans
<1>1. SessionInv => NoOrphans
  BY DEF SessionInv, InTable, NoOrphans
<1> QED
  BY <1>1, SessionInvInit, SessionInvStep, PTL DEF SessionSpec

-----------------------------------------------------------------------------
\* A transport that was failed or closed has rejected what it had pending and takes
\* nothing more.
LEMMA WaitStep ==
  ASSUME SessionInv, NoneWaitsOnTheDead, [SessionNext]_sessionVars
  PROVE  NoneWaitsOnTheDead'
<1> USE DEF NoneWaitsOnTheDead, clientVars, SessionTypeOK
<1>t. SessionTypeOK /\ ClientTyped
  BY SessionTyped DEF SessionInv
<1>1. ASSUME UNCHANGED <<phase, dead, requests>> PROVE NoneWaitsOnTheDead'
  BY <1>1
<1>2. ASSUME NEW s \in Sessions, FailAllPending(s) PROVE NoneWaitsOnTheDead'
  <2>1. /\ \A id \in Ids : requests'[s][id] # "waiting"
        /\ \A t \in Sessions \ {s} :
             phase'[t] = phase[t] /\ dead'[t] = dead[t] /\ requests'[t] = requests[t]
    <3> HIDE DEF SessionTypeOK
    <3> QED
      BY <1>t, <1>2, FailAllChange
  <2> QED
    BY <2>1
<1>3. ASSUME NEW s \in Sessions, ClientReads(s) PROVE NoneWaitsOnTheDead'
  <2>1. /\ phase'[s] = "closed" => phase[s] = "closed"
        /\ \A t \in Sessions \ {s} :
             phase'[t] = phase[t] /\ dead'[t] = dead[t] /\ requests'[t] = requests[t]
        /\ \/ \A id \in Ids : requests'[s][id] # "waiting"
           \/ /\ dead'[s] = dead[s]
              /\ \A id \in Ids : requests'[s][id] = "waiting" => requests[s][id] = "waiting"
    BY <1>t, <1>3, ClientReadsChange
  <2> SUFFICES ASSUME NEW t \in Sessions, dead'[t] \/ phase'[t] = "closed",
                      NEW id \in Ids
               PROVE  requests'[t][id] # "waiting"
    OBVIOUS
  <2>2. CASE t # s
    <3>1. dead[t] \/ phase[t] = "closed"
      BY <2>1, <2>2
    <3> QED
      BY <2>1, <2>2, <3>1
  <2>3. CASE t = s
    <3>1. dead'[s] = dead[s] => dead[s] \/ phase[s] = "closed"
      BY <2>1, <2>3
    <3> QED
      BY <2>1, <2>3, <3>1
  <2> QED
    BY <2>2, <2>3
<1>4. ASSUME NEW s \in Sessions, Close(s) PROVE NoneWaitsOnTheDead'
  <2>1. /\ \A t \in Sessions \ {s} : requests'[t] = requests[t]
        /\ \A id \in Ids : requests'[s][id] # "waiting"
    BY <1>t, <1>4, RejectedChange DEF Close
  <2>2. UNCHANGED dead /\ \A t \in Sessions \ {s} : phase'[t] = phase[t]
    BY <1>t, <1>4 DEF Close
  <2> QED
    BY <2>1, <2>2
<1>5. ASSUME NEW s \in Sessions, Begin(s) \/ Opens(s) \/ SpawnTimeout(s)
      PROVE  NoneWaitsOnTheDead'
  BY <1>t, <1>5 DEF Begin, Opens, SpawnTimeout
<1>6. ASSUME NEW s \in Sessions, NEW id \in Ids, Request(s, id) \/ RequestTimeout(s, id)
      PROVE  NoneWaitsOnTheDead'
  BY <1>t, <1>6 DEF Request, RequestTimeout
<1>7. ASSUME NEW s \in Sessions, SocketClosed(s) PROVE NoneWaitsOnTheDead'
  BY <1>2, <1>7 DEF SocketClosed
<1>8. ASSUME NEW s \in Sessions, Lose(s) \/ BridgeReads(s) \/ BridgeClosed(s)
      PROVE  NoneWaitsOnTheDead'
  BY <1>1, <1>8 DEF Lose, BridgeReads, BridgeClosed
<1>9. ASSUME NEW c \in Children, ChildSpeaks(c) \/ ChildMoves(c) PROVE NoneWaitsOnTheDead'
  BY <1>1, <1>9 DEF ChildSpeaks, ChildMoves
<1>10. CASE UNCHANGED sessionVars
  BY <1>1, <1>10 DEF sessionVars
<1> QED
  BY <1>3, <1>4, <1>5, <1>6, <1>7, <1>8, <1>9, <1>10 DEF SessionNext

\* server-stdio.ts: no request waits on a transport that is known to be dead or closed.
THEOREM NobodyWaits == SessionSpec => []NoneWaitsOnTheDead
<1>1. SessionInit => NoneWaitsOnTheDead
  BY DEF SessionInit, NoneWaitsOnTheDead
<1>2. SessionInv /\ NoneWaitsOnTheDead /\ [SessionNext]_sessionVars => NoneWaitsOnTheDead'
  BY WaitStep
<1> QED
  BY <1>1, <1>2, SessionInvInit, SessionInvStep, PTL DEF SessionSpec
=============================================================================
