--------------------------- MODULE McpMountProofs ---------------------------
(***************************************************************************)
(* Proofs about McpMount: the records of all mounts and the registry agree *)
(* for any turns, servers, tools and changes, in whatever order they come; *)
(* nothing a turn mounts stays after it; and a turn no other overlaps has  *)
(* what its servers offer and its chat allows.                             *)
(***************************************************************************)
EXTENDS McpMount, SequenceTheorems, TLAPS

\* What the proof needs of the types, and that a turn that connects is at one
\* of its servers.
Shape ==
  /\ offers \in [Hosts -> SUBSET Names]
  /\ registry \in [Ids -> Turns \union {NoTurn}]
  /\ at \in [Turns -> At]
  /\ next \in [Turns -> Nat]
  /\ \A t \in Turns : at[t] \notin {"running", "over"} => next[t] \in DOMAIN Servers
  /\ seen \in [Turns -> SUBSET Names]
  /\ own \in [Clients -> SUBSET Names]
  /\ lists \in [Clients -> Seq(SUBSET Names)]
  /\ mounted \subseteq Clients

MountInv == Shape /\ OwnIsBound

\* doMount takes only names nobody holds, so that it disturbs no other mount.
LEMMA RegisterKeeps ==
  ASSUME MountInv, NEW c \in Clients, NEW names \in SUBSET Names, Register(c, names)
  PROVE  /\ registry' \in [Ids -> Turns \union {NoTurn}]
         /\ own' \in [Clients -> SUBSET Names]
         /\ OwnIsBound'
<1> DEFINE new == Fresh(c[2], names)
<1>1. new \subseteq Names /\ \A n \in new : registry[<<c[2], n>>] = NoTurn
  BY DEF Fresh, Registered, Ids, Clients, MountInv, Shape
<1>2. /\ registry' = [id \in Ids |-> IF id[1] = c[2] /\ id[2] \in new THEN c[1] ELSE registry[id]]
      /\ own' = [own EXCEPT ![c] = @ \union new]
  BY DEF Register
<1>3. c[1] \in Turns /\ c[2] \in Hosts /\ c = <<c[1], c[2]>> /\ NoTurn \notin Turns
  BY MountAssumption DEF Clients
<1>4. registry' \in [Ids -> Turns \union {NoTurn}]
  BY <1>2, <1>3 DEF MountInv, Shape
<1>5. own' \in [Clients -> SUBSET Names]
  BY <1>1, <1>2 DEF MountInv, Shape
<1>6. ASSUME NEW d \in Clients
      PROVE  own'[d] = {n \in Names : registry'[<<d[2], n>>] = d[1]}
  <2>1. d[1] \in Turns /\ d[2] \in Hosts /\ d = <<d[1], d[2]>>
    BY DEF Clients
  <2>2. own[d] = {n \in Names : registry[<<d[2], n>>] = d[1]}
    BY DEF MountInv, OwnIsBound
  <2>3. \A n \in Names : registry'[<<d[2], n>>] =
          IF d[2] = c[2] /\ n \in new THEN c[1] ELSE registry[<<d[2], n>>]
    BY <1>2, <2>1 DEF Ids
  <2>4. CASE d = c
    <3>1. own'[d] = own[d] \union new
      BY <1>2, <2>4 DEF MountInv, Shape
    <3> QED BY <1>1, <1>3, <2>1, <2>2, <2>3, <2>4, <3>1
  <2>5. CASE d # c
    <3>1. own'[d] = own[d]
      BY <1>2, <2>5 DEF MountInv, Shape
    <3>2. d[2] = c[2] => d[1] # c[1]
      BY <1>3, <2>1, <2>5
    <3> QED BY <1>1, <1>3, <2>1, <2>2, <2>3, <3>1, <3>2
  <2> QED BY <2>4, <2>5
<1> QED BY <1>4, <1>5, <1>6 DEF OwnIsBound

\* Unmounting takes away exactly what those mounts registered.
LEMMA DeregisterKeeps ==
  ASSUME MountInv, NEW C \in SUBSET Clients,
         registry' = Deregistered(C), own' = Emptied(C)
  PROVE  /\ registry' \in [Ids -> Turns \union {NoTurn}]
         /\ own' \in [Clients -> SUBSET Names]
         /\ OwnIsBound'
<1>1. registry' \in [Ids -> Turns \union {NoTurn}]
  BY DEF MountInv, Shape, Deregistered
<1>2. own' \in [Clients -> SUBSET Names]
  BY DEF MountInv, Shape, Emptied
<1>3. ASSUME NEW d \in Clients
      PROVE  own'[d] = {n \in Names : registry'[<<d[2], n>>] = d[1]}
  <2>1. d[1] \in Turns /\ d[2] \in Hosts /\ d = <<d[1], d[2]>> /\ NoTurn \notin Turns
    BY MountAssumption DEF Clients
  <2>2. \A c \in Clients : c = <<c[1], c[2]>> /\ own[c] = {n \in Names : registry[<<c[2], n>>] = c[1]}
    BY DEF MountInv, OwnIsBound, Clients
  <2>3. \A n \in Names : registry'[<<d[2], n>>] =
          IF \E c \in C : d[2] = c[2] /\ n \in own[c] THEN NoTurn ELSE registry[<<d[2], n>>]
    BY <2>1 DEF Deregistered, Ids
  <2>4. CASE d \in C
    <3>1. own'[d] = {}
      BY <2>4 DEF Emptied
    <3>2. ASSUME NEW n \in Names, registry'[<<d[2], n>>] = d[1] PROVE FALSE
      BY <2>1, <2>2, <2>3, <2>4, <3>2
    <3> QED BY <3>1, <3>2
  <2>5. CASE d \notin C
    <3>1. own'[d] = own[d]
      BY <2>5 DEF Emptied
    <3>2. ASSUME NEW n \in Names, registry[<<d[2], n>>] = d[1],
                 NEW c \in C, d[2] = c[2], n \in own[c]
          PROVE  FALSE
      <4>1. c = <<c[1], c[2]>> /\ registry[<<c[2], n>>] = c[1]
        BY <2>2, <3>2
      <4>2. c = d
        BY <2>1, <3>2, <4>1
      <4> QED BY <2>5, <4>2
    <3> QED BY <2>1, <2>2, <2>3, <3>1, <3>2
  <2> QED BY <2>4, <2>5
<1> QED BY <1>1, <1>2, <1>3 DEF OwnIsBound

LEMMA MountInit == Init => MountInv
<1> SUFFICES ASSUME Init PROVE MountInv
  OBVIOUS
<1>1. DOMAIN Servers = 1 .. Len(Servers) /\ 1 \in DOMAIN Servers
  BY MountAssumption
<1>2. Shape
  BY <1>1 DEF Init, Shape, At, Ids, Clients
<1>3. ASSUME NEW c \in Clients
      PROVE  own[c] = {n \in Names : registry[<<c[2], n>>] = c[1]}
  BY MountAssumption DEF Init, Ids, Clients
<1> QED BY <1>2, <1>3 DEF MountInv, OwnIsBound

\* Where a turn goes next is one of its servers, or its request.
LEMMA OnwardsKeeps ==
  ASSUME MountInv, NEW t \in Turns, NEW reg, Onwards(t, reg),
         at[t] \in {"opening", "listing", "resources", "prompts"}
  PROVE  /\ at' \in [Turns -> At]
         /\ next' \in [Turns -> Nat]
         /\ \A u \in Turns : at'[u] \notin {"running", "over"} => next'[u] \in DOMAIN Servers
<1>1. DOMAIN Servers = 1 .. Len(Servers) /\ Len(Servers) \in Nat
  BY MountAssumption
<1>2. next[t] \in DOMAIN Servers
  BY DEF MountInv, Shape
<1> at \in [Turns -> At] /\ next \in [Turns -> Nat]
  BY DEF MountInv, Shape
<1>3. CASE next[t] = Len(Servers)
  <2>1. at' = [at EXCEPT ![t] = "running"] /\ next' = [next EXCEPT ![t] = Len(Servers) + 1]
    BY <1>3 DEF Onwards
  <2>2. \A u \in Turns \ {t} : at'[u] = at[u] /\ next'[u] = next[u]
    BY <2>1
  <2> QED BY <1>1, <2>1, <2>2 DEF MountInv, Shape, At
<1>4. CASE next[t] # Len(Servers)
  <2>1. at' = [at EXCEPT ![t] = "opening"] /\ next' = [next EXCEPT ![t] = @ + 1]
    BY <1>4 DEF Onwards
  <2>2. \A u \in Turns \ {t} : at'[u] = at[u] /\ next'[u] = next[u]
    BY <2>1
  <2>3. next'[t] \in DOMAIN Servers
    BY <1>1, <1>2, <1>4, <2>1
  <2> QED BY <1>1, <2>1, <2>2, <2>3 DEF MountInv, Shape, At
<1> QED BY <1>3, <1>4

LEMMA ThenKeeps ==
  ASSUME MountInv, NEW t \in Turns, NEW reg, NEW from, Then(t, reg, from),
         at[t] \in {"listing", "resources", "prompts"}
  PROVE  /\ at' \in [Turns -> At]
         /\ next' \in [Turns -> Nat]
         /\ \A u \in Turns : at'[u] \notin {"running", "over"} => next'[u] \in DOMAIN Servers
         /\ mounted' \subseteq Clients
<1>1. next[t] \in DOMAIN Servers /\ <<t, Host(t)>> \in Clients
  BY DEF MountInv, Shape, Host, Hosts, Clients
<1> mounted' \subseteq Clients
  BY <1>1 DEF Then, MountInv, Shape
<1>2. CASE Onwards(t, reg)
  BY <1>2, OnwardsKeeps
<1>3. CASE \E to \in {"resources", "prompts"} : at' = [at EXCEPT ![t] = to] /\ next' = next
  BY <1>1, <1>3 DEF MountInv, Shape, At
<1> QED BY <1>2, <1>3 DEF Then

LEMMA MountStep == MountInv /\ [Next]_vars => MountInv'
<1> SUFFICES ASSUME MountInv, [Next]_vars PROVE MountInv'
  OBVIOUS
<1> USE DEF MountInv
<1>1. ASSUME NEW t \in Turns, TurnStep(t) PROVE MountInv'
  <2>1. CASE Begin(t)
    BY <2>1 DEF Begin, Shape, At, OwnIsBound, external, shared, client
  <2>2. CASE Opened(t)
    <3>1. Host(t) \in Hosts
      BY <2>2 DEF Opened, Host, Hosts, Shape
    <3> QED BY <2>2, <3>1 DEF Opened, Shape, At, OwnIsBound, external, shared, client
  <2>3. CASE Fails(t)
    <3>1. at[t] \in {"opening", "listing", "resources", "prompts"} /\ Onwards(t, Registered)
      BY <2>3 DEF Fails
    <3> QED BY <2>3, <3>1, OnwardsKeeps DEF Fails, Shape, OwnIsBound, external, shared, client
  <2>4. CASE Listed(t)
    <3>1. Host(t) \in Hosts /\ <<t, Host(t)>> \in Clients /\ seen[t] \in SUBSET Names
      BY <2>4 DEF Listed, Host, Hosts, Shape, Clients
    <3>2. Register(<<t, Host(t)>>, seen[t])
      BY <2>4 DEF Listed
    <3>3. PICK reg : Then(t, reg, "listing")
      BY <2>4 DEF Listed
    <3>4. at[t] \in {"listing", "resources", "prompts"}
      BY <2>4 DEF Listed
    <3>5. OwnIsBound' /\ registry' \in [Ids -> Turns \union {NoTurn}] /\ own' \in [Clients -> SUBSET Names]
      BY <3>1, <3>2, RegisterKeeps
    <3> QED BY <2>4, <3>3, <3>4, <3>5, ThenKeeps DEF Listed, Shape, external
  <2>5. CASE ResourcesListed(t) \/ PromptsListed(t)
    <3>1. PICK reg, from : Then(t, reg, from)
      BY <2>5 DEF ResourcesListed, PromptsListed
    <3>2. at[t] \in {"listing", "resources", "prompts"}
      BY <2>5 DEF ResourcesListed, PromptsListed
    <3> QED BY <2>5, <3>1, <3>2, ThenKeeps
            DEF ResourcesListed, PromptsListed, Shape, OwnIsBound, external
  <2>6. CASE End(t)
    <3> DEFINE mine == {c \in mounted : c[1] = t}
    <3>1. mine \in SUBSET Clients /\ registry' = Deregistered(mine) /\ own' = Emptied(mine)
      BY <2>6 DEF End, UnmountTools, Shape
    <3>2. OwnIsBound' /\ registry' \in [Ids -> Turns \union {NoTurn}] /\ own' \in [Clients -> SUBSET Names]
      BY <3>1, DeregisterKeeps
    <3>3. at' = [at EXCEPT ![t] = "over"] /\ UNCHANGED <<external, next, seen, lists, mounted>>
      BY <2>6 DEF End
    <3> QED BY <3>2, <3>3 DEF Shape, At, external
  <2> QED BY <1>1, <2>1, <2>2, <2>3, <2>4, <2>5, <2>6 DEF TurnStep
<1>2. ASSUME NEW s \in Hosts, Change(s) PROVE MountInv'
  BY <1>2 DEF Change, Shape, OwnIsBound, shared, turn, client
<1>3. ASSUME NEW c \in Clients, Notified(c) PROVE MountInv'
  <2>1. offers[c[2]] \in SUBSET Names
    BY DEF Shape, Clients
  <2>2. CASE ListChanged(c)
    <3>1. OwnIsBound' /\ registry' \in [Ids -> Turns \union {NoTurn}] /\ own' \in [Clients -> SUBSET Names]
      BY <2>2, DeregisterKeeps DEF ListChanged
    <3>2. lists' \in [Clients -> Seq(SUBSET Names)]
      BY <2>1, <2>2 DEF ListChanged, Shape
    <3> QED BY <1>3, <3>1, <3>2 DEF Notified, Shape, external, turn
  <2>3. CASE UNCHANGED <<registry, own, lists>>
    BY <1>3, <2>3 DEF Notified, Shape, OwnIsBound, external, turn
  <2> QED BY <1>3, <2>2, <2>3 DEF Notified
<1>4. ASSUME NEW c \in Clients, NEW i \in 1 .. MaxChanges, Relisted(c, i) PROVE MountInv'
  <2>1. lists[c] \in Seq(SUBSET Names) /\ i \in DOMAIN lists[c] /\ lists[c][i] \in SUBSET Names
    BY <1>4 DEF Relisted, Shape
  <2>2. RemoveAt(lists[c], i) \in Seq(SUBSET Names)
    BY <2>1 DEF RemoveAt
  <2>3. lists' \in [Clients -> Seq(SUBSET Names)]
    BY <1>4, <2>2 DEF Relisted, Shape
  <2>4. CASE Register(c, lists[c][i])
    <3>1. OwnIsBound' /\ registry' \in [Ids -> Turns \union {NoTurn}] /\ own' \in [Clients -> SUBSET Names]
      BY <2>1, <2>4, RegisterKeeps
    <3> QED BY <1>4, <2>3, <3>1 DEF Relisted, Shape, external, turn
  <2>5. CASE UNCHANGED <<registry, own>>
    BY <1>4, <2>3, <2>5 DEF Relisted, Shape, OwnIsBound, external, turn
  <2> QED BY <1>4, <2>4, <2>5 DEF Relisted
<1>5. CASE UNCHANGED vars
  BY <1>5 DEF vars, Shape, OwnIsBound, external, shared, turn, client
<1> QED BY <1>1, <1>2, <1>3, <1>4, <1>5 DEF Next

\* The registry and the records of the mounts agree, for any number of turns,
\* servers, tools and changes: an unmount takes away its own and nothing else.
THEOREM MountsAreExact == Spec => []OwnIsBound
<1>1. MountInv => OwnIsBound
  BY DEF MountInv
<1> QED BY MountInit, MountStep, <1>1, PTL DEF Spec

-----------------------------------------------------------------------------
(* What a turn leaves behind.                                              *)

HearsType == hears \in [Clients -> {"nothing", "resources", "prompts", "tools"}]

Silent(c) == own[c] = {} /\ lists[c] = <<>> /\ hears[c] # "tools"

\* A mount that a turn has given back holds no tool and will get none: no listing is
\* under way, and its transport has no handler that would begin one.
GivenBackIsSilent ==
  \A c \in Clients : at[c[1]] = "over" /\ c \in mounted /\ c \notin late => Silent(c)

OutliveInv == MountInv /\ HearsType /\ GivenBackIsSilent

LEMMA OutliveInit == Init => OutliveInv
  BY MountInit DEF Init, OutliveInv, HearsType, GivenBackIsSilent, Clients

\* Steps of a turn that is not over touch no mount of one that is.
LEMMA OthersStaySilent ==
  ASSUME OutliveInv, NEW t \in Turns, at[t] # "over", late' = late, HearsType',
         \A u \in Turns \ {t} : at'[u] = at[u],
         at'[t] # "over",
         \A c \in Clients : c[1] # t =>
           /\ own'[c] = own[c] /\ lists'[c] = lists[c] /\ hears'[c] = hears[c]
           /\ c \in mounted' => c \in mounted,
         MountInv'
  PROVE  OutliveInv'
<1>1. ASSUME NEW c \in Clients, at'[c[1]] = "over", c \in mounted', c \notin late' PROVE Silent(c)'
  <2>1. c[1] \in Turns /\ c[1] # t BY <1>1 DEF Clients
  <2>2. at[c[1]] = "over" /\ c \in mounted /\ c \notin late BY <1>1, <2>1
  <2> QED BY <2>1, <2>2 DEF OutliveInv, GivenBackIsSilent, Silent
<1> QED BY <1>1 DEF OutliveInv, GivenBackIsSilent

LEMMA OnwardsIsNotTheEnd ==
  ASSUME MountInv, NEW t \in Turns, NEW reg, Onwards(t, reg)
  PROVE  at'[t] # "over" /\ \A u \in Turns \ {t} : at'[u] = at[u]
  BY DEF Onwards, MountInv, Shape

LEMMA ThenTouchesItsOwn ==
  ASSUME OutliveInv, NEW t \in Turns, NEW reg, NEW from \in {"listing", "resources", "prompts"},
         Then(t, reg, from), at[t] = from
  PROVE  /\ HearsType'
         /\ at'[t] # "over" /\ \A u \in Turns \ {t} : at'[u] = at[u]
         /\ \A c \in Clients : c[1] # t => hears'[c] = hears[c] /\ (c \in mounted' => c \in mounted)
<1> DEFINE s == Host(t)
           to == IF from = "listing" /\ s \in Resourceful THEN "resources"
                 ELSE IF from # "prompts" /\ s \in Prompting THEN "prompts" ELSE "mounted"
<1>1. hears' = [hears EXCEPT ![<<t, s>>] = Heard(from, to)] BY DEF Then
<1>2. Heard(from, to) \in {"nothing", "resources", "prompts", "tools"} BY DEF Heard
<1>3. HearsType' BY <1>1, <1>2 DEF OutliveInv, HearsType
<1>4. \A c \in Clients : c[1] # t => c # <<t, s>> OBVIOUS
<1>5. \A c \in Clients : c[1] # t => hears'[c] = hears[c]
  BY <1>1, <1>4 DEF OutliveInv, HearsType
<1>6. mounted' = mounted \union {<<t, s>>} \/ mounted' = mounted BY DEF Then
<1>7. \A c \in Clients : c[1] # t => (c \in mounted' => c \in mounted) BY <1>4, <1>6
<1>8. CASE Onwards(t, reg) BY <1>3, <1>5, <1>7, <1>8, OnwardsIsNotTheEnd DEF OutliveInv
<1>9. CASE at' = [at EXCEPT ![t] = to] /\ to # "mounted"
  <2>1. at \in [Turns -> At] BY DEF OutliveInv, MountInv, Shape
  <2>2. at'[t] = to /\ to # "over" BY <1>9, <2>1
  <2>3. \A u \in Turns \ {t} : at'[u] = at[u] BY <1>9, <2>1
  <2> QED BY <1>3, <1>5, <1>7, <2>2, <2>3
<1>10. Onwards(t, reg) \/ (at' = [at EXCEPT ![t] = to] /\ to # "mounted") BY DEF Then
<1> QED BY <1>8, <1>9, <1>10

\* The end takes away its mounts, and with them what their transports listen for.
LEMMA EndIsSilent ==
  ASSUME OutliveInv, NEW t \in Turns, End(t), MountInv'
  PROVE  OutliveInv'
<1> DEFINE mine == {c \in mounted : c[1] = t}
           deaf == mine \union {c \in Clients : <<t, c[2]>> \in mine /\ c[1] \in {resources[c[2]], prompts[c[2]]}}
<1>1. /\ at' = [at EXCEPT ![t] = "over"] /\ own' = Emptied(mine)
      /\ hears' = [c \in Clients |-> IF c \in deaf THEN "nothing" ELSE hears[c]]
      /\ late' = late \union {c \in mine : lists[c] # <<>>}
      /\ UNCHANGED <<lists, mounted>>
  BY DEF End, UnmountTools
<1>2. HearsType' BY <1>1 DEF OutliveInv, HearsType
<1>3. at \in [Turns -> At] BY DEF OutliveInv, MountInv, Shape
<1>4. ASSUME NEW c \in Clients, at'[c[1]] = "over", c \in mounted', c \notin late' PROVE Silent(c)'
  <2>1. CASE c[1] = t
    <3>1. c \in mine /\ c \in deaf BY <1>1, <1>4, <2>1
    <3>2. lists[c] = <<>> BY <1>1, <1>4, <3>1
    <3>3. own'[c] = {} /\ hears'[c] = "nothing" BY <1>1, <3>1 DEF Emptied
    <3> QED BY <1>1, <3>2, <3>3 DEF Silent
  <2>2. CASE c[1] # t
    <3>1. c[1] \in Turns BY DEF Clients
    <3>2. at[c[1]] = "over" /\ c \in mounted /\ c \notin late BY <1>1, <1>3, <1>4, <2>2, <3>1
    <3>3. Silent(c) BY <3>2 DEF OutliveInv, GivenBackIsSilent
    <3>4. own'[c] = {} BY <1>1, <3>3 DEF Emptied, Silent
    <3>5. hears'[c] # "tools" BY <1>1, <3>3 DEF Silent
    <3> QED BY <1>1, <3>3, <3>4, <3>5 DEF Silent
  <2> QED BY <2>1, <2>2
<1> QED BY <1>2, <1>4 DEF OutliveInv, GivenBackIsSilent

LEMMA OutliveTurn ==
  ASSUME OutliveInv, NEW t \in Turns, TurnStep(t), MountInv'
  PROVE  OutliveInv'
<1>0. at \in [Turns -> At] /\ own \in [Clients -> SUBSET Names] BY DEF OutliveInv, MountInv, Shape
<1>1. CASE Begin(t)
  <2>1. /\ at[t] = "idle" /\ at' = [at EXCEPT ![t] = "opening"]
        /\ UNCHANGED <<own, lists, hears, mounted, late>>
    BY <1>1 DEF Begin, client
  <2>2. HearsType' BY <2>1 DEF OutliveInv, HearsType
  <2> QED BY <1>0, <2>1, <2>2, OthersStaySilent
<1>2. CASE Opened(t)
  <2>1. /\ at[t] = "opening" /\ at' = [at EXCEPT ![t] = "listing"]
        /\ UNCHANGED <<own, lists, hears, mounted, late>>
    BY <1>2 DEF Opened, client, history
  <2>2. HearsType' BY <2>1 DEF OutliveInv, HearsType
  <2> QED BY <1>0, <2>1, <2>2, OthersStaySilent
<1>3. CASE Fails(t)
  <2>1. /\ at[t] # "over" /\ Onwards(t, Registered)
        /\ UNCHANGED <<own, lists, hears, mounted, late>>
    BY <1>3 DEF Fails, client, history
  <2>2. HearsType' BY <2>1 DEF OutliveInv, HearsType
  <2>3. at'[t] # "over" /\ \A u \in Turns \ {t} : at'[u] = at[u]
    BY <2>1, OnwardsIsNotTheEnd DEF OutliveInv
  <2> QED BY <2>1, <2>2, <2>3, OthersStaySilent
<1>4. CASE Listed(t)
  <2>1. /\ at[t] = "listing" /\ Register(<<t, Host(t)>>, seen[t])
        /\ Then(t, Registered \union ({Host(t)} \X seen[t]), "listing")
        /\ UNCHANGED <<lists, late>>
    BY <1>4 DEF Listed, history
  <2>2. /\ HearsType' /\ at'[t] # "over" /\ \A u \in Turns \ {t} : at'[u] = at[u]
        /\ \A c \in Clients : c[1] # t => hears'[c] = hears[c] /\ (c \in mounted' => c \in mounted)
    BY <2>1, ThenTouchesItsOwn
  <2>3. own' = [own EXCEPT ![<<t, Host(t)>>] = @ \union Fresh(Host(t), seen[t])]
    BY <2>1 DEF Register
  <2>4. \A c \in Clients : c[1] # t => own'[c] = own[c]
    BY <1>0, <2>3
  <2> QED BY <2>1, <2>2, <2>4, OthersStaySilent
<1>5. CASE ResourcesListed(t)
  <2>1. at[t] = "resources" /\ Then(t, Registered, "resources") /\ UNCHANGED <<own, lists, late>>
    BY <1>5 DEF ResourcesListed, history
  <2>2. /\ HearsType' /\ at'[t] # "over" /\ \A u \in Turns \ {t} : at'[u] = at[u]
        /\ \A c \in Clients : c[1] # t => hears'[c] = hears[c] /\ (c \in mounted' => c \in mounted)
    BY <2>1, ThenTouchesItsOwn
  <2> QED BY <2>1, <2>2, OthersStaySilent
<1>6. CASE PromptsListed(t)
  <2>1. at[t] = "prompts" /\ Then(t, Registered, "prompts") /\ UNCHANGED <<own, lists, late>>
    BY <1>6 DEF PromptsListed, history
  <2>2. /\ HearsType' /\ at'[t] # "over" /\ \A u \in Turns \ {t} : at'[u] = at[u]
        /\ \A c \in Clients : c[1] # t => hears'[c] = hears[c] /\ (c \in mounted' => c \in mounted)
    BY <2>1, ThenTouchesItsOwn
  <2> QED BY <2>1, <2>2, OthersStaySilent
<1>7. CASE End(t) BY <1>7, EndIsSilent
<1> QED BY <1>1, <1>2, <1>3, <1>4, <1>5, <1>6, <1>7 DEF TurnStep

LEMMA OutliveStep == OutliveInv /\ [Next]_vars => OutliveInv'
<1> SUFFICES ASSUME OutliveInv, [Next]_vars PROVE OutliveInv' OBVIOUS
<1>0. MountInv' /\ own \in [Clients -> SUBSET Names] /\ lists \in [Clients -> Seq(SUBSET Names)]
  BY MountStep DEF OutliveInv, MountInv, Shape
<1>1. ASSUME NEW t \in Turns, TurnStep(t) PROVE OutliveInv'
  BY <1>0, <1>1, OutliveTurn
<1>2. ASSUME NEW s \in Hosts, Change(s) PROVE OutliveInv'
  BY <1>0, <1>2 DEF Change, OutliveInv, HearsType, GivenBackIsSilent, Silent, turn, history
<1>3. ASSUME NEW c \in Clients, Notified(c) PROVE OutliveInv'
  <2>1. UNCHANGED <<at, hears, mounted, late>> BY <1>3 DEF Notified, turn
  <2>2. CASE UNCHANGED <<registry, own, lists>>
    BY <1>0, <2>1, <2>2 DEF OutliveInv, HearsType, GivenBackIsSilent, Silent
  <2>3. CASE hears[c] = "tools" /\ ListChanged(c)
    <3>1. \A d \in Clients \ {c} : own'[d] = own[d] /\ lists'[d] = lists[d]
      BY <1>0, <2>3 DEF ListChanged, Emptied
    <3>2. ASSUME NEW d \in Clients, at[d[1]] = "over", d \in mounted, d \notin late PROVE Silent(d)'
      <4>1. Silent(d) BY <3>2 DEF OutliveInv, GivenBackIsSilent
      <4>2. d # c BY <2>3, <4>1 DEF Silent
      <4> QED BY <2>1, <3>1, <4>1, <4>2 DEF Silent
    <3> QED BY <1>0, <2>1, <3>2 DEF OutliveInv, HearsType, GivenBackIsSilent
  <2> QED BY <1>3, <2>2, <2>3 DEF Notified
<1>4. ASSUME NEW c \in Clients, NEW i \in 1 .. MaxChanges, Relisted(c, i) PROVE OutliveInv'
  <2>1. UNCHANGED <<at, hears, mounted, late>> /\ i \in DOMAIN lists[c] BY <1>4 DEF Relisted, turn
  <2>2. lists[c] # <<>> BY <1>0, <2>1
  <2>3. \A d \in Clients \ {c} : own'[d] = own[d] /\ lists'[d] = lists[d]
    BY <1>0, <1>4 DEF Relisted, Register
  <2>4. ASSUME NEW d \in Clients, at[d[1]] = "over", d \in mounted, d \notin late PROVE Silent(d)'
    <3>1. Silent(d) BY <2>4 DEF OutliveInv, GivenBackIsSilent
    <3>2. d # c BY <2>2, <3>1 DEF Silent
    <3> QED BY <2>1, <2>3, <3>1, <3>2 DEF Silent
  <2> QED BY <1>0, <2>1, <2>4 DEF OutliveInv, HearsType, GivenBackIsSilent
<1>5. CASE UNCHANGED vars
  BY <1>0, <1>5 DEF vars, OutliveInv, HearsType, GivenBackIsSilent, Silent, shared, turn, client, history
<1> QED BY <1>1, <1>2, <1>3, <1>4, <1>5 DEF Next

\* Nothing that a turn mounted stays in the registry after it, but the tools of a mount
\* that failed half way, and those of a listing that was under way when it ended: for
\* any number of turns that overlap, servers and list changes.
THEOREM TurnsCleanUp == Spec => []FewToolsOutliveATurn
<1>1. ASSUME OutliveInv PROVE FewToolsOutliveATurn
  <2> SUFFICES ASSUME NEW id \in Ids, NEW t \in Turns, registry[id] = t, at[t] = "over",
                      <<t, id[1]>> \in mounted, <<t, id[1]>> \notin late
               PROVE  FALSE
    BY DEF FewToolsOutliveATurn
  <2>1. id[1] \in Hosts /\ id[2] \in Names /\ id = <<id[1], id[2]>> BY DEF Ids
  <2> DEFINE c == <<t, id[1]>>
  <2>2. c \in Clients /\ c[1] = t /\ c[2] = id[1] BY <2>1 DEF Clients
  <2>3. own[c] = {} BY <1>1, <2>2 DEF OutliveInv, GivenBackIsSilent, Silent
  <2>4. id[2] \in own[c] BY <1>1, <2>1, <2>2 DEF OutliveInv, MountInv, OwnIsBound
  <2> QED BY <2>3, <2>4
<1> QED BY OutliveInit, OutliveStep, <1>1, PTL DEF Spec

-----------------------------------------------------------------------------
(* A turn that no other overlaps.                                          *)

Connecting == {"opening", "listing", "resources", "prompts"}
Active(t) == at[t] \notin {"idle", "over"}

LoneTypes ==
  /\ notes \in [Clients -> Nat] /\ changes \in Nat /\ missed \subseteq Clients
  /\ allowed \in [Turns -> [Hosts -> SUBSET Names]] /\ disabled \in [Turns -> SUBSET Ids]
  /\ resources \in [Hosts -> Turns \union {NoTurn}] /\ prompts \in [Hosts -> Turns \union {NoTurn}]

\* A turn mounts its servers in order, each once.
MountsInOrder ==
  \A t \in Turns :
    /\ at[t] = "idle" => \A s \in Hosts : <<t, s>> \notin mounted
    /\ at[t] \in Connecting =>
         \A i \in DOMAIN Servers : i >= next[t] => <<t, Servers[i]>> \notin mounted

\* Only mounts of turns that are not over react to changes of tools.
ListenersAreMounts ==
  \A c \in Clients : hears[c] = "tools" => c \in mounted /\ at[c[1]] # "over"

\* Nothing is under way as long as nothing has changed.
CalmWithoutChanges ==
  changes = 0 => \A c \in Clients : notes[c] = 0 /\ lists[c] = <<>>

OneIsActive ==
  ~overlapped => \A t, u \in Turns : Active(t) /\ Active(u) => t = u

CourseInv ==
  /\ OutliveInv /\ LoneTypes
  /\ MountsInOrder /\ ListenersAreMounts /\ CalmWithoutChanges /\ OneIsActive

\* A client that has registered what it was told first.
Knows(c) == c \in mounted \/ (at[c[1]] \in {"resources", "prompts"} /\ Host(c[1]) = c[2])

\* What the server offers is registered, or on its way in an answer.
Informed(c) ==
  notes[c] = 0 /\ c \notin missed =>
    \/ {c[2]} \X offers[c[2]] \subseteq Registered
    \/ \E i \in DOMAIN lists[c] : lists[c][i] = offers[c[2]]

AllListen == \A c \in mounted : Active(c[1]) => hears[c] = "tools"
AllInformed == \A c \in Clients : Active(c[1]) /\ Knows(c) => Informed(c)
AnswersAreCurrent ==
  \A t \in Turns : at[t] = "listing" /\ notes[<<t, Host(t)>>] = 0 /\ <<t, Host(t)>> \notin missed =>
    seen[t] = offers[Host(t)]

LoneIsInformed == ~overlapped => AllListen /\ AllInformed /\ AnswersAreCurrent

HasResources(c) == c[2] \in Resourceful => readTool /\ resources[c[2]] = c[1]
HasPrompts(c) == c[2] \in Prompting => prompts[c[2]] = c[1]

LoneHasTables ==
  ~overlapped =>
    /\ \A c \in mounted : Active(c[1]) => HasResources(c) /\ HasPrompts(c)
    /\ \A t \in Turns : at[t] = "prompts" => HasResources(<<t, Host(t)>>)

\* A running turn has switched off all that its chat does not allow.
LoneIsRestricted ==
  ~overlapped /\ changes = 0 =>
    \A t \in Turns : at[t] = "running" =>
      \A id \in Registered \ disabled[t] : id[2] \in allowed[t][id[1]]

-----------------------------------------------------------------------------
(* What steps are made of.                                                 *)

LEMMA RegisterAdds ==
  ASSUME MountInv, NEW c \in Clients, NEW names \in SUBSET Names, Register(c, names)
  PROVE  Registered' = Registered \union ({c[2]} \X names)
<1> DEFINE new == Fresh(c[2], names)
<1>1. \A n \in names : n \in new \/ <<c[2], n>> \in Registered
  BY DEF Fresh
<1>2. registry' = [id \in Ids |-> IF id[1] = c[2] /\ id[2] \in new THEN c[1] ELSE registry[id]]
  BY DEF Register
<1>3. c[1] # NoTurn /\ c[2] \in Hosts /\ new \subseteq names
  BY MountAssumption DEF Clients, Fresh
<1> HIDE DEF new
<1>4. ASSUME NEW id \in Ids PROVE id \in Registered' <=> id \in Registered \union ({c[2]} \X names)
  <2>1. id = <<id[1], id[2]>>
    BY DEF Ids
  <2> QED
    BY <1>1, <1>2, <1>3, <2>1 DEF Registered
<1>5. {c[2]} \X names \subseteq Ids
  BY <1>3 DEF Ids
<1> QED
  BY <1>4, <1>5 DEF Registered

LEMMA DeregisterTakes ==
  ASSUME NEW C \in SUBSET Clients, registry' = Deregistered(C)
  PROVE  /\ Registered' \subseteq Registered
         /\ \A id \in Registered : (\A c \in C : id[1] # c[2]) => id \in Registered'
BY DEF Deregistered, Registered

\* Where a turn goes after a server.
LEMMA OnwardsGoes ==
  ASSUME MountInv, NEW t \in Turns, NEW reg, Onwards(t, reg), disabled \in [Turns -> SUBSET Ids]
  PROVE  /\ \A u \in Turns \ {t} : at'[u] = at[u] /\ next'[u] = next[u] /\ disabled'[u] = disabled[u]
         /\ \/ at'[t] = "running" /\ disabled'[t] = Disallowed(t, reg)
            \/ at'[t] = "opening" /\ next'[t] = next[t] + 1 /\ disabled' = disabled
         /\ reg \subseteq Ids => disabled' \in [Turns -> SUBSET Ids]
<1>1. at \in [Turns -> At] /\ next \in [Turns -> Nat]
  BY DEF MountInv, Shape
<1>2. CASE next[t] = Len(Servers)
  BY <1>1, <1>2 DEF Onwards, Disallowed
<1>3. CASE next[t] # Len(Servers)
  BY <1>1, <1>3 DEF Onwards
<1> QED
  BY <1>2, <1>3

\* Where it goes after an answer.
LEMMA ThenGoes ==
  ASSUME OutliveInv, NEW t \in Turns, NEW reg, NEW from \in {"listing", "resources", "prompts"},
         Then(t, reg, from), next[t] \in DOMAIN Servers
  PROVE  LET s == Host(t)  c == <<t, s>> IN
         /\ \A d \in Clients \ {c} : hears'[d] = hears[d]
         /\ \/ /\ hears'[c] = "tools" /\ mounted' = mounted \union {c} /\ Onwards(t, reg)
               /\ from = "listing" => s \notin Resourceful
               /\ from # "prompts" => s \notin Prompting
            \/ /\ from = "listing" /\ hears'[c] # "tools" /\ at' = [at EXCEPT ![t] = "resources"]
               /\ UNCHANGED <<mounted, next, disabled>>
            \/ /\ from # "prompts" /\ hears'[c] # "tools" /\ at' = [at EXCEPT ![t] = "prompts"]
               /\ from = "listing" => s \notin Resourceful
               /\ UNCHANGED <<mounted, next, disabled>>
<1> DEFINE s == Host(t)
           c == <<t, s>>
           to == IF from = "listing" /\ s \in Resourceful THEN "resources"
                 ELSE IF from # "prompts" /\ s \in Prompting THEN "prompts" ELSE "mounted"
<1>1. c \in Clients
  BY DEF Host, Hosts, Clients
<1>2. /\ hears' = [hears EXCEPT ![c] = Heard(from, to)]
      /\ IF to = "mounted"
          THEN mounted' = mounted \union {c} /\ Onwards(t, reg)
          ELSE at' = [at EXCEPT ![t] = to] /\ UNCHANGED <<mounted, next, disabled>>
  BY DEF Then
<1>3. Heard(from, to) = "tools" <=> to = "mounted"
  BY DEF Heard
<1>4. hears'[c] = Heard(from, to) /\ \A d \in Clients \ {c} : hears'[d] = hears[d]
  BY <1>1, <1>2 DEF OutliveInv, HearsType
<1>5. to \in {"resources", "prompts", "mounted"}
  OBVIOUS
<1>6. CASE to = "mounted"
  BY <1>2, <1>3, <1>4, <1>6
<1>7. CASE to = "resources"
  BY <1>2, <1>3, <1>4, <1>7
<1>8. CASE to = "prompts"
  BY <1>2, <1>3, <1>4, <1>8
<1> HIDE DEF to
<1> QED
  BY <1>5, <1>6, <1>7, <1>8

\* The server a turn connects to is not mounted, and comes only once.
LEMMA Positions ==
  ASSUME CourseInv, NEW t \in Turns, at[t] \in Connecting
  PROVE  /\ next[t] \in DOMAIN Servers /\ Host(t) \in Hosts
         /\ <<t, Host(t)>> \in Clients /\ <<t, Host(t)>> \notin mounted
         /\ \A i \in DOMAIN Servers : i > next[t] => Servers[i] # Host(t)
<1>1. next[t] \in DOMAIN Servers /\ DOMAIN Servers = 1 .. Len(Servers) /\ next[t] \in Nat
  BY MountAssumption DEF CourseInv, OutliveInv, MountInv, Shape, Connecting
<1>2. Host(t) \in Hosts /\ <<t, Host(t)>> \in Clients
  BY <1>1 DEF Host, Hosts, Clients
<1>3. <<t, Host(t)>> \notin mounted
  BY <1>1 DEF CourseInv, MountsInOrder, Host
<1>4. \A i \in DOMAIN Servers : i > next[t] => Servers[i] # Host(t)
  BY <1>1, MountAssumption DEF IsInjective, Host
<1> QED
  BY <1>1, <1>2, <1>3, <1>4

-----------------------------------------------------------------------------
(* The course of turns.                                                    *)

Course == LoneTypes /\ MountsInOrder /\ ListenersAreMounts /\ CalmWithoutChanges /\ OneIsActive

\* A turn that goes on to its next server, or to the request, with no more than the one at
\* hand mounted.
LEMMA OnwardsCourse ==
  ASSUME CourseInv, NEW t \in Turns, at[t] \in Connecting, NEW reg \in SUBSET Ids, Onwards(t, reg),
         mounted' = mounted \/ mounted' = mounted \union {<<t, Host(t)>>}
  PROVE  /\ MountsInOrder'
         /\ \A u \in Turns : Active(u)' <=> Active(u)
         /\ disabled' \in [Turns -> SUBSET Ids]
<1>1. /\ \A u \in Turns \ {t} : at'[u] = at[u] /\ next'[u] = next[u]
      /\ \/ at'[t] = "running"
         \/ at'[t] = "opening" /\ next'[t] = next[t] + 1
      /\ disabled' \in [Turns -> SUBSET Ids]
  BY OnwardsGoes DEF CourseInv, OutliveInv, LoneTypes
<1>2. Active(t) /\ Active(t)'
  BY <1>1 DEF Active, Connecting
<1>3. next[t] \in DOMAIN Servers /\ DOMAIN Servers = 1 .. Len(Servers)
  <2>1. DOMAIN Servers = 1 .. Len(Servers)
    BY MountAssumption
  <2> QED
    BY <2>1, Positions
<1>4. ASSUME NEW u \in Turns
      PROVE  /\ at'[u] = "idle" => \A s \in Hosts : <<u, s>> \notin mounted'
             /\ at'[u] \in Connecting =>
                  \A i \in DOMAIN Servers : i >= next'[u] => <<u, Servers[i]>> \notin mounted'
  <2>1. CASE u # t
    <3>1. \A s : <<u, s>> \in mounted' => <<u, s>> \in mounted
      BY <2>1
    <3> QED
      BY <1>1, <2>1, <3>1 DEF CourseInv, MountsInOrder
  <2>2. CASE u = t /\ at'[t] = "running"
    BY <2>2 DEF Connecting
  <2>3. CASE u = t /\ at'[t] = "opening" /\ next'[t] = next[t] + 1
    <3> SUFFICES ASSUME NEW i \in DOMAIN Servers, i >= next[t] + 1
                 PROVE  <<t, Servers[i]>> \notin mounted'
      BY <2>3
    <3>1. i > next[t] /\ i >= next[t]
      BY <1>3
    <3>2. Servers[i] # Host(t)
      BY <3>1, Positions
    <3>3. <<t, Servers[i]>> \notin mounted
      BY <3>1 DEF CourseInv, MountsInOrder
    <3> QED
      BY <3>2, <3>3
  <2> QED
    BY <1>1, <2>1, <2>2, <2>3
<1> QED
  BY <1>1, <1>2, <1>4 DEF MountsInOrder, Active

LEMMA ActiveCourse ==
  ASSUME CourseInv, overlapped' = overlapped, \A u \in Turns : Active(u)' => Active(u)
  PROVE  OneIsActive'
BY DEF CourseInv, OneIsActive, Active

LEMMA ThenCourse ==
  ASSUME CourseInv, NEW t \in Turns, NEW reg \in SUBSET Ids,
         NEW from \in {"listing", "resources", "prompts"}, at[t] = from, Then(t, reg, from),
         resources' \in [Hosts -> Turns \union {NoTurn}], prompts' \in [Hosts -> Turns \union {NoTurn}],
         UNCHANGED <<external, allowed, notes, lists, history>>
  PROVE  Course'
<1>1. at[t] \in Connecting /\ next[t] \in DOMAIN Servers /\ <<t, Host(t)>> \in Clients
  BY Positions DEF Connecting
<1> DEFINE s == Host(t)
           c == <<t, s>>
<1>2. /\ \A d \in Clients \ {c} : hears'[d] = hears[d]
      /\ \/ hears'[c] = "tools" /\ mounted' = mounted \union {c} /\ Onwards(t, reg)
         \/ /\ hears'[c] # "tools" /\ at' = [at EXCEPT ![t] = "resources"]
            /\ UNCHANGED <<mounted, next, disabled>>
         \/ /\ hears'[c] # "tools" /\ at' = [at EXCEPT ![t] = "prompts"]
            /\ UNCHANGED <<mounted, next, disabled>>
  BY <1>1, ThenGoes DEF CourseInv
<1>3. at \in [Turns -> At] /\ \A d \in Clients : d[1] \in Turns
  BY DEF CourseInv, OutliveInv, MountInv, Shape, Clients
<1>4. CASE hears'[c] = "tools" /\ mounted' = mounted \union {c} /\ Onwards(t, reg)
  <2>1. /\ MountsInOrder' /\ disabled' \in [Turns -> SUBSET Ids]
        /\ \A u \in Turns : Active(u)' <=> Active(u)
    BY <1>1, <1>4, OnwardsCourse
  <2>2. at'[t] # "over" /\ \A u \in Turns \ {t} : at'[u] = at[u]
    BY <1>4, OnwardsGoes DEF CourseInv, OutliveInv, LoneTypes
  <2>3. ListenersAreMounts'
    BY <1>1, <1>2, <1>3, <1>4, <2>2 DEF CourseInv, ListenersAreMounts
  <2>4. OneIsActive'
    BY <2>1, ActiveCourse DEF history
  <2> QED
    BY <2>1, <2>3, <2>4 DEF Course, CourseInv, LoneTypes, CalmWithoutChanges, external, history
<1>5. CASE \E to \in {"resources", "prompts"} :
             /\ hears'[c] # "tools" /\ at' = [at EXCEPT ![t] = to]
             /\ UNCHANGED <<mounted, next, disabled>>
  <2>1. /\ at'[t] \in Connecting /\ at[t] \in Connecting /\ at'[t] # "over" /\ at'[t] # "idle"
        /\ \A u \in Turns \ {t} : at'[u] = at[u]
    BY <1>1, <1>3, <1>5 DEF Connecting
  <2>2. MountsInOrder'
    BY <1>5, <2>1 DEF CourseInv, MountsInOrder
  <2>3. ListenersAreMounts'
    BY <1>2, <1>3, <1>5, <2>1 DEF CourseInv, ListenersAreMounts
  <2>4. \A u \in Turns : Active(u)' => Active(u)
    BY <2>1 DEF Active, Connecting
  <2>5. OneIsActive'
    BY <2>4, ActiveCourse DEF history
  <2> QED
    BY <1>5, <2>2, <2>3, <2>5 DEF Course, CourseInv, LoneTypes, CalmWithoutChanges, external, history
<1> QED
  BY <1>2, <1>4, <1>5

LEMMA BeginCourse ==
  ASSUME CourseInv, NEW t \in Turns, Begin(t)
  PROVE  Course'
<1>1. /\ at[t] = "idle" /\ at' = [at EXCEPT ![t] = "opening"]
      /\ overlapped' = (overlapped \/ \E u \in Turns : at[u] \notin {"idle", "over"})
      /\ UNCHANGED <<external, shared, next, seen, disabled, client, missed, late>>
  BY DEF Begin
<1>2. at'[t] = "opening" /\ \A u \in Turns \ {t} : at'[u] = at[u]
  BY <1>1 DEF CourseInv, OutliveInv, MountInv, Shape
<1>3. allowed' \in [Turns -> [Hosts -> SUBSET Names]]
  BY DEF Begin, CourseInv, LoneTypes
<1>4. LoneTypes'
  BY <1>1, <1>3 DEF CourseInv, LoneTypes, external, shared, client
<1>5. MountsInOrder'
  <2>1. mounted' = mounted /\ next' = next
    BY <1>1 DEF client
  <2>2. \A i \in DOMAIN Servers : Servers[i] \in Hosts
    BY DEF Hosts
  <2> QED
    BY <1>1, <1>2, <2>1, <2>2 DEF CourseInv, MountsInOrder
<1>6. ListenersAreMounts'
  <2>1. hears' = hears /\ mounted' = mounted
    BY <1>1 DEF client
  <2>2. \A c \in Clients : c[1] \in Turns
    BY DEF Clients
  <2> QED
    BY <1>2, <2>1, <2>2 DEF CourseInv, ListenersAreMounts
<1>7. CalmWithoutChanges'
  BY <1>1 DEF CourseInv, CalmWithoutChanges, external, client
<1>8. OneIsActive'
  BY <1>1, <1>2 DEF OneIsActive, Active
<1> QED
  BY <1>4, <1>5, <1>6, <1>7, <1>8 DEF Course

LEMMA OpenedCourse ==
  ASSUME CourseInv, NEW t \in Turns, Opened(t)
  PROVE  Course'
<1>1. /\ at[t] = "opening" /\ at' = [at EXCEPT ![t] = "listing"]
      /\ UNCHANGED <<external, shared, next, allowed, disabled, client, history>>
  BY DEF Opened
<1>2. at'[t] = "listing" /\ \A u \in Turns \ {t} : at'[u] = at[u]
  BY <1>1 DEF CourseInv, OutliveInv, MountInv, Shape
<1>3. LoneTypes'
  BY <1>1 DEF CourseInv, LoneTypes, external, shared, client, history
<1>4. MountsInOrder'
  BY <1>1, <1>2 DEF CourseInv, MountsInOrder, Connecting, client
<1>5. ListenersAreMounts'
  <2>1. hears' = hears /\ mounted' = mounted /\ \A c \in Clients : c[1] \in Turns
    BY <1>1 DEF client, Clients
  <2> QED
    BY <1>2, <2>1 DEF CourseInv, ListenersAreMounts
<1>6. CalmWithoutChanges'
  BY <1>1 DEF CourseInv, CalmWithoutChanges, external, client
<1>7. OneIsActive'
  <2>1. \A u \in Turns : Active(u)' => Active(u)
    BY <1>1, <1>2 DEF Active
  <2> QED
    BY <1>1, <2>1, ActiveCourse DEF history
<1> QED
  BY <1>3, <1>4, <1>5, <1>6, <1>7 DEF Course

LEMMA FailsCourse ==
  ASSUME CourseInv, NEW t \in Turns, Fails(t)
  PROVE  Course'
<1>1. /\ at[t] \in Connecting /\ Onwards(t, Registered) /\ Registered \in SUBSET Ids
      /\ UNCHANGED <<external, shared, allowed, client, history>>
  BY DEF Fails, Connecting, Registered
<1>2. /\ MountsInOrder' /\ disabled' \in [Turns -> SUBSET Ids]
      /\ \A u \in Turns : Active(u)' <=> Active(u)
  BY <1>1, OnwardsCourse DEF client
<1>3. at'[t] # "over" /\ \A u \in Turns \ {t} : at'[u] = at[u]
  BY <1>1, OnwardsGoes DEF CourseInv, OutliveInv, LoneTypes
<1>4. ListenersAreMounts'
  <2>1. hears' = hears /\ mounted' = mounted /\ \A c \in Clients : c[1] \in Turns
    BY <1>1 DEF client, Clients
  <2> QED
    BY <1>3, <2>1 DEF CourseInv, ListenersAreMounts
<1>5. OneIsActive'
  BY <1>1, <1>2, ActiveCourse DEF history
<1> QED
  BY <1>1, <1>2, <1>4, <1>5
  DEF Course, CourseInv, LoneTypes, CalmWithoutChanges, external, shared, client, history

LEMMA EndCourse ==
  ASSUME CourseInv, NEW t \in Turns, End(t)
  PROVE  Course'
<1> DEFINE mine == {c \in mounted : c[1] = t}
           deaf == mine \union {c \in Clients : <<t, c[2]>> \in mine /\ c[1] \in {resources[c[2]], prompts[c[2]]}}
<1>1. /\ at[t] = "running" /\ at' = [at EXCEPT ![t] = "over"]
      /\ hears' = [c \in Clients |-> IF c \in deaf THEN "nothing" ELSE hears[c]]
      /\ UNCHANGED <<external, next, seen, notes, lists, mounted, overlapped, missed>>
  BY DEF End
<1>2. at'[t] = "over" /\ \A u \in Turns \ {t} : at'[u] = at[u]
  BY <1>1 DEF CourseInv, OutliveInv, MountInv, Shape
<1>3. LoneTypes'
  <2>1. resources' \in [Hosts -> Turns \union {NoTurn}] /\ prompts' \in [Hosts -> Turns \union {NoTurn}]
    BY DEF End, UnmountTables, CourseInv, LoneTypes
  <2>2. allowed' \in [Turns -> [Hosts -> SUBSET Names]] /\ disabled' \in [Turns -> SUBSET Ids]
    BY DEF End, CourseInv, LoneTypes
  <2> QED
    BY <1>1, <2>1, <2>2 DEF CourseInv, LoneTypes, external
<1>4. MountsInOrder'
  BY <1>1, <1>2 DEF CourseInv, MountsInOrder, Connecting
<1>5. ListenersAreMounts'
  <2> SUFFICES ASSUME NEW c \in Clients, hears'[c] = "tools"
               PROVE  c \in mounted /\ at'[c[1]] # "over"
    BY <1>1 DEF ListenersAreMounts
  <2>1. hears[c] = "tools" /\ c \notin mine /\ c[1] \in Turns
    BY <1>1 DEF Clients
  <2>2. c \in mounted /\ at[c[1]] # "over"
    BY <2>1 DEF CourseInv, ListenersAreMounts
  <2> QED
    BY <1>2, <2>1, <2>2
<1>6. CalmWithoutChanges'
  BY <1>1 DEF CourseInv, CalmWithoutChanges, external
<1>7. OneIsActive'
  <2>1. \A u \in Turns : Active(u)' => Active(u)
    BY <1>1, <1>2 DEF Active
  <2> QED
    BY <1>1, <2>1, ActiveCourse
<1> QED
  BY <1>3, <1>4, <1>5, <1>6, <1>7 DEF Course

LEMMA ChangeCourse ==
  ASSUME CourseInv, NEW s \in Hosts, Change(s)
  PROVE  Course'
<1>1. /\ changes' = changes + 1 /\ UNCHANGED <<shared, turn, hears, own, lists, mounted, history>>
      /\ \A c \in Clients : notes'[c] \in {notes[c], notes[c] + 1}
      /\ notes' \in [Clients -> Nat]
  BY DEF Change, CourseInv, LoneTypes
<1>2. LoneTypes'
  BY <1>1 DEF CourseInv, LoneTypes, shared, turn, history
<1>3. MountsInOrder'
  BY <1>1 DEF CourseInv, MountsInOrder, turn
<1>4. ListenersAreMounts'
  BY <1>1 DEF CourseInv, ListenersAreMounts, turn
<1>5. changes' # 0
  BY <1>1 DEF CourseInv, LoneTypes
<1>6. OneIsActive'
  BY <1>1 DEF CourseInv, OneIsActive, Active, turn, history
<1> QED
  BY <1>2, <1>3, <1>4, <1>5, <1>6 DEF Course, CalmWithoutChanges

LEMMA NotifiedCourse ==
  ASSUME CourseInv, NEW c \in Clients, Notified(c)
  PROVE  Course'
<1>1. /\ notes[c] > 0 /\ notes' = [notes EXCEPT ![c] = @ - 1] /\ missed' \subseteq Clients
      /\ UNCHANGED <<external, readTool, resources, prompts, turn, hears, mounted, overlapped, late>>
  BY DEF Notified, CourseInv, LoneTypes
<1>2. notes' \in [Clients -> Nat]
  BY <1>1 DEF CourseInv, LoneTypes
<1>3. changes # 0
  BY <1>1 DEF CourseInv, CalmWithoutChanges
<1>4. LoneTypes'
  BY <1>1, <1>2 DEF CourseInv, LoneTypes, external, turn
<1>5. MountsInOrder'
  BY <1>1 DEF CourseInv, MountsInOrder, turn
<1>6. ListenersAreMounts'
  BY <1>1 DEF CourseInv, ListenersAreMounts, turn
<1>7. CalmWithoutChanges'
  BY <1>1, <1>3 DEF CalmWithoutChanges, external
<1>8. OneIsActive'
  BY <1>1 DEF CourseInv, OneIsActive, Active, turn
<1> QED
  BY <1>4, <1>5, <1>6, <1>7, <1>8 DEF Course

LEMMA RelistedCourse ==
  ASSUME CourseInv, NEW c \in Clients, NEW i \in 1 .. MaxChanges, Relisted(c, i)
  PROVE  Course'
<1>1. /\ i \in DOMAIN lists[c] /\ missed' \subseteq Clients
      /\ UNCHANGED <<external, readTool, resources, prompts, turn, hears, notes, mounted, overlapped, late>>
  BY DEF Relisted, CourseInv, LoneTypes
<1>2. changes # 0
  <2>1. lists[c] # <<>>
    BY <1>1 DEF CourseInv, OutliveInv, MountInv, Shape
  <2> QED
    BY <2>1 DEF CourseInv, CalmWithoutChanges
<1>3. LoneTypes'
  BY <1>1 DEF CourseInv, LoneTypes, external, turn
<1>4. MountsInOrder'
  BY <1>1 DEF CourseInv, MountsInOrder, turn
<1>5. ListenersAreMounts'
  BY <1>1 DEF CourseInv, ListenersAreMounts, turn
<1>6. CalmWithoutChanges'
  BY <1>1, <1>2 DEF CalmWithoutChanges, external
<1>7. OneIsActive'
  BY <1>1 DEF CourseInv, OneIsActive, Active, turn
<1> QED
  BY <1>3, <1>4, <1>5, <1>6, <1>7 DEF Course

LEMMA CourseTurn ==
  ASSUME CourseInv, NEW t \in Turns, TurnStep(t)
  PROVE  Course'
<1>1. CASE Begin(t) BY <1>1, BeginCourse
<1>2. CASE Opened(t) BY <1>2, OpenedCourse
<1>3. CASE Fails(t) BY <1>3, FailsCourse
<1>4. CASE Listed(t)
  <2> DEFINE reg == Registered \union ({Host(t)} \X seen[t])
  <2>1. /\ at[t] = "listing" /\ Then(t, reg, "listing")
        /\ UNCHANGED <<external, resources, prompts, allowed, notes, lists, history>>
    BY <1>4 DEF Listed
  <2>2. Host(t) \in Hosts /\ seen[t] \subseteq Names
    BY <2>1, Positions DEF Connecting, CourseInv, OutliveInv, MountInv, Shape
  <2>3. reg \in SUBSET Ids
    BY <2>2 DEF Registered, Ids
  <2>4. resources' \in [Hosts -> Turns \union {NoTurn}] /\ prompts' \in [Hosts -> Turns \union {NoTurn}]
    BY <2>1 DEF CourseInv, LoneTypes
  <2> HIDE DEF reg
  <2> QED
    BY <2>1, <2>3, <2>4, ThenCourse
<1>5. CASE ResourcesListed(t)
  <2>1. /\ at[t] = "resources" /\ Then(t, Registered, "resources")
        /\ UNCHANGED <<external, prompts, allowed, notes, lists, history>>
    BY <1>5 DEF ResourcesListed
  <2>2. resources' \in [Hosts -> Turns \union {NoTurn}] /\ prompts' \in [Hosts -> Turns \union {NoTurn}]
    BY <1>5, <2>1 DEF ResourcesListed, CourseInv, LoneTypes
  <2>3. Registered \in SUBSET Ids
    BY DEF Registered
  <2> QED
    BY <2>1, <2>2, <2>3, ThenCourse
<1>6. CASE PromptsListed(t)
  <2>1. /\ at[t] = "prompts" /\ Then(t, Registered, "prompts")
        /\ UNCHANGED <<external, resources, allowed, notes, lists, history>>
    BY <1>6 DEF PromptsListed
  <2>2. resources' \in [Hosts -> Turns \union {NoTurn}] /\ prompts' \in [Hosts -> Turns \union {NoTurn}]
    BY <1>6, <2>1 DEF PromptsListed, CourseInv, LoneTypes
  <2>3. Registered \in SUBSET Ids
    BY DEF Registered
  <2> QED
    BY <2>1, <2>2, <2>3, ThenCourse
<1>7. CASE End(t) BY <1>7, EndCourse
<1> QED BY <1>1, <1>2, <1>3, <1>4, <1>5, <1>6, <1>7 DEF TurnStep

LEMMA CourseStep == CourseInv /\ [Next]_vars => CourseInv'
<1> SUFFICES ASSUME CourseInv, [Next]_vars PROVE CourseInv' OBVIOUS
<1>1. OutliveInv' BY OutliveStep DEF CourseInv
<1>2. ASSUME UNCHANGED vars PROVE Course'
  <2>1. /\ LoneTypes /\ MountsInOrder /\ ListenersAreMounts /\ CalmWithoutChanges /\ OneIsActive
        /\ UNCHANGED <<external, shared, turn, client, history>>
    BY <1>2 DEF vars, CourseInv
  <2>2. LoneTypes' BY <2>1 DEF LoneTypes, external, shared, turn, client, history
  <2>3. MountsInOrder' BY <2>1 DEF MountsInOrder, turn, client
  <2>4. ListenersAreMounts' BY <2>1 DEF ListenersAreMounts, turn, client
  <2>5. CalmWithoutChanges' BY <2>1 DEF CalmWithoutChanges, external, client
  <2>6. OneIsActive' BY <2>1 DEF OneIsActive, Active, turn, history
  <2> QED BY <2>2, <2>3, <2>4, <2>5, <2>6 DEF Course
<1>3. ASSUME Next PROVE Course'
  <2>1. CASE \E t \in Turns : TurnStep(t) BY <2>1, CourseTurn
  <2>2. CASE \E s \in Hosts : Change(s) BY <2>2, ChangeCourse
  <2>3. CASE \E c \in Clients : Notified(c) BY <2>3, NotifiedCourse
  <2>4. CASE \E c \in Clients : \E i \in 1 .. MaxChanges : Relisted(c, i) BY <2>4, RelistedCourse
  <2> QED BY <1>3, <2>1, <2>2, <2>3, <2>4 DEF Next
<1>4. Course' BY <1>2, <1>3
<1> QED BY <1>1, <1>4 DEF Course, CourseInv

LEMMA CourseInit == Init => CourseInv
<1> SUFFICES ASSUME Init PROVE CourseInv OBVIOUS
<1>1. OutliveInv BY OutliveInit
<1>2. LoneTypes BY MountAssumption DEF Init, LoneTypes
<1>3. MountsInOrder BY DEF Init, MountsInOrder, Connecting
<1>4. ListenersAreMounts /\ CalmWithoutChanges BY DEF Init, ListenersAreMounts, CalmWithoutChanges
<1>5. OneIsActive BY DEF Init, OneIsActive, Active
<1> QED BY <1>1, <1>2, <1>3, <1>4, <1>5 DEF CourseInv

-----------------------------------------------------------------------------
(* What a turn that no other overlaps knows, has and may use.              *)

LEMMA RemoveAtKeeps ==
  ASSUME NEW S, NEW q \in Seq(S), NEW i \in DOMAIN q, NEW j \in DOMAIN q, j # i
  PROVE  \E k \in DOMAIN RemoveAt(q, i) : RemoveAt(q, i)[k] = q[j]
<1> DEFINE r == SubSeq(q, 1, i - 1) \o SubSeq(q, i + 1, Len(q))
<1>1. RemoveAt(q, i) = r
  BY DEF RemoveAt
<1>2. DOMAIN q = 1 .. Len(q) /\ Len(q) \in Nat
  OBVIOUS
<1>3. CASE j < i
  <2>1. j \in DOMAIN r /\ r[j] = q[j]
    BY <1>2, <1>3
  <2> QED BY <1>1, <2>1
<1>4. CASE j > i
  <2> DEFINE a == SubSeq(q, 1, i - 1)
             b == SubSeq(q, i + 1, Len(q))
  <2>1. a \in Seq(S) /\ Len(a) = i - 1 /\ b \in Seq(S) /\ Len(b) = Len(q) - i
    BY <1>2
  <2>2. j - i \in 1 .. Len(b) /\ b[j - i] = q[j]
    BY <1>2, <1>4
  <2> HIDE DEF a, b
  <2>3. /\ Len(a \o b) = Len(a) + Len(b) /\ DOMAIN (a \o b) = 1 .. Len(a \o b)
        /\ \A k \in 1 .. Len(a) + Len(b) : (a \o b)[k] = IF k <= Len(a) THEN a[k] ELSE b[k - Len(a)]
    BY <2>1, ConcatProperties
  <2>4. j - 1 \in 1 .. Len(a) + Len(b) /\ ~(j - 1 <= Len(a)) /\ (j - 1) - Len(a) = j - i
    BY <1>2, <1>4, <2>1
  <2> QED BY <1>1, <2>2, <2>3, <2>4 DEF a, b
<1> QED BY <1>2, <1>3, <1>4

\* A client stays informed while its server and its notifications stay the same and nothing
\* it has is taken away.
LEMMA StaysInformed ==
  ASSUME NEW c \in Clients, Informed(c), notes'[c] = notes[c], c \in missed => c \in missed',
         offers' = offers, {c[2]} \X offers[c[2]] \subseteq Registered => {c[2]} \X offers[c[2]] \subseteq Registered',
         lists'[c] = lists[c]
  PROVE  Informed(c)'
BY DEF Informed

\* Only one turn is active, so that a step of a turn leaves no other to speak of.
LEMMA Alone ==
  ASSUME CourseInv, CourseInv', ~overlapped', overlapped' = overlapped, NEW t \in Turns, Active(t)
  PROVE  \A u \in Turns \ {t} : ~Active(u)
BY DEF CourseInv, OneIsActive

\* An answer, and the server of the turn, taken together: what they leave of the rest.
LEMMA InformedByTurn ==
  ASSUME CourseInv, LoneIsInformed, ~overlapped, NEW t \in Turns, Active(t), CourseInv',
         \A u \in Turns \ {t} : at'[u] = at[u],
         UNCHANGED <<offers, notes, lists, missed, overlapped>>, Registered \subseteq Registered',
         mounted' = mounted \/ mounted' = mounted \union {<<t, Host(t)>>},
         \A c \in Clients \ {<<t, Host(t)>>} : hears'[c] = hears[c],
         <<t, Host(t)>> \in mounted' => hears'[<<t, Host(t)>>] = "tools",
         at'[t] \in {"resources", "prompts"} => next' = next,
         Knows(<<t, Host(t)>>) \/ (at[t] = "listing" /\ {Host(t)} \X seen[t] \subseteq Registered')
           \/ (<<t, Host(t)>> \notin mounted' /\ at'[t] \notin {"resources", "prompts"}),
         at'[t] = "listing" => seen'[t] = offers[Host(t)] /\ next' = next
  PROVE  LoneIsInformed'
<1>1. \A u \in Turns \ {t} : ~Active(u) /\ ~Active(u)'
  BY Alone DEF Active
<1>2. AllListen'
  <2> SUFFICES ASSUME NEW c \in mounted', c[1] = t PROVE hears'[c] = "tools"
    BY <1>1 DEF AllListen, CourseInv, OutliveInv, MountInv, Shape, Clients
  <2>1. c \in Clients
    BY DEF CourseInv, OutliveInv, MountInv, Shape
  <2>2. CASE c \in mounted /\ c # <<t, Host(t)>>
    BY <2>1, <2>2 DEF LoneIsInformed, AllListen
  <2>3. CASE c = <<t, Host(t)>>
    BY <2>3
  <2> QED BY <2>2, <2>3
<1>3. AllInformed'
  <2> SUFFICES ASSUME NEW c \in Clients, c[1] = t, Knows(c)' PROVE Informed(c)'
    BY <1>1 DEF AllInformed, Clients
  <2>1. c = <<t, c[2]>>
    BY DEF Clients
  <2>2. Knows(c) \/ c = <<t, Host(t)>>
    BY <2>1 DEF Knows, Host
  <2>3. CASE Knows(c)
    <3>1. Informed(c)
      BY <2>3 DEF LoneIsInformed, AllInformed
    <3> QED BY <3>1, StaysInformed
  <2>4. CASE ~Knows(c) /\ c = <<t, Host(t)>>
    <3>1. c[2] = Host(t)
      BY <2>4
    <3>2. ~(<<t, Host(t)>> \notin mounted' /\ at'[t] \notin {"resources", "prompts"})
      BY <2>1, <2>4, <3>1 DEF Knows, Host
    <3>3. at[t] = "listing" /\ {Host(t)} \X seen[t] \subseteq Registered'
      BY <2>4, <3>2
    <3>4. notes[c] = 0 /\ c \notin missed => seen[t] = offers[Host(t)]
      BY <2>4, <3>3 DEF LoneIsInformed, AnswersAreCurrent
    <3>5. (notes[c] = 0 /\ c \notin missed)' => {c[2]} \X offers'[c[2]] \subseteq Registered'
      BY <3>1, <3>3, <3>4
    <3> QED BY <3>5 DEF Informed
  <2> QED BY <2>2, <2>3, <2>4
<1>4. AnswersAreCurrent'
  BY <1>1 DEF AnswersAreCurrent, Active, Host
<1> QED BY <1>2, <1>3, <1>4 DEF LoneIsInformed

LEMMA InformedByConnecting ==
  ASSUME CourseInv, CourseInv', LoneIsInformed, ~overlapped, NEW t \in Turns, Opened(t) \/ Fails(t)
  PROVE  LoneIsInformed'
<1> DEFINE c == <<t, Host(t)>>
<1>1. /\ at[t] \in Connecting /\ UNCHANGED <<external, shared, client, history>>
      /\ \/ Opened(t)
         \/ Onwards(t, Registered)
  BY DEF Opened, Fails, Connecting
<1>2. /\ UNCHANGED <<offers, registry, hears, notes, lists, mounted, overlapped, missed>>
      /\ Registered' = Registered
  BY <1>1 DEF external, shared, client, history, Registered
<1>3. Active(t) /\ c \notin mounted'
  BY <1>1, <1>2, Positions DEF Connecting, Active
<1>4. CASE Opened(t)
  <2>1. at' = [at EXCEPT ![t] = "listing"] /\ seen'[t] = offers[Host(t)] /\ next' = next
    BY <1>4 DEF Opened, CourseInv, OutliveInv, MountInv, Shape
  <2>2. at'[t] = "listing" /\ \A u \in Turns \ {t} : at'[u] = at[u]
    BY <2>1 DEF CourseInv, OutliveInv, MountInv, Shape
  <2> QED BY <1>2, <1>3, <2>1, <2>2, InformedByTurn
<1>5. CASE Onwards(t, Registered)
  <2>1. at'[t] \in {"running", "opening"} /\ \A u \in Turns \ {t} : at'[u] = at[u]
    BY <1>5, OnwardsGoes DEF CourseInv, OutliveInv, LoneTypes
  <2> QED BY <1>2, <1>3, <2>1, InformedByTurn
<1> QED BY <1>1, <1>4, <1>5

\* The steps of ResourcesListed and PromptsListed, and of Listed, alike
LEMMA InformedByThen ==
  ASSUME CourseInv, CourseInv', LoneIsInformed, ~overlapped, NEW t \in Turns, NEW reg,
         NEW from \in {"listing", "resources", "prompts"}, at[t] = from, Then(t, reg, from),
         UNCHANGED <<offers, notes, lists, missed, overlapped>>, Registered \subseteq Registered',
         from = "listing" => {Host(t)} \X seen[t] \subseteq Registered'
  PROVE  LoneIsInformed'
<1> DEFINE c == <<t, Host(t)>>
<1>1. /\ Active(t) /\ next[t] \in DOMAIN Servers /\ c \notin mounted /\ c \in Clients
      /\ OutliveInv /\ MountInv /\ disabled \in [Turns -> SUBSET Ids] /\ at \in [Turns -> At]
  BY Positions DEF Connecting, Active, CourseInv, LoneTypes, OutliveInv, MountInv, Shape
<1>2. \A d \in Clients \ {c} : hears'[d] = hears[d]
  BY <1>1, ThenGoes
<1>3. \/ hears'[c] = "tools" /\ mounted' = mounted \union {c} /\ Onwards(t, reg)
      \/ at' = [at EXCEPT ![t] = "resources"] /\ UNCHANGED <<mounted, next>>
      \/ at' = [at EXCEPT ![t] = "prompts"] /\ UNCHANGED <<mounted, next>>
  BY <1>1, ThenGoes
<1>4. Knows(c) \/ from = "listing"
  BY DEF Knows
<1>5. CASE hears'[c] = "tools" /\ mounted' = mounted \union {c} /\ Onwards(t, reg)
  <2>1. at'[t] \in {"running", "opening"} /\ \A u \in Turns \ {t} : at'[u] = at[u]
    BY <1>1, <1>5, OnwardsGoes
  <2> QED BY <1>1, <1>2, <1>4, <1>5, <2>1, InformedByTurn
<1>6. CASE \E to \in {"resources", "prompts"} : at' = [at EXCEPT ![t] = to] /\ UNCHANGED <<mounted, next>>
  <2>1. at'[t] \in {"resources", "prompts"} /\ \A u \in Turns \ {t} : at'[u] = at[u]
    BY <1>1, <1>6
  <2> QED BY <1>1, <1>2, <1>4, <1>6, <2>1, InformedByTurn
<1> QED BY <1>3, <1>5, <1>6

LEMMA InformedTurn ==
  ASSUME CourseInv, CourseInv', LoneIsInformed, NEW t \in Turns, TurnStep(t)
  PROVE  LoneIsInformed'
<1> SUFFICES ASSUME ~overlapped' PROVE LoneIsInformed'
  BY DEF LoneIsInformed
<1>0. MountInv /\ at \in [Turns -> At] /\ \A c \in Clients : c[1] \in Turns
  BY DEF CourseInv, OutliveInv, MountInv, Shape, Clients
<1>1. CASE Begin(t)
  <2>1. /\ at[t] = "idle" /\ at' = [at EXCEPT ![t] = "opening"] /\ mounted' = mounted
        /\ \A u \in Turns : at[u] \in {"idle", "over"}
    BY <1>1 DEF Begin, client
  <2>2. at'[t] = "opening" /\ \A u \in Turns \ {t} : at'[u] \in {"idle", "over"}
    BY <1>0, <2>1
  <2>3. \A c \in mounted : c[1] # t
    BY <2>1 DEF CourseInv, MountsInOrder, OutliveInv, MountInv, Shape, Clients
  <2>4. AllListen'
    BY <1>0, <2>1, <2>2, <2>3 DEF AllListen, Active, MountInv, Shape
  <2>5. AllInformed'
    BY <1>0, <2>1, <2>2, <2>3 DEF AllInformed, Knows, Active
  <2>6. AnswersAreCurrent'
    BY <2>2 DEF AnswersAreCurrent
  <2> QED BY <2>4, <2>5, <2>6 DEF LoneIsInformed
<1>2. CASE Opened(t) \/ Fails(t)
  <2>1. overlapped' = overlapped
    BY <1>2 DEF Opened, Fails, history
  <2> QED BY <1>2, <2>1, InformedByConnecting
<1>3. CASE Listed(t)
  <2>1. /\ at[t] = "listing" /\ Register(<<t, Host(t)>>, seen[t])
        /\ Then(t, Registered \union ({Host(t)} \X seen[t]), "listing")
        /\ UNCHANGED <<offers, notes, lists, missed, overlapped>>
    BY <1>3 DEF Listed, external, history
  <2>2. <<t, Host(t)>> \in Clients /\ seen[t] \in SUBSET Names
    BY <2>1, Positions DEF Connecting, CourseInv, OutliveInv, MountInv, Shape
  <2>3. Registered' = Registered \union ({Host(t)} \X seen[t])
    <3> DEFINE c == <<t, Host(t)>>
    <3>1. c[2] = Host(t) OBVIOUS
    <3>2. Registered' = Registered \union ({c[2]} \X seen[t])
      BY <1>0, <2>1, <2>2, RegisterAdds
    <3> QED BY <3>1, <3>2
  <2> QED BY <2>1, <2>3, InformedByThen
<1>4. CASE ResourcesListed(t)
  <2>1. /\ at[t] = "resources" /\ Then(t, Registered, "resources") /\ Registered' = Registered
        /\ UNCHANGED <<offers, notes, lists, missed, overlapped>>
    BY <1>4 DEF ResourcesListed, external, history, Registered
  <2> QED BY <2>1, InformedByThen
<1>5. CASE PromptsListed(t)
  <2>1. /\ at[t] = "prompts" /\ Then(t, Registered, "prompts") /\ Registered' = Registered
        /\ UNCHANGED <<offers, notes, lists, missed, overlapped>>
    BY <1>5 DEF PromptsListed, external, history, Registered
  <2> QED BY <2>1, InformedByThen
<1>6. CASE End(t)
  <2>1. at[t] = "running" /\ at' = [at EXCEPT ![t] = "over"] /\ overlapped' = overlapped
    BY <1>6 DEF End
  <2>2. \A u \in Turns : ~Active(u)'
    BY <1>0, <2>1, Alone DEF Active
  <2> QED BY <1>0, <2>2
      DEF LoneIsInformed, AllListen, AllInformed, AnswersAreCurrent, Active, CourseInv, OutliveInv, MountInv, Shape
<1> QED BY <1>1, <1>2, <1>3, <1>4, <1>5, <1>6 DEF TurnStep

\* A change is on its way to all who know of the tools it concerns.
LEMMA InformedChange ==
  ASSUME CourseInv, LoneIsInformed, NEW s \in Hosts, Change(s)
  PROVE  LoneIsInformed'
<1> SUFFICES ASSUME ~overlapped PROVE LoneIsInformed'
  BY DEF LoneIsInformed, Change, history
<1>1. /\ UNCHANGED <<registry, at, next, seen, hears, lists, mounted, missed>>
      /\ \A h \in Hosts \ {s} : offers'[h] = offers[h]
      /\ \A c \in Clients : notes'[c] =
            IF c[2] = s /\ (c \in mounted \/ (at[c[1]] \in {"listing", "resources", "prompts"} /\ Host(c[1]) = s))
              THEN notes[c] + 1 ELSE notes[c]
      /\ notes \in [Clients -> Nat]
      /\ \A c \in Clients : c[1] \in Turns /\ c[2] \in Hosts
  BY DEF Change, shared, turn, history, CourseInv, OutliveInv, MountInv, Shape, LoneTypes, Clients
<1>2. AllListen'
  BY <1>1 DEF LoneIsInformed, AllListen, Active
<1>3. ASSUME NEW c \in Clients, Active(c[1])', Knows(c)' PROVE Informed(c)'
  <2>1. Active(c[1]) /\ Knows(c)
    BY <1>1, <1>3 DEF Active, Knows, Host
  <2>2. CASE c[2] = s
    <3>1. notes'[c] = notes[c] + 1 /\ notes[c] \in Nat
      BY <1>1, <2>1, <2>2 DEF Knows
    <3>2. notes'[c] # 0
      BY <3>1
    <3> QED BY <3>2 DEF Informed
  <2>3. CASE c[2] # s
    <3>1. notes'[c] = notes[c] /\ offers'[c[2]] = offers[c[2]] /\ Registered' = Registered
      BY <1>1, <2>3 DEF Registered
    <3>2. Informed(c)
      BY <2>1 DEF LoneIsInformed, AllInformed
    <3> QED BY <1>1, <3>1, <3>2 DEF Informed
  <2> QED BY <2>2, <2>3
<1>4. ASSUME NEW t \in Turns, at'[t] = "listing", notes'[<<t, Host(t)>>] = 0, <<t, Host(t)>> \notin missed'
      PROVE  seen'[t] = offers'[Host(t)]
  <2> DEFINE c == <<t, Host(t)>>
  <2>1. at[t] = "listing" /\ Host(t) \in Hosts /\ c \in Clients
    BY <1>1, <1>4, Positions DEF Connecting
  <2>2. CASE Host(t) = s
    <3>1. notes'[c] = notes[c] + 1 /\ notes[c] \in Nat
      BY <1>1, <2>1, <2>2
    <3> QED BY <1>4, <3>1
  <2>3. CASE Host(t) # s
    <3>1. notes'[c] = notes[c] /\ offers'[Host(t)] = offers[Host(t)]
      BY <1>1, <2>1, <2>3
    <3> QED BY <1>1, <1>4, <2>1, <3>1 DEF LoneIsInformed, AnswersAreCurrent
  <2> QED BY <2>2, <2>3
<1>5. next' = next
  BY <1>1
<1> QED BY <1>2, <1>3, <1>4, <1>5 DEF LoneIsInformed, AllInformed, AnswersAreCurrent, Host

LEMMA InformedNotified ==
  ASSUME CourseInv, LoneIsInformed, NEW c \in Clients, Notified(c)
  PROVE  LoneIsInformed'
<1> SUFFICES ASSUME ~overlapped PROVE LoneIsInformed'
  BY DEF LoneIsInformed, Notified
<1>1. /\ UNCHANGED <<offers, at, next, seen, hears, mounted>>
      /\ notes[c] > 0 /\ \A d \in Clients \ {c} : notes'[d] = notes[d]
      /\ lists \in [Clients -> Seq(SUBSET Names)] /\ own \in [Clients -> SUBSET Names]
      /\ offers \in [Hosts -> SUBSET Names]
      /\ \A d \in Clients : d = <<d[1], d[2]>> /\ d[1] \in Turns /\ d[2] \in Hosts
  BY DEF Notified, external, turn, CourseInv, OutliveInv, MountInv, Shape, LoneTypes, Clients
<1>2. AllListen'
  BY <1>1 DEF LoneIsInformed, AllListen, Active
<1>3. CASE hears[c] = "tools"
  <2>1. ListChanged(c) /\ missed' = missed
    BY <1>3 DEF Notified
  <2>2. c \in mounted /\ at[c[1]] # "over"
    BY <1>3 DEF CourseInv, ListenersAreMounts
  <2>3. Active(c[1])
    BY <1>1, <2>2 DEF CourseInv, MountsInOrder, Active
  <2>4. \A d \in Clients \ {c} : Active(d[1]) => d[2] # c[2]
    BY <1>1, <2>3 DEF CourseInv, OneIsActive
  <2>5. lists' = [lists EXCEPT ![c] = Append(@, offers[c[2]])]
    BY <2>1 DEF ListChanged
  <2>6. \A id \in Registered : id[1] # c[2] => id \in Registered'
    BY <2>1, DeregisterTakes DEF ListChanged
  <2>7. ASSUME NEW d \in Clients, Active(d[1])', Knows(d)' PROVE Informed(d)'
    <3>1. Active(d[1]) /\ Knows(d) /\ Informed(d)
      BY <1>1, <2>7 DEF Active, Knows, Host, LoneIsInformed, AllInformed
    <3>2. CASE d = c
      <4>1. lists'[c] = Append(lists[c], offers[c[2]]) /\ lists[c] \in Seq(SUBSET Names) /\ offers[c[2]] \in SUBSET Names
        BY <1>1, <2>5
      <4>2. Len(lists[c]) + 1 \in DOMAIN lists'[c] /\ lists'[c][Len(lists[c]) + 1] = offers[c[2]]
        BY <4>1
      <4>3. \E i \in DOMAIN lists'[c] : lists'[c][i] = offers'[c[2]]
        BY <1>1, <4>2
      <4> QED BY <3>2, <4>3 DEF Informed
    <3>3. CASE d # c
      <4>1. d[2] # c[2] /\ lists'[d] = lists[d] /\ notes'[d] = notes[d]
        BY <1>1, <2>4, <2>5, <3>1, <3>3
      <4>2. {d[2]} \X offers[d[2]] \subseteq Registered => {d[2]} \X offers[d[2]] \subseteq Registered'
        BY <2>6, <4>1
      <4> QED BY <1>1, <2>1, <3>1, <4>1, <4>2, StaysInformed
    <3> QED BY <3>2, <3>3
  <2>8. ASSUME NEW t \in Turns, at[t] = "listing" PROVE <<t, Host(t)>> # c
    BY <2>2, <2>8, Positions DEF Connecting
  <2>9. AnswersAreCurrent'
    <3> SUFFICES ASSUME NEW t \in Turns, at[t] = "listing", notes'[<<t, Host(t)>>] = 0, <<t, Host(t)>> \notin missed
                 PROVE  seen[t] = offers[Host(t)]
      BY <1>1, <2>1 DEF AnswersAreCurrent, Host
    <3>1. <<t, Host(t)>> \in Clients \ {c}
      BY <2>8, Positions DEF Connecting
    <3> QED BY <1>1, <3>1 DEF LoneIsInformed, AnswersAreCurrent
  <2> QED BY <1>2, <2>7, <2>9 DEF LoneIsInformed, AllInformed
<1>4. CASE hears[c] # "tools"
  <2>1. /\ UNCHANGED <<registry, lists>>
        /\ missed' = IF c \in mounted THEN missed ELSE missed \union {c}
    BY <1>4 DEF Notified
  <2>2. c \in mounted => ~Active(c[1])
    BY <1>4 DEF LoneIsInformed, AllListen
  <2>3. Registered' = Registered
    BY <2>1 DEF Registered
  <2>4. ASSUME NEW d \in Clients, Active(d[1])', Knows(d)' PROVE Informed(d)'
    <3>1. Active(d[1]) /\ Informed(d)
      BY <1>1, <2>4 DEF Active, Knows, Host, LoneIsInformed, AllInformed
    <3>2. CASE d = c
      BY <2>1, <2>2, <3>1, <3>2 DEF Informed
    <3>3. CASE d # c
      BY <1>1, <2>1, <2>3, <3>1, <3>3 DEF Informed
    <3> QED BY <3>2, <3>3
  <2>5. AnswersAreCurrent'
    <3> SUFFICES ASSUME NEW t \in Turns, at[t] = "listing", notes'[<<t, Host(t)>>] = 0, <<t, Host(t)>> \notin missed'
                 PROVE  seen[t] = offers[Host(t)]
      BY <1>1 DEF AnswersAreCurrent, Host
    <3> DEFINE d == <<t, Host(t)>>
    <3>1. d \in Clients /\ d \notin mounted
      BY Positions DEF Connecting
    <3>2. d # c /\ d \notin missed
      BY <2>1, <3>1
    <3> QED BY <1>1, <3>1, <3>2 DEF LoneIsInformed, AnswersAreCurrent
  <2> QED BY <1>2, <2>4, <2>5 DEF LoneIsInformed, AllInformed
<1> QED BY <1>3, <1>4

LEMMA InformedRelisted ==
  ASSUME CourseInv, LoneIsInformed, NEW c \in Clients, NEW i \in 1 .. MaxChanges, Relisted(c, i)
  PROVE  LoneIsInformed'
<1> SUFFICES ASSUME ~overlapped PROVE LoneIsInformed'
  BY DEF LoneIsInformed, Relisted
<1>1. /\ UNCHANGED <<offers, at, next, seen, hears, notes, mounted>>
      /\ i \in DOMAIN lists[c] /\ lists' = [lists EXCEPT ![c] = RemoveAt(@, i)] /\ missed \subseteq missed'
      /\ \/ Register(c, lists[c][i])
         \/ c \in missed' /\ registry' = registry
      /\ lists \in [Clients -> Seq(SUBSET Names)] /\ MountInv
      /\ \A d \in Clients : d[1] \in Turns /\ d[2] \in Hosts
  BY DEF Relisted, external, turn, CourseInv, OutliveInv, MountInv, Shape, LoneTypes, Clients
<1>2. lists[c][i] \in SUBSET Names
  BY <1>1
<1>3. /\ Registered \subseteq Registered'
      /\ c \in missed' \/ {c[2]} \X lists[c][i] \subseteq Registered'
  <2>1. CASE Register(c, lists[c][i])
    BY <1>1, <1>2, <2>1, RegisterAdds
  <2>2. CASE c \in missed' /\ registry' = registry
    BY <2>2 DEF Registered
  <2> QED BY <1>1, <2>1, <2>2
<1>4. ASSUME NEW d \in Clients, Active(d[1])', Knows(d)' PROVE Informed(d)'
  <2>1. Informed(d)
    BY <1>1, <1>4 DEF Active, Knows, Host, LoneIsInformed, AllInformed
  <2>2. CASE d # c
    <3>1. lists'[d] = lists[d] /\ notes'[d] = notes[d] /\ (d \in missed => d \in missed')
      BY <1>1, <2>2
    <3>2. {d[2]} \X offers[d[2]] \subseteq Registered => {d[2]} \X offers[d[2]] \subseteq Registered'
      BY <1>3
    <3> QED BY <1>1, <2>1, <3>1, <3>2, StaysInformed
  <2>3. CASE d = c
    <3> SUFFICES ASSUME notes[c] = 0, c \notin missed', ~({c[2]} \X offers[c[2]] \subseteq Registered')
                 PROVE  \E k \in DOMAIN lists'[c] : lists'[c][k] = offers[c[2]]
      BY <1>1, <2>3 DEF Informed
    <3>1. ~({c[2]} \X offers[c[2]] \subseteq Registered)
      BY <1>3
    <3>2. PICK j \in DOMAIN lists[c] : lists[c][j] = offers[c[2]]
      BY <1>1, <2>1, <2>3, <3>1 DEF Informed
    <3>3. j # i
      BY <1>3, <3>2
    <3>4. lists'[c] = RemoveAt(lists[c], i) /\ lists[c] \in Seq(SUBSET Names)
      BY <1>1
    <3>5. \E k \in DOMAIN RemoveAt(lists[c], i) : RemoveAt(lists[c], i)[k] = lists[c][j]
      BY <1>1, <3>3, <3>4, RemoveAtKeeps
    <3> QED BY <3>2, <3>4, <3>5
  <2> QED BY <2>2, <2>3
<1>5. AllListen'
  BY <1>1 DEF LoneIsInformed, AllListen, Active
<1>6. AnswersAreCurrent'
  BY <1>1 DEF LoneIsInformed, AnswersAreCurrent, Host
<1> QED BY <1>4, <1>5, <1>6 DEF LoneIsInformed, AllInformed

\* The tables: an entry is of the turn that mounted its server last, and only one is active.
LEMMA TablesByThen ==
  ASSUME CourseInv, CourseInv', LoneHasTables, ~overlapped, overlapped' = overlapped, NEW t \in Turns, NEW reg,
         NEW from \in {"listing", "resources", "prompts"}, at[t] = from, Then(t, reg, from),
         NEW c \in Clients, c = <<t, Host(t)>>, readTool => readTool',
         \A s \in Hosts \ {c[2]} : resources'[s] = resources[s] /\ prompts'[s] = prompts[s],
         from # "listing" => HasResources(c)', from = "prompts" => HasPrompts(c)'
  PROVE  LoneHasTables'
<1>1. /\ OutliveInv /\ MountInv /\ disabled \in [Turns -> SUBSET Ids] /\ at \in [Turns -> At]
      /\ mounted \subseteq Clients /\ \A d \in Clients : d = <<d[1], d[2]>> /\ d[1] \in Turns /\ d[2] \in Hosts
  <2>1. \A d \in Clients : d = <<d[1], d[2]>> /\ d[1] \in Turns /\ d[2] \in Hosts
    BY DEF Clients
  <2> QED BY <2>1 DEF CourseInv, LoneTypes, OutliveInv, MountInv, Shape
<1>2. Active(t) /\ next[t] \in DOMAIN Servers /\ c \notin mounted /\ c[1] = t /\ c[2] = Host(t)
  BY Positions DEF Connecting, Active
<1>3. \/ /\ mounted' = mounted \union {c} /\ at'[t] \in {"running", "opening"}
         /\ from = "listing" => Host(t) \notin Resourceful
         /\ from # "prompts" => Host(t) \notin Prompting
      \/ at'[t] = "resources" /\ UNCHANGED <<mounted, next>>
      \/ /\ at'[t] = "prompts" /\ UNCHANGED <<mounted, next>>
         /\ from = "listing" => Host(t) \notin Resourceful
  <2>1. \/ /\ mounted' = mounted \union {c} /\ Onwards(t, reg)
           /\ from = "listing" => Host(t) \notin Resourceful
           /\ from # "prompts" => Host(t) \notin Prompting
        \/ at' = [at EXCEPT ![t] = "resources"] /\ UNCHANGED <<mounted, next>>
        \/ /\ at' = [at EXCEPT ![t] = "prompts"] /\ UNCHANGED <<mounted, next>>
           /\ from = "listing" => Host(t) \notin Resourceful
    BY <1>1, <1>2, ThenGoes
  <2>2. Onwards(t, reg) => at'[t] \in {"running", "opening"}
    BY <1>1, OnwardsGoes
  <2> QED BY <1>1, <2>1, <2>2
<1>4. \A u \in Turns \ {t} : ~Active(u)'
  BY <1>2, <1>3, Alone DEF CourseInv, OneIsActive, Active
<1>5. ASSUME NEW d \in mounted, d[1] = t PROVE HasResources(d)' /\ HasPrompts(d)'
  <2>1. HasResources(d) /\ HasPrompts(d)
    BY <1>2, <1>5 DEF LoneHasTables
  <2>2. d[2] \in Hosts \ {c[2]}
    BY <1>1, <1>2, <1>5
  <2> QED BY <1>5, <2>1, <2>2 DEF HasResources, HasPrompts
<1>6. c \in mounted' => HasResources(c)' /\ HasPrompts(c)'
  BY <1>2, <1>3 DEF HasResources, HasPrompts
<1>7. ASSUME NEW d \in mounted', Active(d[1])' PROVE HasResources(d)' /\ HasPrompts(d)'
  <2>1. d \in mounted \/ d = c
    BY <1>3
  <2>2. d[1] = t
    BY <1>1, <1>4, <1>7, <2>1
  <2>3. CASE d = c
    BY <1>6, <1>7, <2>3
  <2>4. CASE d \in mounted
    BY <1>5, <2>2, <2>4
  <2> QED BY <2>1, <2>3, <2>4
<1>8. ASSUME NEW u \in Turns, at'[u] = "prompts" PROVE HasResources(<<u, Host(u)>>)'
  <2>1. u = t
    BY <1>4, <1>8 DEF Active
  <2>2. c = <<t, Host(t)'>> /\ HasResources(c)'
    BY <1>2, <1>3, <1>8, <2>1 DEF Host, HasResources
  <2> QED BY <2>1, <2>2 DEF HasResources
<1> QED BY <1>7, <1>8 DEF LoneHasTables

\* A step that leaves the tables, and activates no turn
LEMMA TablesStay ==
  ASSUME CourseInv, LoneHasTables, UNCHANGED <<readTool, resources, prompts, mounted, overlapped>>,
         \A u \in Turns : Active(u)' => Active(u),
         \A u \in Turns : at'[u] = "prompts" => at[u] = "prompts" /\ next'[u] = next[u]
  PROVE  LoneHasTables'
<1>1. \A c \in mounted : c[1] \in Turns
  BY DEF CourseInv, OutliveInv, MountInv, Shape, Clients
<1> QED BY <1>1 DEF LoneHasTables, HasResources, HasPrompts, Active, Host

LEMMA TablesTurn ==
  ASSUME CourseInv, CourseInv', LoneHasTables, NEW t \in Turns, TurnStep(t)
  PROVE  LoneHasTables'
<1> SUFFICES ASSUME ~overlapped' PROVE LoneHasTables'
  BY DEF LoneHasTables
<1>0. /\ MountInv /\ OutliveInv /\ at \in [Turns -> At] /\ \A c \in Clients : c[1] \in Turns
      /\ mounted \subseteq Clients /\ disabled \in [Turns -> SUBSET Ids]
      /\ resources \in [Hosts -> Turns \union {NoTurn}] /\ prompts \in [Hosts -> Turns \union {NoTurn}]
  BY DEF CourseInv, OutliveInv, MountInv, Shape, LoneTypes, Clients
<1>1. CASE Begin(t)
  <2>1. /\ at[t] = "idle" /\ at' = [at EXCEPT ![t] = "opening"] /\ mounted' = mounted
        /\ \A u \in Turns : at[u] \in {"idle", "over"}
    BY <1>1 DEF Begin, client
  <2>2. at'[t] = "opening" /\ \A u \in Turns \ {t} : at'[u] \in {"idle", "over"}
    BY <1>0, <2>1
  <2>3. \A c \in mounted : c[1] # t
    BY <2>1 DEF CourseInv, MountsInOrder, OutliveInv, MountInv, Shape, Clients
  <2> QED BY <1>0, <2>1, <2>2, <2>3 DEF LoneHasTables, Active
<1>2. CASE Opened(t)
  <2>1. at[t] = "opening" /\ at' = [at EXCEPT ![t] = "listing"] /\ UNCHANGED <<shared, next, client, history>>
    BY <1>2 DEF Opened
  <2>2. UNCHANGED <<readTool, resources, prompts, mounted, overlapped>>
    BY <2>1 DEF shared, client, history
  <2>3. at'[t] = "listing" /\ \A u \in Turns \ {t} : at'[u] = at[u]
    BY <1>0, <2>1
  <2> QED BY <2>1, <2>2, <2>3, TablesStay DEF Active
<1>3. CASE Fails(t)
  <2>1. at[t] \in Connecting /\ Onwards(t, Registered) /\ UNCHANGED <<shared, client, history>>
    BY <1>3 DEF Fails, Connecting
  <2>2. UNCHANGED <<readTool, resources, prompts, mounted, overlapped>>
    BY <2>1 DEF shared, client, history
  <2>3. at'[t] \in {"running", "opening"} /\ \A u \in Turns \ {t} : at'[u] = at[u] /\ next'[u] = next[u]
    BY <1>0, <2>1, OnwardsGoes
  <2>4. Active(t)
    BY <2>1 DEF Active, Connecting
  <2> QED BY <2>2, <2>3, <2>4, TablesStay DEF Active
<1>4. CASE Listed(t)
  <2>1. /\ at[t] = "listing" /\ Then(t, Registered \union ({Host(t)} \X seen[t]), "listing")
        /\ UNCHANGED <<readTool, resources, prompts, overlapped>>
    BY <1>4 DEF Listed, history
  <2>2. PICK c \in Clients : c = <<t, Host(t)>>
    BY <2>1, Positions DEF Connecting
  <2> QED BY <2>1, <2>2, TablesByThen
<1>5. CASE ResourcesListed(t)
  <2>1. /\ at[t] = "resources" /\ Then(t, Registered, "resources") /\ readTool' = TRUE
        /\ resources' = [resources EXCEPT ![Host(t)] = t] /\ prompts' = prompts /\ overlapped' = overlapped
    BY <1>5 DEF ResourcesListed, history
  <2>2. Host(t) \in Hosts /\ \E c \in Clients : c = <<t, Host(t)>>
    BY <2>1, Positions DEF Connecting
  <2>3. PICK c \in Clients : c = <<t, Host(t)>>
    BY <2>2
  <2>4. c[1] = t /\ c[2] = Host(t)
    BY <2>3
  <2>5. resources'[c[2]] = c[1] /\ \A s \in Hosts \ {c[2]} : resources'[s] = resources[s]
    BY <1>0, <2>1, <2>2, <2>4
  <2>6. HasResources(c)'
    BY <2>1, <2>5 DEF HasResources
  <2> QED BY <2>1, <2>3, <2>5, <2>6, TablesByThen
<1>6. CASE PromptsListed(t)
  <2>1. /\ at[t] = "prompts" /\ Then(t, Registered, "prompts") /\ readTool' = readTool
        /\ prompts' = [prompts EXCEPT ![Host(t)] = t] /\ resources' = resources /\ overlapped' = overlapped
    BY <1>6 DEF PromptsListed, history
  <2>2. Host(t) \in Hosts /\ \E c \in Clients : c = <<t, Host(t)>>
    BY <2>1, Positions DEF Connecting
  <2>3. PICK c \in Clients : c = <<t, Host(t)>>
    BY <2>2
  <2>4. c[1] = t /\ c[2] = Host(t)
    BY <2>3
  <2>5. prompts'[c[2]] = c[1] /\ \A s \in Hosts \ {c[2]} : prompts'[s] = prompts[s]
    BY <1>0, <2>1, <2>2, <2>4
  <2>6. HasPrompts(c)'
    BY <2>5 DEF HasPrompts
  <2>7. HasResources(c)'
    BY <2>1, <2>3 DEF HasResources, LoneHasTables
  <2> QED BY <2>1, <2>3, <2>5, <2>6, <2>7, TablesByThen
<1>7. CASE End(t)
  <2>1. at[t] = "running" /\ at' = [at EXCEPT ![t] = "over"] /\ mounted' = mounted /\ overlapped' = overlapped
    BY <1>7 DEF End
  <2>2. \A u \in Turns : ~Active(u)'
    BY <1>0, <2>1, Alone DEF Active
  <2> QED BY <1>0, <2>1, <2>2 DEF LoneHasTables, Active
<1> QED BY <1>1, <1>2, <1>3, <1>4, <1>5, <1>6, <1>7 DEF TurnStep

LEMMA TablesStep ==
  CourseInv /\ CourseInv' /\ LoneHasTables /\ [Next]_vars => LoneHasTables'
<1> SUFFICES ASSUME CourseInv, CourseInv', LoneHasTables, [Next]_vars PROVE LoneHasTables' OBVIOUS
<1>1. ASSUME UNCHANGED <<readTool, resources, prompts, mounted, overlapped, at, next>> PROVE LoneHasTables'
  BY <1>1, TablesStay DEF Active
<1>2. CASE \E t \in Turns : TurnStep(t)
  BY <1>2, TablesTurn
<1>3. CASE \E s \in Hosts : Change(s)
  BY <1>1, <1>3 DEF Change, shared, turn, history
<1>4. CASE \E c \in Clients : Notified(c) \/ \E i \in 1 .. MaxChanges : Relisted(c, i)
  BY <1>1, <1>4 DEF Notified, Relisted, turn
<1>5. CASE UNCHANGED vars
  BY <1>1, <1>5 DEF vars, shared, turn, client, history
<1> QED BY <1>2, <1>3, <1>4, <1>5 DEF Next

\* The list of disabled tools is made from all that are registered by then.
LEMMA RestrictedOnwards ==
  ASSUME CourseInv, CourseInv', ~overlapped, overlapped' = overlapped, NEW t \in Turns, Active(t),
         NEW reg, Onwards(t, reg), Registered' \subseteq reg, allowed' = allowed
  PROVE  LoneIsRestricted'
<1>1. /\ \A u \in Turns \ {t} : at'[u] = at[u]
      /\ at'[t] = "running" => disabled'[t] = Disallowed(t, reg)
  BY OnwardsGoes DEF CourseInv, OutliveInv, LoneTypes
<1>2. \A u \in Turns \ {t} : at'[u] # "running"
  BY <1>1, Alone DEF Active
<1>3. ASSUME at'[t] = "running", NEW id \in Registered', id \notin disabled'[t]
      PROVE  id[2] \in allowed'[t][id[1]]
  BY <1>1, <1>3 DEF Disallowed
<1> QED BY <1>2, <1>3 DEF LoneIsRestricted

\* No turn begins to run.
LEMMA RestrictedElse ==
  ASSUME LoneIsRestricted, Registered' = Registered, overlapped' = overlapped, changes' = changes,
         \A u \in Turns : at'[u] = "running" => at[u] = "running" /\ disabled'[u] = disabled[u] /\ allowed'[u] = allowed[u]
  PROVE  LoneIsRestricted'
BY DEF LoneIsRestricted

LEMMA RestrictedByThen ==
  ASSUME CourseInv, CourseInv', ~overlapped, overlapped' = overlapped, NEW t \in Turns,
         NEW reg, NEW from \in {"listing", "resources", "prompts"}, at[t] = from, Then(t, reg, from),
         Registered' \subseteq reg, allowed' = allowed
  PROVE  LoneIsRestricted'
<1>1. Active(t) /\ next[t] \in DOMAIN Servers /\ at \in [Turns -> At] /\ OutliveInv
  BY Positions DEF Connecting, Active, CourseInv, OutliveInv, MountInv, Shape
<1>2. \/ Onwards(t, reg)
      \/ at' = [at EXCEPT ![t] = "resources"]
      \/ at' = [at EXCEPT ![t] = "prompts"]
  BY <1>1, ThenGoes
<1>3. CASE Onwards(t, reg)
  BY <1>1, <1>3, RestrictedOnwards
<1>4. CASE \E to \in {"resources", "prompts"} : at' = [at EXCEPT ![t] = to]
  <2>1. \A u \in Turns : at'[u] # "running"
    BY <1>1, <1>4, Alone DEF Active
  <2> QED BY <2>1 DEF LoneIsRestricted
<1> QED BY <1>2, <1>3, <1>4

LEMMA RestrictedTurn ==
  ASSUME CourseInv, CourseInv', LoneIsRestricted, NEW t \in Turns, TurnStep(t)
  PROVE  LoneIsRestricted'
<1> SUFFICES ASSUME ~overlapped' PROVE LoneIsRestricted'
  BY DEF LoneIsRestricted
<1>0. MountInv /\ at \in [Turns -> At]
  BY DEF CourseInv, OutliveInv, MountInv, Shape
<1>1. CASE Begin(t)
  <2>1. /\ at' = [at EXCEPT ![t] = "opening"]
        /\ \A u \in Turns : at[u] \in {"idle", "over"}
    BY <1>1 DEF Begin
  <2>2. \A u \in Turns : at'[u] # "running"
    BY <1>0, <2>1
  <2> QED BY <2>2 DEF LoneIsRestricted
<1>2. CASE Opened(t)
  <2>1. at' = [at EXCEPT ![t] = "listing"] /\ at[t] = "opening" /\ overlapped' = overlapped
    BY <1>2 DEF Opened, history
  <2>2. \A u \in Turns : at'[u] # "running"
    BY <1>0, <2>1, Alone DEF Active
  <2> QED BY <2>2 DEF LoneIsRestricted
<1>3. CASE Fails(t)
  <2>1. at[t] \in Connecting /\ Onwards(t, Registered) /\ allowed' = allowed /\ UNCHANGED <<shared, history>>
    BY <1>3 DEF Fails, Connecting
  <2>2. Active(t) /\ Registered' = Registered /\ overlapped' = overlapped
    BY <2>1 DEF Active, Connecting, Registered, shared, history
  <2> QED BY <2>1, <2>2, RestrictedOnwards
<1>4. CASE Listed(t)
  <2> DEFINE c == <<t, Host(t)>>
             reg == Registered \union ({Host(t)} \X seen[t])
  <2>1. /\ at[t] = "listing" /\ Register(c, seen[t]) /\ Then(t, reg, "listing")
        /\ allowed' = allowed /\ overlapped' = overlapped
    BY <1>4 DEF Listed, history
  <2>2. c \in Clients /\ seen[t] \in SUBSET Names /\ c[2] = Host(t)
    BY <2>1, Positions DEF Connecting, CourseInv, OutliveInv, MountInv, Shape
  <2>3. Registered' = Registered \union ({c[2]} \X seen[t])
    BY <1>0, <2>1, <2>2, RegisterAdds
  <2>4. Registered' \subseteq reg
    BY <2>2, <2>3
  <2> HIDE DEF reg
  <2> QED BY <2>1, <2>4, RestrictedByThen
<1>5. CASE ResourcesListed(t)
  <2>1. /\ at[t] = "resources" /\ Then(t, Registered, "resources") /\ Registered' = Registered
        /\ allowed' = allowed /\ overlapped' = overlapped
    BY <1>5 DEF ResourcesListed, Registered, history
  <2> QED BY <2>1, RestrictedByThen
<1>6. CASE PromptsListed(t)
  <2>1. /\ at[t] = "prompts" /\ Then(t, Registered, "prompts") /\ Registered' = Registered
        /\ allowed' = allowed /\ overlapped' = overlapped
    BY <1>6 DEF PromptsListed, Registered, history
  <2> QED BY <2>1, RestrictedByThen
<1>7. CASE End(t)
  <2>1. at[t] = "running" /\ at' = [at EXCEPT ![t] = "over"] /\ overlapped' = overlapped
    BY <1>7 DEF End
  <2>2. \A u \in Turns : at'[u] # "running"
    BY <1>0, <2>1, Alone DEF Active
  <2> QED BY <2>2 DEF LoneIsRestricted
<1> QED BY <1>1, <1>2, <1>3, <1>4, <1>5, <1>6, <1>7 DEF TurnStep

LEMMA RestrictedStep ==
  CourseInv /\ CourseInv' /\ LoneIsRestricted /\ [Next]_vars => LoneIsRestricted'
<1> SUFFICES ASSUME CourseInv, CourseInv', LoneIsRestricted, [Next]_vars PROVE LoneIsRestricted' OBVIOUS
<1>1. CASE \E t \in Turns : TurnStep(t)
  BY <1>1, RestrictedTurn
<1>2. ASSUME NEW s \in Hosts, Change(s) PROVE LoneIsRestricted'
  <2>1. changes' # 0
    BY <1>2 DEF Change, CourseInv, LoneTypes
  <2> QED BY <2>1 DEF LoneIsRestricted
<1>3. ASSUME NEW c \in Clients, Notified(c) PROVE LoneIsRestricted'
  <2>1. changes' = changes /\ notes[c] # 0
    BY <1>3 DEF Notified, external, CourseInv, LoneTypes
  <2>2. changes' # 0
    BY <2>1 DEF CourseInv, CalmWithoutChanges
  <2> QED BY <2>2 DEF LoneIsRestricted
<1>4. ASSUME NEW c \in Clients, NEW i \in 1 .. MaxChanges, Relisted(c, i) PROVE LoneIsRestricted'
  <2>1. changes' = changes /\ i \in DOMAIN lists[c]
    BY <1>4 DEF Relisted, external
  <2>2. lists[c] # <<>>
    BY <2>1 DEF CourseInv, OutliveInv, MountInv, Shape
  <2>3. changes' # 0
    BY <2>1, <2>2 DEF CourseInv, CalmWithoutChanges
  <2> QED BY <2>3 DEF LoneIsRestricted
<1>5. CASE UNCHANGED vars
  BY <1>5, RestrictedElse DEF vars, external, shared, turn, history, Registered
<1> QED BY <1>1, <1>2, <1>3, <1>4, <1>5 DEF Next

LEMMA InformedStep ==
  CourseInv /\ CourseInv' /\ LoneIsInformed /\ [Next]_vars => LoneIsInformed'
<1> SUFFICES ASSUME CourseInv, CourseInv', LoneIsInformed, [Next]_vars PROVE LoneIsInformed' OBVIOUS
<1>1. CASE UNCHANGED vars
  <2>1. UNCHANGED <<offers, registry, at, next, seen, hears, notes, lists, mounted, overlapped, missed>>
    BY <1>1 DEF vars, external, shared, turn, client, history
  <2>2. (AllListen => AllListen') /\ (AnswersAreCurrent => AnswersAreCurrent')
    BY <2>1 DEF AllListen, Active, AnswersAreCurrent, Host
  <2>3. AllInformed => AllInformed'
    BY <2>1 DEF AllInformed, Active, Knows, Informed, Host, Registered
  <2> QED BY <2>1, <2>2, <2>3 DEF LoneIsInformed
<1>2. CASE Next
  BY <1>2, InformedTurn, InformedChange, InformedNotified, InformedRelisted DEF Next
<1> QED BY <1>1, <1>2

\* While turns do not overlap, a running one has the tools its servers offer, as soon as it has
\* heard of them, and their resources and prompts: for any servers, tools and changes.  Until the
\* first change of a list it may use only those its chat allows; nothing is said of that after
\* one.  The excuses are the property's own: a notification or a listing under way, or one that
\* was missed; what turns that are over have left in the registry is no excuse.
THEOREM LoneTurnIsServed == Spec => []LoneTurnHasItsTools
<1> DEFINE LoneInv == CourseInv /\ LoneIsInformed /\ LoneHasTables /\ LoneIsRestricted
<1>1. Init => LoneInv
  <2> SUFFICES ASSUME Init PROVE LoneInv OBVIOUS
  <2>1. CourseInv BY CourseInit
  <2>2. LoneIsInformed
    <3>1. mounted = {} /\ at = [t \in Turns |-> "idle"] /\ \A c \in Clients : c[1] \in Turns
      BY DEF Init, Clients
    <3> QED BY <3>1 DEF LoneIsInformed, AllListen, AllInformed, AnswersAreCurrent, Active
  <2>3. LoneHasTables BY DEF Init, LoneHasTables
  <2>4. LoneIsRestricted BY DEF Init, LoneIsRestricted
  <2> QED BY <2>1, <2>2, <2>3, <2>4
<1>2. LoneInv /\ [Next]_vars => LoneInv'
  <2>1. LoneInv /\ [Next]_vars => CourseInv'
    BY CourseStep
  <2> QED BY <2>1, InformedStep, TablesStep, RestrictedStep
<1>3. LoneInv => LoneTurnHasItsTools
  <2> SUFFICES ASSUME LoneInv, ~overlapped PROVE LoneTurnHasItsTools
    BY DEF LoneTurnHasItsTools
  <2>1. \A c \in mounted : c \in Clients
    BY DEF CourseInv, OutliveInv, MountInv, Shape
  <2>2. ASSUME NEW c \in mounted, at[c[1]] = "running", notes[c] = 0, lists[c] = <<>>, c \notin missed,
               NEW n \in offers[c[2]]
        PROVE  <<c[2], n>> \in Registered
    <3>1. Informed(c)
      BY <2>1, <2>2 DEF LoneIsInformed, AllInformed, Active, Knows
    <3>2. {c[2]} \X offers[c[2]] \subseteq Registered
      BY <2>2, <3>1 DEF Informed
    <3> QED BY <3>2
  <2>3. \A c \in mounted : at[c[1]] = "running" => HasResources(c) /\ HasPrompts(c)
    BY DEF LoneHasTables, Active
  <2> QED BY <2>2, <2>3 DEF LoneTurnHasItsTools, HasResources, HasPrompts, LoneIsRestricted
<1> QED BY <1>1, <1>2, <1>3, PTL DEF Spec
=============================================================================
