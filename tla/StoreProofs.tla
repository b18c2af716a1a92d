----------------------------- MODULE StoreProofs -----------------------------
(***************************************************************************)
(* Theorems about the chat store, for any number of sends, loads and chats *)
(* that overlap; about the settings page, for any number of providers and  *)
(* of operations that overlap; and about the runner of quizzes, for any    *)
(* number of calls, quizzes, questions and attempts.                       *)
(***************************************************************************)
EXTENDS ChatStore, ProviderForm, Quizzes, FiniteSetTheorems, TLAPS

Card == [turn : Sends, id : CardIds, listens : Sends \union {NoSend}]

QueueTypes == sendAt \in [Sends -> Awaits] /\ cards \in Seq(Card) /\ controller \in Sends \union {NoSend}

\* A card is of a turn that waits, and a turn has one card at most.
CardsWait == \A card \in Queued : sendAt[card.turn] = "waiting"
OneCard == \A card, other \in Queued : card.turn = other.turn => card = other

\* What a step does to the turns that wait and have no card after it.
KeepsCards ==
  \A t \in Sends : sendAt'[t] = "waiting" /\ ~HasCard(t)' =>
    sendAt[t] = "waiting" /\ (HasCard(t) => TwinAnswered(t))

StoreInv == QueueTypes /\ CardsWait /\ OneCard /\ RestIsClean

-----------------------------------------------------------------------------
(* The queue of cards.                                                     *)

LEMMA QueuedIs == Queued = {cards[i] : i \in DOMAIN cards}
BY DEF Queued, ToSet

\* The n-th element of a finite set of naturals exists and is one.
LEMMA NthIsOne ==
  ASSUME NEW m \in Nat, NEW K \in SUBSET (1..m)
  PROVE  /\ IsFiniteSet(K) /\ Cardinality(K) \in Nat
         /\ \A i \in K : Cardinality(K \cap (1..i)) \in 1..Cardinality(K)
         /\ \A i, j \in K : Cardinality(K \cap (1..i)) = Cardinality(K \cap (1..j)) => i = j
         /\ \A n \in 1..Cardinality(K) : \E i \in K : Cardinality(K \cap (1..i)) = n
<1>1. IsFiniteSet(1..m)
  BY FS_Interval
<1>2. IsFiniteSet(K) /\ Cardinality(K) \in Nat
  BY <1>1, FS_Subset, FS_CardinalityType
<1> DEFINE upTo(i) == K \cap (1..i)
<1>3. \A i \in K : IsFiniteSet(upTo(i)) /\ Cardinality(upTo(i)) \in Nat
                   /\ Cardinality(upTo(i)) <= Cardinality(K)
  <2> TAKE i \in K
  <2>1. upTo(i) \in SUBSET K
    OBVIOUS
  <2> QED
    BY <1>2, <2>1, FS_Subset, FS_CardinalityType
<1>4. ASSUME NEW i \in K PROVE Cardinality(upTo(i)) \in 1..Cardinality(K)
  <2>1. i \in upTo(i)
    OBVIOUS
  <2>2. Cardinality(upTo(i)) # 0
    BY <1>3, <2>1, FS_EmptySet
  <2> QED
    BY <1>2, <1>3, <2>2
<1>5. ASSUME NEW i \in K, NEW j \in K, i < j
      PROVE  Cardinality(upTo(i)) # Cardinality(upTo(j))
  <2>1. upTo(i) \in SUBSET upTo(j) /\ j \in upTo(j) /\ j \notin upTo(i)
    BY <1>5
  <2>2. IsFiniteSet(upTo(j))
    BY <1>3
  <2> HIDE DEF upTo
  <2> QED
    BY <2>1, <2>2, FS_Subset
<1>6. \A i, j \in K : Cardinality(upTo(i)) = Cardinality(upTo(j)) => i = j
  <2> SUFFICES ASSUME NEW i \in K, NEW j \in K, i # j
               PROVE  Cardinality(upTo(i)) # Cardinality(upTo(j))
    OBVIOUS
  <2>1. i < j \/ j < i
    OBVIOUS
  <2> HIDE DEF upTo
  <2> QED
    BY <1>5, <2>1
<1>7. \A n \in 1..Cardinality(K) : \E i \in K : Cardinality(upTo(i)) = n
  <2> DEFINE f == [i \in K |-> Cardinality(upTo(i))]
  <2> HIDE DEF upTo
  <2>1. f \in Injection(K, 1..Cardinality(K))
    BY <1>4, <1>6 DEF Injection, IsInjective
  <2>2. IsFiniteSet(1..Cardinality(K)) /\ Cardinality(1..Cardinality(K)) = Cardinality(K)
    BY <1>2, FS_Interval
  <2>3. f \in Surjection(K, 1..Cardinality(K))
    BY <2>1, <2>2, FS_Injection
  <2> QED
    BY <2>3 DEF Surjection
<1> HIDE DEF upTo
<1>8. /\ \A i \in K : Cardinality(upTo(i)) \in 1..Cardinality(K)
  BY <1>4
<1> QED
  BY <1>2, <1>6, <1>7, <1>8 DEF upTo

\* What stays in the queue is what is not to go.
LEMMA WithoutIs ==
  ASSUME NEW gone, cards \in Seq(Card), cards' = Without(gone)
  PROVE  cards' \in Seq(Card) /\ Queued' = Queued \ gone
<1> DEFINE stay == {i \in DOMAIN cards : cards[i] \notin gone}
           nth(n) == CHOOSE i \in stay : Cardinality(stay \cap (1..i)) = n
<1>1. stay \in SUBSET (1..Len(cards)) /\ Len(cards) \in Nat
  OBVIOUS
<1> HIDE DEF stay
<1>2. /\ Cardinality(stay) \in Nat
      /\ \A i \in stay : Cardinality(stay \cap (1..i)) \in 1..Cardinality(stay)
      /\ \A i, j \in stay : Cardinality(stay \cap (1..i)) = Cardinality(stay \cap (1..j)) => i = j
      /\ \A n \in 1..Cardinality(stay) : \E i \in stay : Cardinality(stay \cap (1..i)) = n
  BY <1>1, NthIsOne
<1>3. cards' = [n \in 1..Cardinality(stay) |-> cards[nth(n)]]
  BY DEF Without, stay
<1>4. \A n \in 1..Cardinality(stay) : nth(n) \in stay
  BY <1>2
<1>5. \A i \in stay : nth(Cardinality(stay \cap (1..i))) = i
  BY <1>2
<1> HIDE DEF nth
<1>6. \A i \in stay : i \in DOMAIN cards /\ cards[i] \in Card /\ cards[i] \notin gone
  BY DEF stay
<1>7. cards' \in Seq(Card) /\ DOMAIN cards' = 1..Cardinality(stay)
  BY <1>2, <1>3, <1>4, <1>6
<1>8. Queued' = {cards'[n] : n \in 1..Cardinality(stay)}
  BY <1>7 DEF Queued, ToSet
<1>9. ASSUME NEW card \in Queued' PROVE card \in Queued \ gone
  BY <1>3, <1>4, <1>6, <1>8, <1>9, QueuedIs
<1>10. ASSUME NEW card \in Queued \ gone PROVE card \in Queued'
  <2>1. PICK i \in DOMAIN cards : cards[i] = card
    BY QueuedIs
  <2>2. i \in stay
    BY <2>1 DEF stay
  <2>3. cards'[Cardinality(stay \cap (1..i))] = card
    BY <1>2, <1>3, <1>5, <2>1, <2>2
  <2> QED
    BY <1>2, <1>8, <2>2, <2>3
<1> QED
  BY <1>7, <1>9, <1>10

\* No card is in an empty queue, and only in that one.
LEMMA NobodyQueued ==
  ASSUME NEW s \in Seq(Card)
  PROVE  s = <<>> <=> ToSet(s) = {}
<1>1. ASSUME s # <<>> PROVE s[1] \in ToSet(s)
  <2>1. 1 \in DOMAIN s
    BY <1>1
  <2> QED
    BY <2>1 DEF ToSet
<1>2. ASSUME s = <<>> PROVE ToSet(s) = {}
  <2>1. DOMAIN s = {}
    BY <1>2
  <2> QED
    BY <2>1 DEF ToSet
<1> QED
  BY <1>1, <1>2

LEMMA CardsAre ==
  ASSUME cards \in Seq(Card)
  PROVE  \A card \in Queued : card \in Card /\ card.turn \in Sends
<1>1. \A i \in DOMAIN cards : cards[i] \in Card
  OBVIOUS
<1> QED
  BY <1>1, QueuedIs DEF Card

-----------------------------------------------------------------------------
(* What a step does to the queue and to the turns.                         *)

\* A turn that neither waits nor begins to wait moves, and no card is touched.
LEMMA OneMoves ==
  ASSUME StoreInv, NEW t \in Sends, NEW from \in Awaits \ {"waiting"}, NEW to \in Awaits \ {"waiting"},
         Goes(t, from, to), cards' = cards, controller' \in Sends \union {NoSend}
  PROVE  QueueTypes' /\ CardsWait' /\ OneCard' /\ KeepsCards
<1>1. /\ sendAt \in [Sends -> Awaits] /\ cards \in Seq(Card) /\ sendAt[t] = from
      /\ sendAt' = [sendAt EXCEPT ![t] = to] /\ Queued' = Queued
  BY DEF StoreInv, QueueTypes, Goes, Queued
<1>2. sendAt'[t] = to /\ \A u \in Sends \ {t} : sendAt'[u] = sendAt[u]
  BY <1>1
<1>3. \A card \in Queued : card.turn \in Sends
  BY <1>1, CardsAre
<1>4. QueueTypes'
  BY <1>1 DEF StoreInv, QueueTypes
<1>5. CardsWait' /\ OneCard'
  BY <1>1, <1>2, <1>3 DEF StoreInv, CardsWait, OneCard
<1>6. KeepsCards
  BY <1>1, <1>2 DEF KeepsCards, HasCard
<1> QED
  BY <1>4, <1>5, <1>6

\* Cards go, those that are answered among them.
LEMMA Settled ==
  ASSUME StoreInv, NEW gone \in SUBSET Queued, NEW answered \in SUBSET gone,
         Settle(answered, gone), controller' \in Sends \union {NoSend}
  PROVE  /\ QueueTypes' /\ CardsWait' /\ OneCard'
         /\ \A t \in Sends : sendAt'[t] = "waiting" /\ ~HasCard(t)' =>
              sendAt[t] = "waiting" /\ (HasCard(t) => \E card \in gone \ answered : card.turn = t)
         /\ \A card \in answered : sendAt'[card.turn] = "running"
         /\ Queued' \subseteq Queued
         /\ \A t \in Sends : sendAt'[t] = sendAt[t] \/ (sendAt[t] = "waiting" /\ sendAt'[t] = "running")
<1>1. sendAt \in [Sends -> Awaits] /\ cards \in Seq(Card)
  BY DEF StoreInv, QueueTypes
<1>2. cards' \in Seq(Card) /\ Queued' = Queued \ gone
  BY <1>1, WithoutIs DEF Settle
<1>3. \A card \in Queued : card.turn \in Sends /\ sendAt[card.turn] = "waiting"
  BY <1>1, CardsAre DEF StoreInv, CardsWait
<1>4. \A t \in Sends : sendAt'[t] = IF \E card \in answered : card.turn = t THEN "running" ELSE sendAt[t]
  BY DEF Settle
<1>5. \A t \in Sends : sendAt'[t] = sendAt[t] \/ (sendAt[t] = "waiting" /\ sendAt'[t] = "running")
  BY <1>3, <1>4
<1>6. sendAt' \in [Sends -> Awaits]
  <2>1. \A t \in Sends : sendAt'[t] \in Awaits
    BY <1>1, <1>5 DEF Awaits
  <2> QED
    BY <2>1 DEF Settle
<1>7. CardsWait'
  BY <1>2, <1>3, <1>4 DEF StoreInv, OneCard, CardsWait
<1>8. OneCard'
  BY <1>2 DEF StoreInv, OneCard
<1>9. ASSUME NEW t \in Sends, sendAt'[t] = "waiting", ~HasCard(t)'
      PROVE  sendAt[t] = "waiting" /\ (HasCard(t) => \E card \in gone \ answered : card.turn = t)
  <2>1. sendAt[t] = "waiting" /\ ~\E card \in answered : card.turn = t
    BY <1>4, <1>5, <1>9
  <2>2. ASSUME NEW card \in Queued, card.turn = t PROVE card \in gone \ answered
    BY <1>2, <1>9, <2>1, <2>2 DEF HasCard
  <2> QED
    BY <2>1, <2>2 DEF HasCard
<1>10. \A card \in answered : sendAt'[card.turn] = "running"
  BY <1>3, <1>4
<1> QED
  BY <1>2, <1>5, <1>6, <1>7, <1>8, <1>9, <1>10 DEF QueueTypes

LEMMA StoreInvInit == StoreInit => StoreInv
<1> SUFFICES ASSUME StoreInit PROVE StoreInv
  OBVIOUS
<1>1. QueueTypes
  BY DEF StoreInit, QueueTypes, Awaits
<1>2. Queued = {}
  BY QueuedIs DEF StoreInit
<1>3. RestIsClean
  BY DEF StoreInit, RestIsClean
<1> QED
  BY <1>1, <1>2, <1>3 DEF StoreInv, CardsWait, OneCard

\* The steps of a turn that leave the queue alone.
Quietly(t) ==
  \/ UserStored(t) \/ UserShown(t) \/ BeginStreaming(t) \/ Prepared(t) \/ Unprepared(t)
  \/ ReplyStored(t) \/ ReplyShown(t) \/ AskStored(t) \/ AskShown(t)
  \/ TurnOver(t) \/ InterruptedStored(t) \/ InterruptedShown(t)

LEMMA QuietSteps ==
  ASSUME StoreInv, NEW t \in Sends, Send(t) \/ Quietly(t)
  PROVE  StoreInv' /\ KeepsCards
<1> USE DEF storeVars
<1>1. /\ cards' = cards /\ controller' \in Sends \union {NoSend}
      /\ \E from, to \in Awaits \ {"waiting"} : Goes(t, from, to)
  BY DEF StoreInv, QueueTypes, Quietly, Send, UserStored, UserShown, BeginStreaming, Prepared, Unprepared,
         ReplyStored, ReplyShown, AskStored, AskShown, TurnOver, InterruptedStored,
         InterruptedShown, Awaits
<1>2. QueueTypes' /\ CardsWait' /\ OneCard' /\ KeepsCards
  BY <1>1, OneMoves
<1>3. sendAt \in [Sends -> Awaits] /\ cards \in Seq(Card)
  BY DEF StoreInv, QueueTypes
<1>4. CASE Send(t) \/ UserStored(t) \/ UserShown(t)
  <2>1. Live' = Live /\ UNCHANGED <<streaming, controller, buffer, cards>>
    BY <1>3, <1>4 DEF Send, UserStored, UserShown, Goes, Live, Awaits
  <2> QED
    BY <1>2, <2>1 DEF StoreInv, RestIsClean
<1>5. CASE InterruptedShown(t)
  <2>1. ASSUME Live' = {} PROVE Queued = {}
    <3>1. \A card \in Queued : card.turn \in Sends /\ sendAt[card.turn] = "waiting"
      BY <1>3, CardsAre DEF StoreInv, CardsWait
    <3>2. \A u \in Sends : sendAt[u] # "waiting"
      BY <1>3, <1>5, <2>1 DEF InterruptedShown, Goes, Live, Awaits
    <3> QED
      BY <3>1, <3>2
  <2>2. RestIsClean'
    BY <1>1, <1>3, <1>5, <2>1, NobodyQueued DEF RestIsClean, InterruptedShown, Queued
  <2> QED
    BY <1>2, <2>2 DEF StoreInv
<1>6. CASE Quietly(t) /\ ~UserStored(t) /\ ~UserShown(t) /\ ~InterruptedShown(t)
  <2>1. sendAt'[t] \in Awaits \ {"new", "storing", "entering", "touching", "done"}
    BY <1>3, <1>6 DEF Quietly, Goes, BeginStreaming, Prepared, Unprepared, ReplyStored, ReplyShown,
                      AskStored, AskShown, TurnOver, InterruptedStored, Awaits
  <2>2. t \in Live'
    BY <2>1 DEF Live
  <2> QED
    BY <1>2, <2>2 DEF StoreInv, RestIsClean
<1> QED
  BY <1>4, <1>5, <1>6

LEMMA CardQueuedStep ==
  ASSUME StoreInv, NEW t \in Sends, CardQueued(t)
  PROVE  StoreInv' /\ KeepsCards
<1>0. PICK id \in CardIds : cards' = Append(cards,
        [turn |-> t, id |-> id, listens |-> IF controller \in aborted THEN NoSend ELSE controller])
  BY DEF CardQueued
<1> DEFINE card == [turn |-> t, id |-> id, listens |-> IF controller \in aborted THEN NoSend ELSE controller]
<1>1. /\ sendAt \in [Sends -> Awaits] /\ cards \in Seq(Card) /\ card \in Card
      /\ controller \in Sends \union {NoSend}
  BY DEF StoreInv, QueueTypes, Card
<1>2. sendAt[t] = "queueing" /\ sendAt' = [sendAt EXCEPT ![t] = "waiting"] /\ cards' = Append(cards, card)
      /\ UNCHANGED <<streaming, controller, buffer>>
  BY <1>0 DEF CardQueued, Goes
<1> HIDE DEF card
<1>3. cards' \in Seq(Card) /\ Queued' = Queued \union {card}
  BY <1>1, <1>2, QueuedIs DEF Queued, ToSet
<1>4. \A other \in Queued : other.turn \in Sends /\ other.turn # t /\ sendAt[other.turn] = "waiting"
  BY <1>1, <1>2, CardsAre DEF StoreInv, CardsWait
<1>5. card.turn = t
  BY DEF card
<1>6. sendAt' \in [Sends -> Awaits] /\ sendAt'[t] = "waiting" /\ \A u \in Sends \ {t} : sendAt'[u] = sendAt[u]
  BY <1>1, <1>2 DEF Awaits
<1>7. QueueTypes' /\ CardsWait' /\ OneCard'
  BY <1>1, <1>2, <1>3, <1>4, <1>5, <1>6 DEF StoreInv, QueueTypes, CardsWait, OneCard
<1>8. KeepsCards
  <2>1. \A u \in Sends : HasCard(u) \/ u = t => HasCard(u)'
    BY <1>3, <1>5 DEF HasCard
  <2> QED
    BY <1>6, <2>1 DEF KeepsCards
<1>9. t \in Live'
  BY <1>6 DEF Live, Awaits
<1> QED
  BY <1>7, <1>8, <1>9 DEF StoreInv, RestIsClean

\* The last one to leave resets the store, and answers every card.
LEMMA FinallyStep ==
  ASSUME StoreInv, NEW t \in Sends, Finally(t)
  PROVE  StoreInv' /\ KeepsCards
<1> DEFINE rescue == controller \in aborted /\ buffer # NoSend
<1>1. /\ sendAt \in [Sends -> Awaits] /\ cards \in Seq(Card) /\ cards' = <<>> /\ sendAt[t] = "leaving"
      /\ controller \in Sends \union {NoSend}
  BY DEF StoreInv, QueueTypes, Finally
<1>2. Queued' = {}
  BY <1>1 DEF Queued, ToSet
<1>3. /\ sendAt' = [u \in Sends |->
                 IF u = t THEN IF rescue THEN "interrupting" ELSE "done"
                 ELSE IF \E card \in Queued : card.turn = u THEN "running" ELSE sendAt[u]]
      /\ ~rescue => streaming' = FALSE /\ buffer' = NoSend /\ controller' = NoSend
      /\ rescue => controller' = controller
  BY DEF Finally
<1>4. sendAt' \in [Sends -> Awaits]
  BY <1>1, <1>3 DEF Awaits
<1>5. KeepsCards
  <2>1. \A u \in Sends : sendAt'[u] = "waiting" => sendAt[u] = "waiting" /\ ~HasCard(u)
    BY <1>1, <1>3 DEF HasCard
  <2> QED
    BY <2>1 DEF KeepsCards
<1>6. rescue => t \in Live'
  BY <1>3 DEF Live, Awaits
<1> HIDE DEF rescue
<1>7. QueueTypes' /\ CardsWait' /\ OneCard'
  BY <1>1, <1>2, <1>3, <1>4 DEF QueueTypes, CardsWait, OneCard
<1>8. RestIsClean'
  BY <1>1, <1>3, <1>6 DEF RestIsClean
<1> QED
  BY <1>5, <1>7, <1>8 DEF StoreInv

LEMMA SettlingSteps ==
  ASSUME StoreInv, NEW gone \in SUBSET Queued, NEW answered \in SUBSET gone,
         Settle(answered, gone), controller' = controller,
         UNCHANGED <<streaming, buffer>> \/ (streaming' = FALSE /\ buffer' = NoSend)
  PROVE  /\ StoreInv'
         /\ \A t \in Sends : sendAt'[t] = "waiting" /\ ~HasCard(t)' =>
              sendAt[t] = "waiting" /\ (HasCard(t) => \E card \in gone \ answered : card.turn = t)
         /\ \A card \in answered : sendAt'[card.turn] = "running"
<1>1. controller' \in Sends \union {NoSend}
  BY DEF StoreInv, QueueTypes
<1>2. /\ QueueTypes' /\ CardsWait' /\ OneCard'
      /\ \A t \in Sends : sendAt'[t] = "waiting" /\ ~HasCard(t)' =>
           sendAt[t] = "waiting" /\ (HasCard(t) => \E card \in gone \ answered : card.turn = t)
      /\ \A card \in answered : sendAt'[card.turn] = "running"
      /\ Queued' \subseteq Queued
      /\ \A t \in Sends : sendAt'[t] = sendAt[t] \/ (sendAt[t] = "waiting" /\ sendAt'[t] = "running")
  BY <1>1, Settled
<1>3. Live' = Live
  BY <1>2 DEF Live, Awaits
<1>4. cards = <<>> => cards' = <<>>
  <2>1. cards \in Seq(Card) /\ cards' \in Seq(Card)
    BY <1>2 DEF StoreInv, QueueTypes
  <2>2. (Queued = {} <=> cards = <<>>) /\ (Queued' = {} <=> cards' = <<>>)
    BY <2>1, NobodyQueued DEF Queued
  <2> QED
    BY <1>2, <2>2
<1> QED
  BY <1>2, <1>3, <1>4 DEF StoreInv, RestIsClean

LEMMA StoreInvStep ==
  ASSUME StoreInv, [StoreNext]_chatVars
  PROVE  StoreInv' /\ KeepsCards
<1> USE DEF chatVars, storeVars, turnVars
<1>1. CASE Stop \/ \E l \in Loads, c \in Chats : Load(l, c)
  <2> DEFINE heard == {card \in Queued : controller # NoSend /\ card.listens = controller}
  <2>1. /\ Settle(heard, heard) /\ controller' = controller
        /\ UNCHANGED <<streaming, buffer>> \/ (streaming' = FALSE /\ buffer' = NoSend)
    BY <1>1 DEF Stop, Load, Abort
  <2>2. heard \in SUBSET Queued
    OBVIOUS
  <2> QED
    BY <2>1, <2>2, SettlingSteps DEF KeepsCards
<1>2. ASSUME NEW i \in 1..Cardinality(Sends), Decide(i) PROVE StoreInv' /\ KeepsCards
  <2> DEFINE gone == {card \in Queued : card.id = cards[i].id}
  <2>1. /\ {cards[i]} \in SUBSET gone /\ gone \in SUBSET Queued
        /\ Settle({cards[i]}, gone) /\ UNCHANGED <<streaming, buffer, controller>>
    BY <1>2, QueuedIs DEF Decide
  <2>2. /\ StoreInv'
        /\ \A t \in Sends : sendAt'[t] = "waiting" /\ ~HasCard(t)' =>
             sendAt[t] = "waiting" /\ (HasCard(t) => \E card \in gone \ {cards[i]} : card.turn = t)
        /\ sendAt'[cards[i].turn] = "running"
    BY <2>1, SettlingSteps
  <2>3. ASSUME NEW card \in gone \ {cards[i]} PROVE TwinAnswered(card.turn)
    <3>1. PICK j \in DOMAIN cards : cards[j] = card
      BY QueuedIs
    <3>2. i \in DOMAIN cards /\ DOMAIN cards = 1..Len(cards) /\ Len(cards) \in Nat
          /\ (\A k \in 1..(i - 1) : cards[k].id # cards[i].id)
      BY <1>2 DEF Decide, StoreInv, QueueTypes
    <3>3. i < j
      BY <3>1, <3>2
    <3> QED
      BY <2>2, <3>1, <3>2, <3>3 DEF TwinAnswered
  <2> HIDE DEF gone
  <2> QED
    BY <2>2, <2>3 DEF KeepsCards
<1>3. ASSUME UNCHANGED <<streaming, controller, cards, sendAt>>,
             UNCHANGED buffer \/ \E t \in Sends : sendAt[t] = "running"
      PROVE  StoreInv' /\ KeepsCards
  <2>1. Queued' = Queued /\ Live' = Live
    BY <1>3 DEF Queued, Live
  <2>2. QueueTypes' /\ CardsWait' /\ OneCard' /\ KeepsCards
    BY <1>3, <2>1 DEF StoreInv, QueueTypes, CardsWait, OneCard, KeepsCards, HasCard
  <2>3. \A t \in Sends : sendAt[t] = "running" => t \in Live
    BY DEF Live, Awaits
  <2>4. RestIsClean'
    BY <1>3, <2>1, <2>3 DEF StoreInv, RestIsClean
  <2> QED
    BY <2>2, <2>4 DEF StoreInv
<1>4. CASE \E l \in Loads : LoadReads(l) \/ LoadShows(l)
  BY <1>3, <1>4 DEF LoadReads, LoadShows
<1>5. CASE \E t \in Sends : Delta(t)
  BY <1>3, <1>5 DEF Delta
<1>6. CASE UNCHANGED chatVars
  BY <1>3, <1>6
<1>7. CASE \E t \in Sends : Send(t) \/ Sending(t)
  BY <1>7, QuietSteps, CardQueuedStep, FinallyStep DEF Sending, Quietly
<1> QED
  BY <1>1, <1>2, <1>4, <1>5, <1>6, <1>7 DEF StoreNext

\* chat.svelte.ts:797: whoever is the last of several sends to come back leaves the store as
\* one at rest.
THEOREM RestsClean == StoreSpec => []RestIsClean
<1>1. StoreInv /\ [StoreNext]_chatVars => StoreInv'
  BY StoreInvStep
<1>2. StoreInv => RestIsClean
  BY DEF StoreInv
<1> QED
  BY <1>1, <1>2, StoreInvInit, PTL DEF StoreSpec

\* chat.svelte.ts:1125, 1134: whatever sends, loads, stops and answers overlap, a turn that waits
\* for an approval loses its card in one way alone, when an earlier card with the same id is
\* answered.
THEOREM OnlyTwinsOrphan == StoreSpec => OnlyATwinOrphans
<1>1. StoreInv /\ [StoreNext]_chatVars => StoreInv' /\ [KeepsCards]_chatVars
  BY StoreInvStep
<1> QED
  BY <1>1, StoreInvInit, PTL DEF StoreSpec, OnlyATwinOrphans, KeepsCards

-----------------------------------------------------------------------------
(* The settings page of providers.                                         *)

Conf == [Provs -> Models \union {NoModel}]
Op == [at : {"idle", "save", "activate", "point", "key", "clear", "remove", "refresh", "test"},
       prov : Provs \union {NoProv}, old : Models \union {NoModel}, list : SUBSET Provs, conf : Conf,
       after : {"none", "added", "removed"}]

Shows ==
  [list : SUBSET Provs, conf : Conf, active : Provs \union {NoProv},
   flags : SUBSET (Provs \union {NoProv})]

FormTypes ==
  /\ screen \in Shows
  /\ keyed \subseteq Provs \union {NoProv} /\ ops \in [Ops -> Op]
  /\ passed \subseteq Ops /\ \A j \in Ops : <<j, j>> \notin earlier

Saves(j) == ops[j].at = "save"
Adding(j) == Saves(j) /\ ops[j].after = "added"
Removing(j) == Saves(j) /\ ops[j].after = "removed"

\* Operations of several steps, of which one is under way while nothing is tangled
Several(j) == Adding(j) \/ Removing(j) \/ ops[j].at \in {"activate", "point", "key", "clear", "remove"}
OneOfSeveral == \A j, k \in Ops : Several(j) /\ Several(k) => j = k

\* The write of the list that was asked for last is under way and writes what is shown, or
\* it is over and those under way were passed by it.
LastIsShown ==
  \/ /\ \A j \in Ops : Saves(j) => j \in passed
     /\ saved = [list |-> screen.list, conf |-> screen.conf] \/ "providers" \in unsaved
  \/ \E j \in Ops : /\ Saves(j) /\ ops[j].list = screen.list /\ ops[j].conf = screen.conf
                    /\ \A k \in Ops \ {j} : Saves(k) => <<k, j>> \in earlier
                    /\ j \notin passed /\ \A k \in Ops : <<j, k>> \notin earlier

\* The provider whose removal is not through yet
Leaving(j) == IF Removing(j) THEN {ops[j].prov} ELSE {}

\* What an operation is about to do, when it is the one of several steps
Phase(j) ==
  /\ ops[j].at \in {"activate", "key", "clear"} \/ Adding(j) => ops[j].prov \in screen.list
  /\ Removing(j) => ops[j].list = screen.list /\ ops[j].prov \notin screen.list
  /\ IF ops[j].at = "point" THEN screen.active = ops[j].prov
     ELSE pointed = screen.active \/ "active" \in unsaved
  /\ screen.active \in screen.list \union {NoProv} \union Leaving(j)
  /\ keyed = screen.flags \ Leaving(j) /\ keyed \subseteq screen.list

Phases == \A j \in Ops : (\A k \in Ops \ {j} : ~Several(k)) => Phase(j)

FormInv ==
  /\ FormTypes /\ screen.list = wanted /\ LastIsShown
  /\ ~tangled => OneOfSeveral /\ Phases

-----------------------------------------------------------------------------

USE DEF Shows

LEMMA WaitsIsOp == Waits \in Op /\ Waits.at = "idle" /\ NoConf \in Conf
BY DEF Waits, Op, NoConf, Conf

LEMMA SaveIsOp ==
  ASSUME NEW shown, shown.list \in SUBSET Provs, shown.conf \in Conf,
         NEW after \in {"none", "added", "removed"}, NEW p \in Provs \union {NoProv}
  PROVE  LET op == Save(shown, after, p) IN
         /\ op \in Op /\ op.at = "save" /\ op.list = shown.list /\ op.conf = shown.conf
         /\ op.after = after /\ op.prov = p
BY WaitsIsOp DEF Save, Waits, Op

LEMMA ProceedsGoes ==
  ASSUME ops \in [Ops -> Op], NEW j \in Ops, NEW op \in Op, Proceeds(j, op)
  PROVE  /\ ops' \in [Ops -> Op] /\ ops'[j] = op /\ \A k \in Ops \ {j} : ops'[k] = ops[k]
         /\ \A i, k \in Ops \ {j} : <<i, k>> \in earlier' <=> <<i, k>> \in earlier
         /\ \A k \in Ops : <<j, k>> \notin earlier'
         /\ \A k \in Ops \ {j} : Saves(k) => (<<k, j>> \in earlier' <=> op.at = "save")
         /\ passed' = (passed \ {j}) \union {k \in Ops : <<k, j>> \in earlier}
<1> DEFINE others == {k \in Ops \ {j} : Kind(op.at) # "none" /\ Kind(ops[k].at) = Kind(op.at)}
           stays == {pair \in earlier : j \notin {pair[1], pair[2]}}
<1>1. /\ ops' = [ops EXCEPT ![j] = op]
      /\ earlier' = stays \union {<<k, j>> : k \in others}
      /\ passed' = (passed \ {j}) \union {k \in Ops : <<k, j>> \in earlier}
  BY DEF Proceeds
<1>2. ops' \in [Ops -> Op] /\ ops'[j] = op /\ \A k \in Ops \ {j} : ops'[k] = ops[k]
  BY <1>1
<1>3. ASSUME NEW i \in Ops, NEW k \in Ops
      PROVE  <<i, k>> \in earlier' <=> \/ i # j /\ k # j /\ <<i, k>> \in earlier
                                       \/ k = j /\ i \in others
  <2>1. <<i, k>>[1] = i /\ <<i, k>>[2] = k OBVIOUS
  <2>2. <<i, k>> \in stays <=> i # j /\ k # j /\ <<i, k>> \in earlier
    BY <2>1
  <2>3. <<i, k>> \in {<<n, j>> : n \in others} <=> k = j /\ i \in others
    OBVIOUS
  <2> HIDE DEF stays, others
  <2> QED BY <1>1, <2>2, <2>3
<1>4. ASSUME NEW k \in Ops \ {j}, Saves(k) PROVE k \in others <=> op.at = "save"
  <2>1. Kind(ops[k].at) = "providers"
    BY <1>4 DEF Kind, Saves
  <2>2. Kind(op.at) = "providers" <=> op.at = "save"
    BY DEF Kind
  <2> QED BY <2>1, <2>2
<1>5. \A k \in others : k # j OBVIOUS
<1> HIDE DEF others, stays
<1> QED BY <1>1, <1>2, <1>3, <1>4, <1>5

LEMMA ProceedsTypes ==
  ASSUME FormTypes, NEW j \in Ops, NEW op \in Op, Proceeds(j, op), screen' \in Shows,
         keyed' \subseteq Provs \union {NoProv}
  PROVE  FormTypes'
<1>1. /\ ops' \in [Ops -> Op]
      /\ \A i, k \in Ops \ {j} : <<i, k>> \in earlier' <=> <<i, k>> \in earlier
      /\ \A k \in Ops : <<j, k>> \notin earlier'
      /\ passed' = (passed \ {j}) \union {k \in Ops : <<k, j>> \in earlier}
  BY ProceedsGoes DEF FormTypes
<1>2. passed' \subseteq Ops
  BY <1>1 DEF FormTypes
<1>3. \A k \in Ops : <<k, k>> \notin earlier'
  BY <1>1 DEF FormTypes
<1> QED BY <1>1, <1>2, <1>3 DEF FormTypes

\* A write that is asked for is the last one.
LEMMA LastAsked ==
  ASSUME ops \in [Ops -> Op], NEW j \in Ops, <<j, j>> \notin earlier,
         NEW op \in Op, Proceeds(j, op), op.at = "save",
         op.list = screen'.list, op.conf = screen'.conf
  PROVE  LastIsShown'
<1>1. /\ ops'[j] = op /\ \A k \in Ops \ {j} : ops'[k] = ops[k]
      /\ \A k \in Ops \ {j} : Saves(k) => <<k, j>> \in earlier'
      /\ \A k \in Ops : <<j, k>> \notin earlier'
      /\ passed' = (passed \ {j}) \union {k \in Ops : <<k, j>> \in earlier}
  BY ProceedsGoes
<1>2. j \notin passed'
  BY <1>1
<1> QED BY <1>1, <1>2 DEF LastIsShown, Saves

\* A write that lands, or fails, was the last one asked for, or came before it or after it.
LEMMA LastLands ==
  ASSUME FormTypes, LastIsShown, NEW j \in Ops, Saves(j), NEW op \in Op, Proceeds(j, op), op.at # "save",
         screen'.list = screen.list, screen'.conf = screen.conf,
         \/ saved' = [list |-> ops[j].list, conf |-> ops[j].conf] /\ ListLands(j)
         \/ saved' = saved /\ ListFails(j)
  PROVE  LastIsShown'
<1>1. /\ ops'[j] = op /\ \A k \in Ops \ {j} : ops'[k] = ops[k]
      /\ \A i, k \in Ops \ {j} : <<i, k>> \in earlier' <=> <<i, k>> \in earlier
      /\ \A k \in Ops \ {j} : Saves(k) => <<k, j>> \notin earlier'
      /\ passed' = (passed \ {j}) \union {k \in Ops : <<k, j>> \in earlier}
  BY ProceedsGoes DEF FormTypes
<1>2. ~Saves(j)'
  BY <1>1 DEF Saves
<1>3. CASE /\ \A k \in Ops : Saves(k) => k \in passed
           /\ saved = [list |-> screen.list, conf |-> screen.conf] \/ "providers" \in unsaved
  <2>1. \A k \in Ops : Saves(k)' => k \in passed'
    BY <1>1, <1>2, <1>3 DEF Saves
  <2>2. saved' = [list |-> screen'.list, conf |-> screen'.conf] \/ "providers" \in unsaved'
    BY <1>3 DEF ListLands, ListFails
  <2> QED BY <2>1, <2>2 DEF LastIsShown
<1>4. ASSUME NEW i \in Ops, Saves(i), ops[i].list = screen.list, ops[i].conf = screen.conf,
             \A k \in Ops \ {i} : Saves(k) => <<k, i>> \in earlier,
             i \notin passed, \A k \in Ops : <<i, k>> \notin earlier
      PROVE  LastIsShown'
  <2>1. CASE i = j
    <3>1. \A k \in Ops : Saves(k)' => k \in passed'
      BY <1>1, <1>2, <1>4, <2>1 DEF Saves
    <3>2. saved' = [list |-> screen'.list, conf |-> screen'.conf] \/ "providers" \in unsaved'
      BY <1>4, <2>1 DEF ListLands, ListFails
    <3> QED BY <3>1, <3>2 DEF LastIsShown
  <2>2. CASE i # j
    <3>1. Saves(i)' /\ ops'[i].list = screen'.list /\ ops'[i].conf = screen'.conf
      BY <1>1, <1>4, <2>2 DEF Saves
    <3>2. \A k \in Ops \ {i} : Saves(k)' => <<k, i>> \in earlier'
      BY <1>1, <1>2, <1>4, <2>2 DEF Saves
    <3>3. i \notin passed' /\ \A k \in Ops : <<i, k>> \notin earlier'
      BY <1>1, <1>4, <2>2
    <3> QED BY <3>1, <3>2, <3>3 DEF LastIsShown
  <2> QED BY <2>1, <2>2
<1> QED BY <1>3, <1>4 DEF LastIsShown

\* Other steps leave writes of the list alone.
LEMMA LastStays ==
  ASSUME LastIsShown, NEW j \in Ops, ~Saves(j), ~Saves(j)', \A k \in Ops \ {j} : ops'[k] = ops[k],
         \A i, k \in Ops \ {j} : <<i, k>> \in earlier' <=> <<i, k>> \in earlier,
         earlier' = earlier \/ \A k \in Ops : Saves(k) => <<k, j>> \notin earlier',
         passed' = passed \/ passed' = (passed \ {j}) \union {k \in Ops : <<k, j>> \in earlier},
         screen'.list = screen.list, screen'.conf = screen.conf, saved' = saved,
         "providers" \in unsaved => "providers" \in unsaved'
  PROVE  LastIsShown'
<1>1. CASE /\ \A k \in Ops : Saves(k) => k \in passed
           /\ saved = [list |-> screen.list, conf |-> screen.conf] \/ "providers" \in unsaved
  <2>1. \A k \in Ops : Saves(k)' => k \in passed'
    BY <1>1 DEF Saves
  <2>2. saved' = [list |-> screen'.list, conf |-> screen'.conf] \/ "providers" \in unsaved'
    BY <1>1
  <2> QED BY <2>1, <2>2 DEF LastIsShown
<1>2. ASSUME NEW i \in Ops, Saves(i), ops[i].list = screen.list, ops[i].conf = screen.conf,
             \A k \in Ops \ {i} : Saves(k) => <<k, i>> \in earlier,
             i \notin passed, \A k \in Ops : <<i, k>> \notin earlier
      PROVE  LastIsShown'
  <2>1. i # j BY <1>2
  <2>2. Saves(i)' /\ ops'[i].list = screen'.list /\ ops'[i].conf = screen'.conf
    BY <1>2, <2>1 DEF Saves
  <2>3. \A k \in Ops \ {i} : Saves(k)' => <<k, i>> \in earlier'
    BY <1>2, <2>1 DEF Saves
  <2>4. i \notin passed' /\ \A k \in Ops : <<i, k>> \notin earlier'
    BY <1>2, <2>1
  <2> QED BY <2>2, <2>3, <2>4 DEF LastIsShown
<1> QED BY <1>1, <1>2 DEF LastIsShown

-----------------------------------------------------------------------------
\* A step of an operation that is, and was, the only one of several steps ...
LEMMA PhaseGoesOn ==
  ASSUME NEW j \in Ops, \A k \in Ops \ {j} : ~Several(k), \A k \in Ops \ {j} : ops'[k] = ops[k], Phase(j)'
  PROVE  OneOfSeveral' /\ Phases'
<1>1. \A k \in Ops \ {j} : ~Several(k)' /\ ~Removing(k)' /\ ops'[k].at # "point" /\ ~Adding(k)'
                           /\ ops'[k].at \notin {"activate", "key", "clear"}
  BY DEF Several, Adding, Removing, Saves
<1>2. OneOfSeveral'
  BY <1>1 DEF OneOfSeveral
<1>3. ASSUME NEW i \in Ops, \A k \in Ops \ {i} : ~Several(k)' PROVE Phase(i)'
  <2>1. CASE i = j BY <2>1
  <2>2. CASE i # j
    <3>1. ~Several(j)' BY <1>3, <2>2
    <3>2. Leaving(j)' = {} /\ Leaving(i)' = {} /\ ops'[j].at # "point" /\ ops'[i].at # "point"
      BY <1>1, <2>2, <3>1 DEF Several, Leaving
    <3> QED BY <1>1, <2>2, <3>2 DEF Phase
  <2> QED BY <2>1, <2>2
<1> QED BY <1>2, <1>3 DEF Phases

\* ... and one of an operation that is none of them.
LEMMA PhaseStays ==
  ASSUME OneOfSeveral, Phases, NEW j \in Ops, ~Several(j), ~Several(j)', \A k \in Ops \ {j} : ops'[k] = ops[k],
         screen'.list = screen.list, screen'.active = screen.active, screen'.flags = screen.flags,
         pointed' = pointed, keyed' = keyed, "active" \in unsaved => "active" \in unsaved'
  PROVE  OneOfSeveral' /\ Phases'
<1>1. \A k \in Ops \ {j} : Several(k)' <=> Several(k)
  BY DEF Several, Adding, Removing, Saves
<1>2. OneOfSeveral'
  BY <1>1 DEF OneOfSeveral
<1>3. ASSUME NEW i \in Ops, \A k \in Ops \ {i} : ~Several(k)' PROVE Phase(i)'
  <2>1. \A k \in Ops \ {i} : ~Several(k)
    BY <1>1, <1>3
  <2>2. Phase(i)
    BY <2>1 DEF Phases
  <2>3. CASE i # j
    BY <2>2, <2>3 DEF Phase, Leaving, Removing, Adding, Saves
  <2>4. CASE i = j
    <3>1. /\ ~Removing(j) /\ ~Removing(j)' /\ ~Adding(j)' /\ ops[j].at # "point" /\ ops'[j].at # "point"
          /\ ops'[j].at \notin {"activate", "key", "clear"}
      BY DEF Several
    <3> QED BY <2>2, <2>4, <3>1 DEF Phase, Leaving
  <2> QED BY <2>3, <2>4
<1> QED BY <1>2, <1>3 DEF Phases

-----------------------------------------------------------------------------
\* Nothing of several steps is under way when the user begins some.
LEMMA BeginsAlone ==
  ASSUME FormTypes, Begins, ~tangled'
  PROVE  ~tangled /\ \A k \in Ops : ~Several(k)
BY DEF Begins, Several, Adding, Removing, Saves

LEMMA PhaseBegins ==
  ASSUME FormInv, NEW j \in Ops, Begins, ~tangled', \A k \in Ops \ {j} : ops'[k] = ops[k],
         Phase(j) => Phase(j)'
  PROVE  OneOfSeveral' /\ Phases'
<1>1. ~tangled /\ \A k \in Ops : ~Several(k)
  BY BeginsAlone DEF FormInv
<1>2. Phase(j)
  BY <1>1 DEF FormInv, Phases
<1>3. OneOfSeveral' /\ Phases'
  BY <1>1, <1>2, PhaseGoesOn
<1> QED BY <1>3

\* The operation of several steps that goes on is alone.
LEMMA SeveralAlone ==
  ASSUME FormInv, ~tangled, NEW j \in Ops, Several(j)
  PROVE  (\A k \in Ops \ {j} : ~Several(k)) /\ Phase(j)
<1>1. \A k \in Ops \ {j} : ~Several(k)
  BY DEF FormInv, OneOfSeveral
<1> QED BY <1>1 DEF FormInv, Phases

LEMMA SelectKeeps ==
  ASSUME FormInv, NEW j \in Ops, NEW p \in Provs, NEW m \in Models, SelectModel(j, p, m)
  PROVE  FormInv'
<1>1. /\ ops[j].at = "idle" /\ Proceeds(j, Save(screen', "none", NoProv))
      /\ screen' = [screen EXCEPT !.conf[p] = m]
      /\ UNCHANGED <<wanted, saved, pointed, keyed, unsaved, tangled>>
  BY DEF SelectModel, Free
<1>2. /\ screen' \in Shows
      /\ screen'.list = screen.list /\ screen'.active = screen.active /\ screen'.flags = screen.flags
  BY <1>1 DEF FormInv, FormTypes, Conf
<1> DEFINE op == Save(screen', "none", NoProv)
<1>3. op \in Op /\ op.at = "save" /\ op.list = screen'.list /\ op.conf = screen'.conf /\ op.after = "none"
  BY <1>2, SaveIsOp
<1> HIDE DEF op
<1>4. ops' \in [Ops -> Op] /\ ops'[j] = op /\ \A k \in Ops \ {j} : ops'[k] = ops[k]
  BY <1>1, <1>3, ProceedsGoes DEF FormInv, FormTypes, op
<1>5. ~Several(j) /\ ~Several(j)'
  BY <1>1, <1>3, <1>4 DEF Several, Adding, Removing, Saves
<1>6. LastIsShown'
  BY <1>1, <1>3, LastAsked DEF FormInv, FormTypes, op
<1>7. ~tangled => OneOfSeveral' /\ Phases'
  BY <1>1, <1>2, <1>4, <1>5, PhaseStays DEF FormInv
<1>8. FormTypes'
  BY <1>1, <1>2, <1>3, ProceedsTypes DEF FormInv, FormTypes, op
<1> QED BY <1>1, <1>2, <1>6, <1>7, <1>8 DEF FormInv

LEMMA AddKeeps ==
  ASSUME FormInv, NEW j \in Ops, NEW p \in Provs, AddFromTemplate(j, p)
  PROVE  FormInv'
<1>1. /\ ops[j].at = "idle" /\ Proceeds(j, Save(screen', "added", p)) /\ Begins
      /\ screen' = [screen EXCEPT !.list = @ \union {p}] /\ wanted' = wanted \union {p}
      /\ UNCHANGED <<saved, pointed, keyed, unsaved>>
  BY DEF AddFromTemplate, Free
<1>2. /\ screen' \in Shows
      /\ screen'.list = screen.list \union {p} /\ screen'.active = screen.active /\ screen'.flags = screen.flags
  BY <1>1 DEF FormInv, FormTypes
<1> DEFINE op == Save(screen', "added", p)
<1>3. /\ op \in Op /\ op.at = "save" /\ op.list = screen'.list /\ op.conf = screen'.conf
      /\ op.after = "added" /\ op.prov = p
  BY <1>2, SaveIsOp
<1> HIDE DEF op
<1>4. ops' \in [Ops -> Op] /\ ops'[j] = op /\ \A k \in Ops \ {j} : ops'[k] = ops[k]
  BY <1>1, <1>3, ProceedsGoes DEF FormInv, FormTypes, op
<1>5. LastIsShown'
  BY <1>1, <1>3, LastAsked DEF FormInv, FormTypes, op
<1>6. Phase(j) => Phase(j)'
  <2>1. Leaving(j) = {} /\ Leaving(j)' = {}
    BY <1>1, <1>3, <1>4 DEF Leaving, Removing, Saves
  <2> QED BY <1>1, <1>2, <1>3, <1>4, <2>1 DEF Phase, Removing
<1>7. ~tangled' => OneOfSeveral' /\ Phases'
  BY <1>1, <1>4, <1>6, PhaseBegins
<1>8. FormTypes'
  BY <1>1, <1>2, <1>3, ProceedsTypes DEF FormInv, FormTypes, op
<1> QED BY <1>1, <1>2, <1>5, <1>7, <1>8 DEF FormInv

LEMMA AskKeeps ==
  ASSUME FormInv, NEW j \in Ops, NEW p \in Provs, UserAsks(j, p)
  PROVE  FormInv'
<1>1. PICK at \in {"activate", "key", "clear", "remove"} : Asks(j, p, at)
  BY DEF UserAsks
<1> DEFINE op == [Waits EXCEPT !.at = at, !.prov = p]
<1>2. /\ ops[j].at = "idle" /\ p \in screen.list /\ Proceeds(j, op) /\ Begins
      /\ UNCHANGED <<screen, wanted, saved, pointed, keyed, unsaved>>
  BY <1>1 DEF Asks, Free
<1>3. op \in Op /\ op.at = at /\ op.prov = p
  BY WaitsIsOp DEF Waits, Op
<1> HIDE DEF op
<1>4. /\ ops' \in [Ops -> Op] /\ ops'[j] = op /\ \A k \in Ops \ {j} : ops'[k] = ops[k]
      /\ \A i, k \in Ops \ {j} : <<i, k>> \in earlier' <=> <<i, k>> \in earlier
      /\ \A k \in Ops : <<j, k>> \notin earlier'
      /\ \A k \in Ops \ {j} : Saves(k) => <<k, j>> \notin earlier'
      /\ passed' = (passed \ {j}) \union {k \in Ops : <<k, j>> \in earlier}
  BY <1>2, <1>3, ProceedsGoes DEF FormInv, FormTypes
<1>5. ~tangled' => OneOfSeveral' /\ Phases'
  <2>1. Leaving(j) = {} /\ Leaving(j)' = {} /\ ~Removing(j)' /\ ~Adding(j)'
    BY <1>2, <1>3, <1>4 DEF Leaving, Removing, Adding, Saves
  <2>2. Phase(j) => Phase(j)'
    BY <1>2, <1>3, <1>4, <2>1 DEF Phase
  <2> QED BY <1>2, <1>4, <2>2, PhaseBegins
<1>6. LastIsShown'
  <2>1. ~Saves(j) /\ ~Saves(j)'
    BY <1>2, <1>3, <1>4 DEF Saves
  <2> QED BY <1>2, <1>4, <2>1, LastStays DEF FormInv
<1> QED BY <1>2, <1>4, <1>5, <1>6 DEF FormInv, FormTypes

LEMMA DiscoverKeeps ==
  ASSUME FormInv, NEW j \in Ops, NothingDiscovered(j) \/ \E p \in Provs : Discover(j, p)
  PROVE  FormInv'
<1>1. PICK op \in Op : /\ op.at \in {"idle", "refresh", "test"} /\ ops[j].at \in {"idle", "refresh", "test"}
                       /\ ops' = [ops EXCEPT ![j] = op]
                       /\ UNCHANGED <<screen, wanted, saved, pointed, keyed, earlier, passed, unsaved, tangled>>
  <2>1. CASE NothingDiscovered(j)
    BY <2>1, WaitsIsOp DEF NothingDiscovered
  <2>2. ASSUME NEW p \in Provs, Discover(j, p)
        PROVE  \E op \in Op : /\ op.at \in {"idle", "refresh", "test"} /\ ops[j].at \in {"idle", "refresh", "test"}
                              /\ ops' = [ops EXCEPT ![j] = op]
                              /\ UNCHANGED <<screen, wanted, saved, pointed, keyed, earlier, passed, unsaved, tangled>>
    <3>1. PICK at \in {"refresh", "test"} :
            ops' = [ops EXCEPT ![j] = [Waits EXCEPT !.at = at, !.prov = p, !.old = screen.conf[p]]]
      BY <2>2 DEF Discover
    <3>2. screen.conf[p] \in Models \union {NoModel}
      BY DEF FormInv, FormTypes, Conf
    <3> DEFINE op == [Waits EXCEPT !.at = at, !.prov = p, !.old = screen.conf[p]]
    <3>3. op \in Op /\ op.at = at
      BY <3>2, WaitsIsOp DEF Waits, Op
    <3> HIDE DEF op
    <3> QED BY <2>2, <3>1, <3>3 DEF Discover, Free, op
  <2> QED BY <2>1, <2>2
<1>2. ops' \in [Ops -> Op] /\ ops'[j] = op /\ \A k \in Ops \ {j} : ops'[k] = ops[k]
  BY <1>1 DEF FormInv, FormTypes
<1>3. ~Saves(j) /\ ~Saves(j)' /\ ~Several(j) /\ ~Several(j)'
  BY <1>1, <1>2 DEF Several, Adding, Removing, Saves
<1>4. LastIsShown'
  BY <1>1, <1>2, <1>3, LastStays DEF FormInv
<1>5. ~tangled => OneOfSeveral' /\ Phases'
  BY <1>1, <1>2, <1>3, PhaseStays DEF FormInv
<1> QED BY <1>1, <1>2, <1>4, <1>5 DEF FormInv, FormTypes

LEMMA DiscoveredKeeps ==
  ASSUME FormInv, NEW j \in Ops, Discovered(j)
  PROVE  FormInv'
<1>1. /\ ops[j].at \in {"refresh", "test"} /\ Proceeds(j, Save(screen', "none", NoProv))
      /\ UNCHANGED <<wanted, saved, pointed, keyed, unsaved, tangled>>
  BY DEF Discovered
<1>2. /\ screen' \in Shows
      /\ screen'.list = screen.list /\ screen'.active = screen.active /\ screen'.flags = screen.flags
  <2>1. PICK found \in Models : screen' = Merged(ops[j], found)
    BY DEF Discovered
  <2>2. ops[j].old \in Models \union {NoModel}
    BY DEF FormInv, FormTypes, Op
  <2>3. CASE ops[j].prov \notin screen.list \/ ops[j].at = "refresh"
    BY <2>1, <2>3 DEF Merged, FormInv, FormTypes
  <2>4. CASE ~(ops[j].prov \notin screen.list \/ ops[j].at = "refresh")
    <3>1. PICK m \in Models \union {NoModel} : screen' = [screen EXCEPT !.conf[ops[j].prov] = m]
      BY <2>1, <2>2, <2>4 DEF Merged
    <3> QED BY <3>1 DEF FormInv, FormTypes, Conf
  <2> QED BY <2>3, <2>4
<1> DEFINE op == Save(screen', "none", NoProv)
<1>3. op \in Op /\ op.at = "save" /\ op.list = screen'.list /\ op.conf = screen'.conf /\ op.after = "none"
  BY <1>2, SaveIsOp
<1> HIDE DEF op
<1>4. ops' \in [Ops -> Op] /\ ops'[j] = op /\ \A k \in Ops \ {j} : ops'[k] = ops[k]
  BY <1>1, <1>3, ProceedsGoes DEF FormInv, FormTypes, op
<1>5. ~Several(j) /\ ~Several(j)'
  BY <1>1, <1>3, <1>4 DEF Several, Adding, Removing, Saves
<1>6. LastIsShown'
  BY <1>1, <1>3, LastAsked DEF FormInv, FormTypes, op
<1>7. ~tangled => OneOfSeveral' /\ Phases'
  BY <1>1, <1>2, <1>4, <1>5, PhaseStays DEF FormInv
<1>8. FormTypes'
  BY <1>1, <1>2, <1>3, ProceedsTypes DEF FormInv, FormTypes, op
<1> QED BY <1>1, <1>2, <1>6, <1>7, <1>8 DEF FormInv

-----------------------------------------------------------------------------
\* Where an operation goes when its write of the list is over, and what it shows then.
LEMMA AfterSaveGoes ==
  ASSUME FormTypes, NEW j \in Ops, Saves(j), AfterSave(j)
  PROVE  /\ screen' \in Shows
         /\ screen'.list = screen.list /\ screen'.conf = screen.conf
         /\ \E op \in Op :
              /\ Proceeds(j, op) /\ op.at \in {"idle", "activate", "point"}
              /\ op.at = "activate" => Adding(j) /\ op.prov = ops[j].prov
              /\ op.at = "point" => Removing(j) /\ screen'.active = op.prov
              /\ Removing(j) =>
                   /\ screen'.flags = screen.flags \ {ops[j].prov}
                   /\ IF screen.active = ops[j].prov
                      THEN op.at = "point" /\ op.prov \in ops[j].list \union {NoProv}
                      ELSE screen'.active = screen.active
              /\ ~Removing(j) => screen' = screen
<1>1. /\ ops[j] \in Op /\ ops[j].list \in SUBSET Provs /\ ops[j].prov \in Provs \union {NoProv}
      /\ screen \in Shows
  BY DEF FormTypes, Op
<1> DEFINE writes(at, p) == [Waits EXCEPT !.at = at, !.prov = p]
<1>2. \A p \in Provs \union {NoProv} : \A at \in {"activate", "point"} :
        writes(at, p) \in Op /\ writes(at, p).at = at /\ writes(at, p).prov = p
  BY WaitsIsOp DEF Waits, Op
<1>3. CASE ops[j].after = "added"
  <2>1. /\ Proceeds(j, IF ops[j].list = {ops[j].prov} THEN writes("activate", ops[j].prov) ELSE Waits)
        /\ screen' = screen
    BY <1>3 DEF AfterSave
  <2>2. Adding(j) /\ ~Removing(j)
    BY <1>3 DEF Adding, Removing
  <2>3. CASE ops[j].list = {ops[j].prov}
    <3>1. Proceeds(j, writes("activate", ops[j].prov))
      BY <2>1, <2>3
    <3>2. writes("activate", ops[j].prov) \in Op /\ writes("activate", ops[j].prov).at = "activate"
          /\ writes("activate", ops[j].prov).prov = ops[j].prov
      BY <1>1, <1>2
    <3> HIDE DEF writes
    <3> QED BY <1>1, <2>1, <2>2, <3>1, <3>2
  <2>4. CASE ops[j].list # {ops[j].prov}
    <3>1. Proceeds(j, Waits)
      BY <2>1, <2>4
    <3> QED BY <1>1, <2>1, <2>2, <3>1, WaitsIsOp
  <2> QED BY <2>3, <2>4
<1>4. CASE ops[j].after = "removed"
  <2> DEFINE wasActive == screen.active = ops[j].prov
  <2>1. PICK n \in IF ops[j].list = {} THEN {NoProv} ELSE ops[j].list :
          /\ screen' = [screen EXCEPT !.flags = @ \ {ops[j].prov}, !.active = IF wasActive THEN n ELSE @]
          /\ Proceeds(j, IF wasActive THEN writes("point", n) ELSE Waits)
    BY <1>4 DEF AfterSave
  <2>2. n \in ops[j].list \union {NoProv} /\ n \in Provs \union {NoProv}
    BY <1>1, <2>1
  <2>3. /\ screen' \in Shows
        /\ screen'.list = screen.list /\ screen'.conf = screen.conf
        /\ screen'.flags = screen.flags \ {ops[j].prov} /\ screen'.active = IF wasActive THEN n ELSE screen.active
    BY <1>1, <2>1, <2>2
  <2>4. Removing(j) /\ ~Adding(j)
    BY <1>4 DEF Removing, Adding
  <2>5. CASE wasActive
    <3>1. Proceeds(j, writes("point", n))
      BY <2>1, <2>5
    <3>2. writes("point", n) \in Op /\ writes("point", n).at = "point" /\ writes("point", n).prov = n
      BY <1>2, <2>2
    <3> HIDE DEF writes
    <3> QED BY <2>2, <2>3, <2>4, <2>5, <3>1, <3>2
  <2>6. CASE ~wasActive
    <3>1. Proceeds(j, Waits)
      BY <2>1, <2>6
    <3> QED BY <2>3, <2>4, <2>6, <3>1, WaitsIsOp
  <2> QED BY <2>5, <2>6
<1>5. CASE ops[j].after = "none"
  <2>1. Proceeds(j, Waits) /\ screen' = screen
    BY <1>5 DEF AfterSave
  <2>2. ~Adding(j) /\ ~Removing(j)
    BY <1>5 DEF Adding, Removing
  <2> QED BY <1>1, <2>1, <2>2, WaitsIsOp
<1> QED BY <1>1, <1>3, <1>4, <1>5 DEF Op

LEMMA SavedKeeps ==
  ASSUME FormInv, NEW j \in Ops, Saved(j) \/ SaveFails(j)
  PROVE  FormInv'
<1>1. /\ Saves(j) /\ AfterSave(j)
      /\ UNCHANGED <<wanted, pointed, keyed, tangled>>
      /\ \/ saved' = [list |-> ops[j].list, conf |-> ops[j].conf] /\ ListLands(j)
         \/ saved' = saved /\ ListFails(j)
  BY DEF Saved, SaveFails, Saves
<1>2. /\ screen' \in Shows
      /\ screen'.list = screen.list /\ screen'.conf = screen.conf
  BY <1>1, AfterSaveGoes DEF FormInv
<1>3. PICK op \in Op :
        /\ Proceeds(j, op) /\ op.at \in {"idle", "activate", "point"}
        /\ op.at = "activate" => Adding(j) /\ op.prov = ops[j].prov
        /\ op.at = "point" => Removing(j) /\ screen'.active = op.prov
        /\ Removing(j) =>
             /\ screen'.flags = screen.flags \ {ops[j].prov}
             /\ IF screen.active = ops[j].prov
                THEN op.at = "point" /\ op.prov \in ops[j].list \union {NoProv}
                ELSE screen'.active = screen.active
        /\ ~Removing(j) => screen' = screen
  BY <1>1, AfterSaveGoes DEF FormInv
<1>4. ops' \in [Ops -> Op] /\ ops'[j] = op /\ \A k \in Ops \ {j} : ops'[k] = ops[k]
  BY <1>3, ProceedsGoes DEF FormInv, FormTypes
<1>5. LastIsShown'
  BY <1>1, <1>2, <1>3, LastLands DEF FormInv
<1>6. "active" \in unsaved' <=> "active" \in unsaved
  BY <1>1 DEF ListLands, ListFails
<1>7. ASSUME ~tangled, Several(j) PROVE OneOfSeveral' /\ Phases'
  <2>1. (\A k \in Ops \ {j} : ~Several(k)) /\ Phase(j)
    BY <1>7, SeveralAlone
  <2>2. ~Removing(j)' /\ ~Adding(j)' /\ Leaving(j)' = {} /\ ops'[j].at \notin {"key", "clear"}
    BY <1>3, <1>4 DEF Removing, Adding, Saves, Leaving
  <2>3. ops[j].at # "point" /\ (pointed = screen.active \/ "active" \in unsaved)
    BY <1>1, <2>1 DEF Saves, Phase
  <2>4. CASE Removing(j)
    <3>1. /\ ops[j].list = screen.list /\ ops[j].prov \notin screen.list /\ Leaving(j) = {ops[j].prov}
          /\ screen.active \in screen.list \union {NoProv, ops[j].prov}
          /\ keyed = screen.flags \ {ops[j].prov} /\ keyed \subseteq screen.list
      BY <2>1, <2>4 DEF Phase, Leaving
    <3>2. ops'[j].at \in {"idle", "point"} /\ (ops'[j].at = "point" => screen'.active = ops'[j].prov)
      BY <1>3, <1>4, <2>4 DEF Adding, Removing
    <3>3. screen'.active \in screen'.list \union {NoProv}
      BY <1>2, <1>3, <2>4, <3>1
    <3>4. ops'[j].at = "idle" => screen'.active = screen.active
      BY <1>3, <1>4, <2>4
    <3>5. keyed' = screen'.flags /\ keyed' \subseteq screen'.list
      BY <1>1, <1>2, <1>3, <2>4, <3>1
    <3>6. Phase(j)'
      BY <1>1, <1>6, <2>2, <2>3, <3>2, <3>3, <3>4, <3>5 DEF Phase
    <3> QED BY <1>4, <2>1, <3>6, PhaseGoesOn
  <2>5. CASE ~Removing(j)
    <3>1. screen' = screen /\ Leaving(j) = {} /\ ops'[j].at # "point"
      BY <1>3, <1>4, <2>5 DEF Leaving
    <3>2. ops'[j].at = "activate" => ops'[j].prov \in screen.list
      BY <1>3, <1>4, <2>1 DEF Phase
    <3>3. Phase(j)'
      BY <1>1, <1>6, <2>1, <2>2, <2>3, <3>1, <3>2 DEF Phase
    <3> QED BY <1>4, <2>1, <3>3, PhaseGoesOn
  <2> QED BY <2>4, <2>5
<1>8. ASSUME ~tangled, ~Several(j) PROVE OneOfSeveral' /\ Phases'
  <2>1. ~Adding(j) /\ ~Removing(j)
    BY <1>8 DEF Several
  <2>2. screen' = screen /\ op.at = "idle"
    BY <1>3, <2>1
  <2>3. ~Several(j)'
    BY <1>4, <2>2 DEF Several, Adding, Removing, Saves
  <2> QED BY <1>1, <1>4, <1>6, <1>8, <2>2, <2>3, PhaseStays DEF FormInv
<1>9. screen'.list = wanted'
  BY <1>1, <1>2 DEF FormInv
<1>10. FormTypes'
  BY <1>1, <1>2, <1>3, ProceedsTypes DEF FormInv, FormTypes
<1> QED BY <1>1, <1>5, <1>7, <1>8, <1>9, <1>10 DEF FormInv

\* Steps that end an operation of several steps, and neither write nor change the list.
LEMMA EndKeeps ==
  ASSUME FormInv, NEW j \in Ops, Several(j), ~Saves(j), Proceeds(j, Waits), tangled' = tangled,
         screen' \in Shows,
         screen'.list = screen.list, screen'.conf = screen.conf, wanted' = wanted, saved' = saved, keyed' \subseteq Provs \union {NoProv},
         "providers" \in unsaved => "providers" \in unsaved',
         ~tangled /\ Phase(j) => /\ pointed' = screen'.active \/ "active" \in unsaved'
                                 /\ screen'.active \in screen.list \union {NoProv}
                                 /\ keyed' = screen'.flags /\ keyed' \subseteq screen.list
  PROVE  FormInv'
<1>1. /\ ops' \in [Ops -> Op] /\ ops'[j] = Waits /\ \A k \in Ops \ {j} : ops'[k] = ops[k]
      /\ \A i, k \in Ops \ {j} : <<i, k>> \in earlier' <=> <<i, k>> \in earlier
      /\ \A k \in Ops : <<j, k>> \notin earlier'
      /\ \A k \in Ops \ {j} : Saves(k) => <<k, j>> \notin earlier'
      /\ passed' = (passed \ {j}) \union {k \in Ops : <<k, j>> \in earlier}
      /\ Waits.at = "idle"
  BY WaitsIsOp, ProceedsGoes DEF FormInv, FormTypes
<1>2. ~Saves(j)' /\ ~Removing(j)' /\ ~Adding(j)' /\ Leaving(j)' = {}
  BY <1>1 DEF Saves, Removing, Adding, Leaving
<1>3. LastIsShown'
  BY <1>1, <1>2, LastStays DEF FormInv
<1>4. ASSUME ~tangled PROVE OneOfSeveral' /\ Phases'
  <2>1. (\A k \in Ops \ {j} : ~Several(k)) /\ Phase(j)
    BY <1>4, SeveralAlone
  <2>2. Phase(j)'
    BY <1>1, <1>2, <1>4, <2>1 DEF Phase
  <2> QED BY <1>1, <2>1, <2>2, PhaseGoesOn
<1> QED BY <1>1, <1>3, <1>4 DEF FormInv, FormTypes

LEMMA PointedKeeps ==
  ASSUME FormInv, NEW j \in Ops, Pointed(j) \/ PointFails(j)
  PROVE  FormInv'
<1>1. /\ ops[j].at \in {"activate", "point"} /\ Proceeds(j, Waits)
      /\ UNCHANGED <<wanted, saved, keyed, tangled>> /\ ("providers" \in unsaved => "providers" \in unsaved')
  BY DEF Pointed, PointFails
<1>2. Several(j) /\ ~Saves(j) /\ Leaving(j) = {}
  BY <1>1 DEF Several, Saves, Leaving, Removing
<1>3. /\ screen \in Shows
      /\ ops[j].prov \in Provs \union {NoProv}
  BY DEF FormInv, FormTypes, Op
<1>4. CASE Pointed(j)
  <2>1. /\ pointed' = ops[j].prov
        /\ screen' = IF ops[j].at = "activate" THEN [screen EXCEPT !.active = ops[j].prov] ELSE screen
    BY <1>4 DEF Pointed
  <2>2. /\ screen' \in Shows
        /\ screen'.list = screen.list /\ screen'.conf = screen.conf /\ screen'.flags = screen.flags
        /\ screen'.active = IF ops[j].at = "activate" THEN ops[j].prov ELSE screen.active
    BY <1>3, <2>1
  <2>3. Phase(j) => /\ pointed' = screen'.active
                    /\ screen'.active \in screen.list \union {NoProv}
                    /\ keyed' = screen'.flags /\ keyed' \subseteq screen.list
    BY <1>1, <1>2, <2>1, <2>2 DEF Phase
  <2>4. keyed' \subseteq Provs \union {NoProv}
    BY <1>1 DEF FormInv, FormTypes
  <2> QED BY <1>1, <1>2, <2>2, <2>3, <2>4, EndKeeps
<1>5. CASE PointFails(j)
  <2>1. /\ screen' = screen /\ pointed' = pointed
        /\ unsaved' = IF ops[j].at = "point" THEN unsaved \union {"active"} ELSE unsaved
    BY <1>5 DEF PointFails
  <2>2. Phase(j) => /\ pointed' = screen'.active \/ "active" \in unsaved'
                    /\ screen'.active \in screen.list \union {NoProv}
                    /\ keyed' = screen'.flags /\ keyed' \subseteq screen.list
    BY <1>1, <1>2, <2>1 DEF Phase
  <2>3. keyed' \subseteq Provs \union {NoProv}
    BY <1>1 DEF FormInv, FormTypes
  <2> QED BY <1>1, <1>2, <1>3, <2>1, <2>2, <2>3, EndKeeps
<1> QED BY <1>4, <1>5

LEMMA KeyedKeeps ==
  ASSUME FormInv, NEW j \in Ops, Keyed(j) \/ KeyFails(j)
  PROVE  FormInv'
<1>1. /\ ops[j].at \in {"key", "clear", "remove"} /\ Proceeds(j, Waits)
      /\ UNCHANGED <<wanted, saved, pointed, unsaved, tangled>>
  <2>1. CASE KeyFails(j)
    BY <2>1 DEF KeyFails
  <2>2. CASE Keyed(j)
    BY <2>2 DEF Keyed
  <2> QED BY <2>1, <2>2
<1>2. Several(j) /\ ~Saves(j) /\ Leaving(j) = {}
  BY <1>1 DEF Several, Saves, Leaving, Removing
<1>3. /\ screen \in Shows
      /\ keyed \subseteq Provs \union {NoProv}
  BY DEF FormInv, FormTypes
<1>4. CASE KeyFails(j)
  <2>1. screen' = screen /\ keyed' = keyed
    BY <1>4 DEF KeyFails
  <2>2. Phase(j) => /\ pointed' = screen'.active \/ "active" \in unsaved'
                    /\ screen'.active \in screen.list \union {NoProv}
                    /\ keyed' = screen'.flags /\ keyed' \subseteq screen.list
    BY <1>1, <1>2, <2>1 DEF Phase
  <2> QED BY <1>1, <1>2, <1>3, <2>1, <2>2, EndKeeps
<1>5. CASE Keyed(j)
  <2> DEFINE with(set) == IF ops[j].at = "key" THEN set \union {ops[j].prov} ELSE set \ {ops[j].prov}
  <2>1. ops[j].at \in {"key", "clear"} /\ keyed' = with(keyed) /\ screen' = [screen EXCEPT !.flags = with(@)]
    BY <1>5 DEF Keyed
  <2>2. ASSUME ~tangled, Phase(j)
        PROVE  /\ pointed' = screen'.active \/ "active" \in unsaved'
               /\ screen'.active \in screen.list \union {NoProv}
               /\ keyed' = screen'.flags /\ keyed' \subseteq screen.list
    <3>1. /\ keyed = screen.flags /\ keyed \subseteq screen.list /\ ops[j].prov \in screen.list
          /\ pointed = screen.active \/ "active" \in unsaved
          /\ screen.active \in screen.list \union {NoProv}
      BY <1>2, <2>1, <2>2 DEF Phase
    <3>2. screen'.flags = with(screen.flags) /\ screen'.active = screen.active
      BY <1>3, <2>1
    <3> QED BY <1>1, <2>1, <3>1, <3>2
  <2>3. ops[j].prov \in Provs \union {NoProv}
    BY DEF FormInv, FormTypes, Op
  <2>4. /\ screen' \in Shows
        /\ screen'.list = screen.list /\ screen'.conf = screen.conf /\ keyed' \subseteq Provs \union {NoProv}
    BY <1>3, <2>1, <2>3
  <2> HIDE DEF with
  <2> QED BY <1>1, <1>2, <2>2, <2>4, EndKeeps
<1> QED BY <1>4, <1>5

LEMMA RemovedKeeps ==
  ASSUME FormInv, NEW j \in Ops, KeyRemoved(j)
  PROVE  FormInv'
<1> DEFINE p == ops[j].prov
           op == Save(screen', "removed", p)
<1>1. /\ ops[j].at = "remove" /\ keyed' = keyed \ {p} /\ wanted' = wanted \ {p}
      /\ screen' = [screen EXCEPT !.list = @ \ {p}, !.conf[p] = NoModel]
      /\ Proceeds(j, op)
      /\ UNCHANGED <<saved, pointed, unsaved, tangled>>
  BY DEF KeyRemoved
<1>2. /\ p \in Provs \union {NoProv} /\ keyed \subseteq Provs \union {NoProv} /\ screen.list = wanted
      /\ screen \in Shows
  BY DEF FormInv, FormTypes, Op
<1>3. /\ screen' \in Shows
      /\ screen'.list = screen.list \ {p} /\ screen'.active = screen.active /\ screen'.flags = screen.flags
  BY <1>1, <1>2 DEF Conf
<1>4. /\ op \in Op /\ op.at = "save" /\ op.list = screen'.list /\ op.conf = screen'.conf
      /\ op.after = "removed" /\ op.prov = p
  BY <1>2, <1>3, SaveIsOp
<1> HIDE DEF op
<1>5. ops' \in [Ops -> Op] /\ ops'[j] = op /\ \A k \in Ops \ {j} : ops'[k] = ops[k]
  BY <1>1, <1>4, ProceedsGoes DEF FormInv, FormTypes
<1>6. LastIsShown'
  BY <1>1, <1>4, LastAsked DEF FormInv, FormTypes
<1>7. ASSUME ~tangled PROVE OneOfSeveral' /\ Phases'
  <2>1. Several(j) /\ Leaving(j) = {} /\ ops[j].at # "point"
    BY <1>1 DEF Several, Leaving, Removing, Saves
  <2>2. (\A k \in Ops \ {j} : ~Several(k)) /\ Phase(j)
    BY <1>7, <2>1, SeveralAlone
  <2>3. Removing(j)' /\ ~Adding(j)' /\ Leaving(j)' = {p} /\ ops'[j].at = "save"
    BY <1>4, <1>5 DEF Removing, Adding, Saves, Leaving
  <2>4. /\ pointed = screen.active \/ "active" \in unsaved
        /\ screen.active \in screen.list \union {NoProv}
        /\ keyed = screen.flags /\ keyed \subseteq screen.list
    BY <2>1, <2>2 DEF Phase
  <2>5. screen'.active \in screen'.list \union {NoProv} \union {p} /\ keyed' = screen'.flags \ {p} /\ keyed' \subseteq screen'.list
    BY <1>1, <1>3, <2>4
  <2>6. ops'[j].list = screen'.list /\ ops'[j].prov \notin screen'.list
    BY <1>3, <1>4, <1>5
  <2>7. pointed' = screen'.active \/ "active" \in unsaved'
    BY <1>1, <1>3, <2>4
  <2>8. Phase(j)'
    BY <2>3, <2>5, <2>6, <2>7 DEF Phase
  <2> QED BY <1>5, <2>2, <2>8, PhaseGoesOn
<1>8. keyed' \subseteq Provs \union {NoProv} /\ screen'.list = wanted'
  BY <1>1, <1>2, <1>3
<1>9. FormTypes'
  BY <1>1, <1>3, <1>4, <1>8, ProceedsTypes DEF FormInv
<1> QED BY <1>1, <1>6, <1>7, <1>8, <1>9 DEF FormInv

LEMMA FormStep == FormInv /\ [FormNext]_formVars => FormInv'
<1> SUFFICES ASSUME FormInv, [FormNext]_formVars PROVE FormInv' OBVIOUS
<1>1. CASE UNCHANGED formVars
  <2>1. UNCHANGED <<screen, wanted, saved, pointed, keyed, ops, earlier, passed, unsaved, tangled>>
    BY <1>1 DEF formVars
  <2>2. FormTypes' BY <2>1 DEF FormInv, FormTypes
  <2>3. OneOfSeveral => OneOfSeveral'
    BY <2>1 DEF OneOfSeveral, Several, Adding, Removing, Saves
  <2>4. LastIsShown => LastIsShown'
    BY <2>1 DEF LastIsShown, Saves
  <2>5. Phases => Phases'
    BY <2>1 DEF Phases, Phase, Leaving, Several, Adding, Removing, Saves
  <2> QED BY <2>1, <2>2, <2>3, <2>4, <2>5 DEF FormInv
<1>2. ASSUME NEW j \in Ops, OpStep(j) PROVE FormInv'
  <2>1. CASE Discovered(j) BY <2>1, DiscoveredKeeps
  <2>2. CASE NothingDiscovered(j) BY <2>2, DiscoverKeeps
  <2>3. CASE Saved(j) \/ SaveFails(j) BY <2>3, SavedKeeps
  <2>4. CASE Pointed(j) \/ PointFails(j) BY <2>4, PointedKeeps
  <2>5. CASE Keyed(j) \/ KeyFails(j) BY <2>5, KeyedKeeps
  <2>6. CASE KeyRemoved(j) BY <2>6, RemovedKeeps
  <2>7. ASSUME NEW p \in Provs, AddFromTemplate(j, p) PROVE FormInv' BY <2>7, AddKeeps
  <2>8. ASSUME NEW p \in Provs, UserAsks(j, p) PROVE FormInv' BY <2>8, AskKeeps
  <2>9. ASSUME NEW p \in Provs, Discover(j, p) PROVE FormInv' BY <2>9, DiscoverKeeps
  <2>10. ASSUME NEW p \in Provs, NEW m \in Models, SelectModel(j, p, m) PROVE FormInv' BY <2>10, SelectKeeps
  <2> QED BY <1>2, <2>1, <2>2, <2>3, <2>4, <2>5, <2>6, <2>7, <2>8, <2>9, <2>10 DEF OpStep
<1> QED BY <1>1, <1>2 DEF FormNext

LEMMA FormInitHolds == FormInit => FormInv
<1> SUFFICES ASSUME FormInit PROVE FormInv OBVIOUS
<1>1. PICK list \in SUBSET Provs :
        /\ wanted = list /\ saved = [list |-> list, conf |-> NoConf]
        /\ pointed \in IF list = {} THEN {NoProv} ELSE list
  BY DEF FormInit
<1>2. /\ ops = [j \in Ops |-> Waits] /\ keyed = {} /\ earlier = {} /\ passed = {}
      /\ screen = [list |-> saved.list, conf |-> NoConf, active |-> pointed, flags |-> {}]
  BY DEF FormInit
<1>3. screen.list = list /\ screen.conf = NoConf /\ screen.active = pointed /\ screen.flags = {}
  BY <1>1, <1>2
<1>4. FormTypes
  BY <1>1, <1>2, <1>3, WaitsIsOp DEF FormTypes
<1>5. \A j \in Ops : ops[j].at = "idle" /\ ~Saves(j) /\ ~Adding(j) /\ ~Removing(j) /\ ~Several(j) /\ Leaving(j) = {}
  BY <1>2, WaitsIsOp DEF Saves, Adding, Removing, Several, Leaving
<1>6. OneOfSeveral /\ LastIsShown
  BY <1>1, <1>3, <1>5 DEF OneOfSeveral, LastIsShown
<1>7. Phases
  <2>1. pointed \in list \union {NoProv}
    BY <1>1
  <2> QED BY <1>2, <1>3, <1>5, <2>1 DEF Phases, Phase
<1> QED BY <1>1, <1>3, <1>4, <1>6, <1>7 DEF FormInv

\* Once nothing is under way the settings page shows the providers the user wants, and its
\* list is stored unless the newest write of it was lost: for any number of providers and of
\* operations, whatever they met.  The active provider and the keys are as stored while no
\* write was lost and no operation of several steps began within another one.
THEOREM FormIsStored == FormSpec => []RestingFormIsStored
<1>1. FormInv => RestingFormIsStored
  <2> SUFFICES ASSUME FormInv, AtRest PROVE RestingFormIsStored
    BY DEF RestingFormIsStored
  <2>1. \A j \in Ops : ~Saves(j) /\ ~Several(j) /\ Leaving(j) = {} /\ ops[j].at = "idle"
    BY DEF AtRest, Saves, Several, Adding, Removing, Leaving
  <2>2. "providers" \notin unsaved => saved = [list |-> screen.list, conf |-> screen.conf]
    BY <2>1 DEF FormInv, LastIsShown
  <2>3. ~tangled => \E j \in Ops : Phase(j)
    BY <2>1, FormAssumption DEF FormInv, Phases
  <2> QED BY <2>1, <2>2, <2>3 DEF Phase, FormInv, RestingFormIsStored
<1> QED BY FormInitHolds, FormStep, <1>1, PTL DEF FormSpec
-----------------------------------------------------------------------------
(* The runner of quizzes.                                                  *)

Places ==
  {"idle", "load", "loadQuestions", "loadAttempts", "loadAnswers", "start", "review",
   "reviewAnswers", "record", "mark", "recordShort", "grade", "storeGrade", "finish"}

Taking == [quiz : Quizzed \union {NoQuiz}, done : BOOLEAN, score : Nat]
Given == [attempt : Nat, q : Questions, v : Verdicts]
Call ==
  [at : Places, z : Quizzed \union {NoQuiz}, a : Nat, q : Questions \union {NoJob}, row : Nat,
   v : Verdicts]

\* A call that has to do with an answer
Answers(j) == job[j].at \in {"record", "mark", "recordShort", "grade", "storeGrade"}
Works(j) == Answers(j) \/ JobAt(j, "finish")
Exchanges(j) == job[j].at \in {"loadAnswers", "reviewAnswers"}

QuizTypes ==
  /\ attempts \in Seq(Taking) /\ rows \in Seq(Given)
  /\ current \in Quizzed \union {NoQuiz}
  /\ active \in [id : Nat, done : BOOLEAN]
  /\ DOMAIN answers \subseteq Questions /\ \A q \in DOMAIN answers : answers[q].row \in Nat
  /\ job \in [Jobs -> Call]
  /\ \A j \in Jobs : /\ Answers(j) => job[j].q \in Questions
                     /\ JobAt(j, "review") => job[j].a \in DOMAIN attempts

-----------------------------------------------------------------------------

LEMMA GivenRow ==
  ASSUME rows \in Seq(Given), NEW e \in Given, rows' = Append(rows, e)
  PROVE  /\ rows' \in Seq(Given) /\ Len(rows) \in Nat /\ Len(rows') = Len(rows) + 1
         /\ DOMAIN rows = 1 .. Len(rows) /\ DOMAIN rows' = 1 .. Len(rows) + 1
         /\ \A r \in DOMAIN rows : rows'[r] = rows[r]
         /\ rows'[Len(rows) + 1] = e
OBVIOUS

LEMMA VerdictOfARow ==
  ASSUME rows \in Seq(Given), NEW n \in Nat, NEW v \in Verdicts,
         rows' = [rows EXCEPT ![n].v = v]
  PROVE  /\ rows' \in Seq(Given) /\ DOMAIN rows' = DOMAIN rows
         /\ \A r \in DOMAIN rows : /\ rows'[r].attempt = rows[r].attempt /\ rows'[r].q = rows[r].q
                                   /\ r # n => rows'[r].v = rows[r].v
                                   /\ r = n => rows'[r].v = v
<1>1. DOMAIN rows = 1 .. Len(rows) /\ Len(rows) \in Nat /\ \A r \in 1 .. Len(rows) : rows[r] \in Given
  OBVIOUS
<1>2. DOMAIN rows' = 1 .. Len(rows) /\ \A r \in 1 .. Len(rows) : rows'[r] = IF r = n THEN [rows[r] EXCEPT !.v = v] ELSE rows[r]
  BY <1>1
<1>3. \A r \in 1 .. Len(rows) :
         /\ rows'[r] \in Given /\ rows'[r].attempt = rows[r].attempt /\ rows'[r].q = rows[r].q
         /\ r # n => rows'[r].v = rows[r].v
         /\ r = n => rows'[r].v = v
  BY <1>1, <1>2 DEF Given
<1>4. rows' = [r \in 1 .. Len(rows) |-> rows'[r]]
  BY <1>1
<1>5. rows' \in [1 .. Len(rows) -> Given]
  BY <1>2, <1>3, <1>4
<1>6. rows' \in Seq(Given)
  BY <1>1, <1>5
<1> QED
  BY <1>1, <1>2, <1>3, <1>6

LEMMA ScoreOfAnAttempt ==
  ASSUME attempts \in Seq(Taking), NEW n \in Nat, NEW x \in Nat,
         attempts' = [attempts EXCEPT ![n] = [@ EXCEPT !.done = TRUE, !.score = x]]
  PROVE  /\ attempts' \in Seq(Taking) /\ DOMAIN attempts' = DOMAIN attempts
         /\ n \in DOMAIN attempts => attempts'[n].done = TRUE
         /\ \A i \in DOMAIN attempts : i # n => attempts'[i] = attempts[i]
<1>1. DOMAIN attempts = 1 .. Len(attempts) /\ Len(attempts) \in Nat
      /\ \A i \in 1 .. Len(attempts) : attempts[i] \in Taking
  OBVIOUS
<1>2. /\ DOMAIN attempts' = 1 .. Len(attempts)
      /\ \A i \in 1 .. Len(attempts) :
           attempts'[i] = IF i = n THEN [attempts[i] EXCEPT !.done = TRUE, !.score = x] ELSE attempts[i]
  BY <1>1
<1>3. \A i \in 1 .. Len(attempts) : attempts'[i] \in Taking /\ (i = n => attempts'[i].done = TRUE)
  BY <1>1, <1>2 DEF Taking
<1>4. attempts' = [i \in 1 .. Len(attempts) |-> attempts'[i]]
  BY <1>1
<1>5. attempts' \in [1 .. Len(attempts) -> Taking]
  BY <1>2, <1>3, <1>4
<1>6. attempts' \in Seq(Taking)
  BY <1>1, <1>5
<1> QED
  BY <1>1, <1>2, <1>3, <1>6

\* An answer is put beside the others, or in the place of one.
LEMMA AnswerIsPut ==
  ASSUME NEW q, NEW r, NEW v, answers' = With(q, r, v)
  PROVE  /\ DOMAIN answers' = DOMAIN answers \union {q}
         /\ answers'[q].row = r /\ answers'[q].v = v
         /\ \A p \in DOMAIN answers : p # q => answers'[p] = answers[p]
BY DEF With

LEMMA ScoreIsANumber ==
  ASSUME NEW map, DOMAIN map \subseteq Questions
  PROVE  Correct(map) \in Nat
<1> DEFINE right == {q \in DOMAIN map : map[q].v = "right"}
<1>1. IsFiniteSet(Questions)
  BY QuizAssumption, FS_Union DEF Questions
<1>2. IsFiniteSet(right)
  BY <1>1, FS_Subset
<1> QED
  BY <1>2, FS_CardinalityType DEF Correct

-----------------------------------------------------------------------------
(* What every call keeps, whatever meets.                                  *)

\* A call that goes on, or comes to its end
Turns(j, c) == job' = [job EXCEPT ![j] = c]

LEMMA CallTurns ==
  ASSUME job \in [Jobs -> Call], NEW j \in Jobs, NEW c \in Call, Turns(j, c)
  PROVE  /\ job' \in [Jobs -> Call] /\ job'[j] = c
         /\ \A k \in Jobs \ {j} : job'[k] = job[k]
BY DEF Turns

LEMMA IdleIsACall == Idle \in Call /\ Idle.at = "idle"
BY DEF Idle, Call, Places, Verdicts

LEMMA KeepsTypes ==
  ASSUME QuizTypes, NEW j \in Jobs, NEW c \in Call, Turns(j, c),
         attempts' \in Seq(Taking), rows' \in Seq(Given), current' \in Quizzed \union {NoQuiz},
         active' \in [id : Nat, done : BOOLEAN], DOMAIN answers' \subseteq Questions,
         \A q \in DOMAIN answers' : answers'[q].row \in Nat,
         DOMAIN attempts \subseteq DOMAIN attempts',
         c.at \in {"record", "mark", "recordShort", "grade", "storeGrade"} => c.q \in Questions,
         c.at = "review" => c.a \in DOMAIN attempts
  PROVE  QuizTypes'
<1>1. /\ job' \in [Jobs -> Call] /\ job'[j] = c
      /\ \A k \in Jobs \ {j} : job'[k] = job[k]
  BY CallTurns DEF QuizTypes
<1>2. ASSUME NEW k \in Jobs
      PROVE  /\ Answers(k)' => job'[k].q \in Questions
             /\ JobAt(k, "review")' => job'[k].a \in DOMAIN attempts'
  BY <1>1 DEF QuizTypes, Answers, JobAt
<1> QED
  BY <1>1, <1>2 DEF QuizTypes

\* Steps that leave most alone
LEMMA CallGoesOn ==
  ASSUME QuizTypes, NEW j \in Jobs, NEW c \in Call, Turns(j, c), UNCHANGED <<stored, active, answers>>,
         current' \in Quizzed \union {NoQuiz},
         c.at \in {"record", "mark", "recordShort", "grade", "storeGrade"} => c.q \in Questions,
         c.at = "review" => c.a \in DOMAIN attempts
  PROVE  QuizTypes'
BY KeepsTypes DEF QuizTypes, stored

\* The answers of an attempt are read: each is one of its rows, and those that have a row.
LEMMA RestoredAnswers ==
  ASSUME QuizTypes, NEW a, Restores(a)
  PROVE  /\ DOMAIN answers' = {q \in Questions : RowsOf(a, q) # {}}
         /\ \A q \in DOMAIN answers' :
              /\ answers'[q].row \in Nat /\ answers'[q].row \in RowsOf(a, q)
              /\ answers'[q].v = rows[answers'[q].row].v
<1>1. PICK pick \in [{q \in Questions : RowsOf(a, q) # {}} -> DOMAIN rows] :
        /\ \A q \in DOMAIN pick : pick[q] \in RowsOf(a, q)
        /\ answers' = [q \in DOMAIN pick |-> [row |-> pick[q], v |-> rows[pick[q]].v]]
  BY DEF Restores
<1>2. DOMAIN rows \subseteq Nat
  BY DEF QuizTypes
<1> QED
  BY <1>1, <1>2

LEMMA LoadingTypes ==
  ASSUME QuizTypes, NEW j \in Jobs, Loading(j)
  PROVE  QuizTypes'
<1> USE DEF Turns, Ends, MovesOn, JobAt, stored
<1>1. job \in [Jobs -> Call] /\ Idle \in Call /\ Idle.at = "idle"
      /\ Places = {"idle", "load", "loadQuestions", "loadAttempts", "loadAnswers", "start", "review",
                   "reviewAnswers", "record", "mark", "recordShort", "grade", "storeGrade", "finish"}
  BY IdleIsACall DEF QuizTypes, Places
<1>2. ASSUME NEW z \in Quizzed, LoadQuiz(j, z) PROVE QuizTypes'
  <2> DEFINE c == [job[j] EXCEPT !.at = "load", !.z = z]
  <2>1. c \in Call /\ c.at = "load" BY <1>1 DEF Call
  <2>2. job' = [job EXCEPT ![j] = c] BY <1>1, <1>2 DEF LoadQuiz
  <2> HIDE DEF c
  <2> QED BY <1>2, <2>1, <2>2, CallGoesOn DEF LoadQuiz, QuizTypes
<1>3. ASSUME QuizRead(j) \/ QuestionsRead(j) PROVE QuizTypes'
  <2>1. PICK p \in {"loadQuestions", "loadAttempts"} : job' = [job EXCEPT ![j].at = p]
    BY <1>3 DEF QuizRead, QuestionsRead
  <2> DEFINE c == [job[j] EXCEPT !.at = p]
  <2>2. c \in Call /\ c.at = p BY <1>1 DEF Call
  <2>3. job' = [job EXCEPT ![j] = c] BY <1>1, <2>1
  <2>4. current' \in Quizzed \union {NoQuiz} /\ UNCHANGED <<attempts, rows, active, answers>>
    BY <1>3 DEF QuizRead, QuestionsRead, QuizTypes, Call
  <2> HIDE DEF c
  <2> QED BY <2>2, <2>3, <2>4, CallGoesOn
<1>4. CASE QuizMissing(j)
  <2>1. current' = NoQuiz /\ DOMAIN answers' = {} /\ active' = NoAttempt /\ UNCHANGED <<attempts, rows>>
    BY <1>4 DEF QuizMissing
  <2>2. active' \in [id : Nat, done : BOOLEAN] /\ current' \in Quizzed \union {NoQuiz} /\ DOMAIN answers' \subseteq Questions
    BY <2>1 DEF NoAttempt
  <2>3. job' = [job EXCEPT ![j] = Idle] BY <1>4 DEF QuizMissing
  <2> QED BY <1>1, <2>1, <2>2, <2>3, KeepsTypes DEF QuizTypes
<1>5. CASE AttemptsRead(j)
  <2>1. CASE active' = NoAttempt /\ answers' = <<>> /\ Ends(j)
    <3>1. DOMAIN answers' = {} BY <2>1
    <3> QED BY <1>1, <1>5, <2>1, <3>1, KeepsTypes DEF AttemptsRead, QuizTypes, NoAttempt
  <2>2. CASE \E i \in DOMAIN attempts :
               /\ active' = [id |-> i, done |-> FALSE] /\ answers' = answers
               /\ job' = [job EXCEPT ![j].at = "loadAnswers", ![j].a = i]
    <3>1. PICK i \in DOMAIN attempts :
               /\ active' = [id |-> i, done |-> FALSE] /\ answers' = answers
               /\ job' = [job EXCEPT ![j].at = "loadAnswers", ![j].a = i]
      BY <2>2
    <3>2. i \in Nat BY DEF QuizTypes
    <3> DEFINE c == [job[j] EXCEPT !.at = "loadAnswers", !.a = i]
    <3>3. c \in Call /\ c.at = "loadAnswers" BY <1>1, <3>2 DEF Call
    <3>4. job' = [job EXCEPT ![j] = c] BY <1>1, <3>1
    <3> HIDE DEF c
    <3>5. UNCHANGED <<attempts, rows, current, answers>> BY <1>5, <3>1 DEF AttemptsRead
    <3>6. active' \in [id : Nat, done : BOOLEAN] BY <3>1, <3>2
    <3>7. Turns(j, c) BY <3>4
    <3>8. /\ attempts' \in Seq(Taking) /\ rows' \in Seq(Given) /\ current' \in Quizzed \union {NoQuiz}
          /\ DOMAIN answers' \subseteq Questions /\ \A q \in DOMAIN answers' : answers'[q].row \in Nat
          /\ DOMAIN attempts \subseteq DOMAIN attempts'
      BY <3>5 DEF QuizTypes
    <3> QED BY <3>3, <3>6, <3>7, <3>8, KeepsTypes
  <2> QED BY <1>5, <2>1, <2>2 DEF AttemptsRead
<1>6. CASE AnswersRead(j)
  <2>1. DOMAIN answers' \subseteq Questions /\ \A q \in DOMAIN answers' : answers'[q].row \in Nat
    BY <1>6, RestoredAnswers DEF AnswersRead
  <2> QED BY <1>1, <1>6, <2>1, KeepsTypes DEF AnswersRead, QuizTypes
<1>7. CASE LoadFails(j)
  BY <1>1, <1>7, CallGoesOn DEF LoadFails
<1> QED
  BY <1>2, <1>3, <1>4, <1>5, <1>6, <1>7 DEF Loading

LEMMA AttemptingTypes ==
  ASSUME QuizTypes, NEW j \in Jobs, Attempting(j)
  PROVE  QuizTypes'
<1> USE DEF Turns, Ends, MovesOn, JobAt, stored
<1>1. job \in [Jobs -> Call] /\ Idle \in Call /\ Idle.at = "idle"
      /\ Places = {"idle", "load", "loadQuestions", "loadAttempts", "loadAnswers", "start", "review",
                   "reviewAnswers", "record", "mark", "recordShort", "grade", "storeGrade", "finish"}
  BY IdleIsACall DEF QuizTypes, Places
<1>2. CASE Start(j)
  <2> DEFINE c == [job[j] EXCEPT !.at = "start", !.z = current]
  <2>1. c \in Call /\ c.at = "start" BY <1>1 DEF QuizTypes, Call
  <2>2. job' = [job EXCEPT ![j] = c] BY <1>1, <1>2 DEF Start
  <2> HIDE DEF c
  <2> QED BY <1>2, <2>1, <2>2, CallGoesOn DEF Start, view, QuizTypes
<1>3. CASE Started(j)
  <2> DEFINE e == [quiz |-> job[j].z, done |-> FALSE, score |-> 0]
  <2>1. e \in Taking BY <1>1 DEF Taking, Call
  <2>2. attempts' = Append(attempts, e) BY <1>3 DEF Started
  <2> HIDE DEF e
  <2>3. attempts' \in Seq(Taking) /\ DOMAIN attempts \subseteq DOMAIN attempts' /\ Len(attempts') \in Nat
    BY <2>1, <2>2 DEF QuizTypes
  <2>4. active' \in [id : Nat, done : BOOLEAN] /\ DOMAIN answers' = {}
    BY <1>3, <2>3 DEF Started
  <2> QED BY <1>1, <1>3, <2>3, <2>4, KeepsTypes DEF Started, QuizTypes
<1>4. ASSUME NEW i \in 1 .. MaxAttempts, Review(j, i) PROVE QuizTypes'
  <2> DEFINE c == [job[j] EXCEPT !.at = "review", !.a = i]
  <2>1. i \in DOMAIN attempts /\ i \in Nat BY <1>4 DEF Review, QuizTypes
  <2>2. c \in Call /\ c.at = "review" /\ c.a = i BY <1>1, <2>1 DEF Call
  <2>3. job' = [job EXCEPT ![j] = c] BY <1>1, <1>4 DEF Review
  <2> HIDE DEF c
  <2>4. UNCHANGED <<stored, active, answers>> /\ current' \in Quizzed \union {NoQuiz}
    BY <1>4 DEF Review, view, QuizTypes
  <2>5. Turns(j, c) BY <2>3
  <2> QED BY <2>1, <2>2, <2>4, <2>5, CallGoesOn
<1>5. CASE AttemptRead(j)
  <2> DEFINE c == [job[j] EXCEPT !.at = "reviewAnswers"]
  <2>1. c \in Call /\ c.at = "reviewAnswers" BY <1>1 DEF Call
  <2>2. job' = [job EXCEPT ![j] = c] BY <1>1, <1>5 DEF AttemptRead
  <2>3. attempts[job[j].a] \in Taking /\ job[j].a \in Nat BY <1>1, <1>5 DEF AttemptRead, QuizTypes, Call
  <2>4. active' \in [id : Nat, done : BOOLEAN] BY <1>5, <2>3 DEF AttemptRead, Taking
  <2> HIDE DEF c
  <2> QED BY <1>5, <2>1, <2>2, <2>4, KeepsTypes DEF AttemptRead, view, QuizTypes
<1>6. CASE Reviewed(j)
  <2>1. DOMAIN answers' \subseteq Questions /\ \A q \in DOMAIN answers' : answers'[q].row \in Nat
    BY <1>6, RestoredAnswers DEF Reviewed
  <2> QED BY <1>1, <1>6, <2>1, KeepsTypes DEF Reviewed, QuizTypes
<1> QED
  BY <1>2, <1>3, <1>4, <1>5, <1>6 DEF Attempting

\* finishIfComplete, after the answers have changed
LEMMA FinishesOrEnds ==
  ASSUME QuizTypes, NEW j \in Jobs, DOMAIN answers' \subseteq Questions, FinishIfComplete(j, answers')
  PROVE  \E c \in Call : /\ Turns(j, c) /\ c.at \in {"idle", "finish"}
                         /\ c.at = "finish" => active # NoAttempt /\ c.a = active.id
<1>1. job \in [Jobs -> Call] /\ Idle \in Call /\ Idle.at = "idle" /\ "finish" \in Places
  BY IdleIsACall DEF QuizTypes, Places
<1> DEFINE x == Correct(answers')
<1>2. x \in Nat BY ScoreIsANumber
<1> HIDE DEF x
<1>3. CASE Ends(j) BY <1>1, <1>3 DEF Ends, Turns
<1>4. CASE active # NoAttempt /\ job' = [job EXCEPT ![j].at = "finish", ![j].a = active.id, ![j].row = x]
  <2> DEFINE c == [job[j] EXCEPT !.at = "finish", !.a = active.id, !.row = x]
  <2>1. c \in Call /\ c.at = "finish" /\ c.a = active.id BY <1>1, <1>2 DEF Call, QuizTypes
  <2>2. job' = [job EXCEPT ![j] = c] BY <1>1, <1>4
  <2> HIDE DEF c
  <2> QED BY <1>4, <2>1, <2>2 DEF Turns
<1> QED BY <1>3, <1>4 DEF FinishIfComplete, x

\* Answers keep their type with one that has a number for its row.
LEMMA PutKeepsTypes ==
  ASSUME QuizTypes, NEW q \in Questions, NEW n \in Nat, NEW v, answers' = With(q, n, v)
  PROVE  DOMAIN answers' \subseteq Questions /\ \A p \in DOMAIN answers' : answers'[p].row \in Nat
<1>1. /\ DOMAIN answers' = DOMAIN answers \union {q} /\ answers'[q].row = n
      /\ \A p \in DOMAIN answers : p # q => answers'[p] = answers[p]
  BY AnswerIsPut
<1> QED
  BY <1>1 DEF QuizTypes

\* A row is added to the table, and its call goes on.
LEMMA RowIsGiven ==
  ASSUME QuizTypes, NEW j \in Jobs, Answers(j)
  PROVE  NewRow(j) \in Given /\ job[j].q \in Questions
BY DEF QuizTypes, NewRow, Given, Call, Verdicts, JobAt

LEMMA AnsweringTypes ==
  ASSUME QuizTypes, NEW j \in Jobs, Answering(j)
  PROVE  QuizTypes'
<1> USE DEF Turns, Ends, MovesOn, JobAt, stored, view
<1>1. job \in [Jobs -> Call] /\ job[j] \in Call /\ Idle \in Call /\ Idle.at = "idle"
      /\ Places = {"idle", "load", "loadQuestions", "loadAttempts", "loadAnswers", "start", "review",
                   "reviewAnswers", "record", "mark", "recordShort", "grade", "storeGrade", "finish"}
      /\ Verdicts = {"right", "wrong", "none", "failed"} /\ Graded = {"right", "wrong"}
      /\ AtOnce \subseteq Questions /\ Short \subseteq Questions
  BY IdleIsACall DEF QuizTypes, Places, Verdicts, Graded, Questions
<1>2. /\ active.id \in Nat /\ current \in Quizzed \union {NoQuiz} /\ DOMAIN answers \subseteq Questions
      /\ \A q \in DOMAIN answers : answers[q].row \in Nat
  BY DEF QuizTypes
<1>3. ASSUME NEW q \in AtOnce, NEW v \in Graded, AnswerAuto(j, q, v) PROVE QuizTypes'
  <2> DEFINE c == [Idle EXCEPT !.at = "record", !.a = active.id, !.q = q, !.v = v]
  <2>1. c \in Call /\ c.at = "record" /\ c.q \in Questions BY <1>1, <1>2 DEF Call, Idle
  <2>2. job' = [job EXCEPT ![j] = c] /\ UNCHANGED <<stored, view, active, answers>>
    BY <1>3 DEF AnswerAuto
  <2> HIDE DEF c
  <2> QED BY <1>2, <2>1, <2>2, CallGoesOn
<1>4. ASSUME NEW q \in Short, AnswerShort(j, q) PROVE QuizTypes'
  <2> DEFINE c == [Idle EXCEPT !.at = "recordShort", !.a = active.id, !.q = q]
  <2>1. c \in Call /\ c.at = "recordShort" /\ c.q \in Questions BY <1>1, <1>2 DEF Call, Idle
  <2>2. job' = [job EXCEPT ![j] = c] /\ UNCHANGED <<stored, view, active, answers>>
    BY <1>4 DEF AnswerShort
  <2> HIDE DEF c
  <2> QED BY <1>2, <2>1, <2>2, CallGoesOn
<1>5. ASSUME NEW q \in Short, Regrade(j, q) PROVE QuizTypes'
  <2> DEFINE c == [Idle EXCEPT !.at = "grade", !.a = active.id, !.q = q, !.row = answers[q].row]
  <2>1. answers[q].row \in Nat BY <1>2, <1>5 DEF Regrade
  <2>2. c \in Call /\ c.at = "grade" /\ c.q \in Questions BY <1>1, <1>2, <2>1 DEF Call, Idle
  <2>3. job' = [job EXCEPT ![j] = c] /\ UNCHANGED <<stored, view, active, answers>>
    BY <1>5 DEF Regrade
  <2> HIDE DEF c
  <2> QED BY <1>2, <2>2, <2>3, CallGoesOn
<1>6. ASSUME rows' = Append(rows, NewRow(j)), Answers(j)
      PROVE  /\ rows' \in Seq(Given) /\ Len(rows') \in Nat /\ job[j].q \in Questions
             /\ rows \in Seq(Given) /\ Len(rows) \in Nat
  <2>1. rows \in Seq(Given) /\ NewRow(j) \in Given BY <1>6, RowIsGiven DEF QuizTypes
  <2> QED BY <1>6, <2>1, RowIsGiven, GivenRow
<1>7. CASE Recorded(j)
  <2> DEFINE c == [job[j] EXCEPT !.at = "mark", !.row = Len(rows')]
  <2>1. Answers(j) /\ rows' = Append(rows, NewRow(j)) BY <1>7 DEF Recorded, Answers
  <2>2. c \in Call /\ c.at = "mark" /\ c.q = job[j].q BY <1>1, <1>6, <2>1 DEF Call
  <2>3. job' = [job EXCEPT ![j] = c] /\ UNCHANGED <<attempts, view, active, answers>>
    BY <1>1, <1>7 DEF Recorded
  <2> HIDE DEF c
  <2> QED BY <1>6, <2>1, <2>2, <2>3, KeepsTypes DEF QuizTypes
<1>8. CASE ShortRecorded(j)
  <2>1. Answers(j) /\ rows' = Append(rows, NewRow(j)) BY <1>8 DEF ShortRecorded, Answers
  <2>2. DOMAIN answers' \subseteq Questions /\ \A q \in DOMAIN answers' : answers'[q].row \in Nat
    <3>1. answers' = With(job[j].q, Len(rows'), "none") BY <1>8 DEF ShortRecorded
    <3> QED BY <1>6, <2>1, <3>1, PutKeepsTypes
  <2>3. CASE Ends(j)
    BY <1>1, <1>6, <1>8, <2>1, <2>2, <2>3, KeepsTypes DEF ShortRecorded, QuizTypes
  <2>4. CASE job' = [job EXCEPT ![j].at = "grade", ![j].a = active.id, ![j].row = Len(rows')]
    <3> DEFINE c == [job[j] EXCEPT !.at = "grade", !.a = active.id, !.row = Len(rows')]
    <3>1. c \in Call /\ c.at = "grade" /\ c.q = job[j].q BY <1>1, <1>2, <1>6, <2>1 DEF Call
    <3>2. job' = [job EXCEPT ![j] = c] BY <1>1, <2>4
    <3>3. UNCHANGED <<attempts, view, active>> BY <1>8 DEF ShortRecorded
    <3> HIDE DEF c
    <3> QED BY <1>6, <2>1, <2>2, <3>1, <3>2, <3>3, KeepsTypes DEF QuizTypes
  <2> QED BY <1>8, <2>3, <2>4 DEF ShortRecorded
<1>9. ASSUME Answers(j), rows' = [rows EXCEPT ![job[j].row].v = job[j].v],
             \E n \in Nat : answers' = With(job[j].q, n, job[j].v)
      PROVE  /\ rows' \in Seq(Given) /\ DOMAIN answers' \subseteq Questions
             /\ \A q \in DOMAIN answers' : answers'[q].row \in Nat
  <2>1. job[j].row \in Nat /\ job[j].v \in Verdicts /\ job[j].q \in Questions /\ rows \in Seq(Given)
    BY <1>1, <1>9, RowIsGiven DEF Call, QuizTypes
  <2>2. rows' \in Seq(Given) BY <1>9, <2>1, VerdictOfARow
  <2>3. PICK n \in Nat : answers' = With(job[j].q, n, job[j].v) BY <1>9
  <2> QED BY <2>1, <2>2, <2>3, PutKeepsTypes
<1>10. ASSUME Marked(j) \/ GradeStored(j)
       PROVE  /\ rows' \in Seq(Given) /\ DOMAIN answers' \subseteq Questions
              /\ \A q \in DOMAIN answers' : answers'[q].row \in Nat
              /\ UNCHANGED <<attempts, view, active>>
              /\ FinishIfComplete(j, answers') \/ Ends(j)
  <2>1. CASE Marked(j)
    <3>1. job[j].row \in Nat /\ Answers(j) BY <1>1, <2>1 DEF Marked, Answers, Call
    <3> QED BY <1>9, <2>1, <3>1 DEF Marked
  <2>2. CASE GradeStored(j)
    <3> DEFINE n == IF job[j].q \in DOMAIN answers THEN answers[job[j].q].row ELSE 0
    <3>1. n \in Nat /\ Answers(j) BY <1>2, <2>2 DEF GradeStored, Answers
    <3>2. answers' = With(job[j].q, n, job[j].v) /\ rows' = [rows EXCEPT ![job[j].row].v = job[j].v]
      BY <2>2 DEF GradeStored
    <3> HIDE DEF n
    <3>3. /\ rows' \in Seq(Given) /\ DOMAIN answers' \subseteq Questions
          /\ \A q \in DOMAIN answers' : answers'[q].row \in Nat
      BY <1>9, <3>1, <3>2
    <3> QED BY <2>2, <3>3 DEF GradeStored
  <2> QED BY <1>10, <2>1, <2>2
<1>11. CASE Marked(j) \/ GradeStored(j)
  <2>1. \E c \in Call : Turns(j, c) /\ c.at \in {"idle", "finish"}
    BY <1>1, <1>10, <1>11, FinishesOrEnds
  <2>2. PICK c \in Call : Turns(j, c) /\ c.at \in {"idle", "finish"} BY <2>1
  <2> QED BY <1>10, <1>11, <2>2, KeepsTypes DEF QuizTypes
<1>12. ASSUME NEW v \in Verdicts, job' = [job EXCEPT ![j].at = "storeGrade", ![j].v = v], JobAt(j, "grade"),
              UNCHANGED <<stored, view, active, answers>>
       PROVE  QuizTypes'
  <2> DEFINE c == [job[j] EXCEPT !.at = "storeGrade", !.v = v]
  <2>1. c \in Call /\ c.at = "storeGrade" /\ c.q = job[j].q BY <1>1 DEF Call
  <2>2. job' = [job EXCEPT ![j] = c] BY <1>1, <1>12
  <2>3. job[j].q \in Questions BY <1>12, RowIsGiven DEF Answers
  <2> HIDE DEF c
  <2> QED BY <1>2, <1>12, <2>1, <2>2, <2>3, CallGoesOn
<1>13. ASSUME NEW v \in Graded, Judged(j, v) PROVE QuizTypes'
  <2>1. CASE Ends(j) BY <1>1, <1>2, <1>13, <2>1, CallGoesOn DEF Judged
  <2>2. CASE job' = [job EXCEPT ![j].at = "storeGrade", ![j].v = v] BY <1>1, <1>12, <1>13, <2>2 DEF Judged
  <2> QED BY <1>13, <2>1, <2>2 DEF Judged
<1>14. CASE GradingFails(j)
  BY <1>1, <1>12, <1>14 DEF GradingFails
<1>15. CASE Finished(j)
  <2>1. attempts' \in Seq(Taking) /\ DOMAIN attempts' = DOMAIN attempts
    BY <1>1, <1>15, ScoreOfAnAttempt DEF Finished, Call, QuizTypes
  <2>2. active' \in [id : Nat, done : BOOLEAN] BY <1>15 DEF Finished, QuizTypes
  <2> QED BY <1>1, <1>2, <1>15, <2>1, <2>2, KeepsTypes DEF Finished, QuizTypes
<1> QED
  BY <1>3, <1>4, <1>5, <1>7, <1>8, <1>11, <1>13, <1>14, <1>15 DEF Answering

-----------------------------------------------------------------------------
(* While no attempt was exchanged under a call.                            *)

\* A row of the attempt that is shown, for a question
IsMine(r, q) == r \in DOMAIN rows /\ rows[r].attempt = active.id /\ rows[r].q = q

\* A call at work is about the attempt that is shown, and has a row of it; from there on that
\* a verdict is asked for, this is the row that is shown.
WorkersKnow ==
  \A j \in Jobs :
    /\ Works(j) => active.id \in DOMAIN attempts /\ job[j].a = active.id
    /\ job[j].at \in {"mark", "grade", "storeGrade"} => IsMine(job[j].row, job[j].q)
    /\ job[j].at \in {"grade", "storeGrade"} =>
         job[j].q \in DOMAIN answers /\ answers[job[j].q].row = job[j].row

\* Between an attempt and its answers nothing else is at work.
ExchangesAreAlone ==
  \A j \in Jobs : Exchanges(j) =>
    /\ active.id \in DOMAIN attempts /\ job[j].a = active.id
    /\ \A k \in Jobs : ~Works(k) /\ (Exchanges(k) => k = j)

RowsHaveAttempts == \A r \in DOMAIN rows : rows[r].attempt \in DOMAIN attempts

AttemptIsStored ==
  active # NoAttempt => active.id \in DOMAIN attempts /\ active.done = attempts[active.id].done

\* What is shown is stored, and what is stored is shown, or is the row of a call that has
\* still to mark it.
AnswersAreStored ==
  active # NoAttempt /\ ~InExchange =>
    /\ \A q \in DOMAIN answers : IsMine(answers[q].row, q) /\ rows[answers[q].row].v = answers[q].v
    /\ \A r \in DOMAIN rows : rows[r].attempt = active.id =>
         rows[r].q \in DOMAIN answers \/ \E j \in Jobs : JobAt(j, "mark") /\ job[j].row = r

RunnerIsTrue ==
  WorkersKnow /\ ExchangesAreAlone /\ RowsHaveAttempts /\ AttemptIsStored /\ AnswersAreStored

QuizInv == QuizTypes /\ (~crossed /\ OnceEach => RunnerIsTrue)

LEMMA ExchangeIs == InExchange <=> \E k \in Jobs : Exchanges(k)
BY DEF InExchange, Exchanges

LEMMA NoneIsNowhere == QuizTypes => (active.id \in DOMAIN attempts => active # NoAttempt)
BY DEF QuizTypes, NoAttempt

\* A call moves that is not about answers, before or after.
LEMMA QuietCall ==
  ASSUME QuizTypes, RunnerIsTrue, NEW j \in Jobs, NEW c \in Call, Turns(j, c),
         ~Works(j), ~Exchanges(j),
         c.at \notin {"record", "mark", "recordShort", "grade", "storeGrade", "finish", "loadAnswers", "reviewAnswers"},
         UNCHANGED <<attempts, rows, active, answers>>
  PROVE  RunnerIsTrue'
<1>1. job' \in [Jobs -> Call] /\ job'[j] = c /\ \A k \in Jobs \ {j} : job'[k] = job[k]
  BY CallTurns DEF QuizTypes
<1>2. ~Works(j)' /\ ~Exchanges(j)' /\ \A k \in Jobs \ {j} : (Works(k)' <=> Works(k)) /\ (Exchanges(k)' <=> Exchanges(k))
  BY <1>1 DEF Works, Answers, Exchanges, JobAt
<1>3. InExchange' <=> InExchange
  BY <1>2 DEF InExchange, Exchanges
<1>4. \A k \in Jobs : JobAt(k, "mark") => k # j /\ job'[k] = job[k]
  BY <1>1 DEF JobAt, Works, Answers
<1>5. WorkersKnow'
  BY <1>1, <1>2 DEF RunnerIsTrue, WorkersKnow, IsMine, Works, Answers
<1>6. ExchangesAreAlone'
  BY <1>1, <1>2 DEF RunnerIsTrue, ExchangesAreAlone
<1>7. RowsHaveAttempts' /\ AttemptIsStored'
  BY DEF RunnerIsTrue, RowsHaveAttempts, AttemptIsStored
<1>8. AnswersAreStored'
  BY <1>3, <1>4 DEF RunnerIsTrue, AnswersAreStored, IsMine, JobAt
<1> QED
  BY <1>5, <1>6, <1>7, <1>8 DEF RunnerIsTrue

\* A call begins that is about an answer, or goes on: nothing else changes.
LEMMA WorkGoesOn ==
  ASSUME QuizTypes, RunnerIsTrue, NEW j \in Jobs, NEW c \in Call, Turns(j, c), ~InExchange,
         ~JobAt(j, "mark"), active # NoAttempt, c.a = active.id,
         c.at \in {"record", "recordShort", "grade", "storeGrade"},
         c.at \in {"grade", "storeGrade"} => c.q \in DOMAIN answers /\ answers[c.q].row = c.row,
         UNCHANGED <<attempts, rows, active, answers>>
  PROVE  RunnerIsTrue'
<1>1. job' \in [Jobs -> Call] /\ job'[j] = c /\ \A k \in Jobs \ {j} : job'[k] = job[k]
  BY CallTurns DEF QuizTypes
<1>2. ~InExchange' /\ \A k \in Jobs : ~Exchanges(k)'
  BY <1>1 DEF InExchange, Exchanges
<1>3. \A k \in Jobs : JobAt(k, "mark") => k # j /\ job'[k] = job[k]
  BY <1>1 DEF JobAt
<1>4. active.id \in DOMAIN attempts
  BY DEF RunnerIsTrue, AttemptIsStored
<1>5. c.at \in {"grade", "storeGrade"} => IsMine(c.row, c.q)
  BY DEF RunnerIsTrue, AnswersAreStored
<1>6. WorkersKnow'
  BY <1>1, <1>4, <1>5 DEF RunnerIsTrue, WorkersKnow, IsMine, Works, Answers, JobAt
<1>7. ExchangesAreAlone'
  BY <1>2 DEF ExchangesAreAlone
<1>8. RowsHaveAttempts' /\ AttemptIsStored'
  BY DEF RunnerIsTrue, RowsHaveAttempts, AttemptIsStored
<1>9. AnswersAreStored'
  BY <1>2, <1>3 DEF RunnerIsTrue, AnswersAreStored, IsMine, JobAt
<1> QED
  BY <1>6, <1>7, <1>8, <1>9 DEF RunnerIsTrue

\* The attempt is exchanged: no other call is at work.
LEMMA AloneAtExchange ==
  ASSUME QuizTypes, NEW j \in Jobs, NEW c \in Call, Turns(j, c), Exchanged(j), ~crossed'
  PROVE  /\ ~crossed /\ job'[j] = c
         /\ \A k \in Jobs \ {j} : JobAt(k, "idle") /\ JobAt(k, "idle")' /\ ~Works(k)' /\ ~Exchanges(k)'
<1>1. job' \in [Jobs -> Call] /\ job'[j] = c /\ \A k \in Jobs \ {j} : job'[k] = job[k]
  BY CallTurns DEF QuizTypes
<1> QED
  BY <1>1 DEF Exchanged, JobAt, Works, Answers, Exchanges

\* No attempt is left on the page.
LEMMA LeftAlone ==
  ASSUME RowsHaveAttempts, NEW j \in Jobs, job'[j] = Idle, UNCHANGED <<attempts, rows>>,
         \A k \in Jobs \ {j} : ~Works(k)' /\ ~Exchanges(k)',
         active' = NoAttempt
  PROVE  RunnerIsTrue'
<1>1. \A k \in Jobs : ~Works(k)' /\ ~Exchanges(k)'
  BY IdleIsACall DEF Works, Answers, Exchanges, JobAt
<1>2. WorkersKnow' BY <1>1 DEF WorkersKnow, Works, Answers
<1>3. ExchangesAreAlone' BY <1>1 DEF ExchangesAreAlone
<1> QED
  BY <1>2, <1>3 DEF RunnerIsTrue, RowsHaveAttempts, AttemptIsStored, AnswersAreStored

\* An attempt is there, its answers are still to be read.
LEMMA AnswersToRead ==
  ASSUME RowsHaveAttempts, NEW j \in Jobs, Exchanges(j)', job'[j].a = active'.id,
         UNCHANGED <<attempts, rows>>,
         \A k \in Jobs \ {j} : ~Works(k)' /\ ~Exchanges(k)',
         active'.id \in DOMAIN attempts, active'.done = attempts[active'.id].done
  PROVE  RunnerIsTrue'
<1>1. \A k \in Jobs : ~Works(k)' /\ (Exchanges(k)' => k = j)
  BY DEF Works, Answers, Exchanges, JobAt
<1>2. WorkersKnow' BY <1>1 DEF WorkersKnow, Works, Answers
<1>3. ExchangesAreAlone' BY <1>1 DEF ExchangesAreAlone
<1>4. InExchange' BY DEF InExchange, Exchanges
<1> QED
  BY <1>2, <1>3, <1>4 DEF RunnerIsTrue, RowsHaveAttempts, AttemptIsStored, AnswersAreStored

\* The answers of the attempt are read.
LEMMA AnswersWereRead ==
  ASSUME QuizTypes, RunnerIsTrue, NEW j \in Jobs, Exchanges(j), Restores(job[j].a), job'[j] = Idle,
         UNCHANGED <<attempts, rows, active>>,
         \A k \in Jobs \ {j} : ~Works(k)' /\ ~Exchanges(k)'
  PROVE  RunnerIsTrue'
<1>1. \A k \in Jobs : ~Works(k)' /\ ~Exchanges(k)'
  BY IdleIsACall DEF Works, Answers, Exchanges, JobAt
<1>2. WorkersKnow' BY <1>1 DEF WorkersKnow, Works, Answers
<1>3. ExchangesAreAlone' BY <1>1 DEF ExchangesAreAlone
<1>4. RowsHaveAttempts' /\ AttemptIsStored'
  BY DEF RunnerIsTrue, RowsHaveAttempts, AttemptIsStored
<1>5. job[j].a = active.id BY DEF RunnerIsTrue, ExchangesAreAlone
<1>6. \A q \in DOMAIN answers' : IsMine(answers'[q].row, q) /\ rows[answers'[q].row].v = answers'[q].v
  BY <1>5, RestoredAnswers DEF IsMine, RowsOf
<1>7. ASSUME NEW r \in DOMAIN rows, rows[r].attempt = active.id PROVE rows[r].q \in DOMAIN answers'
  <2>0. rows[r] \in Given BY DEF QuizTypes
  <2>1. rows[r].q \in Questions BY <2>0 DEF Given
  <2>2. r \in RowsOf(active.id, rows[r].q) BY <1>7 DEF RowsOf
  <2> QED BY <1>5, <2>1, <2>2, RestoredAnswers
<1>8. AnswersAreStored' BY <1>6, <1>7 DEF AnswersAreStored, IsMine
<1> QED
  BY <1>2, <1>3, <1>4, <1>8 DEF RunnerIsTrue

\* What a call at work relies on
LEMMA WorkerHas ==
  ASSUME QuizTypes, RunnerIsTrue, NEW j \in Jobs, Works(j)
  PROVE  /\ active # NoAttempt /\ active.id \in DOMAIN attempts /\ job[j].a = active.id /\ ~InExchange
         /\ \A k \in Jobs : ~Exchanges(k)
         /\ \A r \in DOMAIN rows : rows[r].attempt \in Nat
<1>1. active.id \in DOMAIN attempts /\ job[j].a = active.id
  BY DEF RunnerIsTrue, WorkersKnow
<1>2. \A k \in Jobs : ~Exchanges(k)
  BY DEF RunnerIsTrue, ExchangesAreAlone
<1>3. \A r \in DOMAIN rows : rows[r] \in Given
  BY DEF QuizTypes
<1> QED
  BY <1>1, <1>2, <1>3, NoneIsNowhere, ExchangeIs DEF Given

\* A row as it will be: what is primed is the table and the attempt.
WillBeMine(r, q) == r \in DOMAIN rows' /\ rows'[r].attempt = active'.id /\ rows'[r].q = q

LEMMA RecordedKeeps ==
  ASSUME QuizTypes, RunnerIsTrue, NEW j \in Jobs, Recorded(j), NEW n \in Nat, n = Len(rows) + 1
  PROVE  RunnerIsTrue'
<1> DEFINE c == [job[j] EXCEPT !.at = "mark", !.row = Len(rows')]
<1>1. Works(j) /\ Answers(j) /\ ~Exchanges(j) BY DEF Recorded, Works, Answers, Exchanges, JobAt
<1>2. /\ DOMAIN rows' = DOMAIN rows \union {n} /\ n \notin DOMAIN rows /\ n = Len(rows')
      /\ \A r \in DOMAIN rows : rows'[r] = rows[r]
      /\ rows'[n].attempt = job[j].a /\ rows'[n].q = job[j].q /\ n \in Nat
  <2>1. rows \in Seq(Given) /\ rows' = Append(rows, NewRow(j)) /\ NewRow(j) \in Given
    BY <1>1, RowIsGiven DEF Recorded, QuizTypes
  <2>2. NewRow(j).attempt = job[j].a /\ NewRow(j).q = job[j].q BY DEF NewRow
  <2> QED BY <2>1, <2>2, GivenRow
<1>3. /\ job' \in [Jobs -> Call] /\ job'[j].at = "mark" /\ job'[j].row = n /\ job'[j].a = job[j].a
      /\ job'[j].q = job[j].q
      /\ \A k \in Jobs \ {j} : job'[k] = job[k]
  <2>1. c \in Call /\ c.at = "mark" /\ c.row = n /\ c.a = job[j].a /\ c.q = job[j].q
    <3>1. job[j] \in Call BY DEF QuizTypes
    <3> QED BY <1>2, <3>1 DEF Call, Places
  <2>2. Turns(j, c) BY DEF Recorded, Turns, QuizTypes
  <2> HIDE DEF c
  <2> QED BY <2>1, <2>2, CallTurns DEF QuizTypes
<1>4. UNCHANGED <<attempts, active, answers>> BY DEF Recorded
<1>5. active # NoAttempt /\ active.id \in DOMAIN attempts /\ job[j].a = active.id /\ ~InExchange
      /\ \A k \in Jobs : ~Exchanges(k)
  BY <1>1, WorkerHas
<1>6. \A k \in Jobs : ~Exchanges(k)' BY <1>3, <1>5 DEF Exchanges
<1>7. WillBeMine(n, job[j].q) /\ \A r, q : IsMine(r, q) => WillBeMine(r, q)
  BY <1>2, <1>4, <1>5 DEF IsMine, WillBeMine
<1>8. \A k \in Jobs : IsMine(job[k].row, job[k].q)' <=> WillBeMine(job'[k].row, job'[k].q)
  BY DEF IsMine, WillBeMine
<1>9. WorkersKnow'
  <2>1. ASSUME NEW k \in Jobs, job'[k].at \in {"mark", "grade", "storeGrade"} PROVE WillBeMine(job'[k].row, job'[k].q)
    <3>1. CASE k = j BY <1>3, <1>7, <3>1
    <3>2. CASE k # j
      <4>1. job'[k] = job[k] BY <1>3, <3>2
      <4>2. IsMine(job[k].row, job[k].q) BY <2>1, <4>1 DEF RunnerIsTrue, WorkersKnow
      <4> QED BY <1>7, <4>1, <4>2
    <3> QED BY <3>1, <3>2
  <2>2. ASSUME NEW k \in Jobs, Works(k)' PROVE active'.id \in DOMAIN attempts' /\ job'[k].a = active'.id
    <3>1. CASE k = j BY <1>3, <1>4, <1>5, <3>1
    <3>2. CASE k # j BY <1>3, <1>4, <2>2, <3>2 DEF RunnerIsTrue, WorkersKnow, Works, Answers, JobAt
    <3> QED BY <3>1, <3>2
  <2>3. ASSUME NEW k \in Jobs, job'[k].at \in {"grade", "storeGrade"}
        PROVE  job'[k].q \in DOMAIN answers' /\ answers'[job'[k].q].row = job'[k].row
    BY <1>3, <1>4, <2>3 DEF RunnerIsTrue, WorkersKnow
  <2> QED BY <1>8, <2>1, <2>2, <2>3 DEF WorkersKnow
<1>10. ExchangesAreAlone' BY <1>6 DEF ExchangesAreAlone
<1>11. RowsHaveAttempts' /\ AttemptIsStored'
  BY <1>2, <1>4, <1>5 DEF RunnerIsTrue, RowsHaveAttempts, AttemptIsStored
<1>12. AnswersAreStored'
  <2>1. \A q \in DOMAIN answers : IsMine(answers[q].row, q) /\ rows[answers[q].row].v = answers[q].v
    BY <1>5 DEF RunnerIsTrue, AnswersAreStored
  <2>2. \A q \in DOMAIN answers : IsMine(answers[q].row, q)' /\ rows'[answers'[q].row].v = answers'[q].v
    BY <1>2, <1>4, <2>1 DEF IsMine
  <2>3. ASSUME NEW r \in DOMAIN rows', rows'[r].attempt = active.id
        PROVE  rows'[r].q \in DOMAIN answers \/ \E k \in Jobs : JobAt(k, "mark")' /\ job'[k].row = r
    <3>1. CASE r = n BY <1>3, <3>1 DEF JobAt
    <3>2. CASE r \in DOMAIN rows
      <4>1. rows[r].q \in DOMAIN answers \/ \E k \in Jobs : JobAt(k, "mark") /\ job[k].row = r
        BY <1>2, <1>5, <2>3, <3>2 DEF RunnerIsTrue, AnswersAreStored
      <4>2. ~JobAt(j, "mark") BY DEF Recorded, JobAt
      <4> QED BY <1>2, <1>3, <3>2, <4>1, <4>2 DEF JobAt
    <3> QED BY <1>2, <2>3, <3>1, <3>2
  <2> QED BY <1>4, <2>2, <2>3 DEF AnswersAreStored
<1> QED
  BY <1>9, <1>10, <1>11, <1>12 DEF RunnerIsTrue

\* An answer is shown with its row: one that was just written, or that its call marked.
LEMMA AnswerShown ==
  ASSUME QuizTypes, RunnerIsTrue, OnceEach', NEW j \in Jobs, NEW n \in Nat, NEW v, NEW c \in Call,
         NEW p \in Questions, p = job[j].q,
         Answers(j), Turns(j, c), UNCHANGED <<attempts, active>>,
         answers' = With(p, n, v),
         DOMAIN rows \subseteq DOMAIN rows',
         \A r \in DOMAIN rows' : r \in DOMAIN rows \/ r = n,
         \A r \in DOMAIN rows : /\ rows'[r].attempt = rows[r].attempt /\ rows'[r].q = rows[r].q
                                /\ r # n => rows'[r].v = rows[r].v,
         n \in DOMAIN rows', rows'[n].attempt = active.id, rows'[n].q = p, rows'[n].v = v,
         JobAt(j, "mark") => job[j].row = n,
         c.at \in {"idle", "grade", "finish"}, c.at # "idle" => c.a = active.id,
         c.at = "grade" => c.row = n /\ c.q = p
  PROVE  RunnerIsTrue'
<1>1. job' \in [Jobs -> Call] /\ job'[j] = c /\ \A k \in Jobs \ {j} : job'[k] = job[k]
  BY CallTurns DEF QuizTypes
<1>2. active # NoAttempt /\ active.id \in DOMAIN attempts /\ job[j].a = active.id /\ ~InExchange
      /\ \A k \in Jobs : ~Exchanges(k)
  BY WorkerHas DEF Works
<1>3. DOMAIN answers' = DOMAIN answers \union {p} /\ answers'[p].row = n /\ answers'[p].v = v
      /\ \A q \in DOMAIN answers : q # p => answers'[q] = answers[q]
  BY DEF With
<1>4. \A k \in Jobs : ~Exchanges(k)' BY <1>1, <1>2 DEF Exchanges
<1>5. WillBeMine(n, p) BY DEF WillBeMine
<1>a. \A k \in Jobs : IsMine(job[k].row, job[k].q)' <=> WillBeMine(job'[k].row, job'[k].q)
  BY DEF IsMine, WillBeMine
<1>6. ASSUME NEW r, NEW q, IsMine(r, q) PROVE WillBeMine(r, q) /\ (q = p => r = n)
  <2>1. WillBeMine(r, q) BY <1>6 DEF IsMine, WillBeMine
  <2> QED BY <1>5, <2>1 DEF WillBeMine, OnceEach
<1>7. WorkersKnow'
  <2>1. ASSUME NEW k \in Jobs, k # j, job[k].at \in {"mark", "grade", "storeGrade"}
        PROVE  WillBeMine(job[k].row, job[k].q) /\ (job[k].q = p => job[k].row = n)
    <3>1. IsMine(job[k].row, job[k].q) BY <2>1 DEF RunnerIsTrue, WorkersKnow
    <3> QED BY <1>6, <3>1
  <2>2. ASSUME NEW k \in Jobs, k # j, job[k].at \in {"grade", "storeGrade"}
        PROVE  job[k].q \in DOMAIN answers' /\ answers'[job[k].q].row = job[k].row
    <3>1. job[k].q \in DOMAIN answers /\ answers[job[k].q].row = job[k].row
      BY <2>2 DEF RunnerIsTrue, WorkersKnow
    <3> QED BY <1>3, <2>1, <2>2, <3>1
  <2>3. ASSUME NEW k \in Jobs, Works(k)' PROVE active'.id \in DOMAIN attempts' /\ job'[k].a = active'.id
    <3>1. CASE k = j BY <1>1, <1>2, <2>3, <3>1 DEF Works, Answers, JobAt
    <3>2. CASE k # j BY <1>1, <1>2, <2>3, <3>2 DEF RunnerIsTrue, WorkersKnow, Works, Answers, JobAt
    <3> QED BY <3>1, <3>2
  <2>4. ASSUME NEW k \in Jobs
        PROVE  /\ job'[k].at \in {"mark", "grade", "storeGrade"} => WillBeMine(job'[k].row, job'[k].q)
               /\ job'[k].at \in {"grade", "storeGrade"} =>
                    job'[k].q \in DOMAIN answers' /\ answers'[job'[k].q].row = job'[k].row
    <3>1. CASE k = j BY <1>1, <1>3, <1>5, <3>1
    <3>2. CASE k # j BY <1>1, <2>1, <2>2, <3>2
    <3> QED BY <3>1, <3>2
  <2> QED BY <1>a, <2>3, <2>4 DEF WorkersKnow
<1>8. ExchangesAreAlone' BY <1>4 DEF ExchangesAreAlone
<1>9. RowsHaveAttempts' /\ AttemptIsStored'
  BY <1>2 DEF RunnerIsTrue, RowsHaveAttempts, AttemptIsStored
<1>10. AnswersAreStored'
  <2>1. \A q \in DOMAIN answers : IsMine(answers[q].row, q) /\ rows[answers[q].row].v = answers[q].v
    BY <1>2 DEF RunnerIsTrue, AnswersAreStored
  <2>2. ASSUME NEW q \in DOMAIN answers' PROVE WillBeMine(answers'[q].row, q) /\ rows'[answers'[q].row].v = answers'[q].v
    <3>1. CASE q = p BY <1>3, <1>5, <3>1
    <3>2. CASE q # p
      <4>1. answers'[q] = answers[q] /\ IsMine(answers[q].row, q) /\ rows[answers[q].row].v = answers[q].v
        BY <1>3, <2>1, <2>2, <3>2
      <4>2. WillBeMine(answers[q].row, q) BY <1>6, <4>1
      <4>3. answers[q].row # n BY <3>2, <4>2 DEF WillBeMine
      <4> QED BY <4>1, <4>2, <4>3 DEF IsMine
    <3> QED BY <3>1, <3>2
  <2>3. ASSUME NEW r \in DOMAIN rows', rows'[r].attempt = active.id
        PROVE  rows'[r].q \in DOMAIN answers' \/ \E k \in Jobs : JobAt(k, "mark")' /\ job'[k].row = r
    <3>1. CASE r = n BY <1>3, <3>1
    <3>2. CASE r # n
      <4>1. rows[r].q \in DOMAIN answers \/ \E k \in Jobs : JobAt(k, "mark") /\ job[k].row = r
        BY <1>2, <2>3, <3>2 DEF RunnerIsTrue, AnswersAreStored
      <4> QED BY <1>1, <1>3, <2>3, <3>2, <4>1 DEF JobAt
    <3> QED BY <3>1, <3>2
  <2>4. \A q \in DOMAIN answers' : IsMine(answers[q].row, q)' BY <2>2 DEF IsMine, WillBeMine
  <2> QED BY <2>2, <2>3, <2>4 DEF AnswersAreStored
<1> QED
  BY <1>7, <1>8, <1>9, <1>10 DEF RunnerIsTrue

LEMMA ShortRecordedKeeps ==
  ASSUME QuizTypes, RunnerIsTrue, OnceEach', NEW j \in Jobs, ShortRecorded(j),
         NEW n \in Nat, n = Len(rows) + 1, NEW p \in Questions, p = job[j].q
  PROVE  RunnerIsTrue'
<1>1. Works(j) /\ Answers(j) /\ ~JobAt(j, "mark") BY DEF ShortRecorded, Works, Answers, JobAt
<1>2. /\ DOMAIN rows' = DOMAIN rows \union {n} /\ n = Len(rows')
      /\ \A r \in DOMAIN rows : rows'[r] = rows[r]
      /\ rows'[n].attempt = job[j].a /\ rows'[n].q = p /\ rows'[n].v = "none"
  <2>1. rows \in Seq(Given) /\ rows' = Append(rows, NewRow(j)) /\ NewRow(j) \in Given
    BY <1>1, RowIsGiven DEF ShortRecorded, QuizTypes
  <2>2. NewRow(j).attempt = job[j].a /\ NewRow(j).q = p /\ NewRow(j).v = "none" BY DEF NewRow
  <2> QED BY <2>1, <2>2, GivenRow
<1>3. \E c \in Call : /\ Turns(j, c) /\ c.at \in {"idle", "grade"}
                      /\ c.at = "grade" => c.a = active.id /\ c.row = n /\ c.q = p
  <2>1. CASE Ends(j) BY <2>1, IdleIsACall DEF Ends, Turns
  <2>2. CASE job' = [job EXCEPT ![j].at = "grade", ![j].a = active.id, ![j].row = Len(rows')]
    <3> DEFINE c == [job[j] EXCEPT !.at = "grade", !.a = active.id, !.row = n]
    <3>1. c \in Call /\ c.at = "grade" /\ c.a = active.id /\ c.row = n /\ c.q = p
      BY DEF QuizTypes, Call, Places
    <3>2. Turns(j, c) BY <1>2, <2>2 DEF Turns, QuizTypes
    <3> HIDE DEF c
    <3> QED BY <3>1, <3>2
  <2> QED BY <2>1, <2>2 DEF ShortRecorded
<1>4. PICK c \in Call : /\ Turns(j, c) /\ c.at \in {"idle", "grade"}
                        /\ c.at = "grade" => c.a = active.id /\ c.row = n /\ c.q = p
  BY <1>3
<1>5. job[j].a = active.id BY <1>1, WorkerHas
<1>6. UNCHANGED <<attempts, active>> /\ answers' = With(p, n, "none") BY <1>2 DEF ShortRecorded
<1> QED BY <1>1, <1>2, <1>4, <1>5, <1>6, AnswerShown

LEMMA MarksKeep ==
  ASSUME QuizTypes, RunnerIsTrue, OnceEach', NEW j \in Jobs, Marked(j) \/ GradeStored(j),
         NEW n \in Nat, n = job[j].row, NEW p \in Questions, p = job[j].q
  PROVE  RunnerIsTrue'
<1>1. Works(j) /\ Answers(j) /\ job[j].at \in {"mark", "storeGrade"}
  BY DEF Marked, GradeStored, Works, Answers, JobAt
<1>2. IsMine(n, p) /\ (JobAt(j, "storeGrade") => p \in DOMAIN answers /\ answers[p].row = n)
  BY <1>1 DEF RunnerIsTrue, WorkersKnow, JobAt
<1>3. rows' = [rows EXCEPT ![n].v = job[j].v] /\ UNCHANGED <<attempts, active>>
  BY DEF Marked, GradeStored, view
<1>4. answers' = With(p, n, job[j].v)
  BY <1>1, <1>2 DEF Marked, GradeStored, JobAt
<1>5. job[j].v \in Verdicts /\ rows \in Seq(Given) BY DEF QuizTypes, Call
<1>6. /\ DOMAIN rows' = DOMAIN rows
      /\ \A r \in DOMAIN rows : /\ rows'[r].attempt = rows[r].attempt /\ rows'[r].q = rows[r].q
                                /\ r # n => rows'[r].v = rows[r].v
                                /\ r = n => rows'[r].v = job[j].v
  BY <1>3, <1>5, VerdictOfARow
<1>7. DOMAIN answers' \subseteq Questions BY <1>4, PutKeepsTypes
<1>8. \E c \in Call : /\ Turns(j, c) /\ c.at \in {"idle", "finish"}
                      /\ c.at = "finish" => active # NoAttempt /\ c.a = active.id
  <2>1. CASE Ends(j) BY <2>1, IdleIsACall DEF Ends, Turns
  <2>2. CASE FinishIfComplete(j, answers') BY <1>7, <2>2, FinishesOrEnds
  <2> QED BY <2>1, <2>2 DEF Marked, GradeStored
<1>9. PICK c \in Call : /\ Turns(j, c) /\ c.at \in {"idle", "finish"}
                        /\ c.at = "finish" => active # NoAttempt /\ c.a = active.id
  BY <1>8
<1>10. n \in DOMAIN rows /\ rows'[n].attempt = active.id /\ rows'[n].q = p /\ rows'[n].v = job[j].v
  BY <1>2, <1>6 DEF IsMine
<1>11. JobAt(j, "mark") => job[j].row = n OBVIOUS
<1>12. \E v : v = job[j].v OBVIOUS
<1>13. PICK v : v = job[j].v BY <1>12
<1>14. answers' = With(p, n, v) /\ rows'[n].v = v BY <1>4, <1>10, <1>13
<1> QED BY <1>1, <1>3, <1>6, <1>9, <1>10, <1>11, <1>14, AnswerShown

LEMMA FinishedKeeps ==
  ASSUME QuizTypes, RunnerIsTrue, NEW j \in Jobs, Finished(j)
  PROVE  RunnerIsTrue'
<1>1. Works(j) /\ ~JobAt(j, "mark") BY DEF Finished, Works, JobAt
<1>2. active # NoAttempt /\ active.id \in DOMAIN attempts /\ job[j].a = active.id /\ ~InExchange
      /\ \A k \in Jobs : ~Exchanges(k)
  BY <1>1, WorkerHas
<1>3. /\ job' \in [Jobs -> Call] /\ job'[j] = Idle /\ Idle.at = "idle"
      /\ \A k \in Jobs \ {j} : job'[k] = job[k]
  BY IdleIsACall, CallTurns DEF Finished, Ends, Turns, QuizTypes
<1>4. UNCHANGED <<rows, answers>> BY DEF Finished
<1>5. active'.id = active.id /\ active'.done = TRUE BY DEF Finished, QuizTypes
<1>6. DOMAIN attempts' = DOMAIN attempts /\ attempts'[active.id].done = TRUE
  <2>1. job[j].a \in Nat /\ job[j].row \in Nat /\ job[j].a # 0 BY <1>2 DEF QuizTypes, Call
  <2>2. attempts' = [attempts EXCEPT ![job[j].a] = [@ EXCEPT !.done = TRUE, !.score = job[j].row]]
    BY <2>1 DEF Finished
  <2> QED BY <1>2, <2>1, <2>2, ScoreOfAnAttempt DEF QuizTypes
<1>7. \A k \in Jobs : ~Exchanges(k)' BY <1>2, <1>3 DEF Exchanges
<1>8. \A k \in Jobs : JobAt(k, "mark") => k # j /\ job'[k] = job[k] BY <1>1, <1>3
<1>9. WorkersKnow'
  BY <1>2, <1>3, <1>4, <1>5, <1>6 DEF RunnerIsTrue, WorkersKnow, IsMine, Works, Answers, JobAt
<1>10. ExchangesAreAlone' BY <1>7 DEF ExchangesAreAlone
<1>11. RowsHaveAttempts' /\ AttemptIsStored'
  BY <1>2, <1>4, <1>5, <1>6 DEF RunnerIsTrue, RowsHaveAttempts, AttemptIsStored
<1>12. AnswersAreStored'
  BY <1>2, <1>4, <1>5, <1>8 DEF RunnerIsTrue, AnswersAreStored, IsMine, JobAt
<1> QED
  BY <1>9, <1>10, <1>11, <1>12 DEF RunnerIsTrue

-----------------------------------------------------------------------------
(* The steps.                                                              *)

\* Rows keep their question and their attempt, and what was crossed stays so.
LEMMA NothingIsUndone ==
  ASSUME QuizTypes, NEW j \in Jobs, Loading(j) \/ Attempting(j) \/ Answering(j), OnceEach', ~crossed'
  PROVE  OnceEach /\ ~crossed
<1>1. ~crossed
  BY DEF Loading, Attempting, Answering, LoadQuiz, QuizRead, QuizMissing, QuestionsRead, AttemptsRead,
         AnswersRead, LoadFails, Start, Started, Review, AttemptRead, Reviewed, AnswerAuto, Recorded, Marked,
         AnswerShort, Regrade, ShortRecorded, Judged, GradingFails, GradeStored, Finished, Exchanged
<1>2. \/ UNCHANGED rows
      \/ Answers(j) /\ rows' = Append(rows, NewRow(j))
      \/ rows' = [rows EXCEPT ![job[j].row].v = job[j].v]
  BY DEF Loading, Attempting, Answering, LoadQuiz, QuizRead, QuizMissing, QuestionsRead, AttemptsRead,
         AnswersRead, LoadFails, Start, Started, Review, AttemptRead, Reviewed, AnswerAuto, Recorded, Marked,
         AnswerShort, Regrade, ShortRecorded, Judged, GradingFails, GradeStored, Finished, stored,
         Answers, JobAt
<1>3. CASE UNCHANGED rows BY <1>1, <1>3 DEF OnceEach
<1>4. CASE Answers(j) /\ rows' = Append(rows, NewRow(j))
  <2>1. rows \in Seq(Given) /\ NewRow(j) \in Given BY <1>4, RowIsGiven DEF QuizTypes
  <2>2. DOMAIN rows \subseteq DOMAIN rows' /\ \A r \in DOMAIN rows : rows'[r] = rows[r]
    BY <1>4, <2>1, GivenRow
  <2> QED BY <1>1, <2>2 DEF OnceEach
<1>5. CASE rows' = [rows EXCEPT ![job[j].row].v = job[j].v]
  <2>1. rows \in Seq(Given) /\ job[j].row \in Nat /\ job[j].v \in Verdicts BY DEF QuizTypes, Call
  <2>2. DOMAIN rows' = DOMAIN rows
        /\ \A r \in DOMAIN rows : rows'[r].attempt = rows[r].attempt /\ rows'[r].q = rows[r].q
    BY <1>5, <2>1, VerdictOfARow
  <2> QED BY <1>1, <2>2 DEF OnceEach
<1> QED
  BY <1>2, <1>3, <1>4, <1>5

LEMMA LoadingKeeps ==
  ASSUME QuizTypes, RunnerIsTrue, NEW j \in Jobs, Loading(j), ~crossed'
  PROVE  RunnerIsTrue'
<1> USE DEF Ends, MovesOn, JobAt, stored
<1>1. job \in [Jobs -> Call] /\ job[j] \in Call /\ Idle \in Call /\ Idle.at = "idle"
  BY IdleIsACall DEF QuizTypes
<1>2. ASSUME ~Works(j), ~Exchanges(j), UNCHANGED <<attempts, rows, active, answers>>, NEW c \in Call,
             job' = [job EXCEPT ![j] = c], c.at \in {"idle", "load", "loadQuestions", "loadAttempts"}
      PROVE  RunnerIsTrue'
  BY <1>2, QuietCall DEF Turns
<1>3. ASSUME NEW z \in Quizzed, LoadQuiz(j, z) PROVE RunnerIsTrue'
  <2> DEFINE c == [job[j] EXCEPT !.at = "load", !.z = z]
  <2>1. c \in Call /\ c.at = "load" BY <1>1 DEF Call, Places
  <2>2. job' = [job EXCEPT ![j] = c] BY <1>1, <1>3 DEF LoadQuiz
  <2> HIDE DEF c
  <2>3. ~Works(j) /\ ~Exchanges(j) BY <1>3 DEF LoadQuiz, Works, Answers, Exchanges
  <2> QED BY <1>2, <1>3, <2>1, <2>2, <2>3 DEF LoadQuiz
<1>4. ASSUME NEW p \in {"loadQuestions", "loadAttempts"}, job' = [job EXCEPT ![j].at = p],
             job[j].at \in {"load", "loadQuestions"}, UNCHANGED <<attempts, rows, active, answers>>
      PROVE  RunnerIsTrue'
  <2> DEFINE c == [job[j] EXCEPT !.at = p]
  <2>1. c \in Call /\ c.at = p BY <1>1 DEF Call, Places
  <2>2. job' = [job EXCEPT ![j] = c] BY <1>1, <1>4
  <2> HIDE DEF c
  <2>3. ~Works(j) /\ ~Exchanges(j) BY <1>4 DEF Works, Answers, Exchanges
  <2> QED BY <1>2, <1>4, <2>1, <2>2, <2>3
<1>5. CASE QuizRead(j) \/ QuestionsRead(j) BY <1>4, <1>5 DEF QuizRead, QuestionsRead
<1>6. RowsHaveAttempts BY DEF RunnerIsTrue
<1>7. ASSUME Ends(j), Exchanged(j), active' = NoAttempt, UNCHANGED <<attempts, rows>> PROVE RunnerIsTrue'
  <2>1. /\ job'[j] = Idle
        /\ \A k \in Jobs \ {j} : ~Works(k)' /\ ~Exchanges(k)'
    BY <1>1, <1>7, AloneAtExchange DEF Turns
  <2> QED BY <1>6, <1>7, <2>1, LeftAlone
<1>8. CASE QuizMissing(j) BY <1>7, <1>8 DEF QuizMissing
<1>9. CASE AttemptsRead(j)
  <2>1. CASE active' = NoAttempt /\ Ends(j) BY <1>7, <1>9, <2>1 DEF AttemptsRead
  <2>2. CASE \E i \in {i \in DOMAIN attempts : ~attempts[i].done} :
               /\ active' = [id |-> i, done |-> FALSE]
               /\ job' = [job EXCEPT ![j].at = "loadAnswers", ![j].a = i]
    <3>1. PICK i \in {i \in DOMAIN attempts : ~attempts[i].done} :
               /\ active' = [id |-> i, done |-> FALSE]
               /\ job' = [job EXCEPT ![j].at = "loadAnswers", ![j].a = i]
      BY <2>2
    <3>2. i \in Nat /\ attempts[i] \in Taking BY DEF QuizTypes
    <3>3. attempts[i].done = FALSE BY <3>2 DEF Taking
    <3> DEFINE c == [job[j] EXCEPT !.at = "loadAnswers", !.a = i]
    <3>4. c \in Call /\ c.at = "loadAnswers" /\ c.a = i BY <1>1, <3>2 DEF Call, Places
    <3>5. Turns(j, c) BY <1>1, <3>1 DEF Turns
    <3> HIDE DEF c
    <3>6. Exchanged(j) /\ UNCHANGED <<attempts, rows>> BY <1>9 DEF AttemptsRead
    <3>7. job'[j] = c /\ \A k \in Jobs \ {j} : ~Works(k)' /\ ~Exchanges(k)'
      BY <3>4, <3>5, <3>6, AloneAtExchange
    <3>8. Exchanges(j)' BY <3>4, <3>7 DEF Exchanges
    <3>9. active'.id = i /\ active'.done = FALSE BY <3>1
    <3> QED BY <1>6, <3>3, <3>4, <3>6, <3>7, <3>8, <3>9, AnswersToRead
  <2> QED BY <1>9, <2>1, <2>2 DEF AttemptsRead
<1>10. CASE AnswersRead(j)
  <2>1. Exchanges(j) BY <1>10 DEF AnswersRead, Exchanges
  <2>2. /\ job'[j] = Idle
        /\ \A k \in Jobs \ {j} : ~Works(k)' /\ ~Exchanges(k)'
    BY <1>1, <1>10, AloneAtExchange DEF AnswersRead, Turns
  <2> QED BY <1>10, <2>1, <2>2, AnswersWereRead DEF AnswersRead
<1>11. CASE LoadFails(j)
  <2>1. ~Works(j) /\ ~Exchanges(j) BY <1>11 DEF LoadFails, Works, Answers, Exchanges
  <2> QED BY <1>1, <1>2, <1>11, <2>1 DEF LoadFails
<1> QED
  BY <1>3, <1>5, <1>8, <1>9, <1>10, <1>11 DEF Loading

LEMMA AttemptingKeeps ==
  ASSUME QuizTypes, RunnerIsTrue, NEW j \in Jobs, Attempting(j), ~crossed'
  PROVE  RunnerIsTrue'
<1> USE DEF Ends, MovesOn, JobAt, stored
<1>1. job \in [Jobs -> Call] /\ job[j] \in Call /\ Idle \in Call /\ Idle.at = "idle"
  BY IdleIsACall DEF QuizTypes
<1>2. ASSUME JobAt(j, "idle"), UNCHANGED <<attempts, rows, active, answers>>, NEW c \in Call,
             job' = [job EXCEPT ![j] = c], c.at \in {"start", "review"}
      PROVE  RunnerIsTrue'
  <2>1. ~Works(j) /\ ~Exchanges(j) BY <1>2 DEF Works, Answers, Exchanges
  <2> QED BY <1>2, <2>1, QuietCall DEF Turns
<1>3. CASE Start(j)
  <2> DEFINE c == [job[j] EXCEPT !.at = "start", !.z = current]
  <2>1. c \in Call /\ c.at = "start" BY <1>1 DEF Call, Places, QuizTypes
  <2>2. job' = [job EXCEPT ![j] = c] BY <1>1, <1>3 DEF Start
  <2> HIDE DEF c
  <2> QED BY <1>2, <1>3, <2>1, <2>2 DEF Start
<1>4. ASSUME NEW i \in 1 .. MaxAttempts, Review(j, i) PROVE RunnerIsTrue'
  <2> DEFINE c == [job[j] EXCEPT !.at = "review", !.a = i]
  <2>1. i \in DOMAIN attempts /\ i \in Nat BY <1>4 DEF Review, QuizTypes
  <2>2. c \in Call /\ c.at = "review" BY <1>1, <2>1 DEF Call, Places
  <2>3. job' = [job EXCEPT ![j] = c] BY <1>1, <1>4 DEF Review
  <2> HIDE DEF c
  <2> QED BY <1>2, <1>4, <2>2, <2>3 DEF Review
<1>5. RowsHaveAttempts BY DEF RunnerIsTrue
<1>6. CASE Started(j)
  <2>1. /\ job'[j] = Idle
        /\ \A k \in Jobs \ {j} : ~Works(k)' /\ ~Exchanges(k)'
    BY <1>1, <1>6, AloneAtExchange DEF Started, Turns
  <2>2. \A k \in Jobs : ~Works(k)' /\ ~Exchanges(k)'
    BY <1>1, <2>1 DEF Works, Answers, Exchanges
  <2> DEFINE e == [quiz |-> job[j].z, done |-> FALSE, score |-> 0]
  <2>3. e \in Taking /\ e.done = FALSE BY <1>1 DEF Taking, Call
  <2>4. attempts' = Append(attempts, e) BY <1>6 DEF Started
  <2> HIDE DEF e
  <2>5. /\ Len(attempts') = Len(attempts) + 1 /\ Len(attempts) \in Nat
        /\ DOMAIN attempts = 1 .. Len(attempts) /\ DOMAIN attempts' = 1 .. Len(attempts')
        /\ attempts'[Len(attempts')] = e
    BY <2>3, <2>4 DEF QuizTypes
  <2>6. active'.id = Len(attempts') /\ active'.done = FALSE /\ DOMAIN answers' = {} /\ rows' = rows
    BY <1>6 DEF Started
  <2>7. \A r \in DOMAIN rows : rows[r].attempt # active'.id /\ rows[r].attempt \in DOMAIN attempts'
    BY <1>5, <2>5, <2>6 DEF RowsHaveAttempts
  <2>8. WorkersKnow' BY <2>2 DEF WorkersKnow, Works, Answers
  <2>9. ExchangesAreAlone' BY <2>2 DEF ExchangesAreAlone
  <2>10. RowsHaveAttempts' BY <2>6, <2>7 DEF RowsHaveAttempts
  <2>11. AttemptIsStored'
    <3>1. Len(attempts') \in DOMAIN attempts' BY <2>5
    <3>2. attempts'[Len(attempts')].done = FALSE BY <2>3, <2>5
    <3> QED BY <2>6, <3>1, <3>2 DEF AttemptIsStored
  <2>12. AnswersAreStored' BY <2>6, <2>7 DEF AnswersAreStored
  <2> QED BY <2>8, <2>9, <2>10, <2>11, <2>12 DEF RunnerIsTrue
<1>7. CASE AttemptRead(j)
  <2> DEFINE c == [job[j] EXCEPT !.at = "reviewAnswers"]
  <2>1. c \in Call /\ c.at = "reviewAnswers" /\ c.a = job[j].a BY <1>1 DEF Call, Places
  <2>2. Turns(j, c) BY <1>1, <1>7 DEF AttemptRead, Turns
  <2> HIDE DEF c
  <2>3. Exchanged(j) /\ UNCHANGED <<attempts, rows>> BY <1>7 DEF AttemptRead
  <2>4. job'[j] = c /\ \A k \in Jobs \ {j} : ~Works(k)' /\ ~Exchanges(k)'
    BY <2>1, <2>2, <2>3, AloneAtExchange
  <2>5. Exchanges(j)' BY <2>1, <2>4 DEF Exchanges
  <2>6. job[j].a \in DOMAIN attempts BY <1>7 DEF AttemptRead, QuizTypes
  <2>7. active'.id = job[j].a /\ active'.done = attempts[job[j].a].done BY <1>7 DEF AttemptRead
  <2>8. job'[j].a = active'.id BY <2>1, <2>4, <2>7
  <2> QED BY <1>5, <2>3, <2>4, <2>5, <2>6, <2>7, <2>8, AnswersToRead
<1>8. CASE Reviewed(j)
  <2>1. Exchanges(j) BY <1>8 DEF Reviewed, Exchanges
  <2>2. /\ job'[j] = Idle
        /\ \A k \in Jobs \ {j} : ~Works(k)' /\ ~Exchanges(k)'
    BY <1>1, <1>8, AloneAtExchange DEF Reviewed, Turns
  <2> QED BY <1>8, <2>1, <2>2, AnswersWereRead DEF Reviewed
<1> QED
  BY <1>3, <1>4, <1>6, <1>7, <1>8 DEF Attempting

LEMMA AnsweringKeeps ==
  ASSUME QuizTypes, RunnerIsTrue, NEW j \in Jobs, Answering(j), ~crossed', OnceEach'
  PROVE  RunnerIsTrue'
<1> USE DEF Ends, MovesOn, JobAt, stored, view
<1>1. job \in [Jobs -> Call] /\ job[j] \in Call /\ Idle \in Call /\ Idle.at = "idle"
      /\ Verdicts = {"right", "wrong", "none", "failed"} /\ Graded = {"right", "wrong"}
      /\ AtOnce \subseteq Questions /\ Short \subseteq Questions
  BY IdleIsACall DEF QuizTypes, Verdicts, Graded, Questions
<1>2. active.id \in Nat /\ \A q \in DOMAIN answers : answers[q].row \in Nat BY DEF QuizTypes
<1>3. ASSUME NEW q \in AtOnce, NEW v \in Graded, AnswerAuto(j, q, v) PROVE RunnerIsTrue'
  <2> DEFINE c == [Idle EXCEPT !.at = "record", !.a = active.id, !.q = q, !.v = v]
  <2>1. c \in Call /\ c.at = "record" /\ c.a = active.id BY <1>1, <1>2 DEF Call, Idle, Places
  <2>2. Turns(j, c) /\ UNCHANGED <<stored, view, active, answers>> BY <1>3 DEF AnswerAuto, Turns
  <2>3. ~InExchange /\ active # NoAttempt /\ job[j].at = "idle" BY <1>3 DEF AnswerAuto, Open, Asking
  <2> HIDE DEF c
  <2> QED BY <2>1, <2>2, <2>3, WorkGoesOn
<1>4. ASSUME NEW q \in Short, AnswerShort(j, q) PROVE RunnerIsTrue'
  <2> DEFINE c == [Idle EXCEPT !.at = "recordShort", !.a = active.id, !.q = q]
  <2>1. c \in Call /\ c.at = "recordShort" /\ c.a = active.id BY <1>1, <1>2 DEF Call, Idle, Places
  <2>2. Turns(j, c) /\ UNCHANGED <<stored, view, active, answers>> BY <1>4 DEF AnswerShort, Turns
  <2>3. ~InExchange /\ active # NoAttempt /\ job[j].at = "idle" BY <1>4 DEF AnswerShort, Open, Asking
  <2> HIDE DEF c
  <2> QED BY <2>1, <2>2, <2>3, WorkGoesOn
<1>5. ASSUME NEW q \in Short, Regrade(j, q) PROVE RunnerIsTrue'
  <2> DEFINE c == [Idle EXCEPT !.at = "grade", !.a = active.id, !.q = q, !.row = answers[q].row]
  <2>1. q \in DOMAIN answers /\ answers[q].row \in Nat BY <1>2, <1>5 DEF Regrade
  <2>2. c \in Call /\ c.at = "grade" /\ c.a = active.id /\ c.q = q /\ c.row = answers[q].row
    BY <1>1, <1>2, <2>1 DEF Call, Idle, Places
  <2>3. Turns(j, c) /\ UNCHANGED <<stored, view, active, answers>> BY <1>5 DEF Regrade, Turns
  <2>4. ~InExchange /\ active # NoAttempt /\ job[j].at = "idle" BY <1>5 DEF Regrade, Asking
  <2> HIDE DEF c
  <2> QED BY <2>1, <2>2, <2>3, <2>4, WorkGoesOn
<1>6. ASSUME NEW v \in Verdicts, job' = [job EXCEPT ![j].at = "storeGrade", ![j].v = v], job[j].at = "grade",
             UNCHANGED <<stored, view, active, answers>>
      PROVE  RunnerIsTrue'
  <2> DEFINE c == [job[j] EXCEPT !.at = "storeGrade", !.v = v]
  <2>1. c \in Call /\ c.at = "storeGrade" /\ c.q = job[j].q /\ c.a = job[j].a /\ c.row = job[j].row
    BY <1>1 DEF Call, Places
  <2>2. Turns(j, c) BY <1>1, <1>6 DEF Turns
  <2>3. Works(j) BY <1>6 DEF Works, Answers
  <2>4. active # NoAttempt /\ job[j].a = active.id /\ ~InExchange BY <2>3, WorkerHas
  <2>5. job[j].q \in DOMAIN answers /\ answers[job[j].q].row = job[j].row
    BY <1>6 DEF RunnerIsTrue, WorkersKnow
  <2> HIDE DEF c
  <2> QED BY <1>6, <2>1, <2>2, <2>4, <2>5, WorkGoesOn
<1>7. ASSUME NEW v \in Graded, Judged(j, v) PROVE RunnerIsTrue'
  <2>1. Works(j) BY <1>7 DEF Judged, Works, Answers
  <2>2. active.id = job[j].a BY <2>1, WorkerHas
  <2> QED BY <1>1, <1>6, <1>7, <2>2 DEF Judged
<1>8. CASE GradingFails(j) BY <1>1, <1>6, <1>8 DEF GradingFails
<1>9. rows \in Seq(Given) /\ Len(rows) \in Nat /\ Len(rows) + 1 \in Nat BY DEF QuizTypes
<1>10. CASE Recorded(j) BY <1>9, <1>10, RecordedKeeps
<1>11. CASE ShortRecorded(j)
  <2>1. job[j].q \in Questions BY <1>11, RowIsGiven DEF ShortRecorded, Answers
  <2>2. \E n \in Nat, p \in Questions : n = Len(rows) + 1 /\ p = job[j].q BY <1>9, <2>1
  <2>3. PICK n \in Nat, p \in Questions : n = Len(rows) + 1 /\ p = job[j].q BY <2>2
  <2> QED BY <1>11, <2>3, ShortRecordedKeeps
<1>12. CASE Marked(j) \/ GradeStored(j)
  <2>1. job[j].q \in Questions /\ job[j].row \in Nat
    BY <1>1, <1>12, RowIsGiven DEF Marked, GradeStored, Answers, Call
  <2>2. \E n \in Nat, p \in Questions : n = job[j].row /\ p = job[j].q BY <2>1
  <2>3. PICK n \in Nat, p \in Questions : n = job[j].row /\ p = job[j].q BY <2>2
  <2> QED BY <1>12, <2>3, MarksKeep
<1>13. CASE Finished(j) BY <1>13, FinishedKeeps
<1> QED
  BY <1>3, <1>4, <1>5, <1>7, <1>8, <1>10, <1>11, <1>12, <1>13 DEF Answering

LEMMA QuizInvBegins == QuizInit => QuizInv
<1> SUFFICES ASSUME QuizInit PROVE QuizInv OBVIOUS
<1>1. \A j \in Jobs : job[j] = Idle /\ job[j].at = "idle" BY IdleIsACall DEF QuizInit
<1>2. job \in [Jobs -> Call] BY IdleIsACall DEF QuizInit
<1>3. attempts = <<>> /\ rows = <<>> /\ active = NoAttempt /\ DOMAIN answers = {} /\ current = NoQuiz
  BY DEF QuizInit
<1>4. QuizTypes BY <1>1, <1>2, <1>3 DEF QuizTypes, NoAttempt, Answers, JobAt
<1>5. RunnerIsTrue
  <2>1. \A j \in Jobs : ~Works(j) /\ ~Exchanges(j) BY <1>1 DEF Works, Answers, Exchanges, JobAt
  <2>2. WorkersKnow BY <1>1, <2>1 DEF WorkersKnow
  <2>3. ExchangesAreAlone BY <2>1 DEF ExchangesAreAlone
  <2> QED BY <1>3, <2>2, <2>3 DEF RunnerIsTrue, RowsHaveAttempts, AttemptIsStored, AnswersAreStored
<1> QED BY <1>4, <1>5 DEF QuizInv

LEMMA QuizInvStep ==
  ASSUME QuizInv, [QuizNext]_quizVars
  PROVE  QuizInv'
<1>1. ASSUME NEW j \in Jobs, Loading(j) \/ Attempting(j) \/ Answering(j) PROVE QuizInv'
  <2>1. QuizTypes' BY <1>1, LoadingTypes, AttemptingTypes, AnsweringTypes DEF QuizInv
  <2>2. ASSUME ~crossed', OnceEach' PROVE RunnerIsTrue'
    <3>1. QuizTypes /\ RunnerIsTrue BY <1>1, <2>2, NothingIsUndone DEF QuizInv
    <3> QED BY <1>1, <2>2, <3>1, LoadingKeeps, AttemptingKeeps, AnsweringKeeps
  <2> QED BY <2>1, <2>2 DEF QuizInv
<1>2. ASSUME UNCHANGED <<attempts, rows, current, active, answers, job, crossed>> PROVE QuizInv'
  <2>1. QuizTypes' BY <1>2 DEF QuizInv, QuizTypes, Answers, JobAt
  <2>2. OnceEach' => OnceEach BY <1>2 DEF OnceEach
  <2>3. RunnerIsTrue => RunnerIsTrue'
    BY <1>2 DEF RunnerIsTrue, WorkersKnow, ExchangesAreAlone, RowsHaveAttempts, AttemptIsStored, AnswersAreStored,
                IsMine, Works, Answers, Exchanges, JobAt, InExchange
  <2> QED BY <1>2, <2>1, <2>2, <2>3 DEF QuizInv
<1>3. CASE ViewResults BY <1>2, <1>3 DEF ViewResults, stored
<1>4. CASE UNCHANGED quizVars BY <1>2, <1>4 DEF quizVars, stored, view
<1> QED
  BY <1>1, <1>3, <1>4 DEF QuizNext

\* At rest the runner of quizzes shows what is stored: the attempt, finished or not, and each of its
\* answers with its verdict; for any number of calls, quizzes, questions and attempts, whatever
\* loads and gradings failed (quizzes.svelte.ts).
THEOREM RunnerIsTruthful == QuizSpec => []RunnerTellsTheTruth
<1>1. QuizInv => RunnerTellsTheTruth
  <2> SUFFICES ASSUME QuizInv, QuizAtRest, ~crossed, OnceEach, active # NoAttempt PROVE RunnerTellsTheTruth
    BY DEF RunnerTellsTheTruth
  <2>1. RunnerIsTrue BY DEF QuizInv
  <2>2. ~InExchange /\ \A j \in Jobs : ~JobAt(j, "mark") BY DEF QuizAtRest, JobAt, InExchange
  <2>3. active.done = attempts[active.id].done BY <2>1 DEF RunnerIsTrue, AttemptIsStored
  <2>4. /\ \A q \in DOMAIN answers : IsMine(answers[q].row, q) /\ rows[answers[q].row].v = answers[q].v
        /\ \A r \in DOMAIN rows : rows[r].attempt = active.id => rows[r].q \in DOMAIN answers
    BY <2>1, <2>2 DEF RunnerIsTrue, AnswersAreStored
  <2>5. DOMAIN answers = {rows[r].q : r \in {s \in DOMAIN rows : rows[s].attempt = active.id}}
    BY <2>4 DEF IsMine
  <2> QED BY <2>3, <2>4, <2>5 DEF RunnerTellsTheTruth, IsMine
<1> QED
  BY <1>1, QuizInvBegins, QuizInvStep, PTL DEF QuizSpec
=============================================================================
