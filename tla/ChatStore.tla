----------------------------- MODULE ChatStore -----------------------------
(***************************************************************************)
(* The chat store of the page (ChatState in src/lib/stores/chat.svelte.ts) *)
(* under several sends and loads at once: the user leaves a chat, opens    *)
(* another and sends there while the previous turn still has awaits to     *)
(* come back from.  What the store keeps -- the open chat, the messages on *)
(* screen, the streaming flag, the abort controller, the stream's buffer   *)
(* and the approval cards -- is shared by all of them.                     *)
(*                                                                         *)
(* A turn is AgentTurn seen from the store: it streams, appends rows, asks *)
(* and comes back.  Every await is a place where the others may step in.   *)
(* Rows are sets: their order is the repository's business.                *)
(***************************************************************************)
EXTENDS Naturals, Sequences, FiniteSets, SequencesExt

CONSTANTS
  Chats,      \* chats in the database
  Sends,      \* calls of send
  Loads,      \* bound: calls of load
  CardIds,    \* what providers may number a tool call with: some do so afresh in each response
  NoChat,
  NoSend

ASSUME StoreAssumption ==
  /\ NoChat \notin Chats
  /\ NoSend \notin Sends

VARIABLES
  chatId,     \* the open chat
  messages,   \* the rows on screen
  streaming,
  controller, \* the turn whose AbortController the store holds
  buffer,     \* the turn whose text streamBuffer holds
  cards,      \* pendingApprovals
  aborted,    \* the turns whose controller is aborted
  db,         \* the rows of each chat
  sendAt,      \* the await each send is suspended at
  home,       \* the chat each send captured
  signal,     \* the turn whose controller's signal each turn listens to
  rescued,    \* the text each turn stores as interrupted
  loads       \* each load: where it is, its chat and the rows it read

storeVars == <<chatId, messages, streaming, controller, buffer, cards>>
turnVars  == <<sendAt, home, signal, rescued>>
chatVars      == <<storeVars, turnVars, aborted, db, loads>>

Row == [by : Sends, kind : {"user", "reply", "ask", "interrupted"},
        text : Sends]

Awaits == {"new", "storing", "entering", "touching", "preparing", "running", "showing",
       "asking", "queueing", "waiting", "leaving", "interrupting",
       "mourning", "done"}

\* Sends that have begun streaming and have not been through 'finally'.
Live == {t \in Sends : sendAt[t] \in Awaits \ {"new", "storing", "entering", "touching", "done"}}

\* Sends that are inside runAgentTurn.
InTurn == {t \in Sends : sendAt[t] \in {"running", "showing", "asking",
                                    "queueing", "waiting"}}

StoreTypeOK ==
  /\ chatId \in Chats \union {NoChat}
  /\ messages \subseteq Row
  /\ streaming \in BOOLEAN
  /\ controller \in Sends \union {NoSend}
  /\ buffer \in Sends \union {NoSend}
  /\ cards \in Seq([turn : Sends, id : CardIds, listens : Sends \union {NoSend}])
  /\ aborted \subseteq Sends
  /\ db \in [Chats -> SUBSET Row]
  /\ sendAt \in [Sends -> Awaits]
  /\ home \in [Sends -> Chats \union {NoChat}]
  /\ \A t \in Sends : sendAt[t] # "new" => home[t] \in Chats
  /\ signal \in [Sends -> Sends \union {NoSend}]
  /\ rescued \in [Sends -> Sends \union {NoSend}]
  /\ loads \in [Loads -> [at : {"new", "reading", "showing", "done"},
                          chat : Chats \union {NoChat}, rows : SUBSET Row]]

StoreInit ==
  /\ chatId = NoChat
  /\ messages = {}
  /\ streaming = FALSE
  /\ controller = NoSend
  /\ buffer = NoSend
  /\ cards = <<>>
  /\ aborted = {}
  /\ db = [c \in Chats |-> {}]
  /\ sendAt = [t \in Sends |-> "new"]
  /\ home = [t \in Sends |-> NoChat]
  /\ signal = [t \in Sends |-> NoSend]
  /\ rescued = [t \in Sends |-> NoSend]
  /\ loads = [l \in Loads |-> [at |-> "new", chat |-> NoChat, rows |-> {}]]

-----------------------------------------------------------------------------
Goes(t, from, to) == sendAt[t] = from /\ sendAt' = [sendAt EXCEPT ![t] = to]

RowOf(t, kind) == [by |-> t, kind |-> kind, text |-> t]

Store(c, row) == db' = [db EXCEPT ![c] = @ \union {row}]
Show(row)     == messages' = messages \union {row}

\* The queue without the cards in 'gone', in order: its n-th card is the one
\* that has n of those that stay up to its place.
Without(gone) ==
  LET stay == {i \in DOMAIN cards : cards[i] \notin gone} IN
  [n \in 1..Cardinality(stay) |->
     cards[CHOOSE i \in stay : Cardinality(stay \cap (1..i)) = n]]

\* The cards in 'gone' leave the queue, and the turns of those in 'answered'
\* go on.
Settle(answered, gone) ==
  /\ cards' = Without(gone)
  /\ sendAt' = [t \in Sends |->
              IF \E card \in answered : card.turn = t THEN "running" ELSE sendAt[t]]

Queued == ToSet(cards)

\* stop(): the controller the store holds aborts, and the cards that listen to
\* it are answered.
Abort ==
  LET heard == {card \in Queued : controller # NoSend /\ card.listens = controller} IN
  /\ aborted' = aborted \union ({controller} \ {NoSend})
  /\ Settle(heard, heard)

\* The button is there while a reply streams.
Stop ==
  /\ streaming
  /\ Abort
  /\ UNCHANGED <<chatId, messages, streaming, controller, buffer, db, home, signal,
                 rescued, loads>>

-----------------------------------------------------------------------------
\* Mutant: the reset drops the cards, where stop would have answered them.
LoadMutant(l, c) ==
  /\ loads[l].at = "new"
  /\ aborted' = aborted \union ({controller} \ {NoSend})
  /\ cards' = <<>>
  /\ chatId' = c
  /\ streaming' = FALSE
  /\ buffer' = NoSend
  /\ loads' = [loads EXCEPT ![l] = [at |-> "reading", chat |-> c, rows |-> {}]]
  /\ UNCHANGED <<messages, controller, db, turnVars>>

\* load(): stop, reset, read the chat and its messages, show them.
Load(l, c) ==
  /\ loads[l].at = "new"
  /\ Abort
  /\ chatId' = c
  /\ streaming' = FALSE
  /\ buffer' = NoSend
  /\ loads' = [loads EXCEPT ![l] = [at |-> "reading", chat |-> c, rows |-> {}]]
  /\ UNCHANGED <<messages, controller, db, home, signal, rescued>>

LoadReads(l) ==
  /\ loads[l].at = "reading"
  /\ loads' = [loads EXCEPT ![l].at = "showing", ![l].rows = db[loads[l].chat]]
  /\ UNCHANGED <<storeVars, turnVars, aborted, db>>

LoadShows(l) ==
  /\ loads[l].at = "showing"
  /\ loads' = [loads EXCEPT ![l].at = "done", ![l].rows = {}]
  /\ messages' = loads[l].rows
  /\ UNCHANGED <<chatId, streaming, controller, buffer, cards, turnVars, aborted, db>>

-----------------------------------------------------------------------------

\* send(): refused while streaming; the flag is raised only after the user's
\* row is stored.
Send(t) ==
  /\ ~streaming /\ chatId # NoChat
  /\ Goes(t, "new", "storing")
  /\ home' = [home EXCEPT ![t] = chatId]
  /\ UNCHANGED <<storeVars, signal, rescued, aborted, db, loads>>

UserStored(t) ==
  /\ Goes(t, "storing", "entering")
  /\ Store(home[t], RowOf(t, "user"))
  /\ UNCHANGED <<storeVars, home, signal, rescued, aborted, loads>>

UserShown(t) ==
  /\ Goes(t, "entering", "touching")
  /\ Show(RowOf(t, "user"))
  /\ UNCHANGED <<chatId, streaming, controller, buffer, cards, home, signal, rescued,
                 aborted, db, loads>>

BeginStreaming(t) ==
  /\ Goes(t, "touching", "preparing")
  /\ streaming' = TRUE
  /\ buffer' = NoSend
  /\ controller' = t
  /\ UNCHANGED <<chatId, messages, cards, home, signal, rescued, aborted, db, loads>>

\* The context, the provider and the MCP sessions are there: the turn starts
\* with the signal of the controller the store holds now, if it holds one.
Prepared(t) ==
  /\ controller # NoSend
  /\ Goes(t, "preparing", "running")
  /\ signal' = [signal EXCEPT ![t] = controller]
  /\ UNCHANGED <<storeVars, home, rescued, aborted, db, loads>>

\* There is none, or something else failed.
Unprepared(t) ==
  /\ Goes(t, "preparing", "leaving")
  /\ UNCHANGED <<storeVars, home, signal, rescued, aborted, db, loads>>

-----------------------------------------------------------------------------
Delta(t) ==
  /\ sendAt[t] = "running" /\ signal[t] \notin aborted
  /\ buffer' = t
  /\ UNCHANGED <<chatId, messages, streaming, controller, cards, turnVars, aborted, db, loads>>

\* A row of the turn, text that empties the buffer or another.
ReplyStored(t) ==
  /\ Goes(t, "running", "showing")
  /\ Store(home[t], RowOf(t, "reply"))
  /\ UNCHANGED <<storeVars, home, signal, rescued, aborted, loads>>

ReplyShown(t) ==
  /\ Goes(t, "showing", "running")
  /\ Show(RowOf(t, "reply"))
  /\ buffer' \in {buffer, NoSend}
  /\ UNCHANGED <<chatId, streaming, controller, cards, home, signal, rescued,
                 aborted, db, loads>>

\* requestApprovalImpl: the card's row goes to the chat that is open.
AskStored(t) ==
  /\ Goes(t, "running", "asking")
  /\ Store(chatId, RowOf(t, "ask"))
  /\ UNCHANGED <<storeVars, home, signal, rescued, aborted, loads>>

AskShown(t) ==
  /\ Goes(t, "asking", "queueing")
  /\ Show(RowOf(t, "ask"))
  /\ UNCHANGED <<chatId, streaming, controller, buffer, cards, home, signal, rescued,
                 aborted, db, loads>>

\* The card is queued, and listens to the controller the store holds now; one
\* that has aborted already is not heard any more.
CardQueued(t) ==
  /\ Goes(t, "queueing", "waiting")
  /\ \E id \in CardIds : cards' = Append(cards,
       [turn |-> t, id |-> id, listens |-> IF controller \in aborted THEN NoSend ELSE controller])
  /\ UNCHANGED <<chatId, messages, streaming, controller, buffer, home, signal, rescued,
                 aborted, db, loads>>

\* approve() and decline(), by tool call id: the first card with the id is
\* answered, every card with the id goes.
Decide(i) ==
  /\ i \in DOMAIN cards
  /\ \A k \in 1..(i - 1) : cards[k].id # cards[i].id
  /\ Settle({cards[i]}, {card \in Queued : card.id = cards[i].id})
  /\ UNCHANGED <<chatId, messages, streaming, controller, buffer, home, signal, rescued,
                 aborted, db, loads>>

\* runAgentTurn returns or throws.
TurnOver(t) ==
  /\ Goes(t, "running", "leaving")
  /\ UNCHANGED <<storeVars, home, signal, rescued, aborted, db, loads>>

-----------------------------------------------------------------------------
\* The finally block: every card is answered; a buffer that holds text when
\* the store's controller has aborted is stored; the store is reset.
Finally(t) ==
  /\ sendAt[t] = "leaving"
  /\ cards' = <<>>
  /\ LET rescue == controller \in aborted /\ buffer # NoSend IN
     /\ sendAt' = [u \in Sends |->
          IF u = t THEN IF rescue THEN "interrupting" ELSE "done"
          ELSE IF \E card \in Queued : card.turn = u THEN "running" ELSE sendAt[u]]
     /\ IF rescue
        THEN /\ rescued' = [rescued EXCEPT ![t] = buffer]
             /\ UNCHANGED <<streaming, buffer, controller>>
        ELSE /\ streaming' = FALSE /\ buffer' = NoSend /\ controller' = NoSend
             /\ UNCHANGED rescued
  /\ UNCHANGED <<chatId, messages, home, signal, aborted, db, loads>>

InterruptedStored(t) ==
  /\ Goes(t, "interrupting", "mourning")
  /\ Store(home[t], [by |-> t, kind |-> "interrupted", text |-> rescued[t]])
  /\ UNCHANGED <<storeVars, home, signal, rescued, aborted, loads>>

\* Mutant: the reset is skipped after an interrupted row.
InterruptedShownMutant(t) ==
  /\ Goes(t, "mourning", "done")
  /\ Show([by |-> t, kind |-> "interrupted", text |-> rescued[t]])
  /\ UNCHANGED <<chatId, streaming, controller, buffer, cards, home, signal, rescued,
                 aborted, db, loads>>

InterruptedShown(t) ==
  /\ Goes(t, "mourning", "done")
  /\ Show([by |-> t, kind |-> "interrupted", text |-> rescued[t]])
  /\ streaming' = FALSE /\ buffer' = NoSend /\ controller' = NoSend
  /\ UNCHANGED <<chatId, cards, home, signal, rescued, aborted, db, loads>>

-----------------------------------------------------------------------------
Sending(t) ==
  \/ UserStored(t) \/ UserShown(t) \/ BeginStreaming(t) \/ Prepared(t) \/ Unprepared(t)
  \/ ReplyStored(t) \/ ReplyShown(t) \/ AskStored(t) \/ AskShown(t) \/ CardQueued(t)
  \/ TurnOver(t) \/ Finally(t) \/ InterruptedStored(t) \/ InterruptedShown(t)

StoreNext ==
  \/ Stop
  \/ \E l \in Loads : LoadReads(l) \/ LoadShows(l) \/ \E c \in Chats : Load(l, c)
  \/ \E t \in Sends : Send(t) \/ Sending(t) \/ Delta(t)
  \/ \E i \in 1..Cardinality(Sends) : Decide(i)

StoreSpec == StoreInit /\ [][StoreNext]_chatVars

-----------------------------------------------------------------------------
\* Whoever of several sends is the last to come back, and whatever loads and
\* stops came in between, it leaves the store as a store at rest: not
\* streaming, so that the composer is not locked for good, without cards that
\* nobody waits for, and without text or a controller of a turn that is gone.
RestIsClean ==
  Live = {} => ~streaming /\ controller = NoSend /\ buffer = NoSend /\ cards = <<>>

HasCard(t) == \E card \in Queued : card.turn = t

\* The card of t is behind one with the same id that this step answers.
TwinAnswered(t) ==
  \E i, j \in DOMAIN cards : /\ i < j /\ cards[i].id = cards[j].id /\ cards[j].turn = t
                             /\ sendAt'[cards[i].turn] = "running"

\* A turn that waits for the user's approval keeps its card, so that it can be answered:
\* no load, stop, end of another turn or answer to another card takes it away, except that
\* of an earlier card with the same id (chat.svelte.ts:1125, 1134), as two turns may have it.
OnlyATwinOrphans ==
  [][\A t \in Sends : sendAt'[t] = "waiting" /\ ~HasCard(t)' =>
       sendAt[t] = "waiting" /\ (HasCard(t) => TwinAnswered(t))]_chatVars

-----------------------------------------------------------------------------
\* What the program says of itself and the code does not do.

\* "Fully resets transient state so switching chats never leaks a previous
\* conversation's buffer/error" (chat.svelte.ts:364), "no message leak"
\* (chat.svelte.test.ts:153): when everything has come to rest, the rows on
\* screen are those of the chat that is open.
ViewIsFaithful ==
  (\A t \in Sends : sendAt[t] \in {"new", "done"}) /\ (\A l \in Loads : loads[l].at \in {"new", "done"})
  /\ chatId # NoChat => messages = db[chatId]

\* ... and what a turn stores, it stores in the chat it was sent in.
RowsStayHome ==
  \A c \in Chats : \A row \in db[c] : home[row.by] = c /\ home[row.text] = c

\* "Stop the in-flight stream" (chat.svelte.ts:892): a turn that runs and has
\* not been stopped can be: the store holds the controller it listens to.
TurnsCanBeStopped ==
  \A t \in InTurn : signal[t] \in aborted \/ signal[t] = controller
=============================================================================
