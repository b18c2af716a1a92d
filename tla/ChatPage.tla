------------------------------- MODULE ChatPage -------------------------------
(***************************************************************************)
(* The page of a chat (routes/chat/[id]/+page.svelte): what it loads when  *)
(* it is mounted or navigated, the draft of the composer, and the prompt   *)
(* that another page, or this one, stages for a chat before it goes there. *)
(* A step runs from one await to the next.                                 *)
(***************************************************************************)
EXTENDS Naturals, Sequences

CONSTANTS Chats, NoChat,
          Loads,       \* loads that may be under way at once, as numbers
          MaxGoes,     \* bound on the navigations of a behaviour
          MaxLeft      \* bound on the timers that unmounted pages have left

ASSUME PageAssumption == NoChat \notin Chats /\ {MaxGoes, MaxLeft} \subseteq Nat

VARIABLES
  url,        \* the chat of the route, or none: another page
  going,      \* where a goto, which loads the route, is about to go
  shown, chat, loading, streaming,   \* chatId, chat, loading, streaming of the store
  composer,   \* the text of the composer, which is told by the chat it was typed in
  drafts,     \* settings draft:<chat>
  timer,      \* the timer of a draft: [on, chat, text, byUser]
  left,       \* timers of pages that are no more, the oldest first
  loads,      \* loadAll, or what comes before it: [at, chat, gone]
  staged,     \* the chat that pendingPrompt is for
  landed,       \* of the prompt that was staged last
  lone,       \* nothing came in its way
  goes

pageVars == <<url, going, shown, chat, loading, streaming, composer, drafts, timer, left, loads,
              staged, landed, lone, goes>>

NoText == NoChat
NoTimer == [on |-> FALSE, chat |-> NoChat, text |-> NoText, byUser |-> FALSE]
Over == [at |-> "over", chat |-> NoChat, gone |-> FALSE]

PageInit ==
  /\ url = NoChat /\ going = NoChat
  /\ shown = NoChat /\ chat = NoChat /\ loading = FALSE /\ streaming = FALSE
  /\ composer = NoText /\ timer = NoTimer /\ left = <<>>
  /\ drafts \in [Chats -> Chats \union {NoText}]
  /\ \A c \in Chats : drafts[c] \in {c, NoText}
  /\ loads = [j \in Loads |-> Over]
  /\ staged = NoChat /\ landed = "none" /\ lone = FALSE /\ goes = 0

Quiet == \A j \in Loads : loads[j].at = "over"
Rendered == url # NoChat /\ ~loading /\ chat # NoChat

-----------------------------------------------------------------------------
(* The effect that stores the draft: it depends on the text and the chat.  *)

\* It forgets that it depends on the chat.
ArmedMutant(now, text, c, byUser) ==
  IF c = NoChat \/ text = composer THEN now
  ELSE [on |-> TRUE, chat |-> c, text |-> text, byUser |-> byUser]

Armed(now, text, c, byUser) ==
  IF c = NoChat \/ (text = composer /\ c = shown) THEN now
  ELSE [on |-> TRUE, chat |-> c, text |-> text, byUser |-> byUser]

FireLeft ==
  /\ left # <<>>
  /\ drafts' = [drafts EXCEPT ![Head(left).chat] = Head(left).text]
  /\ left' = Tail(left)
  /\ UNCHANGED <<url, going, shown, chat, loading, streaming, composer, timer, loads, staged, landed, lone, goes>>

\* Timers run out in the order they were set in.
Fire ==
  /\ timer.on /\ left = <<>>
  /\ drafts' = [drafts EXCEPT ![timer.chat] = timer.text]
  /\ timer' = NoTimer
  /\ UNCHANGED <<url, going, shown, chat, loading, streaming, composer, left, loads, staged, landed, lone, goes>>

-----------------------------------------------------------------------------
(* The user.                                                               *)

Types ==
  /\ Rendered /\ composer # shown
  /\ composer' = shown /\ timer' = Armed(timer, shown, shown, TRUE)
  /\ UNCHANGED <<url, going, shown, chat, loading, streaming, drafts, left, loads, staged, landed, lone, goes>>

Empties(sends) ==
  /\ Rendered /\ composer # NoText
  /\ composer' = NoText /\ timer' = Armed(timer, NoText, shown, TRUE)
  /\ IF sends THEN ~streaming /\ streaming' = TRUE /\ lone' = FALSE
     ELSE UNCHANGED <<streaming, lone>>
  /\ UNCHANGED <<url, going, shown, chat, loading, drafts, left, loads, staged, landed, goes>>

StreamEnds ==
  /\ streaming /\ streaming' = FALSE
  /\ UNCHANGED <<url, going, shown, chat, loading, composer, drafts, timer, left, loads, staged, landed, lone, goes>>

\* A link to a chat is followed; or, to none, a link to another page.
Goes(c) ==
  /\ goes < MaxGoes /\ c # url
  /\ goes' = goes + 1 /\ lone' = FALSE
  /\ going' = c
  /\ UNCHANGED <<url, shown, chat, loading, streaming, composer, drafts, timer, left, loads, staged, landed>>

\* startChat of the home page, or an expound of this one: a chat was created, a prompt is
\* staged for it, over one that was not taken, and goto goes there.
Stage(c) ==
  /\ goes < MaxGoes /\ c # url
  /\ goes' = goes + 1
  /\ staged' = c /\ landed' = "none" /\ going' = c
  /\ lone' = (Quiet /\ going = NoChat)
  /\ UNCHANGED <<url, shown, chat, loading, streaming, composer, drafts, timer, left, loads>>

-----------------------------------------------------------------------------
(* The route.                                                              *)

\* load of the store, which stops a stream.
Begun(c, composed, now) ==
  /\ shown' = c /\ loading' = TRUE /\ streaming' = FALSE
  /\ composer' = composed
  /\ timer' = now

\* Another chat, of a page that stays: its text stays.
Navigated(j) ==
  /\ going \in Chats /\ url # NoChat /\ loads[j].at = "over"
  /\ url' = going /\ going' = NoChat
  /\ Begun(going, composer, Armed(timer, composer, going, FALSE))
  /\ loads' = [loads EXCEPT ![j] = [at |-> "load", chat |-> going, gone |-> FALSE]]
  /\ UNCHANGED <<chat, drafts, left, staged, landed, lone, goes>>

\* The page is mounted anew; the effect runs, with the chat that the store still has. Of
\* the provider, which is asked first, nothing is told apart.
Mounted(j) ==
  /\ going \in Chats /\ url = NoChat /\ loads[j].at = "over"
  /\ url' = going /\ going' = NoChat
  /\ composer' = NoText
  /\ timer' = IF shown = NoChat THEN NoTimer
              ELSE [on |-> TRUE, chat |-> shown, text |-> NoText, byUser |-> FALSE]
  /\ loads' = [loads EXCEPT ![j] = [at |-> "mount", chat |-> going, gone |-> FALSE]]
  /\ UNCHANGED <<shown, chat, loading, streaming, drafts, left, staged, landed, lone, goes>>

\* The page is left. Its timer is not cleared, and loads go on.
Leaves ==
  /\ going = NoChat /\ url # NoChat /\ Len(left) < MaxLeft /\ goes < MaxGoes
  /\ url' = NoChat /\ goes' = goes + 1 /\ lone' = FALSE
  /\ left' = IF timer.on THEN Append(left, timer) ELSE left
  /\ timer' = NoTimer /\ composer' = NoText
  /\ loads' = [j \in Loads |-> [loads[j] EXCEPT !.gone = @ \/ loads[j].at # "over"]]
  /\ UNCHANGED <<going, shown, chat, loading, streaming, drafts, staged, landed>>

\* onMount goes on, with the chat of the route by now.
LoadBegins(j) ==
  /\ loads[j].at = "mount"
  /\ IF url = NoChat
     THEN /\ loads' = [loads EXCEPT ![j] = Over]
          /\ UNCHANGED <<shown, loading, streaming, composer, timer>>
     ELSE /\ loads' = [loads EXCEPT ![j].at = "load", ![j].chat = url]
          /\ Begun(url, composer, Armed(timer, composer, url, FALSE))
  /\ UNCHANGED <<url, going, chat, drafts, left, staged, landed, lone, goes>>

\* A chat that cannot be read is none.
Loaded(j) ==
  /\ loads[j].at = "load"
  /\ chat' \in {loads[j].chat, NoChat} /\ loading' = FALSE
  /\ loads' = [loads EXCEPT ![j].at = "draft"]
  /\ UNCHANGED <<url, going, shown, streaming, composer, drafts, timer, left, staged, landed, lone, goes>>

\* Where send sends to.
SentToMutant == chat
SentTo == shown

\* The end of loadAll: the staged prompt is taken, and sent unless something streams.
Drained ==
  /\ staged' = NoChat
  /\ IF staged = NoChat THEN UNCHANGED <<landed, streaming>>
     ELSE IF streaming \/ SentTo = NoChat THEN landed' = "lost" /\ UNCHANGED streaming
     ELSE landed' = (IF SentTo = staged THEN "home" ELSE "astray") /\ streaming' = TRUE

AfterDraft(j) ==
  IF chat # NoChat
  THEN loads' = [loads EXCEPT ![j].at = "nav", ![j].chat = chat] /\ UNCHANGED <<staged, landed, streaming>>
  ELSE loads' = [loads EXCEPT ![j] = Over] /\ Drained

\* The draft is restored unless there is text.
DraftRead(j) ==
  LET restored == IF loads[j].gone \/ composer # NoText THEN composer ELSE drafts[loads[j].chat]
  IN /\ loads[j].at = "draft"
     /\ composer' = restored /\ timer' = Armed(timer, restored, shown, FALSE)
     /\ AfterDraft(j)
     /\ UNCHANGED <<url, going, shown, chat, loading, drafts, left, lone, goes>>

\* loadNav reads the tree, the labs and the quizzes of the chat.
NavDone(j) ==
  /\ loads[j].at = "nav"
  /\ loads' = [loads EXCEPT ![j] = Over] /\ Drained
  /\ UNCHANGED <<url, going, shown, chat, loading, composer, drafts, timer, left, lone, goes>>

\* A read fails, of the draft or of loadNav: loadAll ends there.
ReadFails(j) ==
  /\ loads[j].at \in {"draft", "nav"}
  /\ loads' = [loads EXCEPT ![j] = Over] /\ lone' = FALSE
  /\ UNCHANGED <<url, going, shown, chat, loading, streaming, composer, drafts, timer, left, staged, landed, goes>>

-----------------------------------------------------------------------------

Arrives(j) == Navigated(j) \/ Mounted(j)
Reads(j) == LoadBegins(j) \/ Loaded(j) \/ DraftRead(j) \/ NavDone(j)

PageNext ==
  \/ FireLeft \/ Fire \/ Types \/ StreamEnds \/ Leaves
  \/ \E sends \in BOOLEAN : Empties(sends)
  \/ \E c \in Chats : Goes(c) \/ Stage(c)
  \/ \E j \in Loads : Arrives(j) \/ Reads(j) \/ ReadFails(j)

PageSpec == PageInit /\ [][PageNext]_pageVars

-----------------------------------------------------------------------------

\* Once nothing is under way, what the composer shows is what is stored for the chat that
\* the store is in: after navigations that overlap, with timers of pages that are gone, with
\* loads that fail. About the effect that stores drafts, and loadAll.
RestingDraftIsStored ==
  Quiet /\ ~timer.on /\ left = <<>> /\ url # NoChat => drafts[shown] = composer

\* A prompt that is staged while nothing else is under way, and in whose way nothing comes,
\* is not sent to another chat and not lost, also if its chat cannot be read, a reply was
\* streaming, and the page was one that stays or one that is mounted. About pendingPrompt
\* and loadAll.
LonePromptGoesHome == lone => landed \notin {"astray", "lost"}

-----------------------------------------------------------------------------
(* What comments say, and the code does not.                               *)

\* "Restore the per-chat draft" (loadAll): the draft of a chat is text of that chat.
DraftsStayHome == \A c \in Chats : drafts[c] \in {c, NoText}

\* A draft is there to be restored until the user empties it.
DraftsOutliveLoads ==
  [][\A c \in Chats : drafts[c] # NoText /\ drafts'[c] = NoText =>
       (IF left = <<>> THEN timer ELSE Head(left)).byUser]_pageVars

\* "Drain a staged expound prompt: auto-send + auto-stream the first turn on the
\* freshly-opened branch. Sent once, after the branch is loaded." (loadAll)
PromptGoesToItsBranch == landed # "astray"
=============================================================================
