----------------------------- MODULE ChatTasks -----------------------------
(***************************************************************************)
(* What the chat store does beside the turn itself: the title and the      *)
(* brief a send asks for on the side, the propagation of a branch to its   *)
(* parent, saved briefs, deletions, and loads that come in between.        *)
(* stores/chat.svelte.ts with the repositories of chats and messages and   *)
(* chat/propagation.ts.  Turns themselves are in ChatStore and AgentTurn.  *)
(*                                                                         *)
(* A job is one call of a store method by the page.  Each await is a step, *)
(* and between two steps anything else may run: in particular 'this.chat'  *)
(* and the three controllers need not be those the job began with.         *)
(* Positions (ord) are halved by the code; they are scaled by Unit here.   *)
(***************************************************************************)
EXTENDS Integers, FiniteSets, FiniteSetsExt

CONSTANTS
  Roots,     \* chats without a parent
  Parent,    \* the root that has a branch
  Branch,    \* the branch
  NoChat,    \* null, and undefined
  MaxJobs,   \* bound: calls of store methods
  Unit       \* 1 in the scale of positions: halved once by each job at most

ASSUME ChatTasksAssumption ==
  /\ Parent \in Roots /\ Branch \notin Roots /\ NoChat \notin Roots \union {Branch}
  /\ MaxJobs \in Nat \ {0}
  /\ Unit = 2 ^ MaxJobs
  \* What the prover does not know of powers.
  /\ Unit \in Nat /\ \A n \in 1 .. MaxJobs : 2 ^ (n - 1) \in Nat \ {0} /\ 2 ^ n = 2 * 2 ^ (n - 1)

VARIABLES
  chatId,    \* this.chatId
  view,      \* this.chat: what is known of the open chat
  empty,     \* this.messages holds no turn
  loading, streaming,
  titling, titleCtl,               \* titleController, by the job it was made for
  inferring, dismissed, inferCtl, inferred,
  prop, propCtl, last,             \* propagationStatus, propagationController,
                                   \* lastPropagation (the job it is of)
  alive, titled, briefed, rows,    \* the database
  job

store == <<chatId, view, empty, loading, streaming>>
title == <<titling, titleCtl>>
infer == <<inferring, dismissed, inferCtl, inferred>>
propagation == <<prop, propCtl, last>>
db == <<alive, titled, briefed, rows>>
vars == <<store, title, infer, propagation, db, job>>

Chats == Roots \union {Branch}
Jobs == 1 .. MaxJobs
Null == [id |-> NoChat, titled |-> FALSE, briefed |-> FALSE, null |-> TRUE]
\* Spreading null with a title or a brief makes a chat without an id.
View == [id : Chats \union {NoChat}, titled : BOOLEAN, briefed : BOOLEAN, null : {FALSE}]
        \union {Null}
Row == [by : 0 .. MaxJobs, ord : -MaxJobs * Unit .. (MaxJobs + 1) * Unit]
Fresh == [at |-> "idle", home |-> NoChat, saw |-> Null, first |-> FALSE,
          title |-> "none", brief |-> "none", about |-> NoChat,
          sig |-> 0, cut |-> FALSE, noTitle |-> FALSE, noBrief |-> FALSE,
          seen |-> {}, lo |-> 0, hi |-> 0, place |-> "none"]
At == {"idle", "done", "failed", "unheard", "loading", "showing", "reading", "appending", "appended", "assembling",
       "streaming", "saving", "confirming", "anchoring", "anchoring_summary", "building",
       "summarising", "placing", "inserting", "inserted", "regen_checking", "regenerating",
       "regen_writing", "discarding", "deleted"}

TasksTypeOK ==
  /\ chatId \in Chats \union {NoChat}
  /\ view \in View
  /\ {empty, loading, streaming, titling, inferring, dismissed} \subseteq BOOLEAN
  /\ {titleCtl, inferCtl, propCtl, last} \subseteq 0 .. MaxJobs
  /\ inferred \in Chats \union {NoChat}
  /\ prop \in {"idle", "running", "error"}
  /\ alive \subseteq Chats /\ titled \subseteq Chats /\ briefed \subseteq Chats
  /\ \A c \in Chats : rows[c] \subseteq Row
  /\ \A j \in Jobs : /\ job[j].at \in At
                     /\ job[j].home \in Chats \union {NoChat}
                     /\ job[j].saw \in View
                     /\ job[j].title \in {"none", "generating", "writing"}
                     /\ job[j].brief \in {"none", "generating"}
                     /\ job[j].sig \in 0 .. MaxJobs
                     /\ job[j].title # "none" \/ job[j].brief # "none"
                          => job[j].about \in Roots

\* The database before: the branch hangs on the first of the parent's rows, or
\* they are all gone and it goes before whatever is written.
First == [by |-> 0, ord |-> 0]
Second == [by |-> 0, ord |-> Unit]

InDb(c) == IF c \in alive
             THEN [id |-> c, titled |-> c \in titled, briefed |-> c \in briefed, null |-> FALSE]
             ELSE Null

Init ==
  /\ alive = Chats /\ titled \in {{Branch}, {Branch, Parent}} /\ briefed = {}
  /\ \E old \in {{First}, {First, Second}} :
       rows = [c \in Chats |-> IF c \in titled THEN old ELSE {}]
  /\ chatId \in Chats
  /\ view = InDb(chatId)
  /\ empty = (rows[chatId] = {})
  /\ loading = FALSE /\ streaming = FALSE
  /\ titling = FALSE /\ titleCtl = 0
  /\ inferring = FALSE /\ dismissed = FALSE /\ inferCtl = 0 /\ inferred = NoChat
  /\ prop = "idle" /\ propCtl = 0 /\ last = 0
  /\ job = [j \in Jobs |-> Fresh]

-----------------------------------------------------------------------------
(* Shared by the methods.                                                  *)

\* Jobs begin in the order of their numbers.
Starts(j) == job[j].at = "idle" /\ \A k \in Jobs : k < j => job[k].at # "idle"

\* The page offers the chat only when one is there.
OnPage == ~loading /\ view # Null
OnRoot == OnPage /\ view.id \in Roots

Is(j, what) == job' = [job EXCEPT ![j] = what]
Goes(j, where) == Is(j, [job[j] EXCEPT !.at = where])
\* The method has returned: what it knew is forgotten, its rows' place excepted,
\* and so are not the tasks it left behind.
Finished(j) == [job[j] EXCEPT !.at = "done", !.home = NoChat, !.saw = Null, !.first = FALSE,
                              !.sig = 0, !.lo = 0, !.hi = 0]

\* abort() of the three controllers, which load and clearActiveView leave in place
Abort(jobs) ==
  [k \in Jobs |-> [jobs[k] EXCEPT !.noTitle = @ \/ k = titleCtl,
                                  !.noBrief = @ \/ k = inferCtl,
                                  !.cut = @ \/ k = propCtl]]

Reset ==
  /\ prop' = "idle" /\ last' = 0
  /\ inferred' = NoChat /\ dismissed' = FALSE /\ inferring' = FALSE
  /\ streaming' = FALSE

-----------------------------------------------------------------------------
(* load, and the deletions, which may close what is open.                  *)

Load(j, c) ==
  /\ Starts(j)
  /\ Reset
  /\ loading' = TRUE /\ chatId' = c
  /\ job' = Abort([job EXCEPT ![j].at = "loading", ![j].home = c])
  /\ UNCHANGED <<view, empty, title, inferCtl, propCtl, db>>

LoadReads(j) ==
  /\ job[j].at = "loading"
  /\ Is(j, [job[j] EXCEPT !.at = "showing", !.saw = InDb(job[j].home),
                          !.first = rows[job[j].home] = {}])
  /\ UNCHANGED <<store, title, infer, propagation, db>>

LoadShows(j) ==
  /\ job[j].at = "showing"
  /\ \/ view' = job[j].saw /\ empty' = job[j].first
     \/ view' = Null /\ empty' = TRUE   \* a read failed
  /\ loading' = FALSE
  /\ Is(j, Finished(j))
  /\ UNCHANGED <<chatId, streaming, title, infer, propagation, db>>

Subtree(d) == IF d = Parent THEN {Parent, Branch} ELSE {d}

\* deleteSubtree and deleteBranch of the repository: one transaction
Delete(j, d) ==
  /\ Starts(j) /\ d \in alive
  /\ alive' = alive \ Subtree(d)
  /\ titled' = titled \ Subtree(d) /\ briefed' = briefed \ Subtree(d)
  /\ rows' = [c \in Chats |-> IF c \in Subtree(d) THEN {} ELSE rows[c]]
  /\ Is(j, [job[j] EXCEPT !.at = "deleted", !.home = d])
  /\ UNCHANGED <<store, title, infer, propagation>>

\* deleteChat looks at this.chat, deleteBranch at whether chatId is there still.
Deleted(j) ==
  /\ job[j].at = "deleted"
  /\ LET gone == IF job[j].home \in Roots
                   THEN view.id \in Subtree(job[j].home)
                   ELSE chatId # NoChat /\ chatId \notin alive
     IN IF gone
          THEN /\ Reset
               /\ view' = Null /\ chatId' = NoChat /\ empty' = TRUE
               /\ job' = Abort([job EXCEPT ![j] = Finished(j)])
               /\ UNCHANGED <<loading, title, inferCtl, propCtl, db>>
          ELSE Is(j, Finished(j)) /\ UNCHANGED <<store, title, infer, propagation, db>>

-----------------------------------------------------------------------------
(* send, as far as it stores the user's row and asks for a title and a     *)
(* brief.                                                                  *)

Send(j) ==
  /\ Starts(j) /\ OnPage /\ chatId # NoChat /\ ~streaming
  /\ Is(j, [job[j] EXCEPT !.at = "reading", !.home = chatId, !.saw = view,
              !.first = view.id \in Roots /\ ~view.titled /\ empty,
              !.seen = rows[chatId]])
  /\ UNCHANGED <<store, title, infer, propagation, db>>

Ords(c) == {r.ord : r \in rows[c]}

\* messages.append reads the last position ...
ReadLast(j) ==
  /\ job[j].at = "reading"
  /\ Is(j, [job[j] EXCEPT !.at = "appending",
              !.lo = IF rows[job[j].home] = {} THEN 0 ELSE Max(Ords(job[j].home)) + Unit])
  /\ UNCHANGED <<store, title, infer, propagation, db>>

\* ... and inserts at the next; the key of a chat that is gone is refused, which
\* ends the send before anything was raised.
Append(j) ==
  /\ job[j].at = "appending"
  /\ IF job[j].home \in alive
       THEN /\ rows' = [rows EXCEPT ![job[j].home] = @ \union {[by |-> j, ord |-> job[j].lo]}]
            /\ empty' = FALSE
            /\ Goes(j, "appended")
       ELSE Is(j, Finished(j)) /\ UNCHANGED <<rows, empty>>
  /\ UNCHANGED <<chatId, view, loading, streaming, title, infer, propagation,
                 alive, titled, briefed>>

Stream(j) ==
  /\ job[j].at = "appended"
  /\ streaming' = TRUE
  /\ Goes(j, "assembling")
  /\ UNCHANGED <<chatId, view, empty, loading, title, infer, propagation, db>>

\* The context is there: autoTitleRoot and inferBriefRoot look at the store as
\* it is now, the send's own conditions at what it saw when it began.
AsksTitle(j) == job[j].first /\ view.id \in Roots /\ ~view.titled /\ ~titling

AsksBrief(j) ==
  /\ job[j].saw.id \in Roots /\ ~job[j].saw.briefed
  /\ view.id \in Roots /\ ~view.briefed
  /\ ~dismissed /\ ~inferring

Assembled(j) ==
  /\ job[j].at = "assembling" /\ job[j].home \in alive
  /\ LET t == AsksTitle(j)  b == AsksBrief(j) IN
     /\ titling' = (titling \/ t) /\ titleCtl' = IF t THEN j ELSE titleCtl
     /\ inferring' = (inferring \/ b) /\ inferCtl' = IF b THEN j ELSE inferCtl
     /\ Is(j, [job[j] EXCEPT !.at = "streaming", !.home = NoChat, !.saw = Null, !.first = FALSE,
                 !.title = IF t THEN "generating" ELSE "none",
                 !.brief = IF b THEN "generating" ELSE "none",
                 !.about = IF t \/ b THEN view.id ELSE NoChat])
  /\ UNCHANGED <<store, dismissed, inferred, propagation, db>>

\* The turn is over, or could not begin: the finally block.
StreamOver(j) ==
  /\ job[j].at \in {"assembling", "streaming"}
  /\ streaming' = FALSE
  /\ Is(j, Finished(j))
  /\ UNCHANGED <<chatId, view, empty, loading, title, infer, propagation, db>>

-----------------------------------------------------------------------------
(* autoTitleRoot and inferBriefRoot, which nobody awaits.                  *)

TitleEnds(j) ==
  /\ titling' = FALSE /\ titleCtl' = 0
  /\ Is(j, [job[j] EXCEPT !.title = "none", !.noTitle = FALSE,
              !.about = IF job[j].brief = "none" THEN NoChat ELSE @])

\* Aborted, failed, or of no use any more
TitleDropped(j) ==
  /\ job[j].title = "generating"
  /\ TitleEnds(j)
  /\ UNCHANGED <<store, infer, propagation, db>>

\* Mutant: the return on a chat that has changed is outside try ... finally.
TitleGeneratedMutant(j) ==
  /\ job[j].title = "generating" /\ ~job[j].noTitle
  /\ Is(j, [job[j] EXCEPT !.title = IF view.id = job[j].about /\ ~view.titled
                                      THEN "writing" ELSE "none"])
  /\ UNCHANGED <<store, title, infer, propagation, db>>

TitleGenerated(j) ==
  /\ job[j].title = "generating" /\ ~job[j].noTitle
  /\ view.id = job[j].about /\ ~view.titled
  /\ Is(j, [job[j] EXCEPT !.title = "writing"])
  /\ UNCHANGED <<store, title, infer, propagation, db>>

\* The chat that is shown by now gets the title, whichever it is.
TitleWritten(j) ==
  /\ job[j].title = "writing"
  /\ titled' = titled \union ({job[j].about} \intersect alive)
  /\ view' = [view EXCEPT !.titled = TRUE, !.null = FALSE]
  /\ TitleEnds(j)
  /\ UNCHANGED <<chatId, empty, loading, streaming, infer, propagation, alive, briefed, rows>>

BriefOver(j) ==
  /\ job[j].brief = "generating"
  /\ \/ inferred' = inferred
     \/ ~job[j].noBrief /\ ~dismissed /\ inferred' = job[j].about
  /\ inferring' = FALSE /\ inferCtl' = 0
  /\ Is(j, [job[j] EXCEPT !.brief = "none", !.noBrief = FALSE,
              !.about = IF job[j].title = "none" THEN NoChat ELSE @])
  /\ UNCHANGED <<store, title, dismissed, propagation, db>>

\* saveBrief and confirmInferredBrief
Save(j, how) ==
  /\ Starts(j) /\ OnRoot
  /\ how = "confirming" => inferred # NoChat
  /\ Is(j, [job[j] EXCEPT !.at = how, !.saw = view])
  /\ UNCHANGED <<store, title, infer, propagation, db>>

\* The chat it began with is put back, whatever was opened since.
Saved(j) ==
  /\ job[j].at \in {"saving", "confirming"}
  /\ briefed' = briefed \union ({job[j].saw.id} \intersect alive)
  /\ view' = [job[j].saw EXCEPT !.briefed = TRUE]
  /\ IF job[j].at = "confirming"
       THEN inferred' = NoChat /\ dismissed' = FALSE
       ELSE UNCHANGED <<inferred, dismissed>>
  /\ Is(j, Finished(j))
  /\ UNCHANGED <<chatId, empty, loading, streaming, title, inferring, inferCtl, propagation,
                 alive, titled, rows>>

Dismiss ==
  /\ OnRoot /\ inferred # NoChat
  /\ dismissed' = TRUE /\ inferred' = NoChat
  /\ UNCHANGED <<store, title, inferring, inferCtl, propagation, db, job>>

-----------------------------------------------------------------------------
(* propagateToParent.  A chat without an id passes for a branch, and its   *)
(* anchor is refused.                                                      *)

Propagate(j, how) ==
  /\ Starts(j) /\ OnPage /\ view.id \notin Roots
  /\ chatId # NoChat /\ ~empty /\ prop # "running"
  /\ prop' = "running" /\ propCtl' = j /\ last' = 0
  /\ Is(j, [job[j] EXCEPT !.at = how, !.home = view.id, !.seen = rows[Parent]])
  /\ UNCHANGED <<store, title, infer, db>>

\* Mutant: only an abort is caught.
PropFailsMutant(j, aborted) ==
  /\ prop' = IF aborted THEN "idle" ELSE prop
  /\ propCtl' = 0
  /\ Is(j, [Finished(j) EXCEPT !.at = IF job[j].at = "inserted" THEN "unheard" ELSE "failed"])
  /\ UNCHANGED last

\* The catch and finally blocks: the status and the controller of whoever runs.
\* A propagation whose answer was lost fails for the page; its row is stored.
PropFails(j, aborted) ==
  /\ prop' = IF aborted THEN "idle" ELSE "error"
  /\ propCtl' = 0
  /\ Is(j, [Finished(j) EXCEPT !.at = IF job[j].at = "inserted" THEN "unheard" ELSE "failed"])
  /\ UNCHANGED last

\* resolveAnchor: after the row it hangs on, before the next; with no row that
\* is as old as the branch, at the start.
Anchor(j) ==
  IF First \notin rows[Parent]
    THEN [job[j] EXCEPT !.place = "start"]
    ELSE LET above == {o \in Ords(Parent) : o > 0} IN
         IF above = {} THEN [job[j] EXCEPT !.place = "after"]
         ELSE [job[j] EXCEPT !.place = "between", !.hi = Min(above)]

Anchored(j) ==
  /\ \/ /\ job[j].at = "anchoring" /\ job[j].home # NoChat
        /\ Is(j, [Anchor(j) EXCEPT !.at = "building"])
        /\ UNCHANGED propagation
     \/ /\ job[j].at = "anchoring_summary" /\ job[j].home # NoChat
        /\ propCtl # 0
        /\ Is(j, [Anchor(j) EXCEPT !.at = "summarising", !.sig = propCtl])
        /\ UNCHANGED propagation
     \/ /\ \/ job[j].at \in {"anchoring", "anchoring_summary"} /\ job[j].home = NoChat
           \/ job[j].at = "anchoring_summary" /\ propCtl = 0
        /\ PropFails(j, FALSE)
  /\ UNCHANGED <<store, title, infer, db>>

Aborted(j) == job[j].sig # 0 /\ job[job[j].sig].cut

Then(j) == IF job[j].place = "start" THEN "placing" ELSE "inserting"

\* buildRawDelta is not abortable; generateBranchArtifactSummary is.
Built(j) ==
  /\ \/ job[j].at = "building" /\ Branch \in alive
     \/ job[j].at = "summarising" /\ ~Aborted(j) /\ Branch \in alive
  /\ Goes(j, Then(j))
  /\ UNCHANGED <<store, title, infer, propagation, db>>

NotBuilt(j) ==
  /\ \/ job[j].at = "building" /\ Branch \notin alive
     \/ job[j].at = "summarising"
  /\ PropFails(j, Aborted(j))
  /\ UNCHANGED <<store, title, infer, db>>

\* 'start': the first position is read, then the one before it inserted.
ReadFirst(j) ==
  /\ job[j].at = "placing"
  /\ Is(j, [job[j] EXCEPT !.at = "inserting",
              !.lo = IF rows[Parent] = {} THEN 0 ELSE Min(Ords(Parent)) - Unit])
  /\ UNCHANGED <<store, title, infer, propagation, db>>

\* Mutant: the next position, whatever lies between.
OrdMutant(j) == IF job[j].place = "start" THEN job[j].lo ELSE Unit

Ord(j) == CASE job[j].place = "start" -> job[j].lo
            [] job[j].place = "after" -> Unit
            [] job[j].place = "between" -> job[j].hi \div 2

\* The row is stored by the server of the database ...
Insert(j) ==
  /\ job[j].at = "inserting" /\ Parent \in alive
  /\ rows' = [rows EXCEPT ![Parent] = @ \union {[by |-> j, ord |-> Ord(j)]}]
  /\ Goes(j, "inserted")
  /\ UNCHANGED <<store, title, infer, propagation, alive, titled, briefed>>

\* ... and its answer comes to the page: the propagation is reported as landed.
Inserted(j) ==
  /\ job[j].at = "inserted"
  /\ last' = j /\ prop' = "idle" /\ propCtl' = 0
  /\ Is(j, Finished(j))
  /\ UNCHANGED <<store, title, infer, db>>

\* The row is refused, or the request is lost: before it was served or, with
\* the artifact in place, after.
NotInserted(j) ==
  /\ job[j].at \in {"inserting", "inserted"}
  /\ PropFails(j, FALSE)
  /\ UNCHANGED <<store, title, infer, db>>

-----------------------------------------------------------------------------
(* regenerateArtifact and deleteArtifact, on the artifacts of the parent.  *)

\* The second row of the parent may be one of an earlier visit.
Artifacts ==
  {r \in rows[Parent] : IF r.by = 0 THEN r = Second ELSE job[r.by].place # "none"}

Regenerate(j) ==
  /\ Starts(j) /\ OnPage /\ view.id = Parent /\ prop # "running"
  /\ Goes(j, "regen_checking")
  /\ UNCHANGED <<store, title, infer, propagation, db>>

\* The row and its branch are looked up before the status is raised; the row may
\* be one of an earlier visit, a raw one, or gone.
RegenChecked(j) ==
  /\ job[j].at = "regen_checking"
  /\ \/ prop' = "error" /\ Is(j, Finished(j)) /\ UNCHANGED <<propCtl, last>>
     \/ /\ Branch \in alive
        /\ prop' = "running" /\ propCtl' = j
        /\ Is(j, [job[j] EXCEPT !.at = "regenerating", !.sig = j])
        /\ UNCHANGED last
  /\ UNCHANGED <<store, title, infer, db>>

Regenerated(j) ==
  /\ job[j].at = "regenerating"
  /\ \/ ~Aborted(j) /\ Goes(j, "regen_writing") /\ UNCHANGED propagation
     \/ PropFails(j, Aborted(j))
  /\ UNCHANGED <<store, title, infer, db>>

RegenWritten(j) ==
  /\ job[j].at = "regen_writing"
  /\ \/ /\ prop' = "idle" /\ propCtl' = 0
        /\ Is(j, Finished(j))
        /\ UNCHANGED last
     \/ PropFails(j, FALSE)
  /\ UNCHANGED <<store, title, infer, db>>

DeleteArtifact(j) ==
  /\ Starts(j) /\ OnPage /\ view.id = Parent
  /\ \E r \in Artifacts : rows' = [rows EXCEPT ![Parent] = @ \ {r}]
  /\ Goes(j, "discarding")
  /\ UNCHANGED <<store, title, infer, propagation, alive, titled, briefed>>

\* The status is taken down, whoever runs by now; a lost answer is thrown at
\* the page, with the artifact gone.
ArtifactDeleted(j) ==
  /\ job[j].at = "discarding"
  /\ prop' \in {prop, "idle"}
  /\ Is(j, Finished(j))
  /\ UNCHANGED <<store, title, infer, propCtl, last, db>>

-----------------------------------------------------------------------------

PageStep(j) ==
  \/ \E c \in Chats : Load(j, c) \/ Delete(j, c)
  \/ Send(j)
  \/ \E how \in {"saving", "confirming"} : Save(j, how)
  \/ \E how \in {"anchoring", "anchoring_summary"} : Propagate(j, how)
  \/ Regenerate(j) \/ DeleteArtifact(j)

SendStep(j) == ReadLast(j) \/ Append(j) \/ Stream(j) \/ Assembled(j) \/ StreamOver(j)
SideStep(j) == TitleDropped(j) \/ TitleGenerated(j) \/ TitleWritten(j) \/ BriefOver(j)
PropStep(j) ==
  \/ Anchored(j) \/ Built(j) \/ NotBuilt(j) \/ ReadFirst(j)
  \/ Insert(j) \/ Inserted(j) \/ NotInserted(j)
  \/ RegenChecked(j) \/ Regenerated(j) \/ RegenWritten(j)
StoreStep(j) ==
  \/ LoadReads(j) \/ LoadShows(j) \/ Deleted(j) \/ Saved(j) \/ ArtifactDeleted(j)
  \/ SendStep(j) \/ SideStep(j) \/ PropStep(j)

Next ==
  \/ \E j \in Jobs : PageStep(j) \/ StoreStep(j)
  \/ Dismiss

\* Awaits end: the database answers, and requests end or are aborted.  What the
\* page asks for is the user's.
Fairness == \A j \in Jobs : WF_vars(PropStep(j))

Spec == Init /\ [][Next]_vars /\ Fairness

-----------------------------------------------------------------------------
(* Properties.                                                             *)

Propagating == {"anchoring", "anchoring_summary", "building", "summarising", "placing",
                "inserting", "inserted", "regenerating", "regen_writing"}

\* Whatever is aborted, overtaken or refused, once a kind of task has none left
\* its flag is down and its controller dropped: the next one can start.
FlagsComeDown ==
  /\ (\A j \in Jobs : job[j].title = "none") => ~titling /\ titleCtl = 0
  /\ (\A j \in Jobs : job[j].brief = "none") => ~inferring /\ inferCtl = 0
  /\ (\A j \in Jobs : job[j].at \notin Propagating) => prop # "running" /\ propCtl = 0

\* One title is asked for at a time, over all chats that are opened meanwhile:
\* the flag is the only thing that keeps a title's controller its own.
OneTitleAtATime ==
  \A j, k \in Jobs : job[j].title # "none" /\ job[k].title # "none" => j = k

\* A message lands behind every row that was there when it was sent.  An
\* artifact lands behind the row its branch hangs on and before every row that
\* followed it when the propagation began, however long its summary took.
RowsLandInPlace ==
  \A c \in Chats : \A r \in rows[c] : r.by # 0 =>
    \A s \in job[r.by].seen \intersect rows[c] :
      IF job[r.by].place = "none" THEN s.ord < r.ord
      ELSE IF s.by = 0 /\ s.ord = 0 THEN s.ord < r.ord
      ELSE s.ord > r.ord

\* "so the toast never lies": runPropagation reads lastPropagation after its own
\* call has returned, and says that it landed.
ToastNeverLies ==
  [][\A j \in Jobs : job[j].place # "none" /\ job[j].at \in Propagating
                        /\ job'[j].at \in {"failed", "unheard"} => last' = 0]_vars

\* The status that blocks the next propagation does not stay up.
PropagationSettles == prop = "running" ~> prop # "running"

=============================================================================
