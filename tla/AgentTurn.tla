----------------------------- MODULE AgentTurn -----------------------------
(***************************************************************************)
(* One assistant turn: runAgentTurn of src/lib/agent/loop.ts, with the     *)
(* approval cards and the 'finally' block of ChatState.send in             *)
(* src/lib/stores/chat.svelte.ts.                                          *)
(*                                                                         *)
(* The turn is one asynchronous function; 'pc' names the await it is       *)
(* suspended at, so that the user's Stop and the user's decisions fall     *)
(* between any two awaits and nowhere else.  Inside "lanes" two activities *)
(* run concurrently, as the two halves of the Promise.all do: the calls    *)
(* that need no approval, one after the other, and the high-risk calls,    *)
(* which all ask first and then run one after the other.                   *)
(*                                                                         *)
(* Text is abstracted to whether there is any.  What providers, tools and  *)
(* the markdown critic answer is nondeterministic.  Writes to the database *)
(* succeed.                                                                *)
(***************************************************************************)
EXTENDS Naturals, Sequences, FiniteSets

CONSTANTS
  Kinds,           \* the kinds of tools the model calls in this instance
  ToolCapable,     \* the values toolCapability can take
  AbortEnds,       \* how a correction stream ends on abort: "break", "throw"
  MaxIterations,   \* MAX_ITERATIONS (6 in the code)
  MaxCorrections,  \* MAX_CORRECTIONS (2 in the code)
  MaxCalls         \* bound: tool calls the model puts into one reply

\* "auto": readonly and low risk tools, and unknown ones.  "choices":
\* present_choices, the terminal tool.  "high": branch_chat, save_brief and
\* MCP tools.  "generative": create_quiz and create_lab, of high risk too.
ASSUME TurnAssumption ==
  /\ Kinds \subseteq {"auto", "choices", "high", "generative"}
  /\ ToolCapable \subseteq BOOLEAN
  /\ AbortEnds \subseteq {"break", "throw"}
  /\ MaxIterations \in Nat \ {0}
  /\ MaxCorrections \in Nat \ {0}
  /\ MaxCalls \in Nat

VARIABLES
  pc,         \* the await the turn is suspended at
  iteration,  \* i
  toolsOn,    \* toolsEnabled of the current inner()
  stopped,    \* signal.aborted
  failed,     \* an error other than an abort ended the turn
  buf,        \* the text the turn holds (buf, then corrected) is not empty
  shown,      \* the store's streamBuffer is not empty
  reasoning,  \* reasoningBuf is not empty
  finish,     \* finishReason
  calls,      \* the kinds of toolCalls, in order
  stage,      \* how far each call is
  spent,      \* turnBudget.subCalls
  sawAborted, \* 'aborted' of the results loop
  attempt,    \* corrections tried by the critic
  fresh,      \* freshBuf of the correction is not empty
  rows,       \* the rows the turn appended to the chat
  owed,       \* history: text of the last request that was on screen at
              \* Stop is not yet stored
  generated,  \* history: generative calls started in the turn
  silent      \* history: no text came since a request blamed the tools

control == <<pc, iteration, toolsOn>>
texts   == <<buf, shown, reasoning, finish, attempt, fresh>>
tools   == <<calls, stage, spent, sawAborted>>
ghosts  == <<owed, generated, silent>>
turnVars ==
  <<control, stopped, failed, texts, tools, rows, ghosts>>

Slots == 1..MaxCalls

PC == {"top", "stream", "reasoning", "judging", "partial", "draft", "listing",
       "lanes", "answering", "critic", "correcting", "stillborn", "rechecking", "noting",
       "closing", "finally", "interrupting", "ended"}

\* "asking": the row of the approval card is being written.  "pending": the
\* card waits for the user and listens to Stop.  "deaf": it waits for the
\* user, but Stop came before it listened.  "cancelled": Stop decided it.
\* "done", "refused", "aborted": the result is known.
Stage == {"absent", "emitted", "listed", "asking", "pending", "deaf",
          "approved", "declined", "cancelled", "running",
          "done", "refused", "aborted", "answered"}

Waiting  == {"asking", "pending", "deaf"}
Decided  == {"approved", "declined", "cancelled"}
Resolved == {"done", "refused", "aborted"}

Row == [kind : {"reasoning", "text", "interrupted", "corrected",
                "call", "choices", "approval", "result"},
        iter : Nat, slot : Nat]

TypeOK ==
  /\ pc \in PC
  /\ iteration \in 0..MaxIterations
  /\ toolsOn \in BOOLEAN
  /\ stopped \in BOOLEAN
  /\ failed \in BOOLEAN
  /\ buf \in BOOLEAN /\ shown \in BOOLEAN /\ reasoning \in BOOLEAN
  /\ finish \in {"none", "tool-calls", "stop"}
  /\ calls \in Seq(Kinds) /\ Len(calls) <= MaxCalls
  /\ stage \in [Slots -> Stage]
  /\ spent \in Nat
  /\ sawAborted \in BOOLEAN
  /\ attempt \in 0..MaxCorrections
  /\ fresh \in BOOLEAN
  /\ rows \in Seq(Row)
  /\ owed \in BOOLEAN
  /\ generated \in Nat
  /\ silent \in BOOLEAN

Called == {s \in Slots : s <= Len(calls)}
AutoCalls == {s \in Called : calls[s] \in {"auto", "choices"}}
HighCalls == {s \in Called : calls[s] \in {"high", "generative"}}

HasGenerative == \E s \in Called : calls[s] = "generative"
AllTerminal   == calls # <<>> /\ \A s \in Called : calls[s] = "choices"

NoCalls == [s \in Slots |-> "absent"]

Init ==
  /\ pc = "top"
  /\ iteration = 0
  /\ toolsOn \in ToolCapable
  /\ stopped = FALSE /\ failed = FALSE
  /\ buf = FALSE /\ shown = FALSE /\ reasoning = FALSE
  /\ finish = "none"
  /\ calls = <<>> /\ stage = NoCalls
  /\ spent = 0 /\ sawAborted = FALSE
  /\ attempt = 0 /\ fresh = FALSE
  /\ rows = <<>>
  /\ owed = FALSE /\ generated = 0 /\ silent = FALSE

-----------------------------------------------------------------------------
Append1(kind, s) ==
  rows' = Append(rows, [kind |-> kind, iter |-> iteration, slot |-> s])

Goto(label) == pc' = label /\ UNCHANGED <<iteration, toolsOn>>

\* appendAssistantText: the row holds the text of the turn, which may be empty,
\* and the store's buffer is cleared in any case.
AppendAssistantText ==
  /\ Append1("text", 0)
  /\ shown' = FALSE
  /\ owed' = (owed /\ ~buf)

-----------------------------------------------------------------------------
\* The head of an iteration: leave if stopped, else request a stream.
Top ==
  /\ pc = "top"
  /\ IF stopped
     THEN /\ Goto(IF buf THEN "partial" ELSE "finally")
          /\ UNCHANGED <<texts, tools>>
     ELSE /\ Goto("stream")
          /\ buf' = FALSE
          /\ finish' = "none"
          /\ calls' = <<>> /\ stage' = NoCalls
          /\ UNCHANGED <<shown, reasoning, attempt, fresh, spent, sawAborted>>
  /\ UNCHANGED <<stopped, failed, rows, ghosts>>

TextDelta ==
  /\ pc = "stream" /\ ~stopped /\ finish = "none"
  /\ buf' = TRUE /\ shown' = TRUE /\ silent' = FALSE
  /\ UNCHANGED <<control, stopped, failed, reasoning, finish, attempt, fresh,
                 tools, rows, owed, generated>>

ReasoningDelta ==
  /\ pc = "stream" /\ ~stopped /\ finish = "none"
  /\ reasoning' = TRUE
  /\ UNCHANGED <<control, stopped, failed, buf, shown, finish, attempt, fresh,
                 tools, rows, ghosts>>

\* A tool-call part.  A generative call drops the text that came before it.
ToolCall(kind) ==
  /\ pc = "stream" /\ ~stopped /\ finish = "none" /\ toolsOn
  /\ Len(calls) < MaxCalls
  /\ calls' = Append(calls, kind)
  /\ stage' = [stage EXCEPT ![Len(calls) + 1] = "emitted"]
  /\ IF kind = "generative"
     THEN buf' = FALSE /\ shown' = FALSE
     ELSE UNCHANGED <<buf, shown>>
  /\ UNCHANGED <<control, stopped, failed, reasoning, finish, attempt, fresh,
                 spent, sawAborted, rows, ghosts>>

FinishPart(reason) ==
  /\ pc = "stream" /\ ~stopped /\ finish = "none"
  /\ finish' = reason
  /\ UNCHANGED <<control, stopped, failed, buf, shown, reasoning, attempt, fresh,
                 tools, rows, ghosts>>

\* The stream is over: it ended after its finish part, or Stop broke it off
\* (by an abort part or an AbortError, to the same effect).
StreamOver ==
  /\ pc = "stream"
  /\ finish # "none" \/ stopped
  /\ Goto(IF reasoning THEN "reasoning" ELSE "judging")
  /\ UNCHANGED <<stopped, failed, texts, tools, rows, ghosts>>

AppendReasoning ==
  /\ pc = "reasoning"
  /\ Append1("reasoning", 0)
  /\ reasoning' = FALSE
  /\ Goto("judging")
  /\ UNCHANGED <<stopped, failed, buf, shown, finish, attempt, fresh, tools, ghosts>>

\* What the iteration turned out to be: stopped, the final answer, or a batch
\* of tool calls (whose text is dropped when one of them is generative).
Judge ==
  /\ pc = "judging"
  /\ \/ /\ stopped
        /\ Goto(IF buf THEN "partial" ELSE "finally")
        /\ UNCHANGED texts
     \/ /\ ~stopped
        /\ finish # "tool-calls" \/ calls = <<>>
        /\ Goto("critic")
        /\ UNCHANGED texts
     \/ /\ ~stopped
        /\ finish = "tool-calls" /\ calls # <<>>
        /\ Goto(IF buf /\ ~HasGenerative THEN "draft" ELSE "listing")
        /\ IF HasGenerative
           THEN buf' = FALSE /\ shown' = FALSE
           ELSE UNCHANGED <<buf, shown>>
        /\ UNCHANGED <<reasoning, finish, attempt, fresh>>
  /\ UNCHANGED <<stopped, failed, tools, rows, ghosts>>

\* The text of a stopped stream.
AppendPartial ==
  /\ pc = "partial"
  /\ AppendAssistantText
  /\ Goto("finally")
  /\ UNCHANGED <<stopped, failed, buf, reasoning, finish, attempt, fresh, tools,
                 generated, silent>>

\* The text that leads a batch of tool calls.
AppendDraft ==
  /\ pc = "draft"
  /\ AppendAssistantText
  /\ Goto("listing")
  /\ UNCHANGED <<stopped, failed, buf, reasoning, finish, attempt, fresh, tools,
                 generated, silent>>

-----------------------------------------------------------------------------
\* appendAssistantToolCall, in order; after the last one both lanes begin, and
\* every high-risk call asks for approval at once.
ListCall(s) ==
  /\ pc = "listing"
  /\ stage[s] = "emitted"
  /\ \A t \in 1..(s - 1) : stage[t] # "emitted"
  /\ Append1(IF calls[s] = "choices" THEN "choices" ELSE "call", s)
  /\ IF s = Len(calls)
     THEN /\ Goto("lanes")
          /\ stage' = [t \in Slots |-> IF t \in HighCalls THEN "asking"
                                       ELSE IF t = s THEN "listed" ELSE stage[t]]
     ELSE /\ Goto("listing")
          /\ stage' = [stage EXCEPT ![s] = "listed"]
  /\ UNCHANGED <<stopped, failed, texts, calls, spent, sawAborted, ghosts>>

Step(s, from, to) == stage[s] = from /\ stage' = [stage EXCEPT ![s] = to]

\* The next call of the auto lane.  Once stopped, the call is marked aborted
\* and the lane ends there: the calls after it get no result.
AutoNext(s) ==
  /\ pc = "lanes"
  /\ s \in AutoCalls
  /\ \A t \in AutoCalls : t < s => stage[t] = "done"
  /\ Step(s, "listed", IF stopped THEN "aborted" ELSE "running")
  /\ UNCHANGED <<control, stopped, failed, texts, calls, spent, sawAborted, rows, ghosts>>

\* requestApprovalImpl: the card's row is written, then the card is queued and
\* listens to Stop, which it can no longer hear if it has already happened.
AskWritten(s) ==
  /\ pc = "lanes"
  /\ Step(s, "asking", IF stopped THEN "deaf" ELSE "pending")
  /\ Append1("approval", s)
  /\ UNCHANGED <<control, stopped, failed, texts, calls, spent, sawAborted, ghosts>>

\* The user's decision: approve() and decline().
Approve(s) ==
  /\ Step(s, stage[s], "approved")
  /\ stage[s] \in {"pending", "deaf"}
  /\ UNCHANGED <<control, stopped, failed, texts, calls, spent, sawAborted, rows, ghosts>>

Decline(s) ==
  /\ Step(s, stage[s], "declined")
  /\ stage[s] \in {"pending", "deaf"}
  /\ UNCHANGED <<control, stopped, failed, texts, calls, spent, sawAborted, rows, ghosts>>

\* The high lane, once every decision is in, takes the calls in order.
HighReady(s) ==
  /\ pc = "lanes"
  /\ s \in HighCalls
  /\ \A t \in HighCalls : stage[t] \notin Waiting
  /\ \A t \in HighCalls : t < s => stage[t] \in Resolved

\* Mutant: off by one.
OverBudgetMutant(s) == calls[s] = "generative" /\ spent > 1

OverBudget(s) == calls[s] = "generative" /\ spent >= 1

HighRefused(s) ==
  /\ HighReady(s)
  /\ \/ /\ stage[s] = "cancelled" \/ (stage[s] \in Decided /\ stopped)
        /\ stage' = [stage EXCEPT ![s] = "aborted"]
     \/ /\ ~stopped
        /\ stage[s] = "declined" \/ (stage[s] = "approved" /\ OverBudget(s))
        /\ stage' = [stage EXCEPT ![s] = "refused"]
  /\ UNCHANGED <<control, stopped, failed, texts, calls, spent, sawAborted, rows, ghosts>>

\* Mutant: the signal is not looked at again after the approval.
HighRunsMutant(s) ==
  /\ HighReady(s)
  /\ ~OverBudget(s)
  /\ Step(s, "approved", "running")
  /\ IF calls[s] = "generative"
     THEN spent' = spent + 1 /\ generated' = generated + 1
     ELSE UNCHANGED <<spent, generated>>
  /\ UNCHANGED <<control, stopped, failed, texts, calls, sawAborted, rows, owed, silent>>

HighRuns(s) ==
  /\ HighReady(s)
  /\ ~stopped
  /\ ~OverBudget(s)
  /\ Step(s, "approved", "running")
  /\ IF calls[s] = "generative"
     THEN spent' = spent + 1 /\ generated' = generated + 1
     ELSE UNCHANGED <<spent, generated>>
  /\ UNCHANGED <<control, stopped, failed, texts, calls, sawAborted, rows, owed, silent>>

\* toolsRun returns.  A generative tool that finds the signal aborted after
\* generating stores nothing and says so.
ToolReturns(s) ==
  /\ pc = "lanes"
  /\ stage[s] = "running"
  /\ \/ stage' = [stage EXCEPT ![s] = "done"]
     \/ /\ calls[s] = "generative" /\ stopped
        /\ stage' = [stage EXCEPT ![s] = "aborted"]
  /\ UNCHANGED <<control, stopped, failed, texts, calls, spent, sawAborted, rows, ghosts>>

\* Mutant: the aborted call does not end its lane.
AutoOverMutant == \A s \in AutoCalls : stage[s] = "done"

AutoOver ==
  \/ \A s \in AutoCalls : stage[s] = "done"
  \/ \E s \in AutoCalls : stage[s] = "aborted"

LanesOver ==
  /\ pc = "lanes"
  /\ AutoOver
  /\ \A s \in HighCalls : stage[s] \in Resolved
  /\ Goto("answering")
  /\ sawAborted' = FALSE
  /\ UNCHANGED <<stopped, failed, texts, calls, stage, spent, rows, ghosts>>

\* Mutant: a call that was refused leaves no row.
AnswerMutant(s) ==
  /\ pc = "answering"
  /\ stage[s] \in Resolved
  /\ \A t \in 1..(s - 1) : stage[t] \notin Resolved
  /\ stage' = [stage EXCEPT ![s] = "answered"]
  /\ sawAborted' = (sawAborted \/ stage[s] = "aborted")
  /\ IF calls[s] = "choices" \/ stage[s] = "refused"
     THEN UNCHANGED rows ELSE Append1("result", s)
  /\ UNCHANGED <<control, stopped, failed, texts, calls, spent, ghosts>>

\* The results, in the order of the calls; a present_choices result leaves no
\* row, and a call the auto lane never reached has no entry at all.
Answer(s) ==
  /\ pc = "answering"
  /\ stage[s] \in Resolved
  /\ \A t \in 1..(s - 1) : stage[t] \notin Resolved
  /\ stage' = [stage EXCEPT ![s] = "answered"]
  /\ sawAborted' = (sawAborted \/ stage[s] = "aborted")
  /\ IF calls[s] = "choices" THEN UNCHANGED rows ELSE Append1("result", s)
  /\ UNCHANGED <<control, stopped, failed, texts, calls, spent, ghosts>>

\* Mutant: a turn that used up its iterations says nothing.
BatchOverMute ==
  /\ pc = "answering"
  /\ \A s \in Slots : stage[s] \notin Resolved
  /\ IF sawAborted \/ AllTerminal \/ iteration + 1 = MaxIterations
     THEN Goto("finally") /\ UNCHANGED buf
     ELSE /\ iteration' = iteration + 1
          /\ pc' = "top"
          /\ buf' = FALSE
          /\ UNCHANGED toolsOn
  /\ UNCHANGED <<stopped, failed, shown, reasoning, finish, attempt, fresh, tools,
                 rows, ghosts>>

\* After the results: leave, go round again, or answer that the budget of
\* iterations is used up.
BatchOver ==
  /\ pc = "answering"
  /\ \A s \in Slots : stage[s] \notin Resolved
  /\ IF sawAborted \/ AllTerminal
     THEN Goto("finally") /\ UNCHANGED buf
     ELSE /\ iteration' = iteration + 1
          /\ pc' = IF iteration' < MaxIterations THEN "top" ELSE "critic"
          /\ buf' = (iteration' = MaxIterations)
          /\ UNCHANGED toolsOn
  /\ UNCHANGED <<stopped, failed, shown, reasoning, finish, attempt, fresh, tools,
                 rows, ghosts>>

-----------------------------------------------------------------------------
\* A correction is requested whether or not the turn is stopped, but with a
\* signal that is already aborted nothing ever comes of the request.
RequestCorrection == Goto(IF stopped THEN "stillborn" ELSE "correcting")

\* runCriticPhase.  The draft is fine, or a correction is requested.
CriticPasses ==
  /\ pc = "critic"
  /\ Goto("closing")
  /\ UNCHANGED <<stopped, failed, texts, tools, rows, ghosts>>

CriticObjects ==
  /\ pc = "critic" /\ buf
  /\ RequestCorrection
  /\ attempt' = 0 /\ fresh' = FALSE /\ shown' = FALSE
  /\ UNCHANGED <<stopped, failed, buf, reasoning, finish, tools, rows, ghosts>>

CorrectionDelta ==
  /\ pc = "correcting" /\ ~stopped
  /\ fresh' = TRUE /\ shown' = TRUE /\ silent' = FALSE
  /\ UNCHANGED <<control, stopped, failed, buf, reasoning, finish, attempt,
                 tools, rows, owed, generated>>

\* The correction ends, by itself or because of Stop: a stopped correction is
\* kept if it has any text, and no report is made.
CorrectionOver ==
  /\ pc \in {"correcting", "stillborn"}
  /\ stopped => "break" \in AbortEnds
  /\ attempt' = attempt + 1
  /\ IF stopped
     THEN Goto("closing") /\ buf' = (fresh \/ buf)
     ELSE Goto("rechecking") /\ UNCHANGED buf
  /\ UNCHANGED <<stopped, failed, shown, reasoning, finish, fresh, tools, rows, ghosts>>

\* The correction stream throws the AbortError, which nothing in the turn
\* catches; send swallows it.
CorrectionThrows ==
  /\ pc \in {"correcting", "stillborn"}
  /\ stopped /\ "throw" \in AbortEnds
  /\ Goto("finally")
  /\ UNCHANGED <<stopped, failed, texts, tools, rows, ghosts>>

CorrectionPasses ==
  /\ pc = "rechecking"
  /\ buf' = fresh
  /\ Goto("noting")
  /\ UNCHANGED <<stopped, failed, shown, reasoning, finish, attempt, fresh, tools,
                 rows, ghosts>>

CorrectionFails ==
  /\ pc = "rechecking" /\ fresh
  /\ buf' = fresh
  /\ IF attempt < MaxCorrections
     THEN RequestCorrection /\ fresh' = FALSE /\ shown' = FALSE
     ELSE Goto(IF stopped THEN "closing" ELSE "noting") /\ UNCHANGED <<fresh, shown>>
  /\ UNCHANGED <<stopped, failed, reasoning, finish, attempt, tools, rows, ghosts>>

AppendSelfCorrected ==
  /\ pc = "noting"
  /\ Append1("corrected", 0)
  /\ Goto("closing")
  /\ UNCHANGED <<stopped, failed, texts, tools, ghosts>>

\* The final answer, which may be empty.
AppendFinal ==
  /\ pc = "closing"
  /\ AppendAssistantText
  /\ Goto("finally")
  /\ UNCHANGED <<stopped, failed, buf, reasoning, finish, attempt, fresh, tools,
                 generated, silent>>

-----------------------------------------------------------------------------
\* A request fails.  A failure that blames the tools (HTTP 400, or a message
\* about tools or functions) starts inner(false) over; the rows stay, and so
\* does the text in the store's buffer, until the next text replaces it.
ToolsBlamed ==
  /\ pc \in {"stream", "correcting"} /\ toolsOn
  /\ pc' = "top" /\ iteration' = 0 /\ toolsOn' = FALSE
  /\ buf' = FALSE /\ reasoning' = FALSE /\ finish' = "none"
  /\ attempt' = 0 /\ fresh' = FALSE
  /\ calls' = <<>> /\ stage' = NoCalls
  /\ spent' = 0 /\ sawAborted' = FALSE
  /\ silent' = TRUE
  /\ UNCHANGED <<stopped, failed, shown, rows, owed, generated>>

\* Any other failure ends the turn, as does a context that cannot be assembled.
Fails ==
  /\ pc \in {"stream", "correcting"} \/ (pc = "top" /\ ~stopped)
  /\ Goto("finally")
  /\ failed' = TRUE
  /\ UNCHANGED <<stopped, texts, tools, rows, ghosts>>

\* Mutant: the buffer of a stopped turn is dropped.
FinallyMutant ==
  /\ pc = "finally"
  /\ Goto("ended")
  /\ shown' = FALSE
  /\ UNCHANGED <<stopped, failed, buf, reasoning, finish, attempt, fresh, tools,
                 rows, ghosts>>

\* The finally block of send: text still in the buffer of a stopped turn is
\* stored as an interrupted row.
Finally ==
  /\ pc = "finally"
  /\ IF stopped /\ shown
     THEN Goto("interrupting") /\ UNCHANGED shown
     ELSE Goto("ended") /\ shown' = FALSE
  /\ UNCHANGED <<stopped, failed, buf, reasoning, finish, attempt, fresh, tools,
                 rows, ghosts>>

AppendInterrupted ==
  /\ pc = "interrupting"
  /\ Append1("interrupted", 0)
  /\ shown' = FALSE /\ owed' = FALSE
  /\ Goto("ended")
  /\ UNCHANGED <<stopped, failed, buf, reasoning, finish, attempt, fresh, tools,
                 generated, silent>>

\* stop(): the signal aborts, and every card that listens is resolved.
Stop ==
  /\ pc # "ended" /\ ~stopped
  /\ stopped' = TRUE
  /\ stage' = [s \in Slots |-> IF stage[s] = "pending" THEN "cancelled" ELSE stage[s]]
  /\ owed' = (shown /\ ~silent)
  /\ UNCHANGED <<control, failed, texts, calls, spent, sawAborted, rows, generated, silent>>

-----------------------------------------------------------------------------
Streaming ==
  \/ TextDelta \/ ReasoningDelta \/ StreamOver
  \/ \E k \in Kinds : ToolCall(k)
  \/ \E r \in {"tool-calls", "stop"} : FinishPart(r)

Lanes ==
  \E s \in Slots :
    \/ ListCall(s) \/ AutoNext(s) \/ AskWritten(s) \/ ToolReturns(s)
    \/ HighRefused(s) \/ HighRuns(s) \/ Answer(s)

Critic ==
  \/ CriticPasses \/ CriticObjects
  \/ CorrectionDelta \/ CorrectionOver \/ CorrectionThrows
  \/ CorrectionPasses \/ CorrectionFails \/ AppendSelfCorrected

\* Steps the turn takes by itself.
TurnStep ==
  \/ Top \/ Streaming \/ AppendReasoning \/ Judge \/ AppendPartial \/ AppendDraft
  \/ Lanes \/ LanesOver \/ BatchOver
  \/ Critic \/ AppendFinal \/ ToolsBlamed \/ Fails
  \/ Finally \/ AppendInterrupted

\* Steps of the user.
UserStep == Stop \/ \E s \in Slots : Approve(s) \/ Decline(s)

Next == TurnStep \/ UserStep

Spec == Init /\ [][Next]_turnVars

\* Everything the turn does apart from receiving more of a stream.
Advances ==
  \/ Top \/ StreamOver \/ AppendReasoning \/ Judge \/ AppendPartial \/ AppendDraft
  \/ \E r \in {"tool-calls", "stop"} : FinishPart(r)
  \/ Lanes \/ LanesOver \/ BatchOver
  \/ CriticPasses \/ CriticObjects \/ CorrectionOver \/ CorrectionThrows
  \/ CorrectionPasses \/ CorrectionFails \/ AppendSelfCorrected
  \/ AppendFinal \/ Finally \/ AppendInterrupted

\* Awaited writes, tools and the provider's streams end some day; the user
\* owes the turn nothing.
FairSpec == Spec /\ WF_turnVars(Advances)

-----------------------------------------------------------------------------
Indices(kinds) == {i \in DOMAIN rows : rows[i].kind \in kinds}

Answers(i) ==
  {j \in Indices({"result"}) :
     j > i /\ rows[j].iter = rows[i].iter /\ rows[j].slot = rows[i].slot}

\* Providers reject a history in which a call lacks its result.  No call row
\* ever gets two results, and unless the turn was stopped every one has its
\* result whenever the turn is outside the handling of a batch: before the
\* next request goes out, in every error path, and when the turn is over.
EveryCallIsAnswered ==
  \A i \in Indices({"call"}) :
    /\ Cardinality(Answers(i)) <= 1
    /\ ~stopped /\ pc \notin {"listing", "lanes", "answering"} => Answers(i) # {}

\* "one generative action per turn" (loop.ts): over all the iterations of a
\* turn, whatever is approved and in which order, one generative tool runs.
OneGenerativePerTurn == generated <= 1

\* Text the user could read when Stop was pressed is stored by the time the
\* turn is over, whichever of the loop, the critic and send's finally block
\* comes to store it.  The exception is text of a request that blamed the tools
\* and that no text of the fallback has replaced: when the fallback ends without
\* a word, Stop in its last moments loses it, because the loop stores an empty
\* row (loop.ts:464) and the store then clears its buffer (chat.svelte.ts:630).
ShownTextIsKept == pc = "ended" => ~owed

\* A turn that neither failed nor was stopped ends with an answer: its last
\* row is the assistant's text, or the choices it presents.  The text may be
\* empty: the loop stores what the model said even when that is nothing.
FinishedTurnSpeaks ==
  pc = "ended" /\ ~failed /\ ~stopped =>
    rows # <<>> /\ rows[Len(rows)].kind \in {"text", "choices"}

\* The turn never hangs by itself: it ends, or it waits for the user to
\* decide on an approval card.
TurnAdvances == []<>(pc = "ended" \/ \E s \in Called : stage[s] \in {"pending", "deaf"})

-----------------------------------------------------------------------------
\* What the program says of itself and the code does not do.

\* "Stop the in-flight stream" (chat.svelte.ts:892), "abort resolves pending
\* as aborted" (chat.svelte.test.ts:856): once stopped, a turn ends.
StopEndsTurn == stopped ~> pc = "ended"

-----------------------------------------------------------------------------
\* What each call has come to, in the terms of the ledger.
Status(s) ==
  CASE stage[s] \in {"absent", "emitted"} -> "none"
    [] stage[s] \in {"listed", "cancelled"} \union Waiting -> "called"
    [] stage[s] = "approved" -> "granted"
    [] stage[s] = "running" -> "running"
    [] OTHER -> "settled"

Ledger == INSTANCE CallLedger WITH
  kind      <- [s \in Slots |-> IF Status(s) = "none" THEN "none" ELSE calls[s]],
  status    <- [s \in Slots |-> Status(s)],
  halted    <- stopped

\* The turn does to its tool calls what the ledger of calls allows.
ImplementsLedger == Ledger!Spec
=============================================================================
