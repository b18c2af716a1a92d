-------------------------- MODULE AgentTurnProofs --------------------------
(***************************************************************************)
(* Theorems of AgentTurn and TurnHistory for every value of their          *)
(* constants, and of Projection for every history.                         *)
(***************************************************************************)
EXTENDS TurnHistory, FiniteSetTheorems, WellFoundedInduction, TLAPS

\* The loops of the turn are inside their bounds wherever they are counted up.
LoopBounds ==
  /\ pc \in {"top", "stream", "reasoning", "judging", "draft", "listing", "lanes",
             "answering"} => iteration < MaxIterations
  /\ pc \in {"correcting", "stillborn"} => attempt < MaxCorrections

TypeInv == TypeOK /\ LoopBounds

\* A row the turn appends keeps rows a sequence of rows.
LEMMA AppendRow ==
  ASSUME TypeOK, NEW k \in {"reasoning", "text", "interrupted", "corrected",
                            "call", "choices", "approval", "result"},
         NEW s \in Nat, Append1(k, s)
  PROVE  rows' \in Seq(Row)
<1> DEFINE r == [kind |-> k, iter |-> iteration, slot |-> s]
<1>1. iteration \in Nat /\ rows \in Seq(Row)
  BY TurnAssumption DEF TypeOK
<1>2. r \in Row
  BY <1>1 DEF Row
<1>3. Append(rows, r) \in Seq(Row)
  BY <1>1, <1>2
<1> QED
  BY <1>3 DEF Append1

LEMMA SlotIsNat == ASSUME NEW s \in Slots PROVE s \in Nat
BY TurnAssumption DEF Slots

LEMMA TypeInit == Init => TypeInv
<1> SUFFICES ASSUME Init PROVE TypeInv
  OBVIOUS
<1>1. calls \in Seq(Kinds) /\ Len(calls) <= MaxCalls /\ rows \in Seq(Row)
  <2>1. calls = <<>> /\ rows = <<>>
    BY DEF Init
  <2>2. <<>> \in Seq(Kinds) /\ Len(<<>>) = 0 /\ <<>> \in Seq(Row)
    OBVIOUS
  <2> QED
    BY <2>1, <2>2, TurnAssumption
<1>2. stage \in [Slots -> Stage]
  BY DEF Init, NoCalls, Stage
<1>3. /\ pc = "top" /\ finish = "none"
      /\ iteration = 0 /\ attempt = 0 /\ spent = 0 /\ generated = 0
      /\ toolsOn \in BOOLEAN /\ stopped \in BOOLEAN /\ failed \in BOOLEAN
      /\ buf \in BOOLEAN /\ shown \in BOOLEAN /\ reasoning \in BOOLEAN
      /\ fresh \in BOOLEAN /\ sawAborted \in BOOLEAN /\ owed \in BOOLEAN
      /\ silent \in BOOLEAN
  BY TurnAssumption DEF Init
<1> QED
  BY <1>1, <1>2, <1>3, TurnAssumption DEF TypeInv, TypeOK, LoopBounds, PC

LEMMA TypeStep == TypeInv /\ [Next]_turnVars => TypeInv'
<1> SUFFICES ASSUME TypeInv, [Next]_turnVars PROVE TypeInv'
  OBVIOUS
<1> USE TurnAssumption
<1> USE DEF TypeInv, TypeOK, LoopBounds, Goto, control, texts, tools, ghosts
<1>1. CASE Top
  <2>1. CASE stopped
    BY <1>1, <2>1 DEF Top, PC
  <2>2. CASE ~stopped
    <3>1. stage' \in [Slots -> Stage] /\ calls' \in Seq(Kinds) /\ Len(calls') <= MaxCalls
      BY <1>1, <2>2 DEF Top, NoCalls, Stage
    <3> QED
      BY <1>1, <2>2, <3>1 DEF Top, PC
  <2> QED
    BY <2>1, <2>2
<1>2. CASE TextDelta
  BY <1>2 DEF TextDelta
<1>3. CASE ReasoningDelta
  BY <1>3 DEF ReasoningDelta
<1>4. ASSUME NEW k \in Kinds, ToolCall(k) PROVE TypeInv'
  <2>1. calls' \in Seq(Kinds) /\ Len(calls') <= MaxCalls
    BY <1>4 DEF ToolCall
  <2>2. stage' \in [Slots -> Stage]
    BY <1>4 DEF ToolCall, Stage
  <2>3. buf' \in BOOLEAN /\ shown' \in BOOLEAN
    BY <1>4 DEF ToolCall
  <2> QED
    BY <1>4, <2>1, <2>2, <2>3 DEF ToolCall
<1>5. ASSUME NEW r \in {"tool-calls", "stop"}, FinishPart(r) PROVE TypeInv'
  BY <1>5 DEF FinishPart
<1>6. CASE StreamOver
  BY <1>6 DEF StreamOver, PC
<1>7. CASE AppendReasoning
  <2>1. rows' \in Seq(Row)
    BY <1>7, AppendRow DEF AppendReasoning
  <2> QED
    BY <1>7, <2>1 DEF PC, AppendReasoning
<1>8. CASE Judge
  <2>1. pc' \in {"partial", "finally", "critic", "draft", "listing"}
    BY <1>8 DEF Judge
  <2>2. buf' \in BOOLEAN /\ shown' \in BOOLEAN
    BY <1>8 DEF Judge
  <2>3. UNCHANGED <<iteration, toolsOn, stopped, failed, reasoning, finish, attempt, fresh,
                    calls, stage, spent, sawAborted, rows, owed, generated, silent>>
    BY <1>8 DEF Judge
  <2>4. pc = "judging"
    BY <1>8 DEF Judge
  <2> QED
    BY <2>1, <2>2, <2>3, <2>4 DEF PC
<1>9. CASE AppendPartial \/ AppendDraft \/ AppendFinal
  <2>1. rows' \in Seq(Row)
    BY <1>9, AppendRow DEF AppendPartial, AppendDraft, AppendFinal, AppendAssistantText
  <2>2. CASE AppendPartial
    BY <2>1, <2>2 DEF PC, AppendPartial, AppendAssistantText
  <2>3. CASE AppendDraft
    BY <2>1, <2>3 DEF PC, AppendDraft, AppendAssistantText
  <2>4. CASE AppendFinal
    BY <2>1, <2>4 DEF PC, AppendFinal, AppendAssistantText
  <2> QED
    BY <1>9, <2>2, <2>3, <2>4
<1>10. ASSUME NEW s \in Slots, ListCall(s) PROVE TypeInv'
  <2>1. rows' \in Seq(Row)
    BY <1>10, AppendRow, SlotIsNat DEF ListCall
  <2>2. stage' \in [Slots -> Stage]
    BY <1>10 DEF ListCall, Stage
  <2>3. pc' \in {"lanes", "listing"} /\ pc = "listing"
    BY <1>10 DEF ListCall
  <2>4. UNCHANGED <<iteration, toolsOn, stopped, failed, buf, shown, reasoning, finish,
                    attempt, fresh, calls, spent, sawAborted, owed, generated, silent>>
    BY <1>10 DEF ListCall
  <2> QED
    BY <2>1, <2>2, <2>3, <2>4 DEF PC
<1>11. ASSUME NEW s \in Slots, AutoNext(s) PROVE TypeInv'
  <2>1. stage' \in [Slots -> Stage]
    BY <1>11 DEF AutoNext, Step, Stage
  <2>2. UNCHANGED <<pc, iteration, toolsOn, stopped, failed, buf, shown, reasoning, finish,
                    calls, spent, sawAborted, attempt, fresh, rows, owed, generated, silent>>
    BY <1>11 DEF AutoNext
  <2> QED
    BY <2>1, <2>2
<1>12. ASSUME NEW s \in Slots, AskWritten(s) PROVE TypeInv'
  <2>1. rows' \in Seq(Row)
    BY <1>12, AppendRow, SlotIsNat DEF AskWritten
  <2>2. stage' \in [Slots -> Stage]
    BY <1>12 DEF AskWritten, Step, Stage
  <2> QED
    BY <1>12, <2>1, <2>2 DEF AskWritten
<1>13. ASSUME NEW s \in Slots, Approve(s) \/ Decline(s) PROVE TypeInv'
  <2>1. stage' \in [Slots -> Stage]
    BY <1>13 DEF Approve, Decline, Step, Stage
  <2>2. UNCHANGED <<pc, iteration, toolsOn, stopped, failed, buf, shown, reasoning, finish,
                    calls, spent, sawAborted, attempt, fresh, rows, owed, generated, silent>>
    BY <1>13 DEF Approve, Decline
  <2> QED
    BY <2>1, <2>2
<1>14. ASSUME NEW s \in Slots, HighRefused(s) PROVE TypeInv'
  <2>1. stage' \in [Slots -> Stage]
    BY <1>14 DEF HighRefused, Stage
  <2>2. UNCHANGED <<pc, iteration, toolsOn, stopped, failed, buf, shown, reasoning, finish,
                    calls, spent, sawAborted, attempt, fresh, rows, owed, generated, silent>>
    BY <1>14 DEF HighRefused
  <2> QED
    BY <2>1, <2>2
<1>15. ASSUME NEW s \in Slots, HighRuns(s) PROVE TypeInv'
  <2>1. stage' \in [Slots -> Stage]
    BY <1>15 DEF HighRuns, Step, Stage
  <2>2. spent' \in Nat /\ generated' \in Nat
    BY <1>15 DEF HighRuns
  <2>3. UNCHANGED <<pc, iteration, toolsOn, stopped, failed, buf, shown, reasoning, finish,
                    calls, sawAborted, attempt, fresh, rows, owed, silent>>
    BY <1>15 DEF HighRuns
  <2> QED
    BY <2>1, <2>2, <2>3
<1>16. ASSUME NEW s \in Slots, ToolReturns(s) PROVE TypeInv'
  <2>1. stage' \in [Slots -> Stage]
    BY <1>16 DEF ToolReturns, Stage
  <2>2. UNCHANGED <<pc, iteration, toolsOn, stopped, failed, buf, shown, reasoning, finish,
                    calls, spent, sawAborted, attempt, fresh, rows, owed, generated, silent>>
    BY <1>16 DEF ToolReturns
  <2> QED
    BY <2>1, <2>2
<1>17. CASE LanesOver
  BY <1>17 DEF LanesOver, PC
<1>18. ASSUME NEW s \in Slots, Answer(s) PROVE TypeInv'
  <2>1. rows' \in Seq(Row)
    BY <1>18, AppendRow, SlotIsNat DEF Answer
  <2>2. stage' \in [Slots -> Stage]
    BY <1>18 DEF Answer, Stage
  <2>3. sawAborted' \in BOOLEAN
    BY <1>18 DEF Answer
  <2> QED
    BY <1>18, <2>1, <2>2, <2>3 DEF Answer
<1>19. CASE BatchOver
  <2>1. CASE sawAborted \/ AllTerminal
    BY <1>19, <2>1 DEF BatchOver, PC
  <2>2. CASE ~(sawAborted \/ AllTerminal)
    <3>1. iteration' = iteration + 1 /\ iteration' \in 0..MaxIterations
      BY <1>19, <2>2 DEF BatchOver
    <3>2. pc' = IF iteration' < MaxIterations THEN "top" ELSE "critic"
      BY <1>19, <2>2 DEF BatchOver
    <3> QED
      BY <1>19, <2>2, <3>1, <3>2 DEF BatchOver, PC
  <2> QED
    BY <2>1, <2>2
<1>20. CASE CriticPasses
  BY <1>20 DEF CriticPasses, PC
<1>21. CASE CriticObjects
  <2>1. pc' \in {"stillborn", "correcting"}
    BY <1>21 DEF CriticObjects, RequestCorrection
  <2>2. attempt' = 0 /\ fresh' \in BOOLEAN /\ shown' \in BOOLEAN
    BY <1>21 DEF CriticObjects
  <2>3. UNCHANGED <<iteration, toolsOn, stopped, failed, buf, reasoning, finish,
                    calls, stage, spent, sawAborted, rows, owed, generated, silent>>
    BY <1>21 DEF CriticObjects, RequestCorrection
  <2> QED
    BY <2>1, <2>2, <2>3 DEF PC
<1>22. CASE CorrectionDelta
  BY <1>22 DEF CorrectionDelta
<1>23. CASE CorrectionOver
  <2>1. pc' \in {"closing", "rechecking"} /\ buf' \in BOOLEAN
    BY <1>23 DEF CorrectionOver
  <2>2. attempt' \in 0..MaxCorrections
    BY <1>23 DEF CorrectionOver
  <2> QED
    BY <1>23, <2>1, <2>2 DEF CorrectionOver, PC
<1>24. CASE CorrectionThrows
  BY <1>24 DEF CorrectionThrows, PC
<1>25. CASE CorrectionPasses
  BY <1>25 DEF CorrectionPasses, PC
<1>26. CASE CorrectionFails
  <2>1. CASE attempt < MaxCorrections
    BY <1>26, <2>1 DEF CorrectionFails, RequestCorrection, PC
  <2>2. CASE ~(attempt < MaxCorrections)
    BY <1>26, <2>2 DEF CorrectionFails, PC
  <2> QED
    BY <2>1, <2>2
<1>27. CASE AppendSelfCorrected
  <2>1. rows' \in Seq(Row)
    BY <1>27, AppendRow DEF AppendSelfCorrected
  <2> QED
    BY <1>27, <2>1 DEF PC, AppendSelfCorrected
<1>28. CASE ToolsBlamed
  <2>1. stage' \in [Slots -> Stage] /\ calls' \in Seq(Kinds) /\ Len(calls') <= MaxCalls
    BY <1>28 DEF ToolsBlamed, NoCalls, Stage
  <2>2. /\ pc' = "top" /\ finish' = "none"
        /\ iteration' = 0 /\ attempt' = 0 /\ spent' = 0
        /\ toolsOn' \in BOOLEAN /\ buf' \in BOOLEAN /\ reasoning' \in BOOLEAN
        /\ fresh' \in BOOLEAN /\ sawAborted' \in BOOLEAN
        /\ silent' \in BOOLEAN
        /\ UNCHANGED <<stopped, failed, shown, rows, owed, generated>>
    BY <1>28 DEF ToolsBlamed
  <2> QED
    BY <2>1, <2>2 DEF PC
<1>29. CASE Fails
  BY <1>29 DEF Fails, PC
<1>30. CASE Finally
  <2>1. pc' \in {"interrupting", "ended"} /\ shown' \in BOOLEAN
    BY <1>30 DEF Finally
  <2>2. UNCHANGED <<iteration, toolsOn, stopped, failed, buf, reasoning, finish, attempt, fresh,
                    calls, stage, spent, sawAborted, rows, owed, generated, silent>>
    BY <1>30 DEF Finally
  <2> QED
    BY <2>1, <2>2 DEF PC
<1>31. CASE AppendInterrupted
  <2>1. rows' \in Seq(Row)
    BY <1>31, AppendRow DEF AppendInterrupted
  <2> QED
    BY <1>31, <2>1 DEF PC, AppendInterrupted
<1>32. CASE Stop
  <2>1. stage' \in [Slots -> Stage]
    BY <1>32 DEF Stop, Stage
  <2>2. UNCHANGED <<pc, iteration, toolsOn, failed, buf, shown, reasoning, finish,
                    calls, spent, sawAborted, attempt, fresh, rows, generated, silent>>
    BY <1>32 DEF Stop
  <2>3. stopped' \in BOOLEAN /\ owed' \in BOOLEAN
    BY <1>32 DEF Stop
  <2> QED
    BY <2>1, <2>2, <2>3
<1>33. CASE UNCHANGED turnVars
  <2>1. UNCHANGED <<pc, iteration, toolsOn, stopped, failed, buf, shown, reasoning, finish,
                  calls, stage, spent, sawAborted, attempt, fresh, rows, owed, generated, silent>>
    BY <1>33 DEF turnVars
  <2> QED
    BY <2>1
<1> QED
  BY <1>1, <1>2, <1>3, <1>4, <1>5, <1>6, <1>7, <1>8, <1>9, <1>10, <1>11, <1>12, <1>13,
     <1>14, <1>15, <1>16, <1>17, <1>18, <1>19, <1>20, <1>21, <1>22, <1>23, <1>24, <1>25,
     <1>26, <1>27, <1>28, <1>29, <1>30, <1>31, <1>32, <1>33
  DEF Next, TurnStep, UserStep, Streaming, Lanes, Critic

\* Every variable of a turn keeps its type, and its loops their bounds.
THEOREM TypeCorrect == Spec => []TypeOK
<1>1. Init => TypeInv
  BY TypeInit
<1>2. TypeInv /\ [Next]_turnVars => TypeInv'
  BY TypeStep
<1>3. TypeInv => TypeOK
  BY DEF TypeInv
<1> QED
  BY <1>1, <1>2, <1>3, PTL DEF Spec

-----------------------------------------------------------------------------
\* The budget counts what ran as long as tools are on.  Falling back to
\* inner(false) resets the budget, which is harmless only because a request
\* without tools brings no calls.
Budget ==
  /\ generated <= 1 /\ spent <= 1
  /\ toolsOn => generated = spent
  /\ ~toolsOn => calls = <<>>

GenInv == TypeInv /\ Budget

LEMMA GenInit == Init => GenInv
<1> SUFFICES ASSUME Init PROVE GenInv
  OBVIOUS
<1>1. generated = 0 /\ spent = 0 /\ calls = <<>>
  BY DEF Init
<1> QED
  BY <1>1, TypeInit DEF GenInv, Budget

\* A call is started only from the batch at hand.
LEMMA NoneCalled == calls = <<>> => Called = {} /\ HighCalls = {}
<1>1. calls = <<>> => Len(calls) = 0
  OBVIOUS
<1>2. \A s \in Slots : s >= 1
  BY TurnAssumption DEF Slots
<1>3. \A s \in Slots : s \in Nat
  BY SlotIsNat
<1> QED
  BY <1>1, <1>2, <1>3 DEF Called, HighCalls

LEMMA GenStep == GenInv /\ [Next]_turnVars => GenInv'
<1> SUFFICES ASSUME GenInv, [Next]_turnVars PROVE Budget'
  BY TypeStep DEF GenInv
<1> USE DEF GenInv, Budget
<1>1. ASSUME UNCHANGED <<toolsOn, calls, spent, generated>> PROVE Budget'
  BY <1>1
<1>2. CASE Top
  <2>1. UNCHANGED <<toolsOn, spent, generated>> /\ (calls' = calls \/ calls' = <<>>)
    BY <1>2 DEF Top, Goto, control, tools, ghosts
  <2> QED
    BY <2>1
<1>3. ASSUME NEW k \in Kinds, ToolCall(k) PROVE Budget'
  <2>1. toolsOn /\ UNCHANGED <<toolsOn, spent, generated>>
    BY <1>3 DEF ToolCall, control, ghosts
  <2> QED
    BY <2>1
<1>4. ASSUME NEW s \in Slots, HighRuns(s) PROVE Budget'
  <2>1. toolsOn /\ UNCHANGED <<toolsOn, calls>>
    BY <1>4, NoneCalled DEF HighRuns, HighReady, control, TypeInv, TypeOK
  <2>2. CASE calls[s] = "generative"
    <3>1. ~(spent >= 1) /\ spent' = spent + 1 /\ generated' = generated + 1
      BY <1>4, <2>2 DEF HighRuns, OverBudget
    <3> QED
      BY <2>1, <3>1 DEF TypeInv, TypeOK
  <2>3. CASE calls[s] # "generative"
    BY <1>4, <2>1, <2>3 DEF HighRuns
  <2> QED
    BY <2>2, <2>3
<1>5. CASE ToolsBlamed
  <2>1. ~toolsOn' /\ calls' = <<>> /\ spent' = 0 /\ generated' = generated
    BY <1>5 DEF ToolsBlamed, ghosts
  <2> QED
    BY <2>1
<1>6. CASE UNCHANGED turnVars
  BY <1>1, <1>6 DEF turnVars, control, tools, ghosts
<1>7. CASE Streaming /\ ~\E k \in Kinds : ToolCall(k)
  BY <1>1, <1>7 DEF Streaming, TextDelta, ReasoningDelta, StreamOver, FinishPart,
                    Goto, control, tools, ghosts
<1>8. CASE AppendReasoning \/ Judge \/ AppendPartial \/ AppendDraft \/ AppendFinal
  BY <1>1, <1>8 DEF AppendReasoning, Judge, AppendPartial, AppendDraft, AppendFinal,
                    Goto, control, tools, ghosts
<1>9. ASSUME NEW s \in Slots,
             ListCall(s) \/ AutoNext(s) \/ AskWritten(s) \/ ToolReturns(s)
               \/ HighRefused(s) \/ Answer(s)
      PROVE  Budget'
  BY <1>1, <1>9 DEF ListCall, AutoNext, AskWritten, ToolReturns, HighRefused, Answer,
                    Goto, control, ghosts
<1>10. CASE LanesOver \/ BatchOver
  BY <1>1, <1>10 DEF LanesOver, BatchOver, Goto, control, tools, ghosts
<1>11. CASE Critic
  BY <1>1, <1>11 DEF Critic, CriticPasses, CriticObjects, CorrectionDelta, CorrectionOver,
                     CorrectionThrows, CorrectionPasses, CorrectionFails,
                     AppendSelfCorrected, RequestCorrection, Goto, control, tools, ghosts
<1>12. CASE Fails \/ Finally \/ AppendInterrupted
  BY <1>1, <1>12 DEF Fails, Finally, AppendInterrupted, Goto, control, tools, ghosts
<1>13. CASE UserStep
  BY <1>1, <1>13 DEF UserStep, Stop, Approve, Decline, control, tools, ghosts
<1> QED
  BY <1>2, <1>3, <1>4, <1>5, <1>6, <1>7, <1>8, <1>9, <1>10, <1>11, <1>12, <1>13
  DEF Next, TurnStep, Streaming, Lanes

\* "one generative action per turn" (loop.ts:583): whatever is approved, in
\* whichever order and over however many iterations, fallbacks to a request
\* without tools included, at most one generative tool runs in a turn.
THEOREM OneGenerative == Spec => []OneGenerativePerTurn
<1>1. Init => GenInv
  BY GenInit
<1>2. GenInv /\ [Next]_turnVars => GenInv'
  BY GenStep
<1>3. GenInv => OneGenerativePerTurn
  BY DEF GenInv, Budget, OneGenerativePerTurn
<1> QED
  BY <1>1, <1>2, <1>3, PTL DEF Spec
-----------------------------------------------------------------------------
\* Where the turn handles a batch, where it may still come to one, and where it gathers one.
Batch == {"listing", "lanes", "answering"}
Before == {"top", "stream", "reasoning", "judging", "draft"}
Gathering == (Before \ {"top"}) \union {"listing"}

\* The rows of calls and results are of the iterations up to this one; its own are there
\* only once its batch is being handled.
RowsAreOfThePast ==
  toolsOn => \A i \in Indices({"call", "result"}) :
    /\ pc \in Before => rows[i].iter < iteration
    /\ pc \in Batch => rows[i].iter <= iteration

\* No call gets two results: of this batch, those have one that are answered.
OneResultEach ==
  /\ \A i, j \in Indices({"result"}) :
       rows[i].iter = rows[j].iter /\ rows[i].slot = rows[j].slot => i = j
  /\ toolsOn /\ pc \in Batch => \A i \in Indices({"result"}) :
       rows[i].iter = iteration => rows[i].slot \in Slots /\ stage[rows[i].slot] = "answered"

\* A call without a result, unless the turn was stopped, is of the batch at hand.
OthersAreAtHand ==
  ~stopped => \A i \in Indices({"call"}) : Answers(i) = {} =>
    /\ pc \in Batch /\ toolsOn
    /\ rows[i].iter = iteration /\ rows[i].slot \in Called
    /\ calls[rows[i].slot] # "choices"
    /\ stage[rows[i].slot] \notin {"absent", "emitted", "answered"}

\* Only Stop makes a lane end early.
LanesEndInResults ==
  /\ \A s \in Slots : stage[s] # "absent" => s \in Called
  /\ pc \in Gathering => \A s \in Slots : stage[s] \in {"absent", "emitted", "listed"}
  /\ ~stopped => \A s \in Slots : stage[s] \notin {"aborted", "cancelled"}
  /\ ~stopped /\ pc = "answering" => \A s \in Called : stage[s] \in Resolved \union {"answered"}

AnswerInv ==
  GenInv /\ RowsAreOfThePast /\ OneResultEach /\ OthersAreAtHand /\ LanesEndInResults

\* The rows that matter to calls and results are as they were.
SameRows ==
  /\ Indices({"call", "result"})' = Indices({"call", "result"})
  /\ Indices({"call"})' = Indices({"call"})
  /\ Indices({"result"})' = Indices({"result"})
  /\ \A i \in Indices({"call", "result"}) : rows'[i] = rows[i]
  /\ \A i \in Indices({"call"}) : Answers(i)' = Answers(i)

LEMMA Appended ==
  ASSUME TypeOK, NEW k, NEW s, Append1(k, s)
  PROVE  /\ Len(rows) + 1 \in Nat /\ DOMAIN rows = 1..Len(rows)
         /\ DOMAIN rows' = 1..(Len(rows) + 1)
         /\ \A i \in DOMAIN rows : rows'[i] = rows[i]
         /\ rows'[Len(rows) + 1] = [kind |-> k, iter |-> iteration, slot |-> s]
<1> DEFINE r == [kind |-> k, iter |-> iteration, slot |-> s]
<1>1. rows \in Seq(Row) /\ rows' = Append(rows, r)
  BY DEF Append1, TypeOK
<1>2. Len(rows) \in Nat /\ DOMAIN rows = 1..Len(rows)
  BY <1>1
<1>3. Len(rows') = Len(rows) + 1 /\ DOMAIN rows' = 1..(Len(rows) + 1)
  BY <1>1, <1>2
<1>4. \A i \in DOMAIN rows : rows'[i] = rows[i]
  BY <1>1, <1>2
<1>5. rows'[Len(rows) + 1] = r
  BY <1>1, <1>2
<1> QED
  BY <1>2, <1>3, <1>4, <1>5

LEMMA RowsKept == ASSUME UNCHANGED rows PROVE SameRows
BY DEF SameRows, Indices, Answers

LEMMA OtherRow ==
  ASSUME TypeOK, NEW k, NEW s, Append1(k, s), k \notin {"call", "result"}
  PROVE  SameRows
<1>1. /\ Len(rows) + 1 \in Nat /\ DOMAIN rows = 1..Len(rows)
      /\ DOMAIN rows' = 1..(Len(rows) + 1)
      /\ \A i \in DOMAIN rows : rows'[i] = rows[i]
      /\ rows'[Len(rows) + 1] = [kind |-> k, iter |-> iteration, slot |-> s]
  BY Appended
<1>2. Len(rows) \in Nat /\ rows'[Len(rows) + 1].kind = k
  BY <1>1 DEF TypeOK
<1>3. DOMAIN rows' = DOMAIN rows \union {Len(rows) + 1}
  BY <1>1, <1>2
<1>4. \A i \in DOMAIN rows : rows'[i].kind = rows[i].kind
  BY <1>1
<1>5. /\ Indices({"call", "result"})' = Indices({"call", "result"})
      /\ Indices({"call"})' = Indices({"call"})
      /\ Indices({"result"})' = Indices({"result"})
  <2>1. Indices({"call", "result"})' = Indices({"call", "result"})
    BY <1>1, <1>2, <1>3, <1>4 DEF Indices
  <2>2. Indices({"call"})' = Indices({"call"})
    BY <1>1, <1>2, <1>3, <1>4 DEF Indices
  <2>3. Indices({"result"})' = Indices({"result"})
    BY <1>1, <1>2, <1>3, <1>4 DEF Indices
  <2> QED
    BY <2>1, <2>2, <2>3
<1>6. \A i \in Indices({"call", "result"}) : rows'[i] = rows[i]
  BY <1>1 DEF Indices
<1>7. ASSUME NEW i \in Indices({"call"}) PROVE Answers(i)' = Answers(i)
  <2>1. rows'[i] = rows[i] /\ \A j \in Indices({"result"}) : rows'[j] = rows[j]
    BY <1>1 DEF Indices
  <2> QED
    BY <1>5, <2>1 DEF Answers
<1> QED
  BY <1>5, <1>6, <1>7 DEF SameRows

\* What a new row of a call or of a result adds.
LEMMA NewRow ==
  ASSUME TypeOK, NEW k \in {"call", "result"}, NEW s, Append1(k, s),
         NEW n, n = Len(rows) + 1
  PROVE  /\ n \in Nat /\ DOMAIN rows \subseteq Nat /\ \A i \in DOMAIN rows : n > i
         /\ \A i \in DOMAIN rows : rows'[i] = rows[i]
         /\ rows'[n] = [kind |-> k, iter |-> iteration, slot |-> s]
         /\ Indices({"call", "result"})' = Indices({"call", "result"}) \union {n}
         /\ Indices({"call"})' = Indices({"call"}) \union (IF k = "call" THEN {n} ELSE {})
         /\ Indices({"result"})' = Indices({"result"}) \union (IF k = "result" THEN {n} ELSE {})
<1>1. /\ Len(rows) + 1 \in Nat /\ DOMAIN rows = 1..Len(rows)
      /\ DOMAIN rows' = 1..(Len(rows) + 1)
      /\ \A i \in DOMAIN rows : rows'[i] = rows[i]
      /\ rows'[Len(rows) + 1] = [kind |-> k, iter |-> iteration, slot |-> s]
  BY Appended
<1>2. Len(rows) \in Nat /\ rows'[n].kind = k
  BY <1>1 DEF TypeOK
<1>3. DOMAIN rows' = DOMAIN rows \union {n}
  BY <1>1, <1>2
<1>4. \A i \in DOMAIN rows : rows'[i].kind = rows[i].kind
  BY <1>1
<1>5. /\ Indices({"call", "result"})' = Indices({"call", "result"}) \union {n}
      /\ Indices({"call"})' = Indices({"call"}) \union (IF k = "call" THEN {n} ELSE {})
      /\ Indices({"result"})' = Indices({"result"}) \union (IF k = "result" THEN {n} ELSE {})
  <2>1. Indices({"call", "result"})' = Indices({"call", "result"}) \union {n}
    BY <1>2, <1>3, <1>4 DEF Indices
  <2>2. Indices({"call"})' = Indices({"call"}) \union (IF k = "call" THEN {n} ELSE {})
    BY <1>2, <1>3, <1>4 DEF Indices
  <2>3. Indices({"result"})' = Indices({"result"}) \union (IF k = "result" THEN {n} ELSE {})
    BY <1>2, <1>3, <1>4 DEF Indices
  <2> QED
    BY <2>1, <2>2, <2>3
<1>6. n \in Nat /\ DOMAIN rows \subseteq Nat /\ \A i \in DOMAIN rows : n > i
  BY <1>1, <1>2
<1> QED
  BY <1>1, <1>5, <1>6

\* Iterations and slots are numbers, and indices those of rows.
LEMMA RowTypes ==
  ASSUME TypeOK
  PROVE  /\ iteration \in Nat
         /\ \A kinds : Indices(kinds) \subseteq DOMAIN rows
         /\ \A i \in DOMAIN rows : rows[i].iter \in Nat
<1>1. iteration \in Nat
  BY TurnAssumption DEF TypeOK
<1>2. \A i \in DOMAIN rows : rows[i] \in Row
  BY DEF TypeOK
<1>3. \A i \in DOMAIN rows : rows[i].iter \in Nat
  BY <1>2 DEF Row
<1> QED
  BY <1>1, <1>3 DEF Indices

\* A call that is not absent is of a request with tools.
LEMMA CalledWithTools ==
  ASSUME AnswerInv, NEW s \in Slots, stage[s] # "absent"
  PROVE  s \in Called /\ toolsOn
<1>1. s \in Called
  BY DEF AnswerInv, LanesEndInResults
<1>2. calls # <<>>
  BY <1>1, NoneCalled
<1> QED
  BY <1>1, <1>2 DEF AnswerInv, GenInv, Budget

\* A step outside the handling of a batch, up to the one that begins to list it.
Outside ==
  /\ SameRows /\ UNCHANGED stopped
  /\ pc \notin Batch /\ pc' \notin {"lanes", "answering"}
  /\ toolsOn' => toolsOn /\ iteration' = iteration
  /\ toolsOn' /\ pc' \in Before \union {"listing"} => pc \in Before
  /\ \A s \in Slots : stage'[s] # "absent" => s \in Called'
  /\ pc' \in Gathering => \A s \in Slots : stage'[s] \in {"absent", "emitted", "listed"}
  /\ ~stopped => \A s \in Slots : stage'[s] \notin {"aborted", "cancelled"}

LEMMA Elsewhere == AnswerInv /\ GenInv' /\ Outside => AnswerInv'
<1> SUFFICES ASSUME AnswerInv, GenInv', Outside PROVE AnswerInv'
  OBVIOUS
<1> USE DEF Outside
<1> USE DEF AnswerInv
<1>1. /\ iteration \in Nat /\ \A i \in DOMAIN rows : rows[i].iter \in Nat
      /\ \A kinds : Indices(kinds) \subseteq DOMAIN rows
  BY RowTypes DEF GenInv, TypeInv
<1>2. RowsAreOfThePast'
  BY <1>1 DEF RowsAreOfThePast, SameRows, Batch, Before
<1>3. OneResultEach'
  <2>1. \A i, j \in Indices({"result"})' :
          rows'[i].iter = rows'[j].iter /\ rows'[i].slot = rows'[j].slot => i = j
    <3>1. \A i \in Indices({"result"})' : rows'[i] = rows[i] /\ i \in Indices({"result"})
      BY DEF SameRows, Indices
    <3> QED
      BY <3>1 DEF OneResultEach
  <2>2. ASSUME toolsOn', pc' \in Batch, NEW i \in Indices({"result"})' PROVE rows'[i].iter < iteration'
    <3>1. pc \in Before /\ toolsOn /\ iteration' = iteration
      BY <2>2 DEF Batch
    <3>2. i \in Indices({"call", "result"}) /\ rows'[i] = rows[i]
      BY DEF SameRows, Indices
    <3> QED
      BY <3>1, <3>2 DEF RowsAreOfThePast
  <2>3. ASSUME toolsOn', pc' \in Batch, NEW i \in Indices({"result"})' PROVE rows'[i].iter # iteration'
    <3>1. i \in DOMAIN rows /\ rows'[i] = rows[i]
      BY DEF SameRows, Indices
    <3> QED
      BY <2>2, <2>3, <3>1, <1>1
  <2> QED
    BY <2>1, <2>3 DEF OneResultEach
<1>4. OthersAreAtHand'
  BY DEF OthersAreAtHand, SameRows
<1>5. LanesEndInResults'
  BY DEF LanesEndInResults
<1> QED
  BY <1>2, <1>3, <1>4, <1>5

\* Steps that move one call on while its batch is being handled.
LEMMA InLanes ==
  ASSUME AnswerInv, GenInv', SameRows,
         UNCHANGED <<pc, toolsOn, iteration, calls, stopped>>,
         NEW s \in Slots, NEW v, stage' = [stage EXCEPT ![s] = v],
         pc = "lanes" \/ stage[s] \in {"pending", "deaf"},
         {stage[s], v} \cap {"absent", "emitted", "answered"} = {},
         ~stopped => v \notin {"aborted", "cancelled"}
  PROVE  AnswerInv'
<1> USE DEF AnswerInv
<1>1. stage \in [Slots -> Stage]
  BY DEF GenInv, TypeInv, TypeOK
<1>2. stage'[s] = v /\ \A t \in Slots : t # s => stage'[t] = stage[t]
  BY <1>1
<1>3. s \in Called /\ Called' = Called
  BY DEF LanesEndInResults, Called
<1>4. pc \notin Gathering
  BY DEF LanesEndInResults, Gathering, Before
<1>5. ~stopped => pc # "answering"
  BY <1>3 DEF LanesEndInResults, Resolved
<1>6. RowsAreOfThePast'
  BY DEF RowsAreOfThePast, SameRows
<1>7. OneResultEach'
  <2>1. \A i \in Indices({"result"})' : rows'[i] = rows[i] /\ i \in Indices({"result"})
    BY DEF SameRows, Indices
  <2>2. \A t \in Slots : stage[t] = "answered" => stage'[t] = "answered"
    BY <1>2
  <2> QED
    BY <2>1, <2>2 DEF OneResultEach
<1>8. OthersAreAtHand'
  <2> SUFFICES ASSUME ~stopped, NEW i \in Indices({"call"}), Answers(i) = {}
               PROVE  /\ pc \in Batch /\ toolsOn
                      /\ rows[i].iter = iteration /\ rows[i].slot \in Called
                      /\ calls[rows[i].slot] # "choices"
                      /\ stage'[rows[i].slot] \notin {"absent", "emitted", "answered"}
    BY <1>3 DEF OthersAreAtHand, SameRows, Indices
  <2>1. rows[i].slot \in Slots
    BY DEF OthersAreAtHand, Called
  <2> QED
    BY <1>2, <2>1 DEF OthersAreAtHand
<1>9. LanesEndInResults'
  BY <1>2, <1>3, <1>4, <1>5 DEF LanesEndInResults
<1> QED
  BY <1>6, <1>7, <1>8, <1>9

\* Listing a call adds a call without a result, of the batch at hand.
LEMMA Listed ==
  ASSUME AnswerInv, GenInv', NEW s \in Slots, ListCall(s)
  PROVE  AnswerInv'
<1> USE DEF AnswerInv
<1> DEFINE n == Len(rows) + 1
<1>1. /\ iteration \in Nat /\ \A i \in DOMAIN rows : rows[i].iter \in Nat
      /\ \A kinds : Indices(kinds) \subseteq DOMAIN rows
  BY RowTypes DEF GenInv, TypeInv
<1>2. /\ pc = "listing" /\ pc' \in {"listing", "lanes"}
      /\ UNCHANGED <<toolsOn, iteration, calls, stopped>> /\ Called' = Called
  BY DEF ListCall, Goto, texts, Called
<1>3. s \in Called /\ toolsOn
  BY CalledWithTools DEF ListCall
<1>4. \A t \in Slots : stage[t] \in {"absent", "emitted", "listed"}
  BY <1>2 DEF LanesEndInResults, Gathering
<1>5. stage \in [Slots -> Stage]
  BY DEF GenInv, TypeInv, TypeOK
<1>6. \A t \in Slots : stage'[t] = stage[t] \/ (t \in Called /\ stage'[t] \in {"listed", "asking"})
  BY <1>3, <1>5 DEF ListCall, HighCalls
<1>7. stage'[s] \in {"listed", "asking"}
  BY <1>5 DEF ListCall
<1>8. pc' = "listing" => \A t \in Slots : stage'[t] \in {"absent", "emitted", "listed"}
  BY <1>4, <1>5 DEF ListCall, Goto
<1>9. LanesEndInResults'
  BY <1>2, <1>4, <1>6, <1>8 DEF LanesEndInResults, Gathering, Before
<1>10. CASE calls[s] = "choices"
  <2>1. SameRows
    BY <1>10, OtherRow DEF ListCall, GenInv, TypeInv
  <2>2. RowsAreOfThePast'
    BY <1>2, <2>1 DEF RowsAreOfThePast, SameRows, Batch, Before
  <2>3. OneResultEach'
    <3>1. \A i \in Indices({"result"})' : rows'[i] = rows[i] /\ i \in Indices({"result"})
      BY <2>1 DEF SameRows, Indices
    <3> QED
      BY <1>2, <1>3, <1>4, <3>1 DEF OneResultEach, Batch
  <2>4. OthersAreAtHand'
    <3>1. \A i \in Indices({"call"})' : rows'[i] = rows[i] /\ i \in Indices({"call"})
                                        /\ Answers(i)' = Answers(i)
      BY <2>1 DEF SameRows, Indices
    <3> QED
      BY <1>2, <1>6, <3>1 DEF OthersAreAtHand, Batch, Called
  <2> QED
    BY <1>9, <2>2, <2>3, <2>4
<1>11. CASE calls[s] # "choices"
  <2>1. /\ n \in Nat /\ DOMAIN rows \subseteq Nat /\ \A i \in DOMAIN rows : n > i
        /\ \A i \in DOMAIN rows : rows'[i] = rows[i]
        /\ rows'[n] = [kind |-> "call", iter |-> iteration, slot |-> s]
        /\ Indices({"call", "result"})' = Indices({"call", "result"}) \union {n}
        /\ Indices({"call"})' = Indices({"call"}) \union (IF "call" = "call" THEN {n} ELSE {})
        /\ Indices({"result"})' = Indices({"result"}) \union (IF "call" = "result" THEN {n} ELSE {})
    <3>1. TypeOK /\ Append1("call", s)
      BY <1>11 DEF ListCall, GenInv, TypeInv
    <3> HIDE DEF AnswerInv
    <3> QED
      BY ONLY <3>1, NewRow
  <2>2. /\ Indices({"call", "result"})' = Indices({"call", "result"}) \union {n}
        /\ Indices({"call"})' = Indices({"call"}) \union {n}
        /\ Indices({"result"})' = Indices({"result"})
    BY <2>1
  <2>3. rows'[n].iter = iteration /\ rows'[n].slot = s
    BY <2>1
  <2> HIDE DEF n
  <2>4. RowsAreOfThePast'
    BY <1>1, <1>2, <2>1, <2>2, <2>3 DEF RowsAreOfThePast, Batch, Before
  <2>5. OneResultEach'
    <3>1. \A i \in Indices({"result"})' : rows'[i] = rows[i] /\ i \in Indices({"result"})
      BY <1>1, <2>1, <2>2
    <3> QED
      BY <1>2, <1>3, <1>4, <3>1 DEF OneResultEach, Batch
  <2>6. OthersAreAtHand'
    <3> SUFFICES ASSUME ~stopped, NEW i \in Indices({"call"}) \union {n}, Answers(i)' = {}
                 PROVE  /\ rows'[i].iter = iteration /\ rows'[i].slot \in Called
                        /\ calls[rows'[i].slot] # "choices"
                        /\ stage'[rows'[i].slot] \notin {"absent", "emitted", "answered"}
      BY <1>2, <1>3, <2>2 DEF OthersAreAtHand, Batch
    <3>1. CASE i = n
      BY <1>3, <1>7, <1>11, <2>3, <3>1
    <3>2. CASE i \in Indices({"call"})
      <4>1. Answers(i)' = Answers(i) /\ rows'[i] = rows[i]
        BY <1>1, <2>1, <2>2, <3>2 DEF Answers
      <4> QED
        BY <1>6, <3>2, <4>1 DEF OthersAreAtHand, Called
    <3> QED
      BY <3>1, <3>2
  <2> QED
    BY <1>9, <2>4, <2>5, <2>6
<1> QED
  BY <1>10, <1>11

\* A result is written for a call that had none.
LEMMA Answered ==
  ASSUME AnswerInv, GenInv', NEW s \in Slots, Answer(s)
  PROVE  AnswerInv'
<1> USE DEF AnswerInv
<1> DEFINE n == Len(rows) + 1
<1>1. /\ iteration \in Nat /\ \A i \in DOMAIN rows : rows[i].iter \in Nat
      /\ \A kinds : Indices(kinds) \subseteq DOMAIN rows
  BY RowTypes DEF GenInv, TypeInv
<1>2. /\ pc = "answering" /\ pc' = pc /\ stage[s] \in Resolved
      /\ UNCHANGED <<toolsOn, iteration, calls, stopped>> /\ Called' = Called
  BY DEF Answer, control, texts, Called
<1>3. s \in Called /\ toolsOn
  BY <1>2, CalledWithTools DEF Resolved
<1>4. stage'[s] = "answered" /\ \A t \in Slots : t # s => stage'[t] = stage[t]
  BY DEF Answer, GenInv, TypeInv, TypeOK
<1>5. LanesEndInResults'
  BY <1>2, <1>3, <1>4 DEF LanesEndInResults, Gathering, Before, Called
<1>6. CASE calls[s] = "choices"
  <2>1. UNCHANGED rows
    BY <1>6 DEF Answer
  <2>2. SameRows
    BY <2>1, RowsKept
  <2>3. RowsAreOfThePast'
    BY <1>2, <2>2 DEF RowsAreOfThePast, SameRows
  <2>4. OneResultEach'
    BY <1>2, <1>4, <2>1, <2>2 DEF OneResultEach, SameRows
  <2>5. OthersAreAtHand'
    <3>1. \A i \in Indices({"call"})' : rows'[i] = rows[i] /\ i \in Indices({"call"})
                                        /\ Answers(i)' = Answers(i)
      BY <2>2 DEF SameRows, Indices
    <3> QED
      BY <1>2, <1>4, <1>6, <3>1 DEF OthersAreAtHand, Called
  <2> QED
    BY <1>5, <2>3, <2>4, <2>5
<1>7. CASE calls[s] # "choices"
  <2>1. /\ n \in Nat /\ DOMAIN rows \subseteq Nat /\ \A i \in DOMAIN rows : n > i
        /\ \A i \in DOMAIN rows : rows'[i] = rows[i]
        /\ rows'[n] = [kind |-> "result", iter |-> iteration, slot |-> s]
        /\ Indices({"call", "result"})' = Indices({"call", "result"}) \union {n}
        /\ Indices({"call"})' = Indices({"call"}) \union (IF "result" = "call" THEN {n} ELSE {})
        /\ Indices({"result"})' = Indices({"result"}) \union (IF "result" = "result" THEN {n} ELSE {})
    <3>1. TypeOK /\ Append1("result", s)
      BY <1>7 DEF Answer, GenInv, TypeInv
    <3> HIDE DEF AnswerInv
    <3> QED
      BY ONLY <3>1, NewRow
  <2>2. /\ Indices({"call", "result"})' = Indices({"call", "result"}) \union {n}
        /\ Indices({"call"})' = Indices({"call"})
        /\ Indices({"result"})' = Indices({"result"}) \union {n}
    BY <2>1
  <2>3. rows'[n].iter = iteration /\ rows'[n].slot = s
    BY <2>1
  <2> HIDE DEF n
  <2>4. \A i \in Indices({"result"}) \union Indices({"call"}) : i < n /\ rows'[i] = rows[i]
    BY <1>1, <2>1
  <2>5. RowsAreOfThePast'
    BY <1>1, <1>2, <2>1, <2>2, <2>3 DEF RowsAreOfThePast, Batch, Before
  <2>6. OneResultEach'
    <3>1. \A i \in Indices({"result"}) : rows[i].iter = iteration => rows[i].slot # s
      BY <1>2, <1>3 DEF OneResultEach, Batch, Resolved
    <3>2. \A i, j \in Indices({"result"})' :
            rows'[i].iter = rows'[j].iter /\ rows'[i].slot = rows'[j].slot => i = j
      BY <2>2, <2>3, <2>4, <3>1 DEF OneResultEach
    <3>3. \A i \in Indices({"result"})' : rows'[i].iter = iteration =>
            rows'[i].slot \in Slots /\ stage'[rows'[i].slot] = "answered"
      BY <1>2, <1>3, <1>4, <2>2, <2>3, <2>4 DEF OneResultEach, Batch
    <3> QED
      BY <1>2, <3>2, <3>3 DEF OneResultEach
  <2>7. OthersAreAtHand'
    <3> SUFFICES ASSUME ~stopped, NEW i \in Indices({"call"}), Answers(i)' = {}
                 PROVE  /\ rows'[i].iter = iteration /\ rows'[i].slot \in Called
                        /\ calls[rows'[i].slot] # "choices"
                        /\ stage'[rows'[i].slot] \notin {"absent", "emitted", "answered"}
      BY <1>2, <1>3, <2>2 DEF OthersAreAtHand, Batch
    <3>1. rows'[i] = rows[i] /\ n > i
      BY <2>4
    <3>2. Answers(i) \subseteq Answers(i)'
      BY <2>2, <2>4, <3>1 DEF Answers
    <3>3. /\ rows[i].iter = iteration /\ rows[i].slot \in Called
          /\ calls[rows[i].slot] # "choices"
          /\ stage[rows[i].slot] \notin {"absent", "emitted", "answered"}
      BY <3>2 DEF OthersAreAtHand
    <3>4. rows[i].slot # s
      <4>1. n \in Indices({"result"})'
        BY <2>2
      <4> QED
        BY <2>3, <3>1, <3>3, <4>1 DEF Answers
    <3> QED
      BY <1>4, <3>1, <3>3, <3>4 DEF Called
  <2> QED
    BY <1>5, <2>5, <2>6, <2>7
<1> QED
  BY <1>6, <1>7

\* A step that leaves the calls and their rows alone is outside wherever it leads.
LEMMA OutsideKept ==
  ASSUME AnswerInv, SameRows, UNCHANGED <<stopped, iteration, calls, stage>>,
         toolsOn' = toolsOn,
         pc \notin Batch, pc' \notin {"lanes", "answering", "top"},
         pc' \in Gathering => pc \in Gathering
  PROVE  Outside
<1>1. Called' = Called
  BY DEF Called
<1>2. pc' \in Before \union {"listing"} => pc \in Before
  BY DEF Gathering, Before, Batch
<1> QED
  BY <1>1, <1>2 DEF Outside, AnswerInv, LanesEndInResults

\* What the turn does between two batches.
LEMMA BetweenBatches ==
  ASSUME AnswerInv,
         \/ Top \/ Streaming \/ AppendReasoning \/ Judge \/ AppendPartial \/ AppendDraft
         \/ Critic \/ AppendFinal \/ ToolsBlamed \/ Fails \/ Finally \/ AppendInterrupted
  PROVE  Outside
<1> USE DEF Goto, texts, tools, Batch, Before, Gathering
<1>1. TypeOK
  BY DEF AnswerInv, GenInv, TypeInv
<1>2. CASE Top
  <2>1. SameRows
    BY <1>2, RowsKept DEF Top
  <2>2. CASE stopped
    <3>1. /\ UNCHANGED <<stopped, iteration, calls, stage, toolsOn>>
          /\ pc = "top" /\ pc' \in {"partial", "finally"}
      BY <1>2, <2>2 DEF Top
    <3> QED
      BY <2>1, <3>1, OutsideKept
  <2>3. CASE ~stopped
    <3>1. /\ UNCHANGED <<stopped, iteration, toolsOn>> /\ pc = "top" /\ pc' = "stream"
          /\ \A s \in Slots : stage'[s] = "absent"
      BY <1>2, <2>3 DEF Top, NoCalls
    <3> QED
      BY <2>1, <3>1 DEF Outside
  <2> QED
    BY <2>2, <2>3
<1>3. ASSUME NEW k \in Kinds, ToolCall(k) PROVE Outside
  <2>1. SameRows
    BY <1>3, RowsKept DEF ToolCall
  <2>2. UNCHANGED <<stopped, pc, iteration, toolsOn>> /\ pc = "stream" /\ calls' = Append(calls, k)
    BY <1>3 DEF ToolCall, control
  <2>3. calls \in Seq(Kinds) /\ stage \in [Slots -> Stage] /\ Len(calls) < MaxCalls
    BY <1>1, <1>3 DEF TypeOK, ToolCall
  <2>4. Len(calls') = Len(calls) + 1 /\ Len(calls) \in Nat
    BY <2>2, <2>3
  <2>5. /\ stage' \in [Slots -> Stage \union {"emitted"}]
        /\ \A s \in Slots : stage'[s] = IF s = Len(calls) + 1 THEN "emitted" ELSE stage[s]
    BY <1>3, <2>3 DEF ToolCall
  <2>6. \A s \in Slots : s \in Nat
    BY SlotIsNat
  <2>7. Called \subseteq Called' /\ \A s \in Slots : s = Len(calls) + 1 => s \in Called'
    BY <2>4, <2>6 DEF Called
  <2>8. \A s \in Slots : stage[s] \in {"absent", "emitted", "listed"} /\ (stage[s] # "absent" => s \in Called)
    BY <2>2 DEF AnswerInv, LanesEndInResults
  <2> QED
    BY <2>1, <2>2, <2>5, <2>7, <2>8 DEF Outside
<1>4. CASE TextDelta \/ ReasoningDelta \/ \E r \in {"tool-calls", "stop"} : FinishPart(r)
  <2>1. UNCHANGED rows
    BY <1>4 DEF TextDelta, ReasoningDelta, FinishPart
  <2>2. UNCHANGED <<stopped, pc, iteration, toolsOn, calls, stage>> /\ pc = "stream"
    BY <1>4 DEF TextDelta, ReasoningDelta, FinishPart, control
  <2> QED
    BY <2>1, <2>2, RowsKept, OutsideKept
<1>5. CASE StreamOver
  <2>1. /\ UNCHANGED <<rows, stopped, iteration, toolsOn, calls, stage>>
        /\ pc = "stream" /\ pc' \in {"reasoning", "judging"}
    BY <1>5 DEF StreamOver
  <2> QED
    BY <2>1, RowsKept, OutsideKept
<1>6. CASE AppendReasoning
  <2>1. SameRows
    BY <1>1, <1>6, OtherRow DEF AppendReasoning
  <2>2. /\ UNCHANGED <<stopped, iteration, toolsOn, calls, stage>>
        /\ pc = "reasoning" /\ pc' = "judging"
    BY <1>6 DEF AppendReasoning
  <2> QED
    BY <2>1, <2>2, OutsideKept
<1>7. CASE Judge
  <2>1. /\ UNCHANGED <<rows, stopped, iteration, toolsOn, calls, stage>>
        /\ pc = "judging" /\ pc' \in {"partial", "finally", "critic", "draft", "listing"}
    BY <1>7 DEF Judge
  <2> QED
    BY <2>1, RowsKept, OutsideKept
<1>8. CASE AppendPartial \/ AppendDraft \/ AppendFinal
  <2>1. SameRows
    BY <1>1, <1>8, OtherRow DEF AppendPartial, AppendDraft, AppendFinal, AppendAssistantText
  <2>2. UNCHANGED <<stopped, iteration, toolsOn, calls, stage>>
    BY <1>8 DEF AppendPartial, AppendDraft, AppendFinal
  <2>3. \/ pc \in {"partial", "closing"} /\ pc' = "finally"
        \/ pc = "draft" /\ pc' = "listing"
    BY <1>8 DEF AppendPartial, AppendDraft, AppendFinal
  <2> QED
    BY <2>1, <2>2, <2>3, OutsideKept
<1>9. CASE Critic
  <2>1. CASE AppendSelfCorrected
    <3>1. SameRows
      BY <1>1, <2>1, OtherRow DEF AppendSelfCorrected
    <3>2. /\ UNCHANGED <<stopped, iteration, toolsOn, calls, stage>>
          /\ pc = "noting" /\ pc' = "closing"
      BY <2>1 DEF AppendSelfCorrected
    <3> QED
      BY <3>1, <3>2, OutsideKept
  <2>2. CASE ~AppendSelfCorrected
    <3>1. UNCHANGED <<rows, stopped, iteration, toolsOn, calls, stage>>
      BY <1>9, <2>2 DEF Critic, CriticPasses, CriticObjects, CorrectionDelta, CorrectionOver,
         CorrectionThrows, CorrectionPasses, CorrectionFails, RequestCorrection, control
    <3>2. /\ pc \in {"critic", "correcting", "stillborn", "rechecking"}
          /\ pc' \in {"closing", "correcting", "stillborn", "rechecking", "finally", "noting"}
      BY <1>9, <2>2 DEF Critic, CriticPasses, CriticObjects, CorrectionDelta, CorrectionOver,
         CorrectionThrows, CorrectionPasses, CorrectionFails, RequestCorrection, control
    <3> QED
      BY <3>1, <3>2, RowsKept, OutsideKept
  <2> QED
    BY <2>1, <2>2
<1>10. CASE ToolsBlamed
  <2>1. SameRows
    BY <1>10, RowsKept DEF ToolsBlamed
  <2>2. /\ ~toolsOn' /\ UNCHANGED stopped
        /\ pc \in {"stream", "correcting"} /\ pc' = "top"
        /\ \A s \in Slots : stage'[s] = "absent"
    BY <1>10 DEF ToolsBlamed, NoCalls
  <2> QED
    BY <2>1, <2>2 DEF Outside
<1>11. CASE Fails \/ Finally
  <2>1. /\ UNCHANGED <<rows, stopped, iteration, toolsOn, calls, stage>>
        /\ pc \notin Batch /\ pc' \in {"finally", "interrupting", "ended"}
    BY <1>11 DEF Fails, Finally
  <2> QED
    BY <2>1, RowsKept, OutsideKept
<1>12. CASE AppendInterrupted
  <2>1. SameRows
    BY <1>1, <1>12, OtherRow DEF AppendInterrupted
  <2>2. /\ UNCHANGED <<stopped, iteration, toolsOn, calls, stage>>
        /\ pc = "interrupting" /\ pc' = "ended"
    BY <1>12 DEF AppendInterrupted
  <2> QED
    BY <2>1, <2>2, OutsideKept
<1> QED
  BY <1>2, <1>3, <1>4, <1>5, <1>6, <1>7, <1>8, <1>9, <1>10, <1>11, <1>12 DEF Streaming

\* What moves one call on while its batch is being handled.
LEMMA OneMovesOn ==
  ASSUME AnswerInv, GenInv', NEW s \in Slots,
         AutoNext(s) \/ AskWritten(s) \/ Approve(s) \/ Decline(s)
           \/ HighRefused(s) \/ HighRuns(s) \/ ToolReturns(s)
  PROVE  AnswerInv'
<1> USE DEF control, texts
<1>1. CASE AskWritten(s)
  <2>1. SameRows
    BY <1>1, OtherRow DEF AskWritten, AnswerInv, GenInv, TypeInv
  <2>2. UNCHANGED <<pc, toolsOn, iteration, calls, stopped>> /\ pc = "lanes" /\ stage[s] = "asking"
    BY <1>1 DEF AskWritten, Step
  <2>3. PICK v \in {"deaf", "pending"} : stage' = [stage EXCEPT ![s] = v]
    BY <1>1 DEF AskWritten, Step
  <2> QED
    BY <2>1, <2>2, <2>3, InLanes
<1>2. CASE AutoNext(s)
  <2>1. /\ UNCHANGED <<rows, pc, toolsOn, iteration, calls, stopped>>
        /\ pc = "lanes" /\ stage[s] = "listed"
    BY <1>2 DEF AutoNext, Step
  <2>2. PICK v \in {"aborted", "running"} :
          stage' = [stage EXCEPT ![s] = v] /\ (v = "aborted" => stopped)
    BY <1>2 DEF AutoNext, Step
  <2> QED
    BY <2>1, <2>2, RowsKept, InLanes
<1>3. CASE Approve(s) \/ Decline(s)
  <2>1. /\ UNCHANGED <<rows, pc, toolsOn, iteration, calls, stopped>>
        /\ stage[s] \in {"pending", "deaf"}
    BY <1>3 DEF Approve, Decline
  <2>2. PICK v \in {"approved", "declined"} : stage' = [stage EXCEPT ![s] = v]
    BY <1>3 DEF Approve, Decline, Step
  <2> QED
    BY <2>1, <2>2, RowsKept, InLanes
<1>4. CASE HighRefused(s)
  <2>1. UNCHANGED <<rows, pc, toolsOn, iteration, calls, stopped>> /\ pc = "lanes"
    BY <1>4 DEF HighRefused, HighReady
  <2>2. stage[s] \in Decided
    BY <1>4 DEF HighRefused, Decided
  <2>3. ~stopped => stage[s] # "cancelled"
    BY DEF AnswerInv, LanesEndInResults
  <2>4. PICK v \in {"aborted", "refused"} :
          stage' = [stage EXCEPT ![s] = v] /\ (v = "aborted" => stopped)
    BY <1>4, <2>3 DEF HighRefused
  <2> QED
    BY <2>1, <2>2, <2>4, RowsKept, InLanes DEF Decided
<1>5. CASE HighRuns(s)
  <2>1. /\ UNCHANGED <<rows, pc, toolsOn, iteration, calls, stopped>>
        /\ pc = "lanes" /\ stage[s] = "approved" /\ stage' = [stage EXCEPT ![s] = "running"]
    BY <1>5 DEF HighRuns, HighReady, Step
  <2> QED
    BY <2>1, RowsKept, InLanes
<1>6. CASE ToolReturns(s)
  <2>1. /\ UNCHANGED <<rows, pc, toolsOn, iteration, calls, stopped>>
        /\ pc = "lanes" /\ stage[s] = "running"
    BY <1>6 DEF ToolReturns
  <2>2. PICK v \in {"aborted", "done"} :
          stage' = [stage EXCEPT ![s] = v] /\ (v = "aborted" => stopped)
    BY <1>6 DEF ToolReturns
  <2> QED
    BY <2>1, <2>2, RowsKept, InLanes
<1> QED
  BY <1>1, <1>2, <1>3, <1>4, <1>5, <1>6

LEMMA AnswerInit == Init => AnswerInv
<1> SUFFICES ASSUME Init PROVE AnswerInv
  OBVIOUS
<1>1. rows = <<>> /\ pc = "top" /\ \A s \in Slots : stage[s] = "absent"
  BY DEF Init, NoCalls
<1>2. \A kinds : Indices(kinds) = {}
  BY <1>1 DEF Indices
<1>3. LanesEndInResults
  BY <1>1 DEF LanesEndInResults, Gathering, Before
<1> QED
  BY <1>1, <1>2, <1>3, GenInit
  DEF AnswerInv, RowsAreOfThePast, OneResultEach, OthersAreAtHand

LEMMA AnswerStep == AnswerInv /\ [Next]_turnVars => AnswerInv'
<1> SUFFICES ASSUME AnswerInv, [Next]_turnVars PROVE AnswerInv'
  OBVIOUS
<1>1. GenInv'
  BY GenStep DEF AnswerInv
<1>2. CASE \/ Top \/ Streaming \/ AppendReasoning \/ Judge \/ AppendPartial \/ AppendDraft
           \/ Critic \/ AppendFinal \/ ToolsBlamed \/ Fails \/ Finally \/ AppendInterrupted
  BY <1>1, <1>2, BetweenBatches, Elsewhere
<1>3. ASSUME NEW s \in Slots, ListCall(s) PROVE AnswerInv'
  BY <1>1, <1>3, Listed
<1>4. ASSUME NEW s \in Slots, Answer(s) PROVE AnswerInv'
  BY <1>1, <1>4, Answered
<1>5. ASSUME NEW s \in Slots,
             AutoNext(s) \/ AskWritten(s) \/ Approve(s) \/ Decline(s)
               \/ HighRefused(s) \/ HighRuns(s) \/ ToolReturns(s)
      PROVE  AnswerInv'
  BY <1>1, <1>5, OneMovesOn
<1> USE DEF AnswerInv
<1>6. CASE LanesOver
  <2>1. /\ pc = "lanes" /\ pc' = "answering"
        /\ UNCHANGED <<rows, iteration, toolsOn, calls, stage, stopped>>
    BY <1>6 DEF LanesOver, Goto
  <2>2. SameRows /\ Called' = Called
    BY <2>1, RowsKept DEF Called
  <2>3. RowsAreOfThePast' /\ OneResultEach' /\ OthersAreAtHand'
    BY <2>1, <2>2 DEF RowsAreOfThePast, OneResultEach, OthersAreAtHand, SameRows, Batch, Before
  <2>4. ASSUME ~stopped, NEW s \in Called PROVE stage[s] \in Resolved
    <3>1. calls \in Seq(Kinds) /\ s \in Nat /\ 1 <= s /\ s <= Len(calls)
      BY SlotIsNat, TurnAssumption DEF GenInv, TypeInv, TypeOK, Called, Slots
    <3>2. calls[s] \in Kinds
      BY <3>1
    <3>3. s \in AutoCalls \/ s \in HighCalls
      BY <3>2, TurnAssumption DEF AutoCalls, HighCalls
    <3>4. \A t \in AutoCalls : stage[t] = "done"
      BY <1>6, <2>4 DEF LanesOver, AutoOver, LanesEndInResults, AutoCalls, Called
    <3> QED
      BY <1>6, <3>3, <3>4 DEF LanesOver, Resolved
  <2>5. LanesEndInResults'
    BY <2>1, <2>2, <2>4 DEF LanesEndInResults, Gathering, Before
  <2> QED
    BY <1>1, <2>3, <2>5
<1>7. CASE BatchOver
  <2>1. /\ pc = "answering" /\ pc' \in {"finally", "top", "critic"}
        /\ UNCHANGED <<rows, toolsOn, calls, stage, stopped>>
        /\ pc' = "top" => iteration' = iteration + 1
        /\ \A s \in Slots : stage[s] \notin Resolved
    BY <1>7 DEF BatchOver, Goto, tools
  <2>2. SameRows /\ Called' = Called
    BY <2>1, RowsKept DEF Called
  <2>3. RowsAreOfThePast'
    <3>1. /\ iteration \in Nat /\ \A i \in Indices({"call", "result"}) : rows[i].iter \in Nat
      BY RowTypes DEF GenInv, TypeInv
    <3> QED
      BY <2>1, <2>2, <3>1 DEF RowsAreOfThePast, SameRows, Batch, Before
  <2>4. OneResultEach'
    BY <2>1, <2>2 DEF OneResultEach, SameRows, Batch
  <2>5. ASSUME ~stopped, NEW i \in Indices({"call"}) PROVE Answers(i) # {}
    BY <2>1, <2>5 DEF OthersAreAtHand, LanesEndInResults, Called
  <2>6. OthersAreAtHand'
    BY <2>1, <2>2, <2>5 DEF OthersAreAtHand, SameRows
  <2>7. LanesEndInResults'
    BY <2>1, <2>2 DEF LanesEndInResults, Gathering, Before
  <2> QED
    BY <1>1, <2>3, <2>4, <2>6, <2>7
<1>8. CASE Stop
  <2>1. /\ stopped' /\ UNCHANGED <<rows, pc, toolsOn, iteration, calls>>
        /\ \A s \in Slots : stage'[s] = IF stage[s] = "pending" THEN "cancelled" ELSE stage[s]
    BY <1>8 DEF Stop, control
  <2>2. SameRows /\ Called' = Called
    BY <2>1, RowsKept DEF Called
  <2>3. RowsAreOfThePast' /\ OneResultEach'
    BY <2>1, <2>2 DEF RowsAreOfThePast, OneResultEach, SameRows
  <2>4. OthersAreAtHand' /\ LanesEndInResults'
    BY <2>1, <2>2 DEF OthersAreAtHand, LanesEndInResults
  <2> QED
    BY <1>1, <2>3, <2>4
<1>9. CASE UNCHANGED turnVars
  <2>1. UNCHANGED <<rows, pc, toolsOn, iteration, calls, stage, stopped>>
    BY <1>9 DEF turnVars, control, tools
  <2>2. SameRows /\ Called' = Called
    BY <2>1, RowsKept DEF Called
  <2> QED
    BY <1>1, <2>1, <2>2
    DEF RowsAreOfThePast, OneResultEach, OthersAreAtHand, LanesEndInResults, SameRows
<1> QED
  BY <1>2, <1>3, <1>4, <1>5, <1>6, <1>7, <1>8, <1>9 DEF Next, TurnStep, UserStep, Lanes

\* No request goes out, and no turn ends, with a call that lacks its result, unless
\* the user stopped the turn; and no call ever gets two (loop.ts:489-664): for any
\* number of calls in a reply, of iterations, and however the two lanes interleave.
THEOREM CallsAreAnswered == Spec => []EveryCallIsAnswered
<1>1. Init => AnswerInv
  BY AnswerInit
<1>2. AnswerInv /\ [Next]_turnVars => AnswerInv'
  BY AnswerStep
<1>3. AnswerInv => EveryCallIsAnswered
  <2> SUFFICES ASSUME AnswerInv, NEW i \in Indices({"call"})
               PROVE  /\ Cardinality(Answers(i)) <= 1
                      /\ ~stopped /\ pc \notin {"listing", "lanes", "answering"}
                           => Answers(i) # {}
    BY DEF EveryCallIsAnswered
  <2>1. ~stopped /\ pc \notin {"listing", "lanes", "answering"} => Answers(i) # {}
    BY DEF AnswerInv, OthersAreAtHand, Batch
  <2>2. \A j, k \in Answers(i) : j = k
    BY DEF AnswerInv, OneResultEach, Answers
  <2>3. CASE Answers(i) = {}
    BY <2>1, <2>3, FS_EmptySet
  <2>4. CASE Answers(i) # {}
    <3>1. PICK j : Answers(i) = {j}
      BY <2>2, <2>4
    <3>2. Cardinality({j}) = 1
      BY FS_Singleton
    <3> QED
      BY <2>1, <3>1, <3>2
  <2> QED
    BY <2>3, <2>4
<1> QED
  BY <1>1, <1>2, <1>3, PTL DEF Spec
-----------------------------------------------------------------------------
\* Where a batch may be forgotten, and on the way there.
Quiet == {"top", "stream", "reasoning", "judging", "critic", "correcting", "stillborn",
          "rechecking"}

\* Only calls of high risk are asked about; and where calls are forgotten, those the
\* user knew of are settled: a batch that was cut short ends the turn.
Tracked ==
  /\ \A s \in Called : stage[s] # "absent"
  /\ \A s \in Slots : stage[s] \in Waiting \union Decided => s \in HighCalls
  /\ pc = "answering" =>
       \/ sawAborted \/ \E s \in Slots : stage[s] = "aborted"
       \/ \A s \in Slots : stage[s] \in Resolved \union {"absent", "answered"}
  /\ pc \in Quiet => \A s \in Slots : stage[s] \in {"absent", "emitted", "answered"}

LedgerInv == AnswerInv /\ Tracked

LEMMA CalledKept == ASSUME UNCHANGED calls PROVE Called' = Called /\ HighCalls' = HighCalls
BY DEF Called, HighCalls

\* The step of the invariant; the calls of a batch change in the hands of few actions.
LEMMA TrackedStep == LedgerInv /\ [Next]_turnVars => LedgerInv'
<1> SUFFICES ASSUME LedgerInv, [Next]_turnVars PROVE Tracked'
  BY AnswerStep DEF LedgerInv
<1> USE DEF LedgerInv, Tracked
<1>1. /\ stage \in [Slots -> Stage] /\ calls \in Seq(Kinds) /\ Len(calls) \in Nat
      /\ \A s \in Slots : s \in Nat
  BY SlotIsNat DEF AnswerInv, GenInv, TypeInv, TypeOK
<1>2. ASSUME UNCHANGED <<calls, stage>>,
             pc' = "answering" => pc = "answering" /\ UNCHANGED sawAborted,
             pc' \in Quiet => pc \in Quiet
      PROVE  Tracked'
  BY <1>2, CalledKept
<1>3. ASSUME \A s \in Slots : stage'[s] = "absent", pc' # "answering",
             calls' = <<>> PROVE Tracked'
  <2>1. Called' = {}
    <3>1. Len(calls') = 0
      BY <1>3
    <3>2. \A s \in Slots : s >= 1
      BY TurnAssumption DEF Slots
    <3> QED
      BY <1>1, <3>1, <3>2 DEF Called
  <2> QED
    BY <1>3, <2>1 DEF Waiting, Decided
<1>4. CASE Top
  <2>1. CASE stopped
    BY <1>2, <1>4, <2>1 DEF Top, Goto, tools, Quiet
  <2>2. CASE ~stopped
    BY <1>3, <1>4, <2>2 DEF Top, Goto, NoCalls
  <2> QED
    BY <2>1, <2>2
<1>5. CASE ToolsBlamed
  BY <1>3, <1>5 DEF ToolsBlamed, NoCalls
<1>6. ASSUME NEW k \in Kinds, ToolCall(k) PROVE Tracked'
  <2>1. pc = "stream" /\ pc' = pc /\ calls' = Append(calls, k)
    BY <1>6 DEF ToolCall, control
  <2>2. \A s \in Slots : stage'[s] = IF s = Len(calls) + 1 THEN "emitted" ELSE stage[s]
    BY <1>1, <1>6 DEF ToolCall
  <2>3. Len(calls') = Len(calls) + 1
    BY <1>1, <2>1
  <2>4. \A s \in Called' : s \in Called \/ s = Len(calls) + 1
    BY <1>1, <2>3 DEF Called
  <2>5. Called' \subseteq Slots
    BY DEF Called
  <2>6. \A s \in Slots : stage'[s] \in {"absent", "emitted", "answered"}
    BY <2>1, <2>2 DEF Quiet
  <2>7. \A s \in Called' : stage'[s] # "absent"
    BY <2>2, <2>4, <2>5
  <2> QED
    BY <2>1, <2>6, <2>7 DEF Waiting, Decided
<1>7. CASE \/ TextDelta \/ ReasoningDelta \/ StreamOver
           \/ \E r \in {"tool-calls", "stop"} : FinishPart(r)
  <2>1. UNCHANGED <<calls, stage>> /\ pc = "stream" /\ pc' \in {"stream", "reasoning", "judging"}
    BY <1>7 DEF TextDelta, ReasoningDelta, StreamOver, FinishPart, Goto, control, tools
  <2> QED
    BY <1>2, <2>1 DEF Quiet
<1>8. CASE AppendReasoning \/ Judge
  <2>1. /\ UNCHANGED <<calls, stage>> /\ pc \in {"reasoning", "judging"}
        /\ pc' \in {"judging", "partial", "finally", "critic", "draft", "listing"}
    BY <1>8 DEF AppendReasoning, Judge, Goto, tools
  <2> QED
    BY <1>2, <2>1 DEF Quiet
<1>9. CASE AppendPartial \/ AppendDraft \/ AppendFinal \/ Fails \/ Finally \/ AppendInterrupted
  <2>1. UNCHANGED <<calls, stage>> /\ pc' \in {"finally", "listing", "ended", "interrupting"}
    BY <1>9 DEF AppendPartial, AppendDraft, AppendFinal, Fails, Finally, AppendInterrupted, Goto, tools
  <2> QED
    BY <1>2, <2>1 DEF Quiet
<1>10. CASE Critic
  <2>1. /\ UNCHANGED <<calls, stage>>
        /\ pc \in {"critic", "correcting", "stillborn", "rechecking", "noting"}
        /\ pc' \in {"closing", "correcting", "stillborn", "rechecking", "finally", "noting"}
        /\ pc = "noting" => pc' = "closing"
    BY <1>10 DEF Critic, CriticPasses, CriticObjects, CorrectionDelta, CorrectionOver,
       CorrectionThrows, CorrectionPasses, CorrectionFails, AppendSelfCorrected,
       RequestCorrection, Goto, control, tools
  <2> QED
    BY <1>2, <2>1 DEF Quiet
<1>11. ASSUME NEW s \in Slots, ListCall(s) PROVE Tracked'
  <2>1. UNCHANGED calls /\ pc' \in {"listing", "lanes"}
    BY <1>11 DEF ListCall, Goto
  <2>2. \A t \in Slots : stage'[t] \in {"listed", stage[t]} \/ (stage'[t] = "asking" /\ t \in HighCalls)
    BY <1>1, <1>11 DEF ListCall
  <2> QED
    BY <2>1, <2>2, CalledKept DEF Quiet, Waiting, Decided, Called
<1>12. ASSUME NEW s \in Slots,
              AutoNext(s) \/ AskWritten(s) \/ HighRefused(s) \/ HighRuns(s) \/ ToolReturns(s)
       PROVE  Tracked'
  <2>1. UNCHANGED calls /\ pc' = "lanes"
    BY <1>12 DEF AutoNext, AskWritten, HighRefused, HighRuns, HighReady, ToolReturns, control
  <2>2. PICK v \in {"aborted", "running", "refused", "done", "deaf", "pending"} :
          stage' = [stage EXCEPT ![s] = v] /\ (v \in {"deaf", "pending"} => stage[s] = "asking")
    BY <1>12 DEF AutoNext, AskWritten, HighRefused, HighRuns, ToolReturns, Step
  <2>3. \A t \in Slots : stage'[t] = IF t = s THEN v ELSE stage[t]
    BY <1>1, <2>2
  <2> QED
    BY <2>1, <2>2, <2>3, CalledKept DEF Quiet, Waiting, Decided, Called
<1>13. ASSUME NEW s \in Slots, Approve(s) \/ Decline(s) PROVE Tracked'
  <2>1. UNCHANGED <<calls, pc, sawAborted>> /\ stage[s] \in {"pending", "deaf"}
    BY <1>13 DEF Approve, Decline, control
  <2>2. PICK v \in {"approved", "declined"} : stage' = [stage EXCEPT ![s] = v]
    BY <1>13 DEF Approve, Decline, Step
  <2>3. \A t \in Slots : stage'[t] = IF t = s THEN v ELSE stage[t]
    BY <1>1, <2>2
  <2> QED
    BY <2>1, <2>2, <2>3, CalledKept DEF Waiting, Decided, Resolved, Called
<1>14. CASE LanesOver
  <2>1. UNCHANGED <<calls, stage>> /\ pc' = "answering"
    BY <1>14 DEF LanesOver, Goto
  <2>2. \A s \in Slots : s \notin Called => stage[s] = "absent"
    BY DEF AnswerInv, LanesEndInResults
  <2>3. ASSUME NEW s \in Called PROVE s \in AutoCalls \/ s \in HighCalls
    <3>1. 1 <= s /\ s <= Len(calls) /\ s \in Nat
      BY <1>1, TurnAssumption DEF Called, Slots
    <3>2. calls[s] \in Kinds
      BY <1>1, <3>1
    <3> QED
      BY <3>2, TurnAssumption DEF AutoCalls, HighCalls
  <2>4. \/ \E s \in Slots : stage[s] = "aborted"
        \/ \A s \in Slots : stage[s] \in Resolved \union {"absent", "answered"}
    BY <1>14, <2>2, <2>3 DEF LanesOver, AutoOver, AutoCalls, Called, Resolved
  <2> QED
    BY <2>1, <2>4, CalledKept DEF Quiet
<1>15. ASSUME NEW s \in Slots, Answer(s) PROVE Tracked'
  <2>1. UNCHANGED <<calls, pc>> /\ pc = "answering"
    BY <1>15 DEF Answer, control
  <2>2. \A t \in Slots : stage'[t] = IF t = s THEN "answered" ELSE stage[t]
    BY <1>1, <1>15 DEF Answer
  <2>3. sawAborted \/ stage[s] = "aborted" => sawAborted'
    BY <1>15 DEF Answer
  <2>4. \/ sawAborted' \/ \E t \in Slots : stage'[t] = "aborted"
        \/ \A t \in Slots : stage'[t] \in Resolved \union {"absent", "answered"}
    BY <2>1, <2>2, <2>3
  <2> QED
    BY <2>1, <2>2, <2>4, CalledKept DEF Quiet, Waiting, Decided, Called
<1>16. CASE BatchOver
  <2>1. UNCHANGED <<calls, stage>> /\ pc = "answering" /\ pc' \in {"finally", "top", "critic"}
    BY <1>16 DEF BatchOver, Goto, tools
  <2>2. pc' # "finally" => \A s \in Slots : stage[s] \in {"absent", "answered"}
    BY <1>16 DEF BatchOver, Goto, Resolved
  <2> QED
    BY <2>1, <2>2, CalledKept DEF Quiet
<1>17. CASE Stop
  <2>1. UNCHANGED <<calls, pc, sawAborted>>
    BY <1>17 DEF Stop, control
  <2>2. \A s \in Slots : stage'[s] = IF stage[s] = "pending" THEN "cancelled" ELSE stage[s]
    BY <1>17 DEF Stop
  <2> QED
    BY <2>1, <2>2, CalledKept DEF Waiting, Decided, Resolved, Called
<1>18. CASE UNCHANGED turnVars
  BY <1>2, <1>18 DEF turnVars, control, tools
<1> QED
  BY <1>4, <1>5, <1>6, <1>7, <1>8, <1>9, <1>10, <1>11, <1>12, <1>13, <1>14, <1>15, <1>16,
     <1>17, <1>18
  DEF Next, TurnStep, UserStep, Streaming, Lanes

LEMMA LedgerInit == Init => LedgerInv
<1> SUFFICES ASSUME Init PROVE LedgerInv
  OBVIOUS
<1>1. calls = <<>> /\ pc = "top" /\ \A s \in Slots : stage[s] = "absent"
  BY DEF Init, NoCalls
<1>2. Called = {}
  BY <1>1, NoneCalled
<1> QED
  BY <1>1, <1>2, AnswerInit DEF LedgerInv, Tracked, Waiting, Decided

\* The stages, read as the ledger's statuses.
LEMMA StatusIs ==
  ASSUME NEW s
  PROVE  /\ stage[s] \in {"absent", "emitted"} => Status(s) = "none"
         /\ stage[s] \in {"listed", "cancelled", "asking", "pending", "deaf"} => Status(s) = "called"
         /\ stage[s] = "approved" => Status(s) = "granted"
         /\ stage[s] = "running" => Status(s) = "running"
         /\ stage[s] \in {"declined", "done", "refused", "aborted", "answered"} =>
              Status(s) = "settled"
BY DEF Status, Waiting

LEMMA StatusIsNext ==
  ASSUME NEW s
  PROVE  /\ stage'[s] \in {"absent", "emitted"} => Status(s)' = "none"
         /\ stage'[s] \in {"listed", "cancelled", "asking", "pending", "deaf"} => Status(s)' = "called"
         /\ stage'[s] = "approved" => Status(s)' = "granted"
         /\ stage'[s] = "running" => Status(s)' = "running"
         /\ stage'[s] \in {"declined", "done", "refused", "aborted", "answered"} =>
              Status(s)' = "settled"
BY DEF Status, Waiting

LEMMA StatusOfStage ==
  ASSUME NEW s, stage'[s] = stage[s]
  PROVE  Status(s)' = Status(s)
BY DEF Status

\* A step that changes no status, and no kind of a call the ledger knows, is none to it.
LEMMA NothingForTheLedger ==
  ASSUME UNCHANGED <<stopped, generated>>,
         \A s \in Slots : Status(s)' = Status(s),
         \A s \in Slots : Status(s) # "none" => calls'[s] = calls[s]
  PROVE  UNCHANGED Ledger!ledgerVars
BY DEF Ledger!ledgerVars

\* A step that gives one call another status.
LEMMA OneForTheLedger ==
  ASSUME NEW s \in Slots, NEW v, Status(s) # "none", v # "none", Status(s)' = v,
         \A t \in Slots : t # s => Status(t)' = Status(t),
         UNCHANGED calls, UNCHANGED stopped
  PROVE  /\ [t \in Slots |-> Status(t)]' = [[t \in Slots |-> Status(t)] EXCEPT ![s] = v]
         /\ [t \in Slots |-> IF Status(t) = "none" THEN "none" ELSE calls[t]]'
              = [t \in Slots |-> IF Status(t) = "none" THEN "none" ELSE calls[t]]
         /\ [t \in Slots |-> Status(t)][s] = Status(s)
         /\ [t \in Slots |-> IF Status(t) = "none" THEN "none" ELSE calls[t]][s] = calls[s]
<1>1. [t \in Slots |-> Status(t)]' = [[t \in Slots |-> Status(t)] EXCEPT ![s] = v]
  OBVIOUS
<1>2. [t \in Slots |-> IF Status(t) = "none" THEN "none" ELSE calls[t]]'
        = [t \in Slots |-> IF Status(t) = "none" THEN "none" ELSE calls[t]]
  OBVIOUS
<1> QED
  BY <1>1, <1>2

\* Every step of the turn is a step of the ledger, or none to it.
LEMMA LedgerStep == LedgerInv /\ [Next]_turnVars => [Ledger!Next]_(Ledger!ledgerVars)
<1> SUFFICES ASSUME LedgerInv, [Next]_turnVars
             PROVE  Ledger!Next \/ UNCHANGED Ledger!ledgerVars
  OBVIOUS
<1>1. /\ stage \in [Slots -> Stage] /\ calls \in Seq(Kinds) /\ Len(calls) \in Nat
      /\ \A s \in Slots : s \in Nat
  BY SlotIsNat DEF LedgerInv, AnswerInv, GenInv, TypeInv, TypeOK
<1>2. \A s \in Slots : stage[s] # "absent" => s \in Called
  BY DEF LedgerInv, AnswerInv, LanesEndInResults
<1>3. ASSUME UNCHANGED <<stopped, generated, calls, stage>> PROVE UNCHANGED Ledger!ledgerVars
  BY <1>3, StatusOfStage, NothingForTheLedger
<1>4. ASSUME NEW s \in Slots, NEW v, stage' = [stage EXCEPT ![s] = v]
      PROVE  stage'[s] = v /\ \A t \in Slots : t # s => Status(t)' = Status(t)
  BY <1>1, <1>4, StatusOfStage
<1>5. ASSUME pc \in Quiet, \A s \in Slots : stage'[s] = "absent", UNCHANGED <<stopped, generated>>
      PROVE  Ledger!Forget
  <2>1. \A s \in Slots : stage[s] \in {"absent", "emitted", "answered"}
    BY <1>5 DEF LedgerInv, Tracked
  <2>2. \A s \in Slots : Status(s) \in {"none", "settled"} /\ Status(s)' = "none"
    BY <1>5, <2>1, StatusIs, StatusIsNext
  <2> QED
    BY <1>5, <2>2 DEF Ledger!Forget
<1>6. CASE Top
  <2>1. CASE stopped
    BY <1>3, <1>6, <2>1 DEF Top, tools, ghosts
  <2>2. CASE ~stopped
    BY <1>5, <1>6, <2>2 DEF Top, NoCalls, ghosts, Quiet, Ledger!Next
  <2> QED
    BY <2>1, <2>2
<1>7. CASE ToolsBlamed
  BY <1>5, <1>7 DEF ToolsBlamed, NoCalls, ghosts, Quiet, Ledger!Next
<1>8. ASSUME NEW k \in Kinds, ToolCall(k) PROVE UNCHANGED Ledger!ledgerVars
  <2>1. /\ pc = "stream" /\ calls' = Append(calls, k) /\ UNCHANGED <<stopped, generated>>
        /\ stage' = [stage EXCEPT ![Len(calls) + 1] = "emitted"]
    BY <1>8 DEF ToolCall, ghosts
  <2>2. ASSUME NEW s \in Slots PROVE Status(s)' = Status(s)
    <3>1. CASE s = Len(calls) + 1
      <4>1. s \notin Called
        BY <1>1, <3>1 DEF Called
      <4>2. stage[s] = "absent" /\ stage'[s] = "emitted"
        BY <1>1, <1>2, <2>1, <3>1, <4>1
      <4> QED
        BY <4>2, StatusIs, StatusIsNext
    <3>2. CASE s # Len(calls) + 1
      BY <1>1, <2>1, <3>2, StatusOfStage
    <3> QED
      BY <3>1, <3>2
  <2>3. ASSUME NEW s \in Slots, Status(s) # "none" PROVE calls'[s] = calls[s]
    <3>1. s \in Called
      BY <1>2, <2>3, StatusIs
    <3>2. s \in 1..Len(calls)
      BY <1>1, <3>1, TurnAssumption DEF Called, Slots
    <3> QED
      BY <1>1, <2>1, <3>2
  <2> QED
    BY <2>1, <2>2, <2>3, NothingForTheLedger
<1>9. CASE \/ TextDelta \/ ReasoningDelta \/ StreamOver
           \/ \E r \in {"tool-calls", "stop"} : FinishPart(r)
           \/ AppendReasoning \/ Judge \/ AppendPartial \/ AppendDraft \/ AppendFinal
  BY <1>3, <1>9 DEF TextDelta, ReasoningDelta, StreamOver, FinishPart, AppendReasoning, Judge,
     AppendPartial, AppendDraft, AppendFinal, tools, ghosts
<1>10. CASE Critic \/ Fails \/ Finally \/ AppendInterrupted \/ LanesOver \/ BatchOver
  BY <1>3, <1>10 DEF Critic, CriticPasses, CriticObjects, CorrectionDelta, CorrectionOver,
     CorrectionThrows, CorrectionPasses, CorrectionFails, AppendSelfCorrected, Fails, Finally,
     AppendInterrupted, LanesOver, BatchOver, tools, ghosts
<1>11. CASE UNCHANGED turnVars
  BY <1>3, <1>11 DEF turnVars, tools, ghosts
<1>12. CASE Stop
  <2>1. stopped' = TRUE /\ UNCHANGED <<calls, generated>>
    BY <1>12 DEF Stop
  <2>2. ASSUME NEW s \in Slots PROVE Status(s)' = Status(s)
    <3>1. stage'[s] = IF stage[s] = "pending" THEN "cancelled" ELSE stage[s]
      BY <1>12 DEF Stop
    <3> QED
      BY <3>1, StatusOfStage, StatusIs, StatusIsNext
  <2>3. Ledger!Halt
    BY <2>1, <2>2 DEF Ledger!Halt
  <2> QED
    BY <2>3 DEF Ledger!Next
<1>13. ASSUME NEW s \in Slots, Status(s) \in {"called", "granted", "running"},
              Status(s)' = "settled", \A t \in Slots : t # s => Status(t)' = Status(t),
              UNCHANGED <<calls, stopped, generated>>
       PROVE  Ledger!Settle(s)
  BY <1>13, OneForTheLedger DEF Ledger!Settle
<1>14. ASSUME NEW s \in Slots, ListCall(s) PROVE \E k \in Kinds : Ledger!Call(s, k)
  <2>1. UNCHANGED <<calls, stopped, generated>> /\ pc = "listing" /\ stage[s] = "emitted"
    BY <1>14 DEF ListCall, ghosts
  <2>2. s \in Called /\ s \in 1..Len(calls)
    BY <1>1, <1>2, <2>1, TurnAssumption DEF Called, Slots
  <2>3. ASSUME NEW t \in Slots, t # s PROVE Status(t)' = Status(t)
    <3>1. CASE stage'[t] = stage[t]
      BY <3>1, StatusOfStage
    <3>2. CASE stage'[t] # stage[t]
      <4>1. s = Len(calls) /\ t \in HighCalls /\ stage'[t] = "asking"
        BY <1>1, <1>14, <2>3, <3>2 DEF ListCall
      <4>2. t \in Called /\ t \in 1..(s - 1)
        BY <1>1, <2>3, <4>1, TurnAssumption DEF HighCalls, Called, Slots
      <4>3. stage[t] \in {"absent", "emitted", "listed"}
        BY <2>1 DEF LedgerInv, AnswerInv, LanesEndInResults, Gathering
      <4>4. stage[t] = "listed"
        BY <1>14, <4>2, <4>3 DEF ListCall, LedgerInv, Tracked
      <4> QED
        BY <4>1, <4>4, StatusIs, StatusIsNext
    <3> QED
      BY <3>1, <3>2
  <2>4. Status(s) = "none" /\ Status(s)' = "called"
    <3>1. stage'[s] \in {"listed", "asking"}
      BY <1>1, <1>14 DEF ListCall
    <3> QED
      BY <2>1, <3>1, StatusIs, StatusIsNext
  <2>5. PICK k \in Kinds : k = calls[s]
    BY <1>1, <2>2
  <2>6. [t \in Slots |-> Status(t)]' = [[t \in Slots |-> Status(t)] EXCEPT ![s] = "called"]
    BY <2>3, <2>4
  <2>7. [t \in Slots |-> IF Status(t) = "none" THEN "none" ELSE calls[t]]'
          = [[t \in Slots |-> IF Status(t) = "none" THEN "none" ELSE calls[t]] EXCEPT ![s] = k]
    BY <2>1, <2>3, <2>4, <2>5
  <2>8. Ledger!Call(s, k)
    BY <2>1, <2>4, <2>6, <2>7 DEF Ledger!Call
  <2> QED
    BY <2>8
<1>15. ASSUME NEW s \in Slots, AutoNext(s) PROVE Ledger!Start(s) \/ Ledger!Settle(s)
  <2>1. /\ UNCHANGED <<calls, stopped, generated>> /\ stage[s] = "listed"
        /\ calls[s] \in {"auto", "choices"}
    BY <1>15 DEF AutoNext, Step, AutoCalls, ghosts
  <2>2. Status(s) = "called"
    BY <2>1, StatusIs
  <2>3. CASE stopped
    <3>1. stage' = [stage EXCEPT ![s] = "aborted"]
      BY <1>15, <2>3 DEF AutoNext, Step
    <3> QED
      BY <1>4, <1>13, <2>1, <2>2, <3>1, StatusIsNext
  <2>4. CASE ~stopped
    <3>1. stage' = [stage EXCEPT ![s] = "running"]
      BY <1>15, <2>4 DEF AutoNext, Step
    <3>2. Status(s)' = "running" /\ \A t \in Slots : t # s => Status(t)' = Status(t)
      BY <1>4, <3>1, StatusIsNext
    <3> QED
      BY <2>1, <2>2, <2>4, <3>2, OneForTheLedger DEF Ledger!Start, Ledger!Risky
  <2> QED
    BY <2>3, <2>4
<1>16. ASSUME NEW s \in Slots, AskWritten(s) PROVE UNCHANGED Ledger!ledgerVars
  <2>1. /\ UNCHANGED <<calls, stopped, generated>> /\ stage[s] = "asking"
        /\ stage' = [stage EXCEPT ![s] = "deaf"] \/ stage' = [stage EXCEPT ![s] = "pending"]
    BY <1>16 DEF AskWritten, Step, ghosts
  <2>2. stage'[s] \in {"deaf", "pending"} /\ \A t \in Slots : t # s => Status(t)' = Status(t)
    BY <1>4, <2>1
  <2>3. Status(s)' = Status(s)
    BY <2>1, <2>2, StatusIs, StatusIsNext
  <2> QED
    BY <2>1, <2>2, <2>3, NothingForTheLedger
<1>17. ASSUME NEW s \in Slots, Approve(s) PROVE Ledger!Grant(s)
  <2>1. /\ UNCHANGED <<calls, stopped, generated>> /\ stage[s] \in {"pending", "deaf"}
        /\ stage' = [stage EXCEPT ![s] = "approved"]
    BY <1>17 DEF Approve, Step, ghosts
  <2>2. calls[s] \in {"high", "generative"}
    BY <2>1 DEF LedgerInv, Tracked, Waiting, HighCalls
  <2>3. /\ Status(s) = "called" /\ Status(s)' = "granted"
        /\ \A t \in Slots : t # s => Status(t)' = Status(t)
    BY <1>4, <2>1, StatusIs, StatusIsNext
  <2> QED
    BY <2>1, <2>2, <2>3, OneForTheLedger DEF Ledger!Grant, Ledger!Risky
<1>18. ASSUME NEW s \in Slots, Decline(s) PROVE Ledger!Settle(s)
  <2>1. /\ UNCHANGED <<calls, stopped, generated>> /\ stage[s] \in {"pending", "deaf"}
        /\ stage' = [stage EXCEPT ![s] = "declined"]
    BY <1>18 DEF Decline, Step, ghosts
  <2> QED
    BY <1>4, <1>13, <2>1, StatusIs, StatusIsNext
<1>19. ASSUME NEW s \in Slots, HighRefused(s)
       PROVE  Ledger!Settle(s) \/ UNCHANGED Ledger!ledgerVars
  <2>1. /\ UNCHANGED <<calls, stopped, generated>> /\ stage[s] \in Decided
        /\ stage' = [stage EXCEPT ![s] = "aborted"] \/ stage' = [stage EXCEPT ![s] = "refused"]
    BY <1>19 DEF HighRefused, Decided, ghosts
  <2>2. Status(s)' = "settled" /\ \A t \in Slots : t # s => Status(t)' = Status(t)
    BY <1>4, <2>1, StatusIsNext
  <2>3. CASE stage[s] = "declined"
    BY <2>1, <2>2, <2>3, StatusIs, NothingForTheLedger
  <2>4. CASE stage[s] # "declined"
    BY <1>13, <2>1, <2>2, <2>4, StatusIs DEF Decided
  <2> QED
    BY <2>3, <2>4
<1>20. ASSUME NEW s \in Slots, HighRuns(s) PROVE Ledger!Start(s)
  <2>1. /\ UNCHANGED <<calls, stopped>> /\ ~stopped /\ stage[s] = "approved"
        /\ stage' = [stage EXCEPT ![s] = "running"] /\ calls[s] \in {"high", "generative"}
    BY <1>20 DEF HighRuns, HighReady, HighCalls, Step
  <2>2. /\ Status(s) = "granted" /\ Status(s)' = "running"
        /\ \A t \in Slots : t # s => Status(t)' = Status(t)
    BY <1>4, <2>1, StatusIs, StatusIsNext
  <2>3. IF calls[s] = "generative" THEN generated = 0 /\ generated' = 1 ELSE UNCHANGED generated
    <3>1. toolsOn
      BY <2>1, CalledWithTools DEF LedgerInv
    <3>2. generated = spent /\ spent \in Nat
      BY <3>1 DEF LedgerInv, AnswerInv, GenInv, Budget, TypeInv, TypeOK
    <3> QED
      BY <1>20, <3>2 DEF HighRuns, OverBudget
  <2> QED
    BY <2>1, <2>2, <2>3, OneForTheLedger DEF Ledger!Start, Ledger!Risky
<1>21. ASSUME NEW s \in Slots, ToolReturns(s) PROVE Ledger!Settle(s)
  <2>1. /\ UNCHANGED <<calls, stopped, generated>> /\ stage[s] = "running"
        /\ stage' = [stage EXCEPT ![s] = "aborted"] \/ stage' = [stage EXCEPT ![s] = "done"]
    BY <1>21 DEF ToolReturns, ghosts
  <2>2. Status(s)' = "settled" /\ \A t \in Slots : t # s => Status(t)' = Status(t)
    BY <1>4, <2>1, StatusIsNext
  <2> QED
    BY <1>13, <2>1, <2>2, StatusIs
<1>22. ASSUME NEW s \in Slots, Answer(s) PROVE UNCHANGED Ledger!ledgerVars
  <2>1. /\ UNCHANGED <<calls, stopped, generated>> /\ stage[s] \in Resolved
        /\ stage' = [stage EXCEPT ![s] = "answered"]
    BY <1>22 DEF Answer, ghosts
  <2>2. Status(s)' = Status(s) /\ \A t \in Slots : t # s => Status(t)' = Status(t)
    BY <1>4, <2>1, StatusIs, StatusIsNext DEF Resolved
  <2> QED
    BY <2>1, <2>2, NothingForTheLedger
<1>23. ASSUME NEW s \in Slots, ListCall(s) PROVE Ledger!Next
  BY <1>14, <1>23 DEF Ledger!Next
<1>24. ASSUME NEW s \in Slots, Ledger!Grant(s) \/ Ledger!Start(s) \/ Ledger!Settle(s)
       PROVE  Ledger!Next
  BY <1>24 DEF Ledger!Next
<1>25. ASSUME NEW s \in Slots,
              \/ AutoNext(s) \/ AskWritten(s) \/ HighRefused(s) \/ HighRuns(s)
              \/ ToolReturns(s) \/ Answer(s) \/ Approve(s) \/ Decline(s)
       PROVE  Ledger!Next \/ UNCHANGED Ledger!ledgerVars
  BY <1>15, <1>16, <1>17, <1>18, <1>19, <1>20, <1>21, <1>22, <1>24, <1>25
<1> QED
  BY <1>6, <1>7, <1>8, <1>9, <1>10, <1>11, <1>12, <1>23, <1>25
  DEF Next, TurnStep, UserStep, Streaming, Lanes

\* What a turn does to its tool calls is what CallLedger allows: an approval comes
\* before a risky call, nothing starts once the turn is stopped, nothing starts twice,
\* and a batch is forgotten only when none of it is under way (loop.ts:489-664).
THEOREM LedgerIsKept == Spec => ImplementsLedger
<1>1. Init => LedgerInv
  BY LedgerInit
<1>2. LedgerInv /\ [Next]_turnVars => LedgerInv'
  BY TrackedStep
<1>3. Init => Ledger!Init
  <2> SUFFICES ASSUME Init PROVE Ledger!Init
    OBVIOUS
  <2>1. \A s \in Slots : stage[s] = "absent"
    BY DEF Init, NoCalls
  <2>2. \A s \in Slots : Status(s) = "none"
    BY <2>1, StatusIs
  <2>3. stopped = FALSE /\ generated = 0
    BY DEF Init
  <2> QED
    BY <2>2, <2>3 DEF Ledger!Init
<1>4. LedgerInv /\ [Next]_turnVars => [Ledger!Next]_(Ledger!ledgerVars)
  BY LedgerStep
<1> QED
  BY <1>1, <1>2, <1>3, <1>4, PTL DEF Spec, ImplementsLedger, Ledger!Spec
-----------------------------------------------------------------------------
\* Text that was on screen at Stop and is not stored yet is still on screen, or held by the
\* critic phase of a stopped turn on its way to the row of the answer.
Kept ==
  owed =>
    /\ stopped /\ pc # "ended"
    /\ shown \/ pc \in {"stillborn", "noting", "closing"}

\* Text of the last request that the user can read, or could at Stop.
Readable == owed \/ (shown /\ ~silent)

\* Wherever a row of the assistant's text may come next, the turn holds the text that is read:
\* what it sends to the row is never less than what the last request put on screen.
Worded ==
  /\ pc \in {"top", "listing", "lanes", "answering"} /\ shown => silent
  /\ pc \in {"listing", "lanes", "answering"} => ~owed
  /\ pc \in {"stream", "reasoning", "judging"} /\ shown /\ ~silent => buf
  /\ pc \in {"partial", "draft", "correcting", "stillborn"} => buf
  /\ pc \in {"critic", "noting", "closing"} /\ Readable => buf
  /\ pc \in {"correcting", "rechecking"} /\ shown /\ ~silent => fresh
  /\ pc = "rechecking" /\ owed => fresh
  /\ pc = "stillborn" => stopped

Held == Kept /\ Worded

\* The buffer is emptied where the row is stored, where the turn is not stopped, or by the
\* critic: so a correction that throws on abort is the one way text can be lost.
LEMMA HeldStep ==
  ASSUME "throw" \notin AbortEnds, Held, [Next]_turnVars
  PROVE  Held'
<1> USE DEF Held, Kept, Worded, Readable, Goto, control, texts, tools, ghosts
<1>1. ASSUME UNCHANGED <<owed, stopped, shown, silent>>,
             pc \in {"listing", "lanes", "answering"}, pc' \in {"listing", "lanes", "answering"}
      PROVE  Held'
  BY <1>1
<1>2. CASE Top
  BY <1>2 DEF Top
<1>3. ASSUME NEW k \in Kinds, ToolCall(k) PROVE Held'
  BY <1>3 DEF ToolCall
<1>4. CASE TextDelta \/ ReasoningDelta \/ StreamOver \/ \E r \in {"tool-calls", "stop"} : FinishPart(r)
  BY <1>4 DEF TextDelta, ReasoningDelta, StreamOver, FinishPart
<1>5. CASE AppendReasoning \/ Judge
  BY <1>5 DEF AppendReasoning, Judge
<1>6. CASE AppendPartial \/ AppendDraft \/ AppendFinal \/ AppendInterrupted
  BY <1>6 DEF AppendPartial, AppendDraft, AppendFinal, AppendInterrupted, AppendAssistantText
<1>7. ASSUME NEW s \in Slots,
             \/ ListCall(s) \/ AutoNext(s) \/ AskWritten(s) \/ ToolReturns(s)
             \/ HighRefused(s) \/ HighRuns(s) \/ Answer(s)
      PROVE  Held'
  <2>1. UNCHANGED <<owed, stopped, shown, silent>> /\ pc' \in {"listing", "lanes", "answering"}
        /\ pc \in {"listing", "lanes", "answering"}
    BY <1>7 DEF ListCall, AutoNext, AskWritten, ToolReturns, HighRefused, HighRuns, HighReady, Answer
  <2> QED
    BY <1>1, <2>1
<1>8. ASSUME NEW s \in Slots, Approve(s) \/ Decline(s) PROVE Held'
  BY <1>8 DEF Approve, Decline
<1>9. CASE LanesOver \/ BatchOver
  BY <1>9 DEF LanesOver, BatchOver
<1>10. CASE Critic
  <2>1. CASE CriticPasses \/ CriticObjects
    BY <2>1 DEF CriticPasses, CriticObjects, RequestCorrection
  <2>2. CASE CorrectionDelta \/ CorrectionThrows
    BY <2>2 DEF CorrectionDelta, CorrectionThrows
  <2>3. CASE CorrectionOver
    BY <2>3 DEF CorrectionOver
  <2>4. CASE CorrectionPasses \/ AppendSelfCorrected
    BY <2>4 DEF CorrectionPasses, AppendSelfCorrected
  <2>5. CASE CorrectionFails
    BY <2>5 DEF CorrectionFails, RequestCorrection
  <2> QED
    BY <1>10, <2>1, <2>2, <2>3, <2>4, <2>5 DEF Critic
<1>11. CASE ToolsBlamed \/ Fails
  BY <1>11 DEF ToolsBlamed, Fails
<1>12. CASE Finally
  BY <1>12 DEF Finally
<1>13. CASE Stop
  BY <1>13 DEF Stop
<1>14. CASE UNCHANGED turnVars
  BY <1>14 DEF turnVars
<1> QED
  BY <1>2, <1>3, <1>4, <1>5, <1>6, <1>7, <1>8, <1>9, <1>10, <1>11, <1>12, <1>13, <1>14
  DEF Next, TurnStep, UserStep, Streaming, Lanes

\* chat.svelte.ts:804 with loop.ts: where streams end on abort and do not throw, the text a
\* user could read at Stop is stored by the time the turn is over.
THEOREM TextIsKept ==
  ASSUME "throw" \notin AbortEnds
  PROVE  Spec => []ShownTextIsKept
<1>1. Init => Held
  BY DEF Init, Held, Kept, Worded, Readable
<1>2. Held /\ [Next]_turnVars => Held'
  BY HeldStep
<1>3. Held => ShownTextIsKept
  BY DEF Held, Kept, ShownTextIsKept
<1> QED
  BY <1>1, <1>2, <1>3, PTL DEF Spec

-----------------------------------------------------------------------------
\* The last row is an answer: the assistant's text, or choices.
Spoken == rows # <<>> /\ rows[Len(rows)].kind \in {"text", "choices"}

\* A turn comes to its end after an answer, a failure or Stop.  From a batch it does so only
\* when a call was aborted, which takes Stop, or when choices were the last rows.
SpeakInv ==
  /\ LedgerInv
  /\ pc = "interrupting" => stopped
  /\ pc = "answering" /\ sawAborted => stopped
  /\ pc \in {"lanes", "answering"} /\ AllTerminal => Spoken
  /\ pc \in {"finally", "ended"} /\ ~failed /\ ~stopped => Spoken

LEMMA RowSpeaks ==
  ASSUME TypeOK, NEW k \in {"text", "choices"}, NEW s, Append1(k, s)
  PROVE  Spoken'
<1>1. /\ Len(rows) + 1 \in Nat
      /\ rows' = Append(rows, [kind |-> k, iter |-> iteration, slot |-> s])
      /\ rows'[Len(rows) + 1].kind = k
  BY Appended DEF Append1
<1>2. Len(rows') = Len(rows) + 1 /\ rows' # <<>>
  BY <1>1 DEF TypeOK
<1> QED
  BY <1>1, <1>2 DEF Spoken

\* A batch of nothing but choices has no call of another kind.
LEMMA AllChoices ==
  ASSUME AllTerminal, NEW s \in Called
  PROVE  calls[s] = "choices" /\ s \notin HighCalls
BY DEF AllTerminal, HighCalls

LEMMA SpeakStep == SpeakInv /\ [Next]_turnVars => SpeakInv'
<1> SUFFICES ASSUME SpeakInv, [Next]_turnVars PROVE SpeakInv'
  OBVIOUS
<1> USE DEF SpeakInv, Goto, control, texts, tools, ghosts
<1>t. LedgerInv' /\ TypeOK
  BY TrackedStep DEF LedgerInv, AnswerInv, GenInv, TypeInv
<1>1. ASSUME pc \notin {"lanes", "answering", "finally", "interrupting", "ended"},
             pc' \notin {"lanes", "answering", "finally", "interrupting", "ended"} PROVE SpeakInv'
  BY <1>t, <1>1
<1>2. CASE Top
  BY <1>t, <1>2 DEF Top
<1>3. CASE Streaming \/ AppendReasoning \/ AppendDraft \/ ToolsBlamed
  <2>1. pc \in {"stream", "reasoning", "draft", "correcting"}
        /\ pc' \in {"stream", "reasoning", "judging", "listing", "top"}
    BY <1>3 DEF Streaming, TextDelta, ReasoningDelta, StreamOver, ToolCall, FinishPart,
       AppendReasoning, AppendDraft, ToolsBlamed
  <2> QED
    BY <1>1, <2>1
<1>4. CASE Judge
  BY <1>t, <1>4 DEF Judge
<1>5. CASE AppendPartial \/ AppendFinal
  <2>1. Append1("text", 0) /\ pc' = "finally"
    BY <1>5 DEF AppendPartial, AppendFinal, AppendAssistantText
  <2> QED
    BY <1>t, <2>1, RowSpeaks
<1>6. ASSUME NEW s \in Slots, ListCall(s) PROVE SpeakInv'
  <2>1. CASE s # Len(calls)
    BY <1>1, <1>6, <2>1 DEF ListCall
  <2>2. CASE s = Len(calls)
    <3>1. pc' = "lanes" /\ UNCHANGED calls /\ s \in Called
      BY <1>6, <2>2, SlotIsNat DEF ListCall, Called
    <3>2. AllTerminal' => AllTerminal
      BY <3>1 DEF AllTerminal, Called
    <3>3. AllTerminal => Append1("choices", s)
      BY <1>6, <3>1, AllChoices DEF ListCall
    <3> QED
      BY <1>t, <3>1, <3>2, <3>3, RowSpeaks
  <2> QED
    BY <2>1, <2>2
<1>7. ASSUME NEW s \in Slots,
             AutoNext(s) \/ ToolReturns(s) \/ HighRefused(s) \/ HighRuns(s)
      PROVE  SpeakInv'
  <2>1. pc = "lanes" /\ pc' = "lanes" /\ UNCHANGED <<calls, rows>>
    BY <1>7 DEF AutoNext, ToolReturns, HighRefused, HighRuns, HighReady
  <2> QED
    BY <1>t, <2>1 DEF AllTerminal, Called, Spoken
<1>8. ASSUME NEW s \in Slots, AskWritten(s) PROVE SpeakInv'
  <2>1. pc' = "lanes" /\ pc = "lanes" /\ UNCHANGED calls /\ stage[s] = "asking"
    BY <1>8 DEF AskWritten, Step
  <2>2. s \in HighCalls /\ s \in Called
    BY <2>1 DEF LedgerInv, Tracked, Waiting, HighCalls
  <2>3. ~AllTerminal
    BY <2>2, AllChoices
  <2> QED
    BY <1>t, <2>1, <2>3 DEF AllTerminal, Called
<1>9. ASSUME NEW s \in Slots, Approve(s) \/ Decline(s) PROVE SpeakInv'
  <2>1. UNCHANGED <<pc, calls, rows, stopped, failed, sawAborted>>
    BY <1>9 DEF Approve, Decline
  <2> QED
    BY <1>t, <2>1 DEF AllTerminal, Called, Spoken
<1>10. CASE LanesOver
  <2>1. pc = "lanes" /\ pc' = "answering" /\ UNCHANGED <<calls, rows>> /\ ~sawAborted'
    BY <1>10 DEF LanesOver
  <2> QED
    BY <1>t, <2>1 DEF AllTerminal, Called, Spoken
<1>11. ASSUME NEW s \in Slots, Answer(s) PROVE SpeakInv'
  <2>1. pc = "answering" /\ pc' = pc /\ UNCHANGED <<calls, stopped, failed>>
        /\ stage[s] \in Resolved
    BY <1>11 DEF Answer
  <2>2. s \in Called /\ (stage[s] = "aborted" => stopped)
    <3>1. LanesEndInResults /\ stage[s] # "absent"
      BY <2>1 DEF LedgerInv, AnswerInv, Resolved
    <3> QED
      BY <3>1 DEF LanesEndInResults
  <2>3. sawAborted' => stopped'
    <3>1. sawAborted \in BOOLEAN /\ stopped \in BOOLEAN
      BY <1>t DEF TypeOK
    <3> QED
      BY <1>11, <2>1, <2>2, <3>1 DEF Answer
  <2>4. AllTerminal => UNCHANGED rows
    BY <1>11, <2>2, AllChoices DEF Answer
  <2> QED
    BY <1>t, <2>1, <2>3, <2>4 DEF AllTerminal, Called, Spoken
<1>12. CASE BatchOver
  <2>1. pc = "answering" /\ UNCHANGED <<rows, stopped, failed>> /\ pc' \in {"finally", "top", "critic"}
        /\ (pc' = "finally" => sawAborted \/ AllTerminal)
    BY <1>12 DEF BatchOver
  <2> QED
    BY <1>t, <2>1 DEF Spoken
<1>13. CASE Critic
  BY <1>t, <1>13 DEF Critic, CriticPasses, CriticObjects, CorrectionDelta, CorrectionOver,
     CorrectionThrows, CorrectionPasses, CorrectionFails, AppendSelfCorrected, RequestCorrection
<1>14. CASE Fails
  BY <1>t, <1>14 DEF Fails
<1>15. CASE Finally
  BY <1>t, <1>15 DEF Finally, Spoken
<1>16. CASE AppendInterrupted
  BY <1>t, <1>16 DEF AppendInterrupted
<1>17. CASE Stop
  <2>1. UNCHANGED <<pc, calls, rows, failed, sawAborted>> /\ stopped'
    BY <1>17 DEF Stop
  <2> QED
    BY <1>t, <2>1 DEF AllTerminal, Called, Spoken
<1>18. CASE UNCHANGED turnVars
  BY <1>t, <1>18 DEF turnVars, AllTerminal, Called, Spoken
<1> QED
  BY <1>2, <1>3, <1>4, <1>5, <1>6, <1>7, <1>8, <1>9, <1>10, <1>11, <1>12, <1>13, <1>14, <1>15,
     <1>16, <1>17, <1>18
  DEF Next, TurnStep, UserStep, Lanes

\* loop.ts and its critic phase: a turn that neither failed nor was stopped ends with an answer,
\* whatever was called, corrected and started over, for any bounds of its loops.
THEOREM TurnsSpeak == Spec => []FinishedTurnSpeaks
<1>1. Init => SpeakInv
  BY LedgerInit DEF Init, SpeakInv
<1>2. SpeakInv /\ [Next]_turnVars => SpeakInv'
  BY SpeakStep
<1>3. SpeakInv => FinishedTurnSpeaks
  BY DEF SpeakInv, FinishedTurnSpeaks, Spoken
<1> QED
  BY <1>1, <1>2, <1>3, PTL DEF Spec

-----------------------------------------------------------------------------
\* Projection: what projectEntries makes of any history.
\*
\* FoldLeft and FlattenSeq are folds over positions, which the library defines by recursive
\* functions.  That these exist, and what they are step by step, follows by induction over
\* the naturals, which is stated for a set of them: lemmas that take an operator as a
\* parameter cannot be used here.
LEMMA NatsByInduction ==
  ASSUME NEW S, 0 \in S, \A n \in Nat : n \in S => n + 1 \in S
  PROVE  Nat \subseteq S
<1> SUFFICES ASSUME NEW x \in Nat, x \notin S PROVE FALSE
  OBVIOUS
<1> DEFINE T == {n \in Nat : n \notin S}
           R == {ss \in Nat \X Nat : ss[1] < ss[2]}
<1>1. IsWellFoundedOn(R, Nat)
  BY NatLessThanWellFounded DEF OpToRel
<1>2. T \subseteq Nat /\ T # {}
  OBVIOUS
<1>3. PICK m \in T : \A y \in T : ~(<<y, m>> \in R)
  <2> HIDE DEF R, T
  <2> QED
    BY <1>1, <1>2, WFMin
<1> HIDE DEF R
<1>4. m \in Nat /\ m \notin S /\ m # 0
  OBVIOUS
<1>5. m - 1 \in Nat /\ (m - 1) + 1 = m /\ m - 1 < m
  BY <1>4
<1>6. m - 1 \in T
  BY <1>4, <1>5
<1>7. <<m - 1, m>> \in R
  BY <1>4, <1>5 DEF R
<1> QED
  BY <1>3, <1>6, <1>7

\* The greatest of some of the numbers up to n.
LEMMA MaxIs ==
  ASSUME NEW n \in Nat, NEW s \in SUBSET (1 .. n), s # {}
  PROVE  P!Max(s) \in s /\ \A x \in s : x <= P!Max(s)
<1> DEFINE Has(k) == \A t \in SUBSET (1 .. k) : t # {} => \E m \in t : \A x \in t : m >= x
           S == {k \in Nat : Has(k)}
<1>1. Has(0)
  <2>1. 1 .. 0 = {}
    OBVIOUS
  <2> QED
    BY <2>1
<1>2. ASSUME NEW k \in Nat, Has(k) PROVE Has(k + 1)
  <2> SUFFICES ASSUME NEW t \in SUBSET (1 .. k + 1), t # {} PROVE \E m \in t : \A x \in t : m >= x
    OBVIOUS
  <2>1. CASE k + 1 \in t
    BY <2>1
  <2>2. CASE k + 1 \notin t
    <3>1. t \in SUBSET (1 .. k)
      BY <2>2
    <3> QED
      BY <1>2, <3>1
  <2> QED
    BY <2>1, <2>2
<1>3. Has(n)
  <2> HIDE DEF Has
  <2>1. 0 \in S /\ \A k \in Nat : k \in S => k + 1 \in S
    BY <1>1, <1>2
  <2>2. n \in S
    BY <2>1, NatsByInduction
  <2> QED
    BY <2>2
<1>4. \E m \in s : \A x \in s : m >= x
  BY <1>3
<1> QED
  BY <1>4 DEF P!Max

LEMMA MaxOfTop ==
  ASSUME NEW n \in Nat, NEW s \in SUBSET (1 .. n + 1), n + 1 \in s
  PROVE  P!Max(s) = n + 1
<1>1. n + 1 \in Nat /\ s # {}
  OBVIOUS
<1>2. P!Max(s) \in s /\ \A x \in s : x <= P!Max(s)
  BY <1>1, MaxIs
<1>3. P!Max(s) \in 1 .. n + 1 /\ n + 1 <= P!Max(s)
  BY <1>2
<1> QED
  BY <1>3

LEMMA MaxOfUpTo ==
  ASSUME NEW n \in Nat, n # 0
  PROVE  /\ P!Max(1 .. n) = n /\ (1 .. n) \ {P!Max(1 .. n)} = 1 .. n - 1
         /\ 1 .. n # {} /\ 1 .. 0 = {}
<1>1. n - 1 \in Nat /\ 1 .. n \in SUBSET (1 .. (n - 1) + 1) /\ (n - 1) + 1 \in 1 .. n
  OBVIOUS
<1>2. P!Max(1 .. n) = (n - 1) + 1
  BY <1>1, MaxOfTop
<1>3. P!Max(1 .. n) = n
  BY <1>2
<1>4. (1 .. n) \ {n} = 1 .. n - 1
  OBVIOUS
<1>5. 1 .. n # {} /\ 1 .. 0 = {}
  BY <1>1
<1> QED
  BY <1>3, <1>4, <1>5

\* The function by which a fold is defined: F is the operator, with the position of what
\* it is applied to.
IsFold(g, n, T, base, F) ==
  /\ g \in [SUBSET (1 .. n) -> T]
  /\ \A s \in SUBSET (1 .. n) : g[s] = IF s = {} THEN base ELSE F[<<g[s \ {P!Max(s)}], P!Max(s)>>]

LEMMA FoldExists ==
  ASSUME NEW n \in Nat, NEW T, NEW base \in T, NEW F \in [T \X (1 .. n) -> T]
  PROVE  \E g : IsFold(g, n, T, base, F)
<1> DEFINE Folds(k, g) ==
             \A s \in SUBSET (1 .. k) : g[s] = IF s = {} THEN base ELSE F[<<g[s \ {P!Max(s)}], P!Max(s)>>]
           Has(k) == k <= n => \E g \in [SUBSET (1 .. k) -> T] : Folds(k, g)
           S == {k \in Nat : Has(k)}
<1>1. Has(0)
  <2> DEFINE g == [s \in SUBSET (1 .. 0) |-> base]
  <2>1. g \in [SUBSET (1 .. 0) -> T] /\ Folds(0, g)
    OBVIOUS
  <2> QED
    BY <2>1
<1>2. ASSUME NEW k \in Nat, Has(k) PROVE Has(k + 1)
  <2> SUFFICES ASSUME k + 1 <= n PROVE \E h \in [SUBSET (1 .. k + 1) -> T] : Folds(k + 1, h)
    OBVIOUS
  <2>1. PICK g \in [SUBSET (1 .. k) -> T] : Folds(k, g)
    <3> HIDE DEF Folds
    <3>1. k <= n
      OBVIOUS
    <3> QED
      BY <1>2, <3>1
  <2> DEFINE h == [s \in SUBSET (1 .. k + 1) |-> IF k + 1 \in s THEN F[<<g[s \ {k + 1}], k + 1>>] ELSE g[s]]
  <2>2. ASSUME NEW s \in SUBSET (1 .. k + 1)
        PROVE  /\ h[s] \in T
               /\ h[s] = IF s = {} THEN base ELSE F[<<h[s \ {P!Max(s)}], P!Max(s)>>]
    <3>1. CASE k + 1 \in s
      <4>1. P!Max(s) = k + 1 /\ s \ {k + 1} \in SUBSET (1 .. k) /\ s \ {k + 1} \in SUBSET (1 .. k + 1)
        BY <3>1, MaxOfTop
      <4>2. h[s \ {k + 1}] = g[s \ {k + 1}] /\ g[s \ {k + 1}] \in T /\ k + 1 \in 1 .. n
        BY <4>1
      <4> QED
        BY <3>1, <4>1, <4>2
    <3>2. CASE k + 1 \notin s
      <4>1. s \in SUBSET (1 .. k) /\ h[s] = g[s]
        BY <3>2
      <4>2. s # {} => /\ s \ {P!Max(s)} \in SUBSET (1 .. k)
                      /\ k + 1 \notin s \ {P!Max(s)}
                      /\ h[s \ {P!Max(s)}] = g[s \ {P!Max(s)}]
        BY <3>2, <4>1
      <4> QED
        BY <2>1, <4>1, <4>2
    <3> QED
      BY <3>1, <3>2
  <2>3. h \in [SUBSET (1 .. k + 1) -> T]
    BY <2>2
  <2> HIDE DEF h
  <2>4. Folds(k + 1, h)
    BY <2>2
  <2> QED
    BY <2>3, <2>4
<1>3. Has(n)
  <2> HIDE DEF Has
  <2>1. 0 \in S /\ \A k \in Nat : k \in S => k + 1 \in S
    BY <1>1, <1>2
  <2>2. n \in S
    BY <2>1, NatsByInduction
  <2> QED
    BY <2>2
<1>4. \E g \in [SUBSET (1 .. n) -> T] : Folds(n, g)
  <2>1. n <= n
    OBVIOUS
  <2> HIDE DEF Folds
  <2> QED
    BY <1>3, <2>1
<1> QED
  BY <1>4 DEF IsFold

\* The function by which FlattenSeq is defined, which starts with the first sequence.
IsChain(g, n, T, base, F) ==
  /\ g \in [1 .. n -> T]
  /\ \A i \in 1 .. n : g[i] = IF i = 1 THEN base ELSE F[<<g[i - 1], i>>]

LEMMA ChainExists ==
  ASSUME NEW n \in Nat, n # 0, NEW T, NEW base \in T, NEW F \in [T \X (1 .. n) -> T]
  PROVE  \E g : IsChain(g, n, T, base, F)
<1> DEFINE Chain(k, g) == \A i \in 1 .. k : g[i] = IF i = 1 THEN base ELSE F[<<g[i - 1], i>>]
           Has(k) == k + 1 <= n => \E g \in [1 .. k + 1 -> T] : Chain(k + 1, g)
           S == {k \in Nat : Has(k)}
<1>1. Has(0)
  <2> DEFINE g == [i \in 1 .. 0 + 1 |-> base]
  <2>1. g \in [1 .. 0 + 1 -> T] /\ Chain(0 + 1, g)
    OBVIOUS
  <2> QED
    BY <2>1
<1>2. ASSUME NEW k \in Nat, Has(k) PROVE Has(k + 1)
  <2> DEFINE m == k + 1
  <2> SUFFICES ASSUME m + 1 <= n PROVE \E h \in [1 .. m + 1 -> T] : Chain(m + 1, h)
    OBVIOUS
  <2>1. m \in Nat /\ m >= 1 /\ m <= n
    OBVIOUS
  <2>2. PICK g \in [1 .. m -> T] : Chain(m, g)
    BY <1>2, <2>1
  <2> HIDE DEF m
  <2> DEFINE h == [i \in 1 .. m + 1 |-> IF i = m + 1 THEN F[<<g[m], m + 1>>] ELSE g[i]]
  <2>3. g[m] \in T /\ m + 1 \in 1 .. n /\ F[<<g[m], m + 1>>] \in T
    BY <2>1
  <2>4. h \in [1 .. m + 1 -> T]
    BY <2>1, <2>3
  <2>5. \A i \in 1 .. m + 1 : h[i] = IF i = 1 THEN base ELSE F[<<h[i - 1], i>>]
    <3> SUFFICES ASSUME NEW i \in 1 .. m + 1 PROVE h[i] = IF i = 1 THEN base ELSE F[<<h[i - 1], i>>]
      OBVIOUS
    <3>1. CASE i = m + 1
      <4>1. h[i - 1] = g[m] /\ i # 1
        BY <2>1, <3>1
      <4> QED
        BY <3>1, <4>1
    <3>2. CASE i # m + 1
      <4>1. i \in 1 .. m /\ h[i] = g[i] /\ (i # 1 => h[i - 1] = g[i - 1])
        BY <2>1, <3>2
      <4> QED
        BY <2>2, <4>1
    <3> QED
      BY <3>1, <3>2
  <2> QED
    BY <2>4, <2>5
<1>3. n - 1 \in Nat /\ (n - 1) + 1 = n
  OBVIOUS
<1>4. Has(n - 1)
  <2> HIDE DEF Has
  <2>1. 0 \in S /\ \A k \in Nat : k \in S => k + 1 \in S
    BY <1>1, <1>2
  <2>2. n - 1 \in S
    BY <1>3, <2>1, NatsByInduction
  <2> QED
    BY <2>2
<1> QED
  BY <1>3, <1>4 DEF IsChain

-----------------------------------------------------------------------------
\* Messages as projectEntries makes them: the assistant speaks and calls, a tool returns,
\* the user speaks.
Part(J) == [kind : {"tool-call", "tool-result", "text"}, id : J]

Said(J) ==
  {m \in [role : {"assistant", "tool", "user"}, parts : Seq(Part(J))] :
     /\ m.role # "assistant" => P!Ids(m, "tool-call") = {}
     /\ m.role # "tool" => P!Ids(m, "tool-result") = {}}

Walks(J) == [owed : SUBSET J, rejected : BOOLEAN]

Merged(q) == P!FoldLeft(P!Merge, <<>>, q)
Walk(q) == P!FoldLeft(P!Owing, P!OwesNothing, q)

Joined(a, m) == [role |-> a.role, parts |-> a.parts \o m.parts]

LEMMA IdsOfJoined ==
  ASSUME NEW J, NEW a \in Said(J), NEW m \in Said(J), NEW k
  PROVE  P!Ids(Joined(a, m), k) = P!Ids(a, k) \union P!Ids(m, k)
<1> DEFINE p == a.parts
           q == m.parts
           pq == p \o q
<1>1. p \in Seq(Part(J)) /\ q \in Seq(Part(J))
  BY DEF Said
<1> HIDE DEF p, q
<1>2. /\ DOMAIN p = 1 .. Len(p) /\ DOMAIN q = 1 .. Len(q) /\ Len(p) \in Nat /\ Len(q) \in Nat
      /\ DOMAIN pq = 1 .. Len(p) + Len(q)
      /\ \A i \in 1 .. Len(p) + Len(q) : pq[i] = IF i <= Len(p) THEN p[i] ELSE q[i - Len(p)]
  BY <1>1
<1> HIDE DEF pq
<1>3. \A i \in DOMAIN p : i \in DOMAIN pq /\ pq[i] = p[i]
  BY <1>2
<1>4. \A i \in DOMAIN q : Len(p) + i \in DOMAIN pq /\ pq[Len(p) + i] = q[i]
  BY <1>2
<1>5. \A i \in DOMAIN pq : (i \in DOMAIN p /\ pq[i] = p[i]) \/ (i - Len(p) \in DOMAIN q /\ pq[i] = q[i - Len(p)])
  BY <1>2
<1>6. P!Ids(Joined(a, m), k) = {pq[i].id : i \in {j \in DOMAIN pq : pq[j].kind = k}}
  BY DEF P!Ids, Joined, pq, p, q
<1>7. P!Ids(a, k) = {p[i].id : i \in {j \in DOMAIN p : p[j].kind = k}}
  BY DEF P!Ids, p
<1>8. P!Ids(m, k) = {q[i].id : i \in {j \in DOMAIN q : q[j].kind = k}}
  BY DEF P!Ids, q
<1>9. ASSUME NEW x \in P!Ids(Joined(a, m), k) PROVE x \in P!Ids(a, k) \union P!Ids(m, k)
  <2>1. PICK i \in DOMAIN pq : pq[i].kind = k /\ x = pq[i].id
    BY <1>6, <1>9
  <2> QED
    BY <1>5, <1>7, <1>8, <2>1
<1>10. ASSUME NEW x \in P!Ids(a, k) PROVE x \in P!Ids(Joined(a, m), k)
  <2>1. PICK i \in DOMAIN p : p[i].kind = k /\ x = p[i].id
    BY <1>7, <1>10
  <2> QED
    BY <1>3, <1>6, <2>1
<1>11. ASSUME NEW x \in P!Ids(m, k) PROVE x \in P!Ids(Joined(a, m), k)
  <2>1. PICK i \in DOMAIN q : q[i].kind = k /\ x = q[i].id
    BY <1>8, <1>11
  <2> QED
    BY <1>4, <1>6, <2>1
<1> QED
  BY <1>9, <1>10, <1>11

LEMMA IdsAre ==
  ASSUME NEW J, NEW m \in Said(J), NEW k
  PROVE  P!Ids(m, k) \in SUBSET J
<1>1. \A i \in DOMAIN m.parts : m.parts[i] \in Part(J)
  BY DEF Said
<1> QED
  BY <1>1 DEF P!Ids, Part

LEMMA JoinedIsSaid ==
  ASSUME NEW J, NEW a \in Said(J), NEW m \in Said(J), a.role = m.role
  PROVE  Joined(a, m) \in Said(J)
<1>1. a.parts \o m.parts \in Seq(Part(J)) /\ a.role \in {"assistant", "tool", "user"}
  BY DEF Said
<1>2. Joined(a, m) \in [role : {"assistant", "tool", "user"}, parts : Seq(Part(J))]
  BY <1>1 DEF Joined
<1>3. Joined(a, m).role = a.role
  BY DEF Joined
<1>4. \A k : P!Ids(Joined(a, m), k) = P!Ids(a, k) \union P!Ids(m, k)
  BY IdsOfJoined
<1>5. /\ a.role # "assistant" => P!Ids(a, "tool-call") = {} /\ P!Ids(m, "tool-call") = {}
      /\ a.role # "tool" => P!Ids(a, "tool-result") = {} /\ P!Ids(m, "tool-result") = {}
  BY DEF Said
<1> QED
  BY <1>2, <1>3, <1>4, <1>5 DEF Said

LEMMA SetParts ==
  ASSUME NEW R, NEW S, NEW a \in [role : R, parts : S], NEW p
  PROVE  [a EXCEPT !.parts = p] = [role |-> a.role, parts |-> p]
OBVIOUS

LEMMA SetOne ==
  ASSUME NEW S, NEW q \in Seq(S), NEW n \in 1 .. Len(q), NEW e \in S
  PROVE  /\ [q EXCEPT ![n] = e] \in Seq(S) /\ Len([q EXCEPT ![n] = e]) = Len(q)
         /\ [q EXCEPT ![n] = e][n] = e /\ \A i \in 1 .. Len(q) : i # n => [q EXCEPT ![n] = e][i] = q[i]
OBVIOUS

\* What Merge does: it appends, or it joins the last one and the new one.
LEMMA MergeIs ==
  ASSUME NEW J, NEW s \in Seq(Said(J)), NEW m \in Said(J)
  PROVE  /\ P!Merge(s, m) \in Seq(Said(J))
         /\ \/ P!Merge(s, m) = Append(s, m)
            \/ /\ s # <<>> /\ s[Len(s)].role = m.role /\ Len(P!Merge(s, m)) = Len(s)
               /\ \A i \in 1 .. Len(s) - 1 : P!Merge(s, m)[i] = s[i]
               /\ P!Merge(s, m)[Len(s)] = Joined(s[Len(s)], m)
<1>1. CASE s # <<>> /\ s[Len(s)].role = m.role
  <2>1. Len(s) \in Nat \ {0} /\ DOMAIN s = 1 .. Len(s) /\ s[Len(s)] \in Said(J) /\ Len(s) \in DOMAIN s
    BY <1>1
  <2> DEFINE j == Joined(s[Len(s)], m)
             r == [s EXCEPT ![Len(s)] = j]
  <2>2. P!Merge(s, m) = r
    <3>1. [s[Len(s)] EXCEPT !.parts = s[Len(s)].parts \o m.parts] = Joined(s[Len(s)], m)
      <4> DEFINE a == s[Len(s)]
      <4>1. a \in [role : {"assistant", "tool", "user"}, parts : Seq(Part(J))]
        BY <2>1 DEF Said
      <4> DEFINE p == a.parts \o m.parts
      <4> HIDE DEF a, p
      <4>2. [a EXCEPT !.parts = p] = [role |-> a.role, parts |-> p]
        BY <4>1, SetParts
      <4> QED
        BY <4>2 DEF Joined, a, p
    <3> QED
      BY <1>1, <2>1, <3>1 DEF P!Merge, P!Last
  <2>3. j \in Said(J)
    BY <1>1, <2>1, JoinedIsSaid
  <2> HIDE DEF j
  <2> HIDE DEF r
  <2>4. r \in Seq(Said(J)) /\ Len(r) = Len(s) /\ r[Len(s)] = j /\ \A i \in 1 .. Len(s) : i # Len(s) => r[i] = s[i]
    <3>1. Len(s) \in 1 .. Len(s)
      BY <2>1
    <3> QED
      BY <2>3, <3>1, SetOne DEF r
  <2>5. r[Len(s)] = j /\ \A i \in 1 .. Len(s) - 1 : r[i] = s[i]
    <3>1. \A i \in 1 .. Len(s) - 1 : i \in 1 .. Len(s) /\ i # Len(s)
      <4>1. Len(s) \in Nat
        BY <2>1
      <4> QED
        BY ONLY <4>1
    <3> QED
      BY <2>4, <3>1
  <2> QED
    BY <1>1, <2>2, <2>4, <2>5 DEF j
<1>2. CASE ~(s # <<>> /\ s[Len(s)].role = m.role)
  <2>1. P!Merge(s, m) = Append(s, m)
    BY <1>2 DEF P!Merge, P!Last
  <2> QED
    BY <2>1
<1> QED
  BY <1>1, <1>2

\* The fold of Merge over a sequence.
LEMMA MergedIs ==
  ASSUME NEW J, NEW q \in Seq(Said(J)), NEW n \in Nat, n = Len(q)
  PROVE  \E g : /\ \A s \in SUBSET (1 .. n) :
                     g[s] = IF s = {} THEN <<>> ELSE P!Merge(g[s \ {P!Max(s)}], q[P!Max(s)])
                /\ Merged(q) = g[1 .. n]
<1> DEFINE T == Seq(Said(J))
           F == [p \in T \X (1 .. n) |-> P!Merge(p[1], q[p[2]])]
           Unfold(g, s) == IF s = {} THEN <<>> ELSE P!Merge(g[s \ {P!Max(s)}], q[P!Max(s)])
           Eq(g) == g = [s \in SUBSET (1 .. n) |-> Unfold(g, s)]
<1>1. \A i \in 1 .. n : q[i] \in Said(J)
  OBVIOUS
<1>2. F \in [T \X (1 .. n) -> T]
  BY <1>1, MergeIs
<1>3. <<>> \in T
  OBVIOUS
<1>4. \A t \in T, i \in 1 .. n : F[<<t, i>>] = P!Merge(t, q[i])
  OBVIOUS
<1> HIDE DEF F, T
<1>5. PICK g : IsFold(g, n, T, <<>>, F)
  BY <1>2, <1>3, FoldExists
<1>6. ASSUME NEW s \in SUBSET (1 .. n) PROVE g[s] = Unfold(g, s)
  <2>1. CASE s = {}
    BY <1>5, <2>1 DEF IsFold
  <2>2. CASE s # {}
    <3>1. P!Max(s) \in s
      BY <2>2, MaxIs
    <3>2. P!Max(s) \in 1 .. n /\ s \ {P!Max(s)} \in SUBSET (1 .. n)
      BY <3>1
    <3>3. g[s \ {P!Max(s)}] \in T
      BY <1>5, <3>2 DEF IsFold
    <3> QED
      BY <1>4, <1>5, <2>2, <3>2, <3>3 DEF IsFold
  <2> QED
    BY <2>1, <2>2
<1>7. Eq(g)
  <2> HIDE DEF Unfold
  <2> QED
    BY <1>5, <1>6 DEF IsFold
<1> DEFINE c == CHOOSE h : Eq(h)
<1>8. Eq(c)
  <2> HIDE DEF Eq
  <2> QED
    BY <1>7
<1>9. DOMAIN q = 1 .. n
  OBVIOUS
<1>10. Merged(q) = c[1 .. n]
  BY <1>9 DEF Merged, P!FoldLeft, P!MapThenFoldSet
<1>11. \A s \in SUBSET (1 .. n) : c[s] = Unfold(c, s)
  <2> HIDE DEF Unfold, c
  <2> QED
    BY <1>8
<1> HIDE DEF c
<1> QED
  BY <1>10, <1>11

LEMMA MergeIsStart == ASSUME NEW J PROVE <<>> \in Seq(Said(J))
OBVIOUS

\* What is merged after k messages.
MergedRun(h, J, q, n) ==
  /\ h \in [0 .. n -> Seq(Said(J))]
  /\ h[0] = <<>> /\ Merged(q) = h[n]
  /\ \A k \in 1 .. n : h[k] = P!Merge(h[k - 1], q[k])

LEMMA MergedRuns ==
  ASSUME NEW J, NEW q \in Seq(Said(J)), NEW n \in Nat, n = Len(q)
  PROVE  \E h : MergedRun(h, J, q, n)
<1> DEFINE T == Seq(Said(J))
<1>1. PICK g : /\ \A s \in SUBSET (1 .. n) :
                    g[s] = IF s = {} THEN <<>> ELSE P!Merge(g[s \ {P!Max(s)}], q[P!Max(s)])
               /\ Merged(q) = g[1 .. n]
  BY MergedIs
<1>2. g[{}] = <<>>
  BY <1>1
<1>3. ASSUME NEW k \in Nat, k # 0, k <= n PROVE g[1 .. k] = P!Merge(g[1 .. k - 1], q[k])
  <2>1. P!Max(1 .. k) = k /\ (1 .. k) \ {P!Max(1 .. k)} = 1 .. k - 1 /\ 1 .. k # {} /\ 1 .. k \in SUBSET (1 .. n)
    BY <1>3, MaxOfUpTo
  <2> QED
    BY <1>1, <2>1
<1> DEFINE Has(k) == k <= n => g[1 .. k] \in T
           S == {k \in Nat : Has(k)}
<1>4. Has(0)
  <2>1. 1 .. 0 = {} /\ <<>> \in T
    BY MergeIsStart
  <2> QED
    BY <1>2, <2>1
<1>5. ASSUME NEW k \in Nat, Has(k) PROVE Has(k + 1)
  <2> SUFFICES ASSUME k + 1 <= n PROVE g[1 .. k + 1] \in T
    OBVIOUS
  <2>1. k + 1 \in Nat /\ k + 1 # 0 /\ k + 1 - 1 = k /\ k + 1 \in 1 .. n /\ g[1 .. k] \in T
    BY <1>5
  <2>2. g[1 .. k + 1] = P!Merge(g[1 .. k], q[k + 1])
    BY <1>3, <2>1
  <2>3. q[k + 1] \in Said(J)
    BY <2>1
  <2> QED
    <3> DEFINE a == g[1 .. k]
               b == q[k + 1]
    <3> HIDE DEF a, b
    <3>1. a \in Seq(Said(J)) /\ b \in Said(J)
      BY <2>1, <2>3 DEF a, b
    <3>2. P!Merge(a, b) \in Seq(Said(J))
      BY <3>1, MergeIs
    <3> QED
      BY <2>2, <3>2 DEF a, b
<1>6. ASSUME NEW k \in 0 .. n PROVE g[1 .. k] \in T
  <2> HIDE DEF Has
  <2>1. 0 \in S /\ \A i \in Nat : i \in S => i + 1 \in S
    BY <1>4, <1>5
  <2>2. k \in Nat
    OBVIOUS
  <2>3. k \in S
    BY <2>1, <2>2, NatsByInduction
  <2> QED
    BY <2>3 DEF Has
<1> DEFINE h == [k \in 0 .. n |-> g[1 .. k]]
<1>7. h \in [0 .. n -> T]
  BY <1>6
<1>8. h[0] = <<>>
  <2>1. 1 .. 0 = {} /\ 0 \in 0 .. n
    OBVIOUS
  <2> QED
    BY <1>2, <2>1
<1>9. Merged(q) = h[n]
  BY <1>1
<1>10. ASSUME NEW k \in 1 .. n PROVE h[k] = P!Merge(h[k - 1], q[k])
  <2>1. k \in Nat /\ k # 0 /\ k <= n /\ k \in 0 .. n /\ k - 1 \in 0 .. n
    OBVIOUS
  <2> QED
    BY <1>3, <2>1
<1> HIDE DEF h
<1> QED
  BY <1>7, <1>8, <1>9, <1>10 DEF MergedRun

LEMMA MergedNone == Merged(<<>>) = <<>>
<1>1. <<>> \in Seq(Said({})) /\ Len(<<>>) = 0
  OBVIOUS
<1>2. PICK h : MergedRun(h, {}, <<>>, 0)
  BY <1>1, MergedRuns
<1> QED
  BY <1>2 DEF MergedRun

\* One message more, merged.
LEMMA MergedStep ==
  ASSUME NEW J, NEW q \in Seq(Said(J)), NEW r \in Seq(Said(J)), Len(q) = Len(r) + 1,
         \A i \in 1 .. Len(r) : q[i] = r[i]
  PROVE  Merged(r) \in Seq(Said(J)) /\ Merged(q) = P!Merge(Merged(r), q[Len(q)])
<1> DEFINE n == Len(r)
<1>1. n \in Nat /\ n + 1 \in Nat /\ n + 1 = Len(q) /\ n = Len(r)
  OBVIOUS
<1>2. \A i \in 1 .. n : q[i] = r[i]
  OBVIOUS
<1> HIDE DEF n
<1>3. PICK h : MergedRun(h, J, r, n)
  BY <1>1, MergedRuns
<1>4. PICK f : MergedRun(f, J, q, n + 1)
  BY <1>1, MergedRuns
<1> DEFINE Has(k) == k <= n => f[k] = h[k]
           S == {k \in Nat : Has(k)}
<1>5. Has(0)
  BY <1>3, <1>4 DEF MergedRun
<1>6. ASSUME NEW k \in Nat, Has(k) PROVE Has(k + 1)
  <2> SUFFICES ASSUME k + 1 <= n PROVE f[k + 1] = h[k + 1]
    OBVIOUS
  <2>1. k + 1 \in 1 .. n /\ k + 1 \in 1 .. n + 1 /\ k + 1 - 1 = k /\ k <= n
    BY <1>1
  <2> QED
    BY <1>2, <1>3, <1>4, <1>6, <2>1 DEF MergedRun
<1>7. Has(n)
  <2> HIDE DEF Has
  <2>1. 0 \in S /\ \A i \in Nat : i \in S => i + 1 \in S
    BY <1>5, <1>6
  <2>2. n \in S
    BY <1>1, <2>1, NatsByInduction
  <2> QED
    BY <2>2
<1>8. f[n] = h[n] /\ n + 1 \in 1 .. n + 1 /\ n + 1 - 1 = n /\ n \in 0 .. n
  BY <1>1, <1>7
<1> QED
  BY <1>1, <1>3, <1>4, <1>8 DEF MergedRun

-----------------------------------------------------------------------------

LEMMA OwingIsStart == ASSUME NEW J PROVE P!OwesNothing \in Walks(J)
BY DEF P!OwesNothing, Walks

LEMMA OwingIs ==
  ASSUME NEW J, NEW w \in Walks(J), NEW m \in Said(J)
  PROVE  P!Owing(w, m) \in Walks(J)
<1>1. P!Ids(m, "tool-call") \in SUBSET J
  BY IdsAre
<1> QED
  BY <1>1 DEF P!Owing, Walks

\* The fold of Owing over a sequence.
LEMMA WalkIs ==
  ASSUME NEW J, NEW q \in Seq(Said(J)), NEW n \in Nat, n = Len(q)
  PROVE  \E g : /\ \A s \in SUBSET (1 .. n) :
                     g[s] = IF s = {} THEN P!OwesNothing ELSE P!Owing(g[s \ {P!Max(s)}], q[P!Max(s)])
                /\ Walk(q) = g[1 .. n]
<1> DEFINE T == Walks(J)
           F == [p \in T \X (1 .. n) |-> P!Owing(p[1], q[p[2]])]
           Unfold(g, s) == IF s = {} THEN P!OwesNothing ELSE P!Owing(g[s \ {P!Max(s)}], q[P!Max(s)])
           Eq(g) == g = [s \in SUBSET (1 .. n) |-> Unfold(g, s)]
<1>1. \A i \in 1 .. n : q[i] \in Said(J)
  OBVIOUS
<1>2. F \in [T \X (1 .. n) -> T]
  BY <1>1, OwingIs
<1>3. P!OwesNothing \in T
  BY OwingIsStart
<1>4. \A t \in T, i \in 1 .. n : F[<<t, i>>] = P!Owing(t, q[i])
  OBVIOUS
<1> HIDE DEF F, T
<1>5. PICK g : IsFold(g, n, T, P!OwesNothing, F)
  BY <1>2, <1>3, FoldExists
<1>6. ASSUME NEW s \in SUBSET (1 .. n) PROVE g[s] = Unfold(g, s)
  <2>1. CASE s = {}
    BY <1>5, <2>1 DEF IsFold
  <2>2. CASE s # {}
    <3>1. P!Max(s) \in s
      BY <2>2, MaxIs
    <3>2. P!Max(s) \in 1 .. n /\ s \ {P!Max(s)} \in SUBSET (1 .. n)
      BY <3>1
    <3>3. g[s \ {P!Max(s)}] \in T
      BY <1>5, <3>2 DEF IsFold
    <3> QED
      BY <1>4, <1>5, <2>2, <3>2, <3>3 DEF IsFold
  <2> QED
    BY <2>1, <2>2
<1>7. Eq(g)
  <2> HIDE DEF Unfold
  <2> QED
    BY <1>5, <1>6 DEF IsFold
<1> DEFINE c == CHOOSE h : Eq(h)
<1>8. Eq(c)
  <2> HIDE DEF Eq
  <2> QED
    BY <1>7
<1>9. DOMAIN q = 1 .. n
  OBVIOUS
<1>10. Walk(q) = c[1 .. n]
  BY <1>9 DEF Walk, P!FoldLeft, P!MapThenFoldSet
<1>11. \A s \in SUBSET (1 .. n) : c[s] = Unfold(c, s)
  <2> HIDE DEF Unfold, c
  <2> QED
    BY <1>8
<1> HIDE DEF c
<1> QED
  BY <1>10, <1>11

\* The walk after k messages.
WalkRun(h, J, q, n) ==
  /\ h \in [0 .. n -> Walks(J)]
  /\ h[0] = P!OwesNothing /\ Walk(q) = h[n]
  /\ \A k \in 1 .. n : h[k] = P!Owing(h[k - 1], q[k])

LEMMA WalkRuns ==
  ASSUME NEW J, NEW q \in Seq(Said(J)), NEW n \in Nat, n = Len(q)
  PROVE  \E h : WalkRun(h, J, q, n)
<1> DEFINE T == Walks(J)
<1>1. PICK g : /\ \A s \in SUBSET (1 .. n) :
                    g[s] = IF s = {} THEN P!OwesNothing ELSE P!Owing(g[s \ {P!Max(s)}], q[P!Max(s)])
               /\ Walk(q) = g[1 .. n]
  BY WalkIs
<1>2. g[{}] = P!OwesNothing
  BY <1>1
<1>3. ASSUME NEW k \in Nat, k # 0, k <= n PROVE g[1 .. k] = P!Owing(g[1 .. k - 1], q[k])
  <2>1. P!Max(1 .. k) = k /\ (1 .. k) \ {P!Max(1 .. k)} = 1 .. k - 1 /\ 1 .. k # {} /\ 1 .. k \in SUBSET (1 .. n)
    BY <1>3, MaxOfUpTo
  <2> QED
    BY <1>1, <2>1
<1> DEFINE Has(k) == k <= n => g[1 .. k] \in T
           S == {k \in Nat : Has(k)}
<1>4. Has(0)
  <2>1. 1 .. 0 = {} /\ P!OwesNothing \in T
    BY OwingIsStart
  <2> QED
    BY <1>2, <2>1
<1>5. ASSUME NEW k \in Nat, Has(k) PROVE Has(k + 1)
  <2> SUFFICES ASSUME k + 1 <= n PROVE g[1 .. k + 1] \in T
    OBVIOUS
  <2>1. k + 1 \in Nat /\ k + 1 # 0 /\ k + 1 - 1 = k /\ k + 1 \in 1 .. n /\ g[1 .. k] \in T
    BY <1>5
  <2>2. g[1 .. k + 1] = P!Owing(g[1 .. k], q[k + 1])
    BY <1>3, <2>1
  <2>3. q[k + 1] \in Said(J)
    BY <2>1
  <2> QED
    BY <2>1, <2>2, <2>3, OwingIs
<1>6. ASSUME NEW k \in 0 .. n PROVE g[1 .. k] \in T
  <2> HIDE DEF Has
  <2>1. 0 \in S /\ \A i \in Nat : i \in S => i + 1 \in S
    BY <1>4, <1>5
  <2>2. k \in Nat
    OBVIOUS
  <2>3. k \in S
    BY <2>1, <2>2, NatsByInduction
  <2> QED
    BY <2>3 DEF Has
<1> DEFINE h == [k \in 0 .. n |-> g[1 .. k]]
<1>7. h \in [0 .. n -> T]
  BY <1>6
<1>8. h[0] = P!OwesNothing
  <2>1. 1 .. 0 = {} /\ 0 \in 0 .. n
    OBVIOUS
  <2> QED
    BY <1>2, <2>1
<1>9. Walk(q) = h[n]
  BY <1>1
<1>10. ASSUME NEW k \in 1 .. n PROVE h[k] = P!Owing(h[k - 1], q[k])
  <2>1. k \in Nat /\ k # 0 /\ k <= n /\ k \in 0 .. n /\ k - 1 \in 0 .. n
    OBVIOUS
  <2> QED
    BY <1>3, <2>1
<1> HIDE DEF h
<1> QED
  BY <1>7, <1>8, <1>9, <1>10 DEF WalkRun

LEMMA WalkNone == Walk(<<>>) = P!OwesNothing
<1>1. <<>> \in Seq(Said({})) /\ Len(<<>>) = 0
  OBVIOUS
<1>2. PICK h : WalkRun(h, {}, <<>>, 0)
  BY <1>1, WalkRuns
<1> QED
  BY <1>2 DEF WalkRun

\* One message more, walked over.
LEMMA WalkStep ==
  ASSUME NEW J, NEW q \in Seq(Said(J)), NEW r \in Seq(Said(J)), Len(q) = Len(r) + 1,
         \A i \in 1 .. Len(r) : q[i] = r[i]
  PROVE  Walk(r) \in Walks(J) /\ Walk(q) = P!Owing(Walk(r), q[Len(q)])
<1> DEFINE n == Len(r)
<1>1. n \in Nat /\ n + 1 \in Nat /\ n + 1 = Len(q) /\ n = Len(r)
  OBVIOUS
<1>2. \A i \in 1 .. n : q[i] = r[i]
  OBVIOUS
<1> HIDE DEF n
<1>3. PICK h : WalkRun(h, J, r, n)
  BY <1>1, WalkRuns
<1>4. PICK f : WalkRun(f, J, q, n + 1)
  BY <1>1, WalkRuns
<1> DEFINE Has(k) == k <= n => f[k] = h[k]
           S == {k \in Nat : Has(k)}
<1>5. Has(0)
  BY <1>3, <1>4 DEF WalkRun
<1>6. ASSUME NEW k \in Nat, Has(k) PROVE Has(k + 1)
  <2> SUFFICES ASSUME k + 1 <= n PROVE f[k + 1] = h[k + 1]
    OBVIOUS
  <2>1. k + 1 \in 1 .. n /\ k + 1 \in 1 .. n + 1 /\ k + 1 - 1 = k /\ k <= n
    BY <1>1
  <2> QED
    BY <1>2, <1>3, <1>4, <1>6, <2>1 DEF WalkRun
<1>7. Has(n)
  <2> HIDE DEF Has
  <2>1. 0 \in S /\ \A i \in Nat : i \in S => i + 1 \in S
    BY <1>5, <1>6
  <2>2. n \in S
    BY <1>1, <2>1, NatsByInduction
  <2> QED
    BY <2>2
<1>8. f[n] = h[n] /\ n + 1 \in 1 .. n + 1 /\ n + 1 - 1 = n /\ n \in 0 .. n
  BY <1>1, <1>7
<1> QED
  BY <1>1, <1>3, <1>4, <1>8 DEF WalkRun

-----------------------------------------------------------------------------

LEMMA ConcatIs ==
  ASSUME NEW S, NEW p \in Seq(S), NEW q \in Seq(S)
  PROVE  p \o q \in Seq(S) /\ Len(p \o q) = Len(p) + Len(q)
OBVIOUS

\* What FlattenSeq does, step by step.
FlatRun(h, M, seqs, n) ==
  /\ h \in [0 .. n -> Seq(M)]
  /\ h[0] = <<>> /\ P!FlattenSeq(seqs) = h[n]
  /\ \A k \in 1 .. n : h[k] = h[k - 1] \o seqs[k]

LEMMA FlatRuns ==
  ASSUME NEW M, NEW n \in Nat, NEW seqs \in [1 .. n -> Seq(M)]
  PROVE  \E h : FlatRun(h, M, seqs, n)
<1> DEFINE T == Seq(M)
<1>1. seqs \in Seq(T) /\ Len(seqs) = n /\ <<>> \in T
  OBVIOUS
<1>2. CASE n = 0
  <2>1. P!FlattenSeq(seqs) = <<>>
    BY <1>1, <1>2 DEF P!FlattenSeq
  <2> DEFINE h == [k \in 0 .. 0 |-> <<>>]
  <2>2. h \in [0 .. 0 -> T] /\ h[0] = <<>> /\ 1 .. 0 = {}
    BY <1>1
  <2> HIDE DEF h
  <2>3. FlatRun(h, M, seqs, n)
    BY <1>2, <2>1, <2>2 DEF FlatRun
  <2> QED
    BY <2>3
<1>3. CASE n # 0
  <2> DEFINE F == [p \in T \X (1 .. n) |-> p[1] \o seqs[p[2]]]
             Unfold(g, i) == IF i = 1 THEN seqs[i] ELSE g[i - 1] \o seqs[i]
             Eq(g) == g = [i \in 1 .. n |-> Unfold(g, i)]
  <2>1. F \in [T \X (1 .. n) -> T]
    BY ConcatIs
  <2>2. \A t \in T, i \in 1 .. n : F[<<t, i>>] = t \o seqs[i]
    OBVIOUS
  <2>3. seqs[1] \in T /\ 1 \in 1 .. n
    BY <1>3
  <2> HIDE DEF F, T
  <2>4. PICK g : IsChain(g, n, T, seqs[1], F)
    BY <1>3, <2>1, <2>3, ChainExists
  <2>5. ASSUME NEW i \in 1 .. n PROVE g[i] = Unfold(g, i)
    <3>1. i # 1 => i - 1 \in 1 .. n
      OBVIOUS
    <3>2. i # 1 => g[i - 1] \in T
      BY <2>4, <3>1 DEF IsChain
    <3> QED
      BY <2>2, <2>4, <3>2 DEF IsChain
  <2>6. Eq(g)
    <3> HIDE DEF Unfold
    <3> QED
      BY <2>4, <2>5 DEF IsChain
  <2> DEFINE c == CHOOSE h : Eq(h)
  <2>7. Eq(c)
    <3> HIDE DEF Eq
    <3> QED
      BY <2>6
  <2>8. P!FlattenSeq(seqs) = c[n]
    BY <1>1, <1>3 DEF P!FlattenSeq
  <2>9. \A i \in 1 .. n : c[i] = Unfold(c, i)
    <3> HIDE DEF Unfold, c
    <3> QED
      BY <2>7
  <2> HIDE DEF c
  <2> USE DEF T
  <2> DEFINE Has(k) == k <= n /\ k # 0 => c[k] \in T
             S == {k \in Nat : Has(k)}
  <2>10. Has(0)
    OBVIOUS
  <2>11. ASSUME NEW k \in Nat, Has(k) PROVE Has(k + 1)
    <3> SUFFICES ASSUME k + 1 <= n PROVE c[k + 1] \in T
      OBVIOUS
    <3> DEFINE m == k + 1
    <3>1. m \in 1 .. n /\ m - 1 = k /\ seqs[m] \in T /\ (m = 1 <=> k = 0)
      OBVIOUS
    <3>4. k <= n
      OBVIOUS
    <3> SUFFICES c[m] \in T
      OBVIOUS
    <3> HIDE DEF m
    <3>2. CASE k = 0
      BY <2>9, <3>1, <3>2
    <3>3. CASE k # 0
      <4>1. c[k] \in T /\ m # 1
        BY <2>11, <3>1, <3>3, <3>4
      <4>2. c[m] = Unfold(c, m)
        <5> HIDE DEF Unfold
        <5> QED
          BY <2>9, <3>1
      <4>3. c[m] = c[k] \o seqs[m]
        BY <3>1, <4>1, <4>2
      <4> QED
        BY <3>1, <4>1, <4>3, ConcatIs
    <3> QED
      BY <3>2, <3>3
  <2>12. ASSUME NEW k \in 1 .. n PROVE c[k] \in T
    <3> HIDE DEF Has
    <3>1. 0 \in S /\ \A i \in Nat : i \in S => i + 1 \in S
      BY <2>10, <2>11
    <3>2. k \in Nat /\ k <= n /\ k # 0
      OBVIOUS
    <3>3. k \in S
      BY <3>1, <3>2, NatsByInduction
    <3> QED
      BY <3>2, <3>3 DEF Has
  <2> DEFINE h == [k \in 0 .. n |-> IF k = 0 THEN <<>> ELSE c[k]]
  <2>13. h \in [0 .. n -> T]
    BY <1>1, <2>12
  <2>14. h[0] = <<>> /\ h[n] = c[n]
    BY <1>3
  <2>15. ASSUME NEW k \in 1 .. n PROVE h[k] = h[k - 1] \o seqs[k]
    <3>1. k \in 0 .. n /\ k # 0 /\ k - 1 \in 0 .. n /\ seqs[k] \in T
      OBVIOUS
    <3>2. CASE k = 1
      <4>1. h[k] = seqs[k] /\ h[k - 1] = <<>>
        BY <2>9, <3>1, <3>2
      <4>2. <<>> \o seqs[k] = seqs[k]
        BY <3>1
      <4> QED
        BY <4>1, <4>2
    <3>3. CASE k # 1
      <4>1. c[k] = Unfold(c, k)
        <5> HIDE DEF Unfold
        <5> QED
          BY <2>9
      <4>2. h[k] = c[k] /\ h[k - 1] = c[k - 1]
        BY <3>1, <3>3
      <4> QED
        BY <3>3, <4>1, <4>2
    <3> QED
      BY <3>2, <3>3
  <2> HIDE DEF h
  <2>16. FlatRun(h, M, seqs, n)
    BY <2>8, <2>13, <2>14, <2>15 DEF FlatRun
  <2> QED
    BY <2>16
<1> QED
  BY <1>2, <1>3

-----------------------------------------------------------------------------
\* Two messages of one role ask of a walk what the two, joined, ask of it.
LEMMA OwingOfJoined ==
  ASSUME NEW J, NEW w \in Walks(J), NEW a \in Said(J), NEW m \in Said(J), a.role = m.role
  PROVE  P!Owing(w, Joined(a, m)) = P!Owing(P!Owing(w, a), m)
<1>1. /\ P!Ids(Joined(a, m), "tool-call") = P!Ids(a, "tool-call") \union P!Ids(m, "tool-call")
      /\ P!Ids(Joined(a, m), "tool-result") = P!Ids(a, "tool-result") \union P!Ids(m, "tool-result")
      /\ Joined(a, m).role = m.role
  <2>1. \A k : P!Ids(Joined(a, m), k) = P!Ids(a, k) \union P!Ids(m, k)
    BY IdsOfJoined
  <2>2. Joined(a, m).role = m.role
    BY DEF Joined
  <2> QED
    BY <2>1, <2>2
<1>2. /\ m.role # "assistant" => P!Ids(a, "tool-call") = {} /\ P!Ids(m, "tool-call") = {}
      /\ m.role # "tool" => P!Ids(a, "tool-result") = {} /\ P!Ids(m, "tool-result") = {}
      /\ m.role \in {"assistant", "tool", "user"}
  BY DEF Said
<1> DEFINE ca == P!Ids(a, "tool-call")
           cm == P!Ids(m, "tool-call")
           ra == P!Ids(a, "tool-result")
           rm == P!Ids(m, "tool-result")
<1>3. /\ P!Owing(w, Joined(a, m)).owed = (w.owed \union (ca \union cm)) \ (ra \union rm)
      /\ P!Owing(w, Joined(a, m)).rejected = (w.rejected \/ (m.role = "user" /\ w.owed # {}))
  BY <1>1 DEF P!Owing
<1>4. /\ P!Owing(P!Owing(w, a), m).owed = (((w.owed \union ca) \ ra) \union cm) \ rm
      /\ P!Owing(P!Owing(w, a), m).rejected =
           ((w.rejected \/ (m.role = "user" /\ w.owed # {})) \/ (m.role = "user" /\ (w.owed \union ca) \ ra # {}))
  BY DEF P!Owing
<1>5. (w.owed \union (ca \union cm)) \ (ra \union rm) = (((w.owed \union ca) \ ra) \union cm) \ rm
  <2> HIDE DEF ca, cm, ra, rm
  <2>1. m.role # "assistant" => ca = {} /\ cm = {}
    BY <1>2 DEF ca, cm
  <2>2. m.role # "tool" => ra = {} /\ rm = {}
    BY <1>2 DEF ra, rm
  <2>3. CASE m.role = "assistant"
    BY <2>2, <2>3
  <2>4. CASE m.role # "assistant"
    BY <2>1, <2>4
  <2> QED
    BY <2>3, <2>4
<1>6. m.role = "user" => (w.owed \union ca) \ ra = w.owed
  BY <1>2
<1>7. P!Owing(w, Joined(a, m)).rejected = P!Owing(P!Owing(w, a), m).rejected
  BY <1>3, <1>4, <1>6
<1>8. P!Owing(w, Joined(a, m)).owed = P!Owing(P!Owing(w, a), m).owed
  BY <1>3, <1>4, <1>5
<1> QED
  BY <1>7, <1>8 DEF P!Owing

\* A walk of messages that are merged ends as the walk of the messages one by one does.
LEMMA WalkOfMerge ==
  ASSUME NEW J, NEW s \in Seq(Said(J)), NEW m \in Said(J)
  PROVE  Walk(s) \in Walks(J) /\ Walk(P!Merge(s, m)) = P!Owing(Walk(s), m)
<1> DEFINE sm == Append(s, m)
<1>1. sm \in Seq(Said(J)) /\ Len(sm) = Len(s) + 1 /\ sm[Len(s) + 1] = m /\ \A i \in 1 .. Len(s) : sm[i] = s[i]
  OBVIOUS
<1> HIDE DEF sm
<1>2. Walk(s) \in Walks(J) /\ Walk(sm) = P!Owing(Walk(s), m)
  BY <1>1, WalkStep
<1>3. CASE P!Merge(s, m) = Append(s, m)
  BY <1>2, <1>3 DEF sm
<1>4. CASE P!Merge(s, m) # Append(s, m)
  <2> DEFINE t == P!Merge(s, m)
             r == [i \in 1 .. Len(s) - 1 |-> s[i]]
             a == s[Len(s)]
  <2>1. /\ t \in Seq(Said(J)) /\ s # <<>> /\ a.role = m.role /\ Len(t) = Len(s)
        /\ \A i \in 1 .. Len(s) - 1 : t[i] = s[i]
        /\ t[Len(s)] = Joined(a, m)
    BY <1>4, MergeIs
  <2> HIDE DEF t
  <2>2. Len(s) \in Nat \ {0} /\ a \in Said(J)
    BY <2>1
  <2> HIDE DEF a
  <2>3. /\ r \in Seq(Said(J)) /\ Len(r) = Len(s) - 1
        /\ \A i \in 1 .. Len(r) : r[i] = s[i]
    <3> DEFINE k == Len(s) - 1
    <3>1. k \in Nat
      <4>1. Len(s) \in Nat \ {0}
        BY <2>2
      <4> QED
        BY ONLY <4>1
    <3>2. \A i \in 1 .. k : s[i] \in Said(J)
      <4>1. Len(s) \in Nat
        OBVIOUS
      <4>2. \A i \in 1 .. k : i \in 1 .. Len(s)
        BY ONLY <4>1
      <4> QED
        BY <4>2
    <3> HIDE DEF k
    <3>3. r \in Seq(Said(J)) /\ Len(r) = k /\ \A i \in 1 .. k : r[i] = s[i]
      BY <3>1, <3>2 DEF k
    <3> QED
      BY <3>3 DEF k
  <2> HIDE DEF r
  <2>4. Len(s) = Len(r) + 1 /\ \A i \in 1 .. Len(r) : s[i] = r[i] /\ t[i] = r[i]
    BY <2>1, <2>2, <2>3
  <2>5. Walk(r) \in Walks(J) /\ Walk(s) = P!Owing(Walk(r), a)
    BY <2>3, <2>4, WalkStep DEF a
  <2>6. Walk(t) = P!Owing(Walk(r), Joined(a, m))
    BY <2>1, <2>3, <2>4, WalkStep
  <2>7. Walk(t) = P!Owing(P!Owing(Walk(r), a), m)
    BY <2>1, <2>2, <2>5, <2>6, OwingOfJoined
  <2> QED
    BY <1>2, <2>5, <2>7 DEF t
<1> QED
  BY <1>3, <1>4

CallsOf(q) == UNION {P!Ids(q[i], "tool-call") : i \in DOMAIN q}

LEMMA CallsOfMerge ==
  ASSUME NEW J, NEW s \in Seq(Said(J)), NEW m \in Said(J)
  PROVE  /\ CallsOf(P!Merge(s, m)) = CallsOf(s) \union P!Ids(m, "tool-call")
         /\ P!NoStrayResult(s) /\ P!Ids(m, "tool-result") \subseteq CallsOf(s) => P!NoStrayResult(P!Merge(s, m))
<1> DEFINE t == P!Merge(s, m)
           n == Len(s)
           a == s[n]
<1>0. n \in Nat /\ DOMAIN s = 1 .. n /\ \A i \in 1 .. n : s[i] \in Said(J)
  OBVIOUS
<1>1. CASE t = Append(s, m)
  <2>1. /\ DOMAIN t = 1 .. n + 1 /\ t[n + 1] = m /\ \A i \in 1 .. n : t[i] = s[i]
    BY <1>1
  <2> HIDE DEF t, n
  <2>2. DOMAIN t = DOMAIN s \union {n + 1} /\ \A i \in DOMAIN s : t[i] = s[i]
    BY <1>0, <2>1
  <2>3. CallsOf(t) = CallsOf(s) \union P!Ids(m, "tool-call")
    <3>1. P!Ids(m, "tool-call") = P!Ids(t[n + 1], "tool-call") /\ n + 1 \in DOMAIN t
      BY <2>1, <2>2
    <3>2. \A i \in DOMAIN s : P!Ids(t[i], "tool-call") = P!Ids(s[i], "tool-call") /\ i \in DOMAIN t
      BY <2>2
    <3>3. \A i \in DOMAIN t : i \in DOMAIN s \/ i = n + 1
      BY <2>2
    <3> QED
      BY <3>1, <3>2, <3>3 DEF CallsOf
  <2>4. ASSUME P!NoStrayResult(s), P!Ids(m, "tool-result") \subseteq CallsOf(s),
               NEW i \in DOMAIN t, NEW id \in P!Ids(t[i], "tool-result")
        PROVE  \E k \in 1 .. i - 1 : id \in P!Ids(t[k], "tool-call")
    <3>1. CASE i = n + 1
      <4>1. PICK k \in DOMAIN s : id \in P!Ids(s[k], "tool-call")
        BY <2>1, <2>4, <3>1 DEF CallsOf
      <4>2. k \in 1 .. i - 1 /\ t[k] = s[k]
        BY <1>0, <2>1, <3>1
      <4> QED
        BY <4>1, <4>2
    <3>2. CASE i # n + 1
      <4>1. i \in DOMAIN s /\ t[i] = s[i]
        BY <2>2, <3>2
      <4>2. PICK k \in 1 .. i - 1 : id \in P!Ids(s[k], "tool-call")
        BY <2>4, <4>1 DEF P!NoStrayResult
      <4>3. k \in 1 .. n
        BY <1>0, <4>1
      <4> QED
        BY <2>1, <4>2, <4>3
    <3> QED
      BY <3>1, <3>2
  <2> QED
    BY <2>3, <2>4 DEF P!NoStrayResult, t
<1>2. CASE t # Append(s, m)
  <2>1. /\ t \in Seq(Said(J)) /\ s # <<>> /\ a.role = m.role /\ Len(t) = n
        /\ \A i \in 1 .. n - 1 : t[i] = s[i]
        /\ t[n] = Joined(a, m)
    BY <1>2, MergeIs
  <2>2. n # 0 /\ DOMAIN t = 1 .. n
    BY <2>1
  <2>3. a \in Said(J)
    BY <1>0, <2>2
  <2> HIDE DEF t, n, a
  <2>4. \A k : P!Ids(t[n], k) = P!Ids(a, k) \union P!Ids(m, k)
    BY <2>1, <2>3, IdsOfJoined
  <2>5. \A i \in 1 .. n : i # n => t[i] = s[i] /\ i \in 1 .. n - 1
    BY <1>0, <2>1
  <2>6. n \in 1 .. n /\ s[n] = a
    BY <1>0, <2>2 DEF a
  <2>7. CallsOf(t) = CallsOf(s) \union P!Ids(m, "tool-call")
    <3>1. ASSUME NEW i \in 1 .. n PROVE P!Ids(t[i], "tool-call") \subseteq CallsOf(s) \union P!Ids(m, "tool-call")
      BY <1>0, <2>4, <2>5, <2>6 DEF CallsOf
    <3>2. ASSUME NEW i \in 1 .. n PROVE P!Ids(s[i], "tool-call") \subseteq CallsOf(t)
      BY <2>2, <2>4, <2>5, <2>6 DEF CallsOf
    <3>3. P!Ids(m, "tool-call") \subseteq CallsOf(t)
      BY <2>2, <2>4, <2>6 DEF CallsOf
    <3> QED
      BY <1>0, <2>2, <3>1, <3>2, <3>3 DEF CallsOf
  <2>8. ASSUME P!NoStrayResult(s), P!Ids(m, "tool-result") \subseteq CallsOf(s),
               NEW i \in 1 .. n, NEW id \in P!Ids(t[i], "tool-result")
        PROVE  \E k \in 1 .. i - 1 : id \in P!Ids(t[k], "tool-call")
    <3>1. CASE id \in P!Ids(s[i], "tool-result")
      <4>1. PICK k \in 1 .. i - 1 : id \in P!Ids(s[k], "tool-call")
        BY <1>0, <2>8, <3>1 DEF P!NoStrayResult
      <4>2. k \in 1 .. n - 1
        BY <1>0, <4>1
      <4> QED
        BY <2>1, <4>1, <4>2
    <3>2. CASE id \notin P!Ids(s[i], "tool-result")
      <4>1. i = n /\ id \in P!Ids(m, "tool-result")
        BY <2>4, <2>5, <2>6, <2>8, <3>2
      <4>2. PICK k \in DOMAIN s : id \in P!Ids(s[k], "tool-call")
        BY <2>8, <4>1 DEF CallsOf
      <4>3. m.role = "tool"
        BY <4>1 DEF Said
      <4>4. P!Ids(a, "tool-call") = {}
        BY <2>1, <2>3, <4>3 DEF Said
      <4>5. k # n
        BY <2>6, <4>2, <4>4
      <4>6. k \in 1 .. n /\ k \in 1 .. i - 1
        BY <1>0, <2>5, <4>1, <4>2, <4>5
      <4> QED
        BY <2>5, <4>2, <4>5, <4>6
    <3> QED
      BY <3>1, <3>2
  <2> QED
    BY <2>2, <2>7, <2>8 DEF P!NoStrayResult, t
<1> QED
  BY <1>1, <1>2

-----------------------------------------------------------------------------
\* The rows of a chat.
CallRows(h) == {i \in DOMAIN h : h[i].kind \in {"tool_call", "choices"}}
ResultRows(h) == {i \in DOMAIN h : h[i].kind = "tool_result"}

\* The turn a row is of, as the messages of the user up to it.
Turn(h, i) == {k \in DOMAIN h : h[k].kind = "user_message" /\ k <= i}

\* No two calls of one turn share an id, though those of different turns may, and every
\* result comes after the call of its id, in its turn, with no branch artifact between the two.
Paired(h) ==
  /\ \A i, j \in CallRows(h) : Turn(h, i) = Turn(h, j) /\ h[i].id = h[j].id => i = j
  /\ \A j \in ResultRows(h) : \E i \in CallRows(h) :
       /\ i < j /\ Turn(h, i) = Turn(h, j) /\ h[i].id = h[j].id
       /\ \A k \in DOMAIN h : i < k /\ k < j => h[k].kind # "branch_artifact"

InScope(h, i) == P!HasResult(h[i], P!ResultScopes(h)[i])

LEMMA InScopeIs ==
  ASSUME NEW E, NEW h \in Seq(E), NEW i \in DOMAIN h, InScope(h, i)
  PROVE  \E j \in ResultRows(h) : h[j].id = h[i].id /\ Turn(h, j) = Turn(h, i)
<1> DEFINE users == {k \in DOMAIN h : h[k].kind = "user_message"}
           turn == [j \in DOMAIN h |-> {k \in users : k <= j}]
           results == {k \in DOMAIN h : h[k].kind = "tool_result"}
           scopes == [l \in DOMAIN h |-> {h[j].id : j \in {k \in results : turn[k] = turn[l]}}]
<1>1. P!ResultScopes(h) = scopes
  BY DEF P!ResultScopes
<1>2. \A j \in DOMAIN h : turn[j] = Turn(h, j)
  BY DEF Turn
<1>3. results = ResultRows(h) /\ results \subseteq DOMAIN h
  BY DEF ResultRows
<1> HIDE DEF turn
<1>4. scopes[i] = {h[j].id : j \in {k \in results : turn[k] = turn[i]}}
  OBVIOUS
<1> HIDE DEF scopes, results
<1>5. PICK j \in results : h[j].id = h[i].id /\ turn[j] = turn[i]
  BY <1>1, <1>4 DEF InScope, P!HasResult
<1> QED
  BY <1>2, <1>3, <1>5

\* What is owed after the first n rows: the calls in scope that have no result by then.
OwedCalls(h, n) ==
  {c \in CallRows(h) :
     /\ c <= n /\ InScope(h, c)
     /\ \A j \in ResultRows(h) : j <= n /\ Turn(h, j) = Turn(h, c) => h[j].id # h[c].id}

OwedBy(h, n) == {h[i].id : i \in OwedCalls(h, n)}

MadeBy(h, n) == {h[i].id : i \in {c \in CallRows(h) : c <= n}}

\* The result of a call that is owed is still to come, with no message of the user before it.
LEMMA OwedAhead ==
  ASSUME NEW E, NEW h \in Seq(E), NEW n \in Nat, NEW c \in OwedCalls(h, n)
  PROVE  /\ c \in CallRows(h) /\ c \in DOMAIN h /\ c <= n
         /\ \E j \in ResultRows(h) :
              /\ n < j /\ h[j].id = h[c].id /\ Turn(h, j) = Turn(h, c)
              /\ \A k \in DOMAIN h : n < k /\ k <= j => Turn(h, k) = Turn(h, c) /\ h[k].kind # "user_message"
<1>1. c \in DOMAIN h /\ c \in CallRows(h) /\ c <= n
  BY DEF CallRows, OwedCalls
<1>2. PICK j \in ResultRows(h) : h[j].id = h[c].id /\ Turn(h, j) = Turn(h, c)
  BY <1>1, InScopeIs DEF OwedCalls
<1>3. ~(j <= n)
  BY <1>2 DEF OwedCalls
<1>4. DOMAIN h \subseteq Nat /\ j \in DOMAIN h
  BY DEF ResultRows
<1>5. c \in Nat /\ j \in Nat /\ n < j
  BY <1>1, <1>3, <1>4
<1>6. ASSUME NEW k \in DOMAIN h, n < k, k <= j
      PROVE  Turn(h, k) = Turn(h, c) /\ h[k].kind # "user_message"
  <2>1. k \in Nat /\ c < k
    BY <1>1, <1>4, <1>5, <1>6
  <2>2. \A u \in DOMAIN h : u \in Nat /\ (u <= c => u <= k) /\ (u <= k => u <= j)
    BY <1>4, <1>5, <1>6, <2>1
  <2>3. Turn(h, c) \subseteq Turn(h, k) /\ Turn(h, k) \subseteq Turn(h, j)
    BY <2>2 DEF Turn
  <2>4. Turn(h, k) = Turn(h, c)
    BY <1>2, <2>3
  <2>5. k \notin Turn(h, c) /\ k <= k
    BY <1>5, <2>1 DEF Turn
  <2>6. h[k].kind # "user_message"
    BY <2>4, <2>5 DEF Turn
  <2> QED
    BY <2>4, <2>6
<1> QED
  BY <1>1, <1>2, <1>5, <1>6

LEMMA OwedNext ==
  ASSUME NEW E, NEW h \in Seq(E), Paired(h), NEW n \in Nat, n + 1 \in DOMAIN h
  PROVE  /\ n + 1 \in CallRows(h) =>
              /\ MadeBy(h, n + 1) = MadeBy(h, n) \union {h[n + 1].id} /\ h[n + 1].id \notin OwedBy(h, n)
              /\ InScope(h, n + 1) => OwedBy(h, n + 1) = OwedBy(h, n) \union {h[n + 1].id}
              /\ ~InScope(h, n + 1) => OwedBy(h, n + 1) = OwedBy(h, n)
         /\ n + 1 \notin CallRows(h) => MadeBy(h, n + 1) = MadeBy(h, n)
         /\ n + 1 \in ResultRows(h) =>
              OwedBy(h, n + 1) = OwedBy(h, n) \ {h[n + 1].id} /\ h[n + 1].id \in MadeBy(h, n)
         /\ n + 1 \notin CallRows(h) \union ResultRows(h) => OwedBy(h, n + 1) = OwedBy(h, n)
         /\ h[n + 1].kind \in {"user_message", "branch_artifact"} => OwedBy(h, n) = {}
<1> DEFINE m == n + 1
<1>1. m \in Nat /\ \A c \in Nat : c <= m <=> c <= n \/ c = m
  OBVIOUS
<1>2. ~(m <= n) /\ m \in DOMAIN h /\ n < m /\ m <= m
  OBVIOUS
<1>3. DOMAIN h \subseteq Nat
  OBVIOUS
<1>4. CallRows(h) \subseteq Nat /\ ResultRows(h) \subseteq Nat
  BY <1>3 DEF CallRows, ResultRows
<1>5. CallRows(h) \cap ResultRows(h) = {}
  BY DEF CallRows, ResultRows
<1>6. \A j \in Nat : n < j /\ j # m => m < j /\ m <= j
  OBVIOUS
<1> HIDE DEF m
<1>7. m \in CallRows(h) => MadeBy(h, m) = MadeBy(h, n) \union {h[m].id}
  BY <1>1, <1>4 DEF MadeBy
<1>8. m \notin CallRows(h) => MadeBy(h, m) = MadeBy(h, n)
  BY <1>1, <1>4 DEF MadeBy
<1>9. ASSUME m \in CallRows(h), NEW j \in ResultRows(h), j <= m, Turn(h, j) = Turn(h, m) PROVE h[j].id # h[m].id
  <2>1. PICK i \in CallRows(h) : i < j /\ Turn(h, i) = Turn(h, j) /\ h[i].id = h[j].id
    BY DEF Paired
  <2>2. i # m
    BY <1>1, <1>4, <1>9, <2>1
  <2> QED
    BY <1>9, <2>1, <2>2 DEF Paired
<1>10. ASSUME NEW c \in OwedCalls(h, n), h[m].kind # "tool_result"
       PROVE  /\ c \in CallRows(h) /\ c <= n /\ Turn(h, m) = Turn(h, c) /\ h[m].kind # "user_message"
              /\ \E j \in ResultRows(h) : m < j /\ h[j].id = h[c].id /\ Turn(h, j) = Turn(h, c)
  <2>1. PICK j \in ResultRows(h) :
              /\ n < j /\ h[j].id = h[c].id /\ Turn(h, j) = Turn(h, c)
              /\ \A k \in DOMAIN h : n < k /\ k <= j => Turn(h, k) = Turn(h, c) /\ h[k].kind # "user_message"
    BY OwedAhead
  <2>2. c \in CallRows(h) /\ c <= n
    BY OwedAhead
  <2>3. m < j /\ m <= j
    BY <1>4, <1>6, <1>10, <2>1 DEF ResultRows
  <2> QED
    BY <1>2, <2>1, <2>2, <2>3
<1>11. ASSUME m \in CallRows(h)
       PROVE  /\ h[m].id \notin OwedBy(h, n)
              /\ InScope(h, m) => OwedBy(h, m) = OwedBy(h, n) \union {h[m].id}
              /\ ~InScope(h, m) => OwedBy(h, m) = OwedBy(h, n)
  <2>1. m \notin ResultRows(h) /\ h[m].kind # "tool_result"
    BY <1>2, <1>5, <1>11 DEF ResultRows
  <2>2. h[m].id \notin OwedBy(h, n)
    <3> SUFFICES ASSUME NEW c \in OwedCalls(h, n), h[c].id = h[m].id PROVE FALSE
      BY DEF OwedBy
    <3>1. c \in CallRows(h) /\ c <= n /\ Turn(h, m) = Turn(h, c)
      BY <1>10, <2>1
    <3>2. c = m
      BY <1>11, <3>1 DEF Paired
    <3> QED
      BY <1>2, <3>1, <3>2
  <2>3. \A j \in ResultRows(h) : j <= m <=> j <= n
    BY <1>1, <1>4, <2>1
  <2>4. \A c \in CallRows(h) : c <= m <=> c <= n \/ c = m
    BY <1>1, <1>4
  <2>5. InScope(h, m) => OwedCalls(h, m) = OwedCalls(h, n) \union {m}
    BY <1>9, <1>11, <2>3, <2>4 DEF OwedCalls
  <2>6. ~InScope(h, m) => OwedCalls(h, m) = OwedCalls(h, n)
    BY <1>11, <2>3, <2>4 DEF OwedCalls
  <2> QED
    BY <2>2, <2>5, <2>6 DEF OwedBy
<1>12. ASSUME m \notin CallRows(h) PROVE \A c \in CallRows(h) : c <= m <=> c <= n
  BY <1>1, <1>4, <1>12
<1>13. ASSUME m \in ResultRows(h) PROVE OwedBy(h, m) = OwedBy(h, n) \ {h[m].id} /\ h[m].id \in MadeBy(h, n)
  <2>1. m \notin CallRows(h)
    BY <1>5, <1>13
  <2>2. \A j \in ResultRows(h) : j <= m <=> j <= n \/ j = m
    BY <1>1, <1>4
  <2>3. ASSUME NEW c \in OwedCalls(h, m) PROVE c \in OwedCalls(h, n) /\ h[c].id # h[m].id
    <3>1. c \in OwedCalls(h, n)
      BY <1>12, <2>1, <2>2, <2>3 DEF OwedCalls
    <3>2. PICK j \in ResultRows(h) :
              /\ m < j /\ h[j].id = h[c].id /\ Turn(h, j) = Turn(h, c)
              /\ \A k \in DOMAIN h : m < k /\ k <= j => Turn(h, k) = Turn(h, c) /\ h[k].kind # "user_message"
      BY <1>1, <2>3, OwedAhead
    <3>3. PICK i \in ResultRows(h) :
              /\ n < i /\ h[i].id = h[c].id /\ Turn(h, i) = Turn(h, c)
              /\ \A k \in DOMAIN h : n < k /\ k <= i => Turn(h, k) = Turn(h, c) /\ h[k].kind # "user_message"
      BY <3>1, OwedAhead
    <3>4. Turn(h, m) = Turn(h, c)
      <4>1. m <= i
        BY <1>1, <1>4, <1>6, <3>3, <1>2
      <4> QED
        BY <1>2, <3>3, <4>1
    <3>5. h[c].id # h[m].id
      BY <1>2, <1>13, <2>3, <3>4 DEF OwedCalls
    <3> QED
      BY <3>1, <3>5
  <2>4. ASSUME NEW c \in OwedCalls(h, n), h[c].id # h[m].id PROVE c \in OwedCalls(h, m)
    BY <1>12, <2>1, <2>2, <2>4 DEF OwedCalls
  <2>5. OwedBy(h, m) = OwedBy(h, n) \ {h[m].id}
    BY <2>3, <2>4 DEF OwedBy
  <2>6. PICK i \in CallRows(h) : i < m /\ h[i].id = h[m].id
    BY <1>13 DEF Paired
  <2>7. i <= n
    BY <1>1, <1>4, <2>6
  <2> QED
    BY <2>5, <2>6, <2>7 DEF MadeBy
<1>14. ASSUME m \notin CallRows(h) \union ResultRows(h) PROVE OwedBy(h, m) = OwedBy(h, n)
  <2>1. \A j \in ResultRows(h) : j <= m <=> j <= n
    BY <1>1, <1>4, <1>14
  <2>2. \A c \in CallRows(h) : c <= m <=> c <= n
    BY <1>12, <1>14
  <2>3. OwedCalls(h, m) = OwedCalls(h, n)
    BY <2>1, <2>2 DEF OwedCalls
  <2> QED
    BY <2>3 DEF OwedBy
<1>15. ASSUME h[m].kind \in {"user_message", "branch_artifact"} PROVE OwedBy(h, n) = {}
  <2> SUFFICES ASSUME NEW c \in OwedCalls(h, n) PROVE FALSE
    BY DEF OwedBy
  <2>1. c \in CallRows(h) /\ c <= n /\ h[m].kind # "user_message"
    BY <1>10, <1>15
  <2>2. PICK j \in ResultRows(h) : m < j /\ h[j].id = h[c].id /\ Turn(h, j) = Turn(h, c)
    BY <1>10, <1>15
  <2>3. PICK i \in CallRows(h) : /\ Turn(h, i) = Turn(h, j) /\ h[i].id = h[j].id
                                 /\ \A k \in DOMAIN h : i < k /\ k < j => h[k].kind # "branch_artifact"
    BY DEF Paired
  <2>4. i = c
    BY <2>1, <2>2, <2>3 DEF Paired
  <2>5. c < m
    BY <1>1, <1>2, <1>4, <2>1
  <2> QED
    BY <1>2, <1>15, <2>1, <2>2, <2>3, <2>4, <2>5
<1> QED
  BY <1>7, <1>8, <1>11, <1>13, <1>14, <1>15 DEF m

-----------------------------------------------------------------------------
\* From rows to messages.
LEMMA SaysIs ==
  ASSUME NEW J, NEW r \in {"assistant", "tool", "user"}, NEW e \in Part(J),
         e.kind = "tool-call" => r = "assistant", e.kind = "tool-result" => r = "tool"
  PROVE  /\ P!Says(r, e) \in Said(J) /\ P!Says(r, e).role = r
         /\ \A k : P!Ids(P!Says(r, e), k) = IF e.kind = k THEN {e.id} ELSE {}
<1> DEFINE m == P!Says(r, e)
<1>1. m.role = r /\ m.parts = <<e>>
  BY DEF P!Says
<1>2. m \in [role : {"assistant", "tool", "user"}, parts : Seq(Part(J))]
  BY DEF P!Says
<1>3. DOMAIN <<e>> = {1} /\ <<e>>[1] = e
  OBVIOUS
<1> HIDE DEF m
<1>4. \A k : P!Ids(m, k) = IF e.kind = k THEN {e.id} ELSE {}
  BY <1>1, <1>3 DEF P!Ids
<1>5. /\ m.role # "assistant" => P!Ids(m, "tool-call") = {}
      /\ m.role # "tool" => P!Ids(m, "tool-result") = {}
  BY <1>1, <1>4
<1>6. m \in Said(J)
  BY <1>2, <1>5 DEF Said
<1> QED
  BY <1>1, <1>4, <1>6 DEF m

\* What the messages of q, merged, come to.
Read(q, J, due, made) ==
  /\ q \in Seq(Said(J))
  /\ Walk(Merged(q)) = [owed |-> due, rejected |-> FALSE]
  /\ CallsOf(Merged(q)) = made
  /\ P!NoStrayResult(Merged(q))

LEMMA ReadNone ==
  ASSUME NEW J
  PROVE  Read(<<>>, J, {}, {})
<1>1. Merged(<<>>) = <<>> /\ Walk(<<>>) = P!OwesNothing /\ <<>> \in Seq(Said(J))
  BY MergedNone, WalkNone, MergeIsStart
<1>2. DOMAIN <<>> = {}
  OBVIOUS
<1>3. CallsOf(<<>>) = {} /\ P!NoStrayResult(<<>>)
  BY <1>2 DEF CallsOf, P!NoStrayResult
<1> QED
  BY <1>1, <1>3 DEF Read, P!OwesNothing

LEMMA ReadNext ==
  ASSUME NEW J, NEW q, NEW due, NEW made, Read(q, J, due, made), NEW m \in Said(J),
         m.role = "user" => due = {}, P!Ids(m, "tool-result") \subseteq made
  PROVE  Read(q \o <<m>>, J, (due \union P!Ids(m, "tool-call")) \ P!Ids(m, "tool-result"),
              made \union P!Ids(m, "tool-call"))
<1> DEFINE s == Merged(q)
           qm == q \o <<m>>
<1>1. q \in Seq(Said(J)) /\ Walk(s) = [owed |-> due, rejected |-> FALSE] /\ CallsOf(s) = made /\ P!NoStrayResult(s)
  BY DEF Read
<1>2. /\ qm \in Seq(Said(J)) /\ Len(qm) = Len(q) + 1 /\ qm[Len(qm)] = m
      /\ \A i \in 1 .. Len(q) : qm[i] = q[i]
  BY <1>1
<1> HIDE DEF qm
<1>3. s \in Seq(Said(J)) /\ Merged(qm) = P!Merge(s, m)
  BY <1>1, <1>2, MergedStep
<1> HIDE DEF s
<1>4. Walk(P!Merge(s, m)) = P!Owing(Walk(s), m)
  BY <1>3, WalkOfMerge
<1>5. P!Owing(Walk(s), m) =
        [owed |-> (due \union P!Ids(m, "tool-call")) \ P!Ids(m, "tool-result"), rejected |-> FALSE]
  <2> DEFINE w == Walk(s)
  <2>1. w.owed = due /\ w.rejected = FALSE
    BY <1>1
  <2> HIDE DEF w
  <2>2. (w.rejected \/ (m.role = "user" /\ w.owed # {})) = FALSE
    BY <2>1
  <2>3. P!Owing(w, m) = [owed |-> (w.owed \union P!Ids(m, "tool-call")) \ P!Ids(m, "tool-result"),
                        rejected |-> FALSE]
    BY <2>2 DEF P!Owing
  <2> QED
    BY <2>1, <2>3 DEF w
<1>6. CallsOf(P!Merge(s, m)) = made \union P!Ids(m, "tool-call") /\ P!NoStrayResult(P!Merge(s, m))
  BY <1>1, <1>3, CallsOfMerge
<1> QED
  BY <1>2, <1>3, <1>4, <1>5, <1>6 DEF Read, qm

LEMMA RawIs ==
  ASSUME NEW I, NEW row \in [kind : P!EntryKinds, id : I], NEW scope
  PROVE  P!RawMessages(row, scope) \in Seq(Said(I \union {P!NoId}))
<1> DEFINE J == I \union {P!NoId}
           call == P!Says("assistant", P!Call(row.id))
           result == P!Says("tool", P!Result(row.id))
           said == P!Says("assistant", P!Text)
           asked == P!Says("user", P!Text)
<1>1. /\ P!Call(row.id) \in Part(J) /\ P!Call(row.id).kind = "tool-call"
      /\ P!Result(row.id) \in Part(J) /\ P!Result(row.id).kind = "tool-result"
      /\ P!Text \in Part(J) /\ P!Text.kind = "text"
  BY DEF P!Call, P!Result, P!Text, Part
<1> HIDE DEF J
<1>2. call \in Said(J) /\ result \in Said(J) /\ said \in Said(J) /\ asked \in Said(J)
  BY <1>1, SaysIs
<1>3. row.kind \in P!EntryKinds
  OBVIOUS
<1>4. P!RawMessages(row, scope) \in {<<>>, <<call>>, <<call, result>>, <<result>>, <<asked>>, <<said>>}
  <2> HIDE DEF call, result, said, asked
  <2> QED
    BY <1>3 DEF P!RawMessages, P!EntryKinds, P!ExcludedKinds, call, result, said, asked
<1> HIDE DEF call, result, said, asked
<1>5. {<<>>, <<call>>, <<call, result>>, <<result>>, <<asked>>, <<said>>} \subseteq Seq(Said(J))
  <2> DEFINE M == Said(J)
  <2> HIDE DEF M
  <2>1. call \in M /\ result \in M /\ said \in M /\ asked \in M
    BY <1>2 DEF M
  <2>2. <<>> \in Seq(M) /\ <<call>> \in Seq(M) /\ <<call, result>> \in Seq(M)
    BY <2>1
  <2>3. <<result>> \in Seq(M) /\ <<asked>> \in Seq(M) /\ <<said>> \in Seq(M)
    BY <2>1
  <2> QED
    BY <2>2, <2>3 DEF M
<1> QED
  BY <1>4, <1>5 DEF J

LEMMA OneAndOne ==
  ASSUME NEW M, NEW q \in Seq(M), NEW a \in M, NEW b \in M
  PROVE  (q \o <<a>>) \o <<b>> = q \o <<a, b>>
<1> DEFINE x == (q \o <<a>>) \o <<b>>
           y == q \o <<a, b>>
           n == Len(q)
<1>2. n \in Nat /\ <<a>> \in Seq(M) /\ <<b>> \in Seq(M) /\ <<a, b>> \in Seq(M)
  OBVIOUS
<1>3. Len(<<a>>) = 1 /\ Len(<<b>>) = 1 /\ Len(<<a, b>>) = 2
  OBVIOUS
<1>4. x \in Seq(M) /\ Len(x) = n + 2 /\ y \in Seq(M) /\ Len(y) = n + 2
  BY <1>2, <1>3
<1>5. \A i \in 1 .. n + 2 : x[i] = IF i <= n THEN q[i] ELSE IF i = n + 1 THEN a ELSE b
  BY <1>2, <1>3
<1>6. \A i \in 1 .. n + 2 : y[i] = IF i <= n THEN q[i] ELSE IF i = n + 1 THEN a ELSE b
  BY <1>2, <1>3
<1> HIDE DEF x, y, n
<1>7. x = y
  BY <1>4, <1>5, <1>6
<1> QED
  BY <1>7 DEF x, y

LEMMA AndNone ==
  ASSUME NEW M, NEW q \in Seq(M)
  PROVE  q \o <<>> = q
OBVIOUS

LEMMA ElementIs ==
  ASSUME NEW E, NEW h \in Seq(E), NEW i \in DOMAIN h
  PROVE  h[i] \in E
OBVIOUS

\* One row more: what its messages add is what OwedBy and MadeBy say.
LEMMA RowRead ==
  ASSUME NEW I, NEW h \in Seq([kind : P!EntryKinds, id : I]), Paired(h), NEW n \in Nat, n + 1 \in DOMAIN h,
         NEW q, Read(q, I \union {P!NoId}, OwedBy(h, n), MadeBy(h, n))
  PROVE  /\ P!RawMessages(h[n + 1], P!ResultScopes(h)[n + 1]) \in Seq(Said(I \union {P!NoId}))
         /\ Read(q \o P!RawMessages(h[n + 1], P!ResultScopes(h)[n + 1]), I \union {P!NoId},
                 OwedBy(h, n + 1), MadeBy(h, n + 1))
<1> DEFINE J == I \union {P!NoId}
           m == n + 1
           row == h[m]
           scope == P!ResultScopes(h)[m]
           raw == P!RawMessages(row, scope)
           call == P!Says("assistant", P!Call(row.id))
           result == P!Says("tool", P!Result(row.id))
           said == P!Says("assistant", P!Text)
           asked == P!Says("user", P!Text)
<1>1. row.kind \in P!EntryKinds /\ row.id \in J
  <2>1. h[n + 1] \in [kind : P!EntryKinds, id : I]
    BY ElementIs
  <2> QED
    BY <2>1
<1>2. /\ call \in Said(J) /\ call.role = "assistant"
      /\ P!Ids(call, "tool-call") = {row.id} /\ P!Ids(call, "tool-result") = {}
  <2>1. P!Call(row.id) \in Part(J) /\ P!Call(row.id).kind = "tool-call" /\ P!Call(row.id).id = row.id
    BY <1>1 DEF P!Call, Part
  <2> HIDE DEF J, row
  <2> QED
    BY <2>1, SaysIs
<1>3. /\ result \in Said(J) /\ result.role = "tool"
      /\ P!Ids(result, "tool-call") = {} /\ P!Ids(result, "tool-result") = {row.id}
  <2>1. P!Result(row.id) \in Part(J) /\ P!Result(row.id).kind = "tool-result" /\ P!Result(row.id).id = row.id
    BY <1>1 DEF P!Result, Part
  <2> HIDE DEF J, row
  <2> QED
    BY <2>1, SaysIs
<1>4. P!Text \in Part(J) /\ P!Text.kind = "text"
  BY DEF P!Text, Part
<1>5. /\ said \in Said(J) /\ said.role = "assistant"
      /\ P!Ids(said, "tool-call") = {} /\ P!Ids(said, "tool-result") = {}
  <2> HIDE DEF J, row
  <2> QED
    BY <1>4, SaysIs
<1>6. /\ asked \in Said(J) /\ asked.role = "user"
      /\ P!Ids(asked, "tool-call") = {} /\ P!Ids(asked, "tool-result") = {}
  <2> HIDE DEF J, row
  <2> QED
    BY <1>4, SaysIs
<1>7. /\ m \in CallRows(h) => row.kind \in {"tool_call", "choices"}
      /\ row.kind \in {"tool_call", "choices"} => m \in CallRows(h)
      /\ m \in ResultRows(h) => row.kind = "tool_result"
      /\ row.kind = "tool_result" => m \in ResultRows(h)
      /\ InScope(h, m) <=> P!HasResult(row, scope)
  BY DEF CallRows, ResultRows, InScope
<1>8. /\ m \in CallRows(h) =>
           /\ MadeBy(h, m) = MadeBy(h, n) \union {row.id} /\ row.id \notin OwedBy(h, n)
           /\ InScope(h, m) => OwedBy(h, m) = OwedBy(h, n) \union {row.id}
           /\ ~InScope(h, m) => OwedBy(h, m) = OwedBy(h, n)
      /\ m \notin CallRows(h) => MadeBy(h, m) = MadeBy(h, n)
      /\ m \in ResultRows(h) => OwedBy(h, m) = OwedBy(h, n) \ {row.id} /\ row.id \in MadeBy(h, n)
      /\ m \notin CallRows(h) \union ResultRows(h) => OwedBy(h, m) = OwedBy(h, n)
      /\ row.kind \in {"user_message", "branch_artifact"} => OwedBy(h, n) = {}
  BY OwedNext
<1>9. Read(q, J, OwedBy(h, n), MadeBy(h, n)) /\ q \in Seq(Said(J))
  BY DEF Read
<1>10. raw = CASE row.kind \in P!ExcludedKinds -> <<>>
               [] row.kind \in {"tool_call", "choices"} /\ P!HasResult(row, scope) -> <<call>>
               [] row.kind \in {"tool_call", "choices"} /\ ~P!HasResult(row, scope) -> <<call, result>>
               [] row.kind = "tool_result" -> <<result>>
               [] row.kind \in {"user_message", "branch_artifact"} -> <<asked>>
               [] row.kind = "assistant_message" -> <<said>>
  BY DEF P!RawMessages
<1> HIDE DEF J, m, row, scope, raw, call, result, said, asked
<1> SUFFICES raw \in Seq(Said(J)) /\ Read(q \o raw, J, OwedBy(h, m), MadeBy(h, m))
  BY DEF raw, J, m, row, scope
<1>11. CASE row.kind \in P!ExcludedKinds
  <2>1. raw = <<>>
    BY <1>10, <1>11 DEF P!ExcludedKinds
  <2>3. q \o raw = q
    BY <1>9, <2>1, AndNone
  <2>2. m \notin CallRows(h) /\ m \notin ResultRows(h)
    BY <1>7, <1>11 DEF P!ExcludedKinds
  <2> QED
    BY <1>8, <1>9, <2>1, <2>2, <2>3, MergeIsStart
<1>12. CASE row.kind \in {"tool_call", "choices"} /\ P!HasResult(row, scope)
  <2>1. raw = <<call>>
    BY <1>10, <1>12 DEF P!ExcludedKinds
  <2>2. Read(q \o <<call>>, J, (OwedBy(h, n) \union {row.id}) \ {}, MadeBy(h, n) \union {row.id})
    <3>1. {} \subseteq MadeBy(h, n) /\ (call.role = "user" => OwedBy(h, n) = {})
      BY <1>2
    <3> QED
      BY <1>2, <1>9, <3>1, ReadNext
  <2>3. (OwedBy(h, n) \union {row.id}) \ {} = OwedBy(h, n) \union {row.id}
    OBVIOUS
  <2>4. OwedBy(h, m) = OwedBy(h, n) \union {row.id} /\ MadeBy(h, m) = MadeBy(h, n) \union {row.id}
    BY <1>7, <1>8, <1>12
  <2> QED
    BY <1>2, <2>1, <2>2, <2>3, <2>4
<1>13. CASE row.kind \in {"tool_call", "choices"} /\ ~P!HasResult(row, scope)
  <2>1. raw = <<call, result>>
    BY <1>10, <1>13 DEF P!ExcludedKinds
  <2>2. Read(q \o <<call>>, J, (OwedBy(h, n) \union {row.id}) \ {}, MadeBy(h, n) \union {row.id})
    <3>1. {} \subseteq MadeBy(h, n) /\ (call.role = "user" => OwedBy(h, n) = {})
      BY <1>2
    <3> QED
      BY <1>2, <1>9, <3>1, ReadNext
  <2>3. Read((q \o <<call>>) \o <<result>>, J, (((OwedBy(h, n) \union {row.id}) \ {}) \union {}) \ {row.id},
             (MadeBy(h, n) \union {row.id}) \union {})
    <3>1. {row.id} \subseteq MadeBy(h, n) \union {row.id}
      OBVIOUS
    <3>2. result.role = "user" => (OwedBy(h, n) \union {row.id}) \ {} = {}
      BY <1>3
    <3> QED
      BY <1>3, <2>2, <3>1, <3>2, ReadNext
  <2>4. m \in CallRows(h) /\ ~InScope(h, m)
    BY <1>7, <1>13
  <2>5. (((OwedBy(h, n) \union {row.id}) \ {}) \union {}) \ {row.id} = OwedBy(h, n)
    BY <1>8, <2>4
  <2>6. OwedBy(h, m) = OwedBy(h, n) /\ MadeBy(h, m) = (MadeBy(h, n) \union {row.id}) \union {}
    BY <1>8, <2>4
  <2>7. (q \o <<call>>) \o <<result>> = q \o <<call, result>>
    <3> DEFINE M == Said(J)
    <3>1. q \in Seq(M) /\ call \in M /\ result \in M
      BY <1>2, <1>3, <1>9
    <3> HIDE DEF M
    <3> QED
      BY <3>1, OneAndOne, ZenonT(30)
  <2> QED
    BY <1>2, <1>3, <2>1, <2>3, <2>5, <2>6, <2>7
<1>14. CASE row.kind = "tool_result"
  <2>1. raw = <<result>>
    BY <1>10, <1>14 DEF P!ExcludedKinds
  <2>2. m \in ResultRows(h) /\ m \notin CallRows(h)
    BY <1>7, <1>14
  <2>3. OwedBy(h, m) = (OwedBy(h, n) \union {}) \ {row.id} /\ MadeBy(h, m) = MadeBy(h, n) \union {}
        /\ {row.id} \subseteq MadeBy(h, n)
    BY <1>8, <2>2
  <2>4. Read(q \o <<result>>, J, (OwedBy(h, n) \union {}) \ {row.id}, MadeBy(h, n) \union {})
    <3>1. result.role = "user" => OwedBy(h, n) = {}
      BY <1>3
    <3> QED
      BY <1>3, <1>9, <2>3, <3>1, ReadNext
  <2> QED
    BY <1>3, <2>1, <2>3, <2>4
<1>15. CASE row.kind \in {"user_message", "branch_artifact"}
  <2>1. raw = <<asked>>
    BY <1>10, <1>15 DEF P!ExcludedKinds
  <2>2. m \notin ResultRows(h) /\ m \notin CallRows(h)
    BY <1>7, <1>15
  <2>3. OwedBy(h, n) = {} /\ OwedBy(h, m) = (OwedBy(h, n) \union {}) \ {} /\ MadeBy(h, m) = MadeBy(h, n) \union {}
    BY <1>8, <1>15, <2>2
  <2>4. Read(q \o <<asked>>, J, (OwedBy(h, n) \union {}) \ {}, MadeBy(h, n) \union {})
    <3>1. {} \subseteq MadeBy(h, n)
      OBVIOUS
    <3> QED
      BY <1>6, <1>9, <2>3, <3>1, ReadNext
  <2> QED
    BY <1>6, <2>1, <2>3, <2>4
<1>16. CASE row.kind = "assistant_message"
  <2>1. raw = <<said>>
    BY <1>10, <1>16 DEF P!ExcludedKinds
  <2>2. m \notin ResultRows(h) /\ m \notin CallRows(h)
    BY <1>7, <1>16
  <2>3. OwedBy(h, m) = (OwedBy(h, n) \union {}) \ {} /\ MadeBy(h, m) = MadeBy(h, n) \union {}
    BY <1>8, <2>2
  <2>4. Read(q \o <<said>>, J, (OwedBy(h, n) \union {}) \ {}, MadeBy(h, n) \union {})
    <3>1. {} \subseteq MadeBy(h, n) /\ (said.role = "user" => OwedBy(h, n) = {})
      BY <1>5
    <3> QED
      BY <1>5, <1>9, <3>1, ReadNext
  <2> QED
    BY <1>5, <2>1, <2>3, <2>4
<1> QED
  BY <1>1, <1>11, <1>12, <1>13, <1>14, <1>15, <1>16 DEF P!EntryKinds

\* After all rows nothing is owed: a call is in scope because it has its result.
LEMMA NothingOwed ==
  ASSUME NEW E, NEW h \in Seq(E)
  PROVE  OwedBy(h, Len(h)) = {}
<1> SUFFICES ASSUME NEW c \in OwedCalls(h, Len(h)) PROVE FALSE
  BY DEF OwedBy
<1>1. Len(h) \in Nat /\ DOMAIN h = 1 .. Len(h)
  OBVIOUS
<1>2. PICK j \in ResultRows(h) : Len(h) < j
  BY <1>1, OwedAhead
<1>3. j \in 1 .. Len(h)
  BY <1>1 DEF ResultRows
<1> QED
  BY <1>1, <1>2, <1>3

LEMMA NothingYet ==
  ASSUME NEW E, NEW h \in Seq(E)
  PROVE  OwedBy(h, 0) = {} /\ MadeBy(h, 0) = {}
<1>1. \A c \in CallRows(h) : ~(c <= 0)
  <2>1. DOMAIN h = 1 .. Len(h)
    OBVIOUS
  <2> QED
    BY <2>1 DEF CallRows
<1> QED
  BY <1>1 DEF OwedBy, OwedCalls, MadeBy

\* projection.ts: whatever the rows of a chat are, and whatever cut its turns short, if the
\* calls of a turn have distinct ids and results follow their calls, with no branch artifact
\* between, then projectEntries makes a request that providers accept; ids may repeat from turn
\* to turn.
THEOREM ProjectionIsAccepted ==
  ASSUME NEW I, NEW h \in Seq([kind : P!EntryKinds, id : I]), Paired(h)
  PROVE  P!NoDanglingCall(P!ProjectEntries(h)) /\ P!NoStrayResult(P!ProjectEntries(h))
<1> DEFINE J == I \union {P!NoId}
           M == Said(J)
           n == Len(h)
           raw == [i \in 1 .. n |-> P!RawMessages(h[i], P!ResultScopes(h)[i])]
<1>1. n \in Nat /\ DOMAIN h = 1 .. n
  OBVIOUS
<1>2. \A i \in 1 .. n : raw[i] = P!RawMessages(h[i], P!ResultScopes(h)[i])
  OBVIOUS
<1>3. P!ProjectEntries(h) = Merged(P!FlattenSeq(raw))
  BY DEF P!ProjectEntries, Merged
<1> HIDE DEF n
<1>4. ASSUME NEW i \in 1 .. n PROVE P!RawMessages(h[i], P!ResultScopes(h)[i]) \in Seq(M)
  <2>1. h[i] \in [kind : P!EntryKinds, id : I]
    BY <1>1, ElementIs
  <2> QED
    BY <2>1, RawIs
<1>5. raw \in [1 .. n -> Seq(M)]
  BY <1>4
<1> HIDE DEF raw, M
<1>6. PICK f : FlatRun(f, M, raw, n)
  BY <1>1, <1>5, FlatRuns
<1> DEFINE Has(i) == i <= n => Read(f[i], J, OwedBy(h, i), MadeBy(h, i))
           S == {i \in Nat : Has(i)}
<1>7. Has(0)
  BY <1>6, ReadNone, NothingYet DEF FlatRun
<1>8. ASSUME NEW i \in Nat, Has(i) PROVE Has(i + 1)
  <2> SUFFICES ASSUME i + 1 <= n PROVE Read(f[i + 1], J, OwedBy(h, i + 1), MadeBy(h, i + 1))
    OBVIOUS
  <2>1. i <= n /\ i + 1 \in 1 .. n /\ (i + 1) - 1 = i
    BY <1>1
  <2>2. Read(f[i], J, OwedBy(h, i), MadeBy(h, i))
    BY <1>8, <2>1
  <2>3. Read(f[i] \o raw[i + 1], J, OwedBy(h, i + 1), MadeBy(h, i + 1))
    <3>1. i + 1 \in DOMAIN h
      BY <1>1, <2>1
    <3> QED
      BY <1>2, <2>1, <2>2, <3>1, RowRead
  <2>4. f[i + 1] = f[i] \o raw[i + 1]
    BY <1>6, <2>1 DEF FlatRun
  <2> QED
    BY <2>3, <2>4
<1>9. Has(n)
  <2> HIDE DEF Has
  <2>1. 0 \in S /\ \A i \in Nat : i \in S => i + 1 \in S
    BY <1>7, <1>8
  <2> QED
    BY <1>1, <2>1, NatsByInduction
<1>10. Read(f[n], J, {}, MadeBy(h, n))
  <2>1. n <= n
    BY <1>1
  <2> QED
    BY <1>9, <2>1, NothingOwed DEF n
<1>11. P!ProjectEntries(h) = Merged(f[n])
  BY <1>3, <1>6 DEF FlatRun
<1> QED
  BY <1>10, <1>11 DEF Read, P!NoDanglingCall, Walk, P!OwesNothing

-----------------------------------------------------------------------------
\* The calls a batch has not listed yet.
Unlisted == {"absent", "emitted"}

\* The rows of calls, of those that present choices too, are of the iterations up to this
\* one; those of its own are of calls its batch has listed.
CallsOfThePast ==
  toolsOn => \A i \in Indices({"call", "choices"}) :
    /\ pc \in Before => rows[i].iter < iteration
    /\ pc \in Batch => rows[i].iter <= iteration
    /\ pc \in Batch /\ rows[i].iter = iteration =>
         rows[i].slot \in Slots /\ stage[rows[i].slot] \notin Unlisted

OneCallEach ==
  \A i, j \in Indices({"call", "choices"}) :
    rows[i].iter = rows[j].iter /\ rows[i].slot = rows[j].slot => i = j

ResultsHaveCalls ==
  \A j \in Indices({"result"}) : \E i \in Indices({"call"}) :
    i < j /\ rows[i].iter = rows[j].iter /\ rows[i].slot = rows[j].slot

ListedHaveRows ==
  /\ \A s \in Called : stage[s] # "absent"
  /\ pc \in Before \ {"top"} => \A s \in Slots : stage[s] \in Unlisted
  /\ toolsOn /\ pc \in Batch => \A s \in Called :
       calls[s] # "choices" /\ stage[s] \notin Unlisted =>
         \E i \in Indices({"call"}) : rows[i].iter = iteration /\ rows[i].slot = s

Lineage == CallsOfThePast /\ OneCallEach /\ ResultsHaveCalls /\ ListedHaveRows

LineageInv == AnswerInv /\ Lineage

\* The rows of calls, choices and results are as they were.
SameLineage ==
  /\ Indices({"call", "choices"})' = Indices({"call", "choices"})
  /\ Indices({"call"})' = Indices({"call"})
  /\ Indices({"result"})' = Indices({"result"})
  /\ \A i \in Indices({"call", "choices"}) : rows'[i] = rows[i]
  /\ \A i \in Indices({"call"}) : rows'[i] = rows[i]
  /\ \A i \in Indices({"result"}) : rows'[i] = rows[i]

LEMMA LineageKept == ASSUME UNCHANGED rows PROVE SameLineage
BY DEF SameLineage, Indices

\* What a new row adds.
LEMMA RowAdds ==
  ASSUME TypeOK, NEW k, NEW s, Append1(k, s), NEW n, n = Len(rows) + 1
  PROVE  /\ n \in Nat /\ DOMAIN rows \subseteq Nat /\ \A i \in DOMAIN rows : i < n
         /\ \A i \in DOMAIN rows : rows'[i] = rows[i]
         /\ rows'[n] = [kind |-> k, iter |-> iteration, slot |-> s]
         /\ \A kinds : Indices(kinds)' = Indices(kinds) \union (IF k \in kinds THEN {n} ELSE {})
         /\ \A kinds : Indices(kinds) \subseteq DOMAIN rows
<1>1. /\ Len(rows) + 1 \in Nat /\ DOMAIN rows = 1..Len(rows)
      /\ DOMAIN rows' = 1..(Len(rows) + 1)
      /\ \A i \in DOMAIN rows : rows'[i] = rows[i]
      /\ rows'[Len(rows) + 1] = [kind |-> k, iter |-> iteration, slot |-> s]
  BY Appended
<1>2. Len(rows) \in Nat /\ rows'[n].kind = k
  BY <1>1 DEF TypeOK
<1>3. DOMAIN rows' = DOMAIN rows \union {n}
  BY <1>1, <1>2
<1>4. \A i \in DOMAIN rows : rows'[i].kind = rows[i].kind
  BY <1>1
<1>5. ASSUME NEW kinds PROVE Indices(kinds)' = Indices(kinds) \union (IF k \in kinds THEN {n} ELSE {})
  BY <1>2, <1>3, <1>4 DEF Indices
<1>6. n \in Nat /\ DOMAIN rows \subseteq Nat /\ \A i \in DOMAIN rows : i < n
  BY <1>1, <1>2
<1>7. \A kinds : Indices(kinds) \subseteq DOMAIN rows
  BY DEF Indices
<1> QED
  BY <1>1, <1>5, <1>6, <1>7

LEMMA LineageOfOthers ==
  ASSUME TypeOK, NEW k, NEW s, Append1(k, s), k \notin {"call", "choices", "result"}
  PROVE  SameLineage
<1> DEFINE n == Len(rows) + 1
<1> HIDE DEF n
<1>1. /\ \A i \in DOMAIN rows : rows'[i] = rows[i]
      /\ \A kinds : Indices(kinds)' = Indices(kinds) \union (IF k \in kinds THEN {n} ELSE {})
      /\ \A kinds : Indices(kinds) \subseteq DOMAIN rows
  BY RowAdds DEF n
<1>2. /\ Indices({"call", "choices"})' = Indices({"call", "choices"})
      /\ Indices({"call"})' = Indices({"call"})
      /\ Indices({"result"})' = Indices({"result"})
  BY <1>1
<1> QED
  BY <1>1, <1>2 DEF SameLineage

\* What holds of the rows alone holds as long as they are as they were.
LEMMA RowPartsKept ==
  ASSUME OneCallEach, ResultsHaveCalls, SameLineage
  PROVE  OneCallEach' /\ ResultsHaveCalls'
<1>1. OneCallEach'
  BY DEF OneCallEach, SameLineage
<1>2. ResultsHaveCalls'
  BY DEF ResultsHaveCalls, SameLineage
<1> QED
  BY <1>1, <1>2

\* A step outside the handling of a batch.
LEMMA LineageOutside ==
  ASSUME LineageInv, Outside, SameLineage,
         pc' \in (Before \ {"top"}) \union {"listing"} => \A s \in Slots : stage'[s] \in Unlisted,
         \A s \in Called' : stage'[s] # "absent"
  PROVE  Lineage'
<1> USE DEF LineageInv, Lineage
<1>1. /\ toolsOn' => toolsOn /\ iteration' = iteration
      /\ toolsOn' /\ pc' \in Before \union {"listing"} => pc \in Before
      /\ pc' \notin {"lanes", "answering"}
  BY DEF Outside
<1>2. /\ iteration \in Nat /\ \A i \in Indices({"call", "choices"}) : rows[i].iter \in Nat
  BY RowTypes DEF AnswerInv, GenInv, TypeInv
<1>3. CallsOfThePast'
  <2> SUFFICES ASSUME toolsOn', NEW i \in Indices({"call", "choices"})', pc' \in Before \union Batch
               PROVE  rows'[i].iter < iteration' /\ rows'[i].iter <= iteration' /\ rows'[i].iter # iteration'
    BY DEF CallsOfThePast
  <2>1. pc \in Before /\ toolsOn /\ iteration' = iteration
    BY <1>1 DEF Batch
  <2>2. i \in Indices({"call", "choices"}) /\ rows'[i] = rows[i]
    BY DEF SameLineage
  <2>3. rows[i].iter < iteration
    BY <2>1, <2>2 DEF CallsOfThePast
  <2> QED
    BY <1>2, <2>1, <2>2, <2>3
<1>4. ListedHaveRows'
  <2>1. Called' \subseteq Slots
    BY DEF Called
  <2>2. pc' \in Batch => \A s \in Called' : stage'[s] \in Unlisted
    BY <1>1, <2>1 DEF Batch
  <2> QED
    BY <1>1, <2>2 DEF ListedHaveRows
<1> QED
  BY <1>3, <1>4, RowPartsKept

\* A step while the batch is handled, that lists no call and answers none.
LEMMA LineageInside ==
  ASSUME LineageInv, SameLineage, UNCHANGED <<toolsOn, iteration, calls>>,
         pc' = pc \/ (pc = "lanes" /\ pc' = "answering"),
         \A s \in Slots : stage'[s] \in Unlisted <=> stage[s] \in Unlisted,
         \A s \in Slots : stage'[s] = "absent" => stage[s] = "absent"
  PROVE  Lineage'
<1> USE DEF LineageInv, Lineage
<1>1. Called' = Called /\ Called \subseteq Slots
  BY DEF Called
<1>2. (pc' \in Before <=> pc \in Before) /\ (pc' \in Batch <=> pc \in Batch)
      /\ (pc' \in Before \ {"top"} <=> pc \in Before \ {"top"})
  BY DEF Before, Batch
<1>3. CallsOfThePast'
  BY <1>2 DEF CallsOfThePast, SameLineage
<1>4. ListedHaveRows'
  BY <1>1, <1>2 DEF ListedHaveRows, SameLineage
<1> QED
  BY <1>3, <1>4, RowPartsKept

LEMMA LineageOfListing ==
  ASSUME LineageInv, NEW s \in Slots, ListCall(s)
  PROVE  Lineage'
<1> USE DEF LineageInv, Lineage
<1> DEFINE n == Len(rows) + 1
           k == IF calls[s] = "choices" THEN "choices" ELSE "call"
<1>1. /\ pc = "listing" /\ pc' \in {"listing", "lanes"}
      /\ UNCHANGED <<toolsOn, iteration, calls>> /\ Called' = Called /\ Called \subseteq Slots
  BY DEF ListCall, Goto, texts, Called
<1>2. s \in Called /\ toolsOn /\ stage[s] = "emitted"
  BY CalledWithTools DEF ListCall
<1>3. TypeOK /\ Append1(k, s)
  BY DEF ListCall, AnswerInv, GenInv, TypeInv
<1>4. stage \in [Slots -> Stage] /\ iteration \in Nat /\ \A i \in DOMAIN rows : rows[i].iter \in Nat
  BY <1>3, RowTypes DEF TypeOK
<1>5. stage'[s] \in {"listed", "asking"}
  BY <1>4 DEF ListCall
<1>6. ASSUME NEW t \in Slots, t # s
      PROVE  (stage'[t] \in Unlisted <=> stage[t] \in Unlisted) /\ (stage'[t] = "absent" => stage[t] = "absent")
  <2>1. CASE stage'[t] = stage[t]
    BY <2>1
  <2>2. CASE stage'[t] # stage[t]
    <3>1. s = Len(calls) /\ t \in HighCalls /\ stage'[t] = "asking"
      BY <1>4, <1>6, <2>2 DEF ListCall
    <3>2. t \in 1 .. s - 1 /\ t \in Called
      BY <1>6, <3>1, SlotIsNat, TurnAssumption DEF HighCalls, Called, Slots
    <3>3. stage[t] \notin Unlisted
      BY <3>2 DEF ListCall, ListedHaveRows, Unlisted
    <3> QED
      BY <3>1, <3>3 DEF Unlisted
  <2> QED
    BY <2>1, <2>2
<1>7. /\ n \in Nat /\ DOMAIN rows \subseteq Nat /\ \A i \in DOMAIN rows : i < n
      /\ \A i \in DOMAIN rows : rows'[i] = rows[i]
      /\ rows'[n] = [kind |-> k, iter |-> iteration, slot |-> s]
      /\ \A kinds : Indices(kinds)' = Indices(kinds) \union (IF k \in kinds THEN {n} ELSE {})
      /\ \A kinds : Indices(kinds) \subseteq DOMAIN rows
  <2> HIDE DEF k
  <2> QED
    BY <1>3, RowAdds
<1>8. rows'[n].iter = iteration /\ rows'[n].slot = s
  BY <1>7
<1>9. /\ Indices({"call", "choices"})' = Indices({"call", "choices"}) \union {n}
      /\ Indices({"result"})' = Indices({"result"})
      /\ Indices({"call"}) \subseteq Indices({"call"})'
      /\ calls[s] # "choices" => Indices({"call"})' = Indices({"call"}) \union {n}
  BY <1>7
<1> HIDE DEF n, k
<1>10. CallsOfThePast'
  <2> SUFFICES ASSUME NEW i \in Indices({"call", "choices"}) \union {n}
               PROVE  /\ rows'[i].iter <= iteration
                      /\ rows'[i].iter = iteration =>
                           rows'[i].slot \in Slots /\ stage'[rows'[i].slot] \notin Unlisted
    BY <1>1, <1>9 DEF CallsOfThePast, Before
  <2>1. CASE i = n
    BY <1>4, <1>5, <1>8, <2>1 DEF Unlisted
  <2>2. CASE i \in Indices({"call", "choices"})
    <3>1. rows'[i] = rows[i]
      BY <1>7, <2>2
    <3>2. /\ rows[i].iter <= iteration
          /\ rows[i].iter = iteration => rows[i].slot \in Slots /\ stage[rows[i].slot] \notin Unlisted
      BY <1>1, <1>2, <2>2 DEF CallsOfThePast, Batch
    <3> QED
      BY <1>2, <1>6, <3>1, <3>2 DEF Unlisted
  <2> QED
    BY <2>1, <2>2
<1>11. OneCallEach'
  <2>1. ASSUME NEW i \in Indices({"call", "choices"}), rows[i].iter = iteration PROVE rows[i].slot # s
    BY <1>1, <1>2, <2>1 DEF CallsOfThePast, Batch, Unlisted
  <2>2. \A i \in Indices({"call", "choices"}) : rows'[i] = rows[i]
    BY <1>7
  <2> QED
    BY <1>8, <1>9, <2>1, <2>2 DEF OneCallEach
<1>12. ResultsHaveCalls'
  <2>1. \A i \in Indices({"call"}) \union Indices({"result"}) : rows'[i] = rows[i]
    BY <1>7
  <2> QED
    BY <1>9, <2>1 DEF ResultsHaveCalls
<1>13. ListedHaveRows'
  <2>1. \A t \in Called : stage'[t] # "absent"
    BY <1>1, <1>5, <1>6 DEF ListedHaveRows
  <2>2. ASSUME NEW t \in Called, calls[t] # "choices", stage'[t] \notin Unlisted
        PROVE  \E i \in Indices({"call"})' : rows'[i].iter = iteration /\ rows'[i].slot = t
    <3>1. CASE t = s
      BY <1>8, <1>9, <2>2, <3>1
    <3>2. CASE t # s
      <4>1. stage[t] \notin Unlisted
        BY <1>1, <1>6, <2>2, <3>2
      <4>2. PICK i \in Indices({"call"}) : rows[i].iter = iteration /\ rows[i].slot = t
        BY <1>1, <1>2, <2>2, <4>1 DEF ListedHaveRows, Batch
      <4> QED
        BY <1>7, <1>9, <4>2
    <3> QED
      BY <3>1, <3>2
  <2>3. pc' \notin Before
    BY <1>1 DEF Before
  <2> QED
    BY <1>1, <2>1, <2>2, <2>3 DEF ListedHaveRows
<1> QED
  BY <1>10, <1>11, <1>12, <1>13

LEMMA LineageOfAnswer ==
  ASSUME LineageInv, NEW s \in Slots, Answer(s)
  PROVE  Lineage'
<1> USE DEF LineageInv, Lineage
<1> DEFINE n == Len(rows) + 1
<1>1. /\ pc = "answering" /\ pc' = pc /\ stage[s] \in Resolved
      /\ UNCHANGED <<toolsOn, iteration, calls>>
  BY DEF Answer, control, texts
<1>2. s \in Called /\ toolsOn
  BY <1>1, CalledWithTools DEF Resolved
<1>3. TypeOK
  BY DEF AnswerInv, GenInv, TypeInv
<1>4. stage'[s] = "answered" /\ \A t \in Slots : t # s => stage'[t] = stage[t]
  BY <1>3 DEF Answer, TypeOK
<1>5. \A t \in Slots : /\ stage'[t] \in Unlisted <=> stage[t] \in Unlisted
                       /\ stage'[t] = "absent" => stage[t] = "absent"
  BY <1>1, <1>4 DEF Resolved, Unlisted
<1>6. CASE calls[s] = "choices"
  BY <1>1, <1>5, <1>6, LineageKept, LineageInside DEF Answer
<1>7. CASE calls[s] # "choices"
  <2>1. /\ n \in Nat /\ DOMAIN rows \subseteq Nat /\ \A i \in DOMAIN rows : i < n
        /\ \A i \in DOMAIN rows : rows'[i] = rows[i]
        /\ rows'[n] = [kind |-> "result", iter |-> iteration, slot |-> s]
        /\ \A kinds : Indices(kinds)' = Indices(kinds) \union (IF "result" \in kinds THEN {n} ELSE {})
        /\ \A kinds : Indices(kinds) \subseteq DOMAIN rows
    BY <1>3, <1>7, RowAdds DEF Answer
  <2>2. rows'[n].iter = iteration /\ rows'[n].slot = s
    BY <2>1
  <2>3. /\ Indices({"call", "choices"})' = Indices({"call", "choices"})
        /\ Indices({"call"})' = Indices({"call"})
        /\ Indices({"result"})' = Indices({"result"}) \union {n}
    BY <2>1
  <2> HIDE DEF n
  <2>4. /\ \A i \in Indices({"call", "choices"}) : rows'[i] = rows[i]
        /\ \A i \in Indices({"call"}) : rows'[i] = rows[i] /\ i < n
        /\ \A i \in Indices({"result"}) : rows'[i] = rows[i]
    BY <2>1
  <2>5. CallsOfThePast'
    BY <1>1, <1>5, <2>3, <2>4 DEF CallsOfThePast
  <2>6. OneCallEach'
    BY <2>3, <2>4 DEF OneCallEach
  <2>7. PICK c \in Indices({"call"}) : rows[c].iter = iteration /\ rows[c].slot = s
    BY <1>1, <1>2, <1>7 DEF ListedHaveRows, Batch, Unlisted, Resolved
  <2>8. ResultsHaveCalls'
    BY <2>2, <2>3, <2>4, <2>7 DEF ResultsHaveCalls
  <2>9. ListedHaveRows'
    <3>1. Called' = Called /\ Called \subseteq Slots
      BY <1>1 DEF Called
    <3> QED
      BY <1>1, <1>5, <2>3, <2>4, <3>1 DEF ListedHaveRows
  <2> QED
    BY <2>5, <2>6, <2>8, <2>9
<1> QED
  BY <1>6, <1>7

\* What the turn does between two batches leaves the rows of calls and results alone.
LEMMA LineageBetween ==
  ASSUME LineageInv,
         \/ Top \/ Streaming \/ AppendReasoning \/ Judge \/ AppendPartial \/ AppendDraft
         \/ Critic \/ AppendFinal \/ ToolsBlamed \/ Fails \/ Finally \/ AppendInterrupted
  PROVE  Lineage'
<1> DEFINE Clean == /\ SameLineage
                    /\ pc' \in (Before \ {"top"}) \union {"listing"} => \A s \in Slots : stage'[s] \in Unlisted
                    /\ \A s \in Called' : stage'[s] # "absent"
<1> SUFFICES Clean
  BY BetweenBatches, LineageOutside DEF LineageInv
<1> USE DEF Goto, texts, tools, Before
<1>1. TypeOK
  BY DEF LineageInv, AnswerInv, GenInv, TypeInv
<1>2. (pc \in Before \ {"top"} => \A s \in Slots : stage[s] \in Unlisted) /\ \A s \in Called : stage[s] # "absent"
  BY DEF LineageInv, Lineage, ListedHaveRows
<1>3. ASSUME SameLineage, UNCHANGED <<calls, stage>>,
             pc' \in (Before \ {"top"}) \union {"listing"} => pc \in Before \ {"top"}
      PROVE  Clean
  <2>1. Called' = Called
    BY <1>3 DEF Called
  <2> QED
    BY <1>2, <1>3, <2>1
<1>4. CASE Top
  <2>1. SameLineage
    BY <1>4, LineageKept DEF Top
  <2>2. CASE stopped
    <3>1. UNCHANGED <<calls, stage>> /\ pc' \in {"partial", "finally"}
      BY <1>4, <2>2 DEF Top
    <3> QED
      BY <1>3, <2>1, <3>1
  <2>3. CASE ~stopped
    <3>1. calls' = <<>> /\ \A s \in Slots : stage'[s] = "absent"
      BY <1>4, <2>3 DEF Top, NoCalls
    <3>2. Called' = {}
      BY <3>1, SlotIsNat, TurnAssumption DEF Called, Slots
    <3> QED
      BY <2>1, <3>1, <3>2 DEF Unlisted
  <2> QED
    BY <2>2, <2>3
<1>5. ASSUME NEW k \in Kinds, ToolCall(k) PROVE Clean
  <2>1. SameLineage
    BY <1>5, LineageKept DEF ToolCall
  <2>2. pc = "stream" /\ calls' = Append(calls, k) /\ calls \in Seq(Kinds) /\ stage \in [Slots -> Stage]
    BY <1>1, <1>5 DEF ToolCall, TypeOK
  <2>3. Len(calls') = Len(calls) + 1 /\ Len(calls) \in Nat
    BY <2>2
  <2>4. \A s \in Slots : stage'[s] = IF s = Len(calls) + 1 THEN "emitted" ELSE stage[s]
    BY <1>5, <2>2 DEF ToolCall
  <2>5. \A s \in Called' : s \in Slots /\ (s \in Called \/ s = Len(calls) + 1)
    BY <2>3, SlotIsNat DEF Called
  <2>6. \A s \in Slots : stage[s] \in Unlisted
    BY <1>2, <2>2
  <2> QED
    BY <1>2, <2>1, <2>4, <2>5, <2>6 DEF Unlisted
<1>6. CASE TextDelta \/ ReasoningDelta \/ StreamOver \/ \E r \in {"tool-calls", "stop"} : FinishPart(r)
  <2>1. UNCHANGED <<rows, calls, stage>> /\ pc = "stream"
    BY <1>6 DEF TextDelta, ReasoningDelta, StreamOver, FinishPart
  <2> QED
    BY <1>3, <2>1, LineageKept
<1>7. CASE AppendReasoning
  <2>1. UNCHANGED <<calls, stage>> /\ pc = "reasoning" /\ SameLineage
    BY <1>1, <1>7, LineageOfOthers DEF AppendReasoning
  <2> QED
    BY <1>3, <2>1
<1>8. CASE Judge
  <2>1. UNCHANGED <<rows, calls, stage>> /\ pc = "judging"
    BY <1>8 DEF Judge
  <2> QED
    BY <1>3, <2>1, LineageKept
<1>9. CASE AppendPartial \/ AppendDraft \/ AppendFinal
  <2>1. SameLineage
    BY <1>1, <1>9, LineageOfOthers DEF AppendPartial, AppendDraft, AppendFinal, AppendAssistantText
  <2>2. UNCHANGED <<calls, stage>> /\ (pc' = "finally" \/ (pc = "draft" /\ pc' = "listing"))
    BY <1>9 DEF AppendPartial, AppendDraft, AppendFinal
  <2> QED
    BY <1>3, <2>1, <2>2
<1>10. CASE Critic
  <2>1. CASE AppendSelfCorrected
    <3>1. UNCHANGED <<calls, stage>> /\ pc' = "closing" /\ SameLineage
      BY <1>1, <2>1, LineageOfOthers DEF AppendSelfCorrected
    <3> QED
      BY <1>3, <3>1
  <2>2. CASE ~AppendSelfCorrected
    <3>1. UNCHANGED <<rows, calls, stage>>
      BY <1>10, <2>2 DEF Critic, CriticPasses, CriticObjects, CorrectionDelta, CorrectionOver,
         CorrectionThrows, CorrectionPasses, CorrectionFails, RequestCorrection, control
    <3>2. pc' \in {"closing", "correcting", "stillborn", "rechecking", "finally", "noting"}
      BY <1>10, <2>2 DEF Critic, CriticPasses, CriticObjects, CorrectionDelta, CorrectionOver,
         CorrectionThrows, CorrectionPasses, CorrectionFails, RequestCorrection, control
    <3> QED
      BY <1>3, <3>1, <3>2, LineageKept
  <2> QED
    BY <2>1, <2>2
<1>11. CASE ToolsBlamed
  <2>1. calls' = <<>> /\ pc' = "top" /\ UNCHANGED rows
    BY <1>11 DEF ToolsBlamed
  <2>2. Called' = {}
    BY <2>1, SlotIsNat, TurnAssumption DEF Called, Slots
  <2> QED
    BY <2>1, <2>2, LineageKept
<1>12. CASE Fails \/ Finally
  <2>1. UNCHANGED <<rows, calls, stage>> /\ pc' \in {"finally", "interrupting", "ended"}
    BY <1>12 DEF Fails, Finally
  <2> QED
    BY <1>3, <2>1, LineageKept
<1>13. CASE AppendInterrupted
  <2>1. UNCHANGED <<calls, stage>> /\ pc' = "ended" /\ SameLineage
    BY <1>1, <1>13, LineageOfOthers DEF AppendInterrupted
  <2> QED
    BY <1>3, <2>1
<1> QED
  BY <1>4, <1>5, <1>6, <1>7, <1>8, <1>9, <1>10, <1>11, <1>12, <1>13 DEF Streaming

LEMMA LineageInit == Init => LineageInv
<1> SUFFICES ASSUME Init PROVE LineageInv
  OBVIOUS
<1>1. rows = <<>> /\ pc = "top" /\ calls = <<>>
  BY DEF Init
<1>2. \A kinds : Indices(kinds) = {}
  BY <1>1 DEF Indices
<1>3. Called = {}
  BY <1>1, NoneCalled
<1>4. ListedHaveRows
  BY <1>1, <1>3 DEF ListedHaveRows, Batch
<1> QED
  BY <1>2, <1>4, AnswerInit DEF LineageInv, Lineage, CallsOfThePast, OneCallEach, ResultsHaveCalls

LEMMA LineageStep == LineageInv /\ [Next]_turnVars => LineageInv'
<1> SUFFICES ASSUME LineageInv, [Next]_turnVars PROVE Lineage'
  BY AnswerStep DEF LineageInv
<1> USE DEF control, texts, tools
<1>1. TypeOK /\ stage \in [Slots -> Stage]
  BY DEF LineageInv, AnswerInv, GenInv, TypeInv, TypeOK
<1>2. CASE \/ Top \/ Streaming \/ AppendReasoning \/ Judge \/ AppendPartial \/ AppendDraft
           \/ Critic \/ AppendFinal \/ ToolsBlamed \/ Fails \/ Finally \/ AppendInterrupted
  BY <1>2, LineageBetween
<1>3. ASSUME NEW s \in Slots, ListCall(s) PROVE Lineage'
  BY <1>3, LineageOfListing
<1>4. ASSUME NEW s \in Slots, Answer(s) PROVE Lineage'
  BY <1>4, LineageOfAnswer
<1>5. ASSUME NEW s \in Slots,
             AutoNext(s) \/ AskWritten(s) \/ Approve(s) \/ Decline(s)
               \/ HighRefused(s) \/ HighRuns(s) \/ ToolReturns(s)
      PROVE  Lineage'
  <2>1. UNCHANGED <<pc, toolsOn, iteration, calls>>
    BY <1>5 DEF AutoNext, AskWritten, Approve, Decline, HighRefused, HighRuns, ToolReturns
  <2>2. SameLineage
    <3>1. CASE AskWritten(s)
      BY <1>1, <3>1, LineageOfOthers DEF AskWritten
    <3>2. CASE ~AskWritten(s)
      BY <1>5, <3>2, LineageKept DEF AutoNext, Approve, Decline, HighRefused, HighRuns, ToolReturns
    <3> QED
      BY <3>1, <3>2
  <2>3. stage[s] \notin Unlisted
    BY <1>5 DEF AutoNext, AskWritten, Approve, Decline, HighRefused, HighRuns, ToolReturns, Step,
                Unlisted, Decided
  <2>4. PICK v : v \notin Unlisted /\ stage' = [stage EXCEPT ![s] = v]
    BY <1>5 DEF AutoNext, AskWritten, Approve, Decline, HighRefused, HighRuns, ToolReturns, Step, Unlisted
  <2>5. \A t \in Slots : /\ stage'[t] \in Unlisted <=> stage[t] \in Unlisted
                         /\ stage'[t] = "absent" => stage[t] = "absent"
    BY <1>1, <2>3, <2>4 DEF Unlisted
  <2> QED
    BY <2>1, <2>2, <2>5, LineageInside
<1>6. CASE LanesOver
  <2>1. UNCHANGED <<rows, toolsOn, iteration, calls, stage>> /\ pc = "lanes" /\ pc' = "answering"
    BY <1>6 DEF LanesOver, Goto
  <2> QED
    BY <2>1, LineageKept, LineageInside
<1>7. CASE BatchOver
  <2>1. /\ pc = "answering" /\ pc' \in {"finally", "top", "critic"}
        /\ UNCHANGED <<rows, toolsOn, calls, stage>> /\ (pc' = "top" => iteration' = iteration + 1)
    BY <1>7 DEF BatchOver, Goto
  <2>2. SameLineage /\ Called' = Called
    BY <2>1, LineageKept DEF Called
  <2>3. CallsOfThePast'
    <3>1. iteration \in Nat /\ \A i \in Indices({"call", "choices"}) : rows[i].iter \in Nat
      BY <1>1, RowTypes
    <3> QED
      BY <2>1, <2>2, <3>1 DEF LineageInv, Lineage, CallsOfThePast, SameLineage, Batch, Before
  <2>4. ListedHaveRows'
    BY <2>1, <2>2 DEF LineageInv, Lineage, ListedHaveRows, Batch, Before
  <2> QED
    BY <2>2, <2>3, <2>4, RowPartsKept DEF LineageInv, Lineage
<1>8. CASE Stop
  <2>1. /\ UNCHANGED <<rows, pc, toolsOn, iteration, calls>>
        /\ \A s \in Slots : stage'[s] = IF stage[s] = "pending" THEN "cancelled" ELSE stage[s]
    BY <1>8 DEF Stop
  <2>2. \A s \in Slots : /\ stage'[s] \in Unlisted <=> stage[s] \in Unlisted
                         /\ stage'[s] = "absent" => stage[s] = "absent"
    BY <2>1 DEF Unlisted
  <2> QED
    BY <2>1, <2>2, LineageKept, LineageInside
<1>9. CASE UNCHANGED turnVars
  <2>1. UNCHANGED <<rows, pc, toolsOn, iteration, calls, stage>>
    BY <1>9 DEF turnVars
  <2> QED
    BY <2>1, LineageKept, LineageInside
<1> QED
  BY <1>2, <1>3, <1>4, <1>5, <1>6, <1>7, <1>8, <1>9 DEF Next, TurnStep, UserStep, Lanes

-----------------------------------------------------------------------------

LEMMA PutFirst ==
  ASSUME NEW E, NEW p \in E, NEW q \in Seq(E), NEW n \in Nat, n = Len(q)
  PROVE  /\ <<p>> \o q \in Seq(E) /\ Len(<<p>> \o q) = n + 1 /\ (<<p>> \o q)[1] = p
         /\ \A i \in 1 .. n : (<<p>> \o q)[i + 1] = q[i]
OBVIOUS

\* The next request's rows: the rows of the turn between two messages of the user.
LEMMA AskedIs ==
  ASSUME TypeOK, ~RestartIds, NEW h, h = Append(Stored, Prompt), NEW n, n = Len(rows)
  PROVE  /\ n \in Nat /\ DOMAIN rows = 1 .. n /\ DOMAIN h = 1 .. n + 2
         /\ h[1].kind = "user_message" /\ h[n + 2].kind = "user_message"
         /\ \A i \in 1 .. n : h[i + 1] = [kind |-> KindOf(rows[i]), id |-> <<rows[i].iter, rows[i].slot>>]
         /\ h \in Seq([kind : P!EntryKinds, id : {P!NoId} \union (Nat \X Nat)])
<1> DEFINE E == [kind : P!EntryKinds, id : {P!NoId} \union (Nat \X Nat)]
           asked == [i \in 1 .. n |-> [kind |-> KindOf(rows[i]), id |-> ToolCallId(rows[i])]]
<1>1. n \in Nat /\ DOMAIN rows = 1 .. n /\ \A i \in 1 .. n : rows[i] \in Row
  BY DEF TypeOK
<1>2. Prompt \in E /\ Prompt.kind = "user_message"
  BY DEF Prompt, P!EntryKinds
<1>3. ASSUME NEW r \in Row
      PROVE  /\ [kind |-> KindOf(r), id |-> ToolCallId(r)] \in E
             /\ ToolCallId(r) = <<r.iter, r.slot>>
  <2>1. KindOf(r) \in P!EntryKinds
    BY DEF KindOf, Row, P!EntryKinds, P!ExcludedKinds
  <2>2. ToolCallId(r) = <<r.iter, r.slot>> /\ <<r.iter, r.slot>> \in Nat \X Nat
    BY DEF ToolCallId, Row
  <2> QED
    BY <2>1, <2>2
<1>4. /\ asked \in Seq(E) /\ Len(asked) = n
      /\ \A i \in 1 .. n : asked[i] = [kind |-> KindOf(rows[i]), id |-> <<rows[i].iter, rows[i].slot>>]
  <2>1. \A i \in 1 .. n : [kind |-> KindOf(rows[i]), id |-> ToolCallId(rows[i])] \in E
    BY <1>1, <1>3
  <2>2. \A i \in 1 .. n : asked[i] = [kind |-> KindOf(rows[i]), id |-> <<rows[i].iter, rows[i].slot>>]
    BY <1>1, <1>3
  <2> HIDE DEF E
  <2>3. asked \in Seq(E) /\ Len(asked) = n
    BY <1>1, <2>1
  <2> QED
    BY <2>2, <2>3
<1>5. h = Append(<<Prompt>> \o asked, Prompt)
  BY DEF Stored
<1> HIDE DEF E, asked
<1>6. /\ h \in Seq(E) /\ Len(h) = n + 2 /\ h[1] = Prompt /\ h[n + 2] = Prompt
      /\ \A i \in 1 .. n : h[i + 1] = asked[i]
  <2> DEFINE a == <<Prompt>>
             b == a \o asked
  <2>1. a \in Seq(E) /\ Len(a) = 1 /\ a[1] = Prompt
    BY <1>2
  <2>2. /\ b \in Seq(E) /\ Len(b) = n + 1 /\ b[1] = Prompt
        /\ \A i \in 1 .. n : b[i + 1] = asked[i]
    BY <1>1, <1>2, <1>4, PutFirst DEF a
  <2> HIDE DEF b
  <2>3. h = Append(b, Prompt)
    BY <1>5 DEF a, b
  <2> QED
    BY <1>1, <1>2, <2>2, <2>3
<1>7. DOMAIN h = 1 .. n + 2
  BY <1>6
<1> QED
  BY <1>1, <1>2, <1>4, <1>6, <1>7 DEF E

LEMMA AskedArePaired ==
  ASSUME LineageInv, ~RestartIds
  PROVE  Paired(Append(Stored, Prompt))
<1> DEFINE h == Append(Stored, Prompt)
           n == Len(rows)
<1> HIDE DEF h, n
<1>1. /\ n \in Nat /\ DOMAIN rows = 1 .. n /\ DOMAIN h = 1 .. n + 2
      /\ h[1].kind = "user_message" /\ h[n + 2].kind = "user_message"
      /\ \A i \in 1 .. n : h[i + 1] = [kind |-> KindOf(rows[i]), id |-> <<rows[i].iter, rows[i].slot>>]
  BY AskedIs DEF LineageInv, AnswerInv, GenInv, TypeInv, h, n
<1>2. \A i \in 1 .. n : rows[i] \in Row
  BY <1>1 DEF LineageInv, AnswerInv, GenInv, TypeInv, TypeOK
<1>3. ASSUME NEW i \in 1 .. n
      PROVE  /\ h[i + 1].kind \in {"tool_call", "choices"} => rows[i].kind \in {"call", "choices"}
             /\ rows[i].kind = "call" => h[i + 1].kind = "tool_call"
             /\ h[i + 1].kind = "tool_result" => rows[i].kind = "result"
             /\ h[i + 1].kind \notin {"branch_artifact", "user_message"}
             /\ h[i + 1].id = <<rows[i].iter, rows[i].slot>>
  <2>1. rows[i] \in Row /\ h[i + 1].kind = KindOf(rows[i]) /\ h[i + 1].id = <<rows[i].iter, rows[i].slot>>
    <3>1. h[i + 1] = [kind |-> KindOf(rows[i]), id |-> <<rows[i].iter, rows[i].slot>>]
      BY <1>1
    <3> QED
      BY <1>2, <3>1
  <2> DEFINE k == rows[i].kind
  <2>2. k \in {"reasoning", "text", "interrupted", "corrected", "call", "choices", "approval", "result"}
    BY <2>1 DEF Row
  <2>3. KindOf(rows[i]) = CASE k \in {"text", "interrupted"} -> "assistant_message"
                            [] k = "corrected" -> "self_corrected"
                            [] k = "call" -> "tool_call"
                            [] k = "result" -> "tool_result"
                            [] OTHER -> k
    BY DEF KindOf
  <2> HIDE DEF k
  <2>4. /\ KindOf(rows[i]) \in {"tool_call", "choices"} => k \in {"call", "choices"}
        /\ k = "call" => KindOf(rows[i]) = "tool_call"
        /\ KindOf(rows[i]) = "tool_result" => k = "result"
        /\ KindOf(rows[i]) \notin {"branch_artifact", "user_message"}
    BY <2>2, <2>3
  <2> QED
    BY <2>1, <2>4 DEF k
<1>4. \A j \in DOMAIN h : j = 1 \/ j = n + 2 \/ (j - 1 \in 1 .. n /\ (j - 1) + 1 = j)
  BY <1>1
<1>5. ASSUME NEW j \in CallRows(h) PROVE j \in Nat /\ j - 1 \in Indices({"call", "choices"}) /\ j - 1 \in 1 .. n /\ (j - 1) + 1 = j
  <2>1. j \in DOMAIN h /\ j # 1 /\ j # n + 2
    BY <1>1 DEF CallRows
  <2>2. j - 1 \in 1 .. n /\ (j - 1) + 1 = j
    BY <1>4, <2>1
  <2>3. rows[j - 1].kind \in {"call", "choices"}
    BY <1>3, <2>2 DEF CallRows
  <2> QED
    BY <1>1, <2>1, <2>2, <2>3 DEF Indices
<1>6. ASSUME NEW j \in ResultRows(h) PROVE j \in Nat /\ j - 1 \in Indices({"result"}) /\ j - 1 \in 1 .. n /\ (j - 1) + 1 = j
  <2>1. j \in DOMAIN h /\ j # 1 /\ j # n + 2
    BY <1>1 DEF ResultRows
  <2>2. j - 1 \in 1 .. n /\ (j - 1) + 1 = j
    BY <1>4, <2>1
  <2>3. rows[j - 1].kind = "result"
    BY <1>3, <2>2 DEF ResultRows
  <2> QED
    BY <1>1, <2>1, <2>2, <2>3 DEF Indices
<1>9. \A i \in 1 .. n : Turn(h, i + 1) = {1}
  <2> SUFFICES ASSUME NEW i \in 1 .. n, NEW k \in DOMAIN h
               PROVE  h[k].kind = "user_message" /\ k <= i + 1 <=> k = 1
    BY <1>1 DEF Turn
  <2>1. k \in Nat /\ i \in Nat /\ i <= n /\ 1 <= i
    BY <1>1
  <2>2. CASE k = 1
    BY <1>1, <2>1, <2>2
  <2>3. CASE k = n + 2
    BY <1>1, <2>1, <2>3
  <2>4. CASE k # 1 /\ k # n + 2
    <3>1. k - 1 \in 1 .. n /\ (k - 1) + 1 = k
      BY <1>4, <2>4
    <3> QED
      BY <1>3, <2>4, <3>1
  <2> QED
    BY <2>2, <2>3, <2>4
<1>7. ASSUME NEW i \in CallRows(h), NEW j \in CallRows(h), h[i].id = h[j].id PROVE i = j
  <2>1. h[i].id = <<rows[i - 1].iter, rows[i - 1].slot>> /\ h[j].id = <<rows[j - 1].iter, rows[j - 1].slot>>
    BY <1>3, <1>5
  <2>2. rows[i - 1].iter = rows[j - 1].iter /\ rows[i - 1].slot = rows[j - 1].slot
    <3> HIDE DEF h
    <3>1. \A a, b, c, d : <<a, b>> = <<c, d>> => a = c /\ b = d
      OBVIOUS
    <3>2. <<rows[i - 1].iter, rows[i - 1].slot>> = <<rows[j - 1].iter, rows[j - 1].slot>>
      BY <1>7, <2>1
    <3> QED
      BY <3>1, <3>2
  <2>3. i - 1 = j - 1
    BY <1>5, <2>2 DEF LineageInv, Lineage, OneCallEach
  <2> QED
    BY <1>5, <2>3
<1>8. ASSUME NEW j \in ResultRows(h)
      PROVE  \E i \in CallRows(h) : /\ i < j /\ Turn(h, i) = Turn(h, j) /\ h[i].id = h[j].id
                                    /\ \A k \in DOMAIN h : i < k /\ k < j => h[k].kind # "branch_artifact"
  <2>1. j - 1 \in Indices({"result"})
    BY <1>6
  <2>2. PICK c \in Indices({"call"}) : /\ c < j - 1 /\ rows[c].iter = rows[j - 1].iter
                                       /\ rows[c].slot = rows[j - 1].slot
    BY <2>1 DEF LineageInv, Lineage, ResultsHaveCalls
  <2>3. c \in 1 .. n /\ rows[c].kind = "call"
    BY <1>1 DEF Indices
  <2>4. c + 1 \in DOMAIN h /\ c + 1 < j
    BY <1>1, <1>6, <2>2, <2>3
  <2>5. c + 1 \in CallRows(h)
    BY <1>3, <2>3, <2>4 DEF CallRows
  <2>6. h[c + 1].id = h[j].id
    BY <1>3, <1>6, <2>2, <2>3
  <2>7. \A k \in DOMAIN h : h[k].kind # "branch_artifact"
    BY <1>1, <1>3, <1>4
  <2>8. Turn(h, c + 1) = Turn(h, j)
    BY <1>6, <1>9, <2>3
  <2> QED
    BY <2>4, <2>5, <2>6, <2>7, <2>8
<1> QED
  BY <1>7, <1>8 DEF Paired, h

\* However a turn is cut short, by Stop, by a failure or by a page that is closed between
\* any two writes, the request that follows can be sent: no call lacks its result and no
\* result its call, for any number of calls and iterations, as long as the provider does
\* not give two calls of the turn one id.
THEOREM NextIsAccepted ==
  ASSUME ~RestartIds
  PROVE  Spec => []NextRequestIsAccepted
<1>1. Init => LineageInv
  BY LineageInit
<1>2. LineageInv /\ [Next]_turnVars => LineageInv'
  BY LineageStep
<1>3. LineageInv => NextRequestIsAccepted
  <2> SUFFICES ASSUME LineageInv PROVE NextRequestIsAccepted
    OBVIOUS
  <2>1. Append(Stored, Prompt) \in Seq([kind : P!EntryKinds, id : {P!NoId} \union (Nat \X Nat)])
    BY AskedIs DEF LineageInv, AnswerInv, GenInv, TypeInv
  <2>2. Paired(Append(Stored, Prompt))
    BY AskedArePaired
  <2> QED
    BY <2>1, <2>2, ProjectionIsAccepted DEF NextRequestIsAccepted, NextRequest
<1> QED
  BY <1>1, <1>2, <1>3, PTL DEF Spec
=============================================================================
