------------------------------ MODULE Quizzes ------------------------------
(***************************************************************************)
(* The runner of quizzes (lib/stores/quizzes.svelte.ts) with the page that *)
(* shows it: attempts, answers and their grades, in the database and in    *)
(* the one store of the application.  A call of a method is a job; it runs *)
(* from one await to the next, and a statement takes effect when its await *)
(* returns.  Loads and gradings may fail, other statements do not.         *)
(***************************************************************************)
EXTENDS Integers, FiniteSets, Sequences

CONSTANTS Quizzed,        \* quizzes; NoQuiz is none of them
          AtOnce, Short,  \* questions: scored at once (mcq, flashcard), or by the model; disjoint
          Jobs,         \* calls that may be under way at once; NoJob is none of them
          MaxAttempts, MaxRows,
          NoQuiz, NoJob

ASSUME QuizAssumption ==
  /\ IsFiniteSet(AtOnce) /\ IsFiniteSet(Short) /\ AtOnce \intersect Short = {}
  /\ NoQuiz \notin Quizzed /\ NoJob \notin Jobs \union AtOnce \union Short

Questions == AtOnce \union Short
Graded == {"right", "wrong"}
Verdicts == Graded \union {"none", "failed"}
NoAttempt == [id |-> 0, done |-> FALSE]

VARIABLES
  attempts,    \* quiz_attempts: [quiz, done, score], in the order of their start
  rows,        \* quiz_answers: [attempt, q, v]
  current, questions, active, answers, reviewing, showResults, grading, loading,
  job,         \* where each call stands, and what it has in its locals
  crossed      \* an attempt was exchanged under a call that was at work or only
               \* half, or an answer re-graded while its grade was on its way

stored == <<attempts, rows>>
view == <<current, questions, reviewing, showResults, loading>>
quizVars == <<stored, view, active, answers, grading, job, crossed>>

Idle == [at |-> "idle", z |-> NoQuiz, a |-> 0, q |-> NoJob, row |-> 0, v |-> "none"]

QuizzesTypeOK ==
  /\ \A i \in DOMAIN attempts : attempts[i].quiz \in Quizzed /\ attempts[i].score \in Nat
  /\ \A i \in DOMAIN rows : rows[i].q \in Questions /\ rows[i].v \in Verdicts
  /\ DOMAIN answers \subseteq Questions

QuizInit ==
  /\ attempts = <<>> /\ rows = <<>>
  /\ current = NoQuiz /\ questions = {} /\ active = NoAttempt /\ answers = <<>>
  /\ reviewing = FALSE /\ showResults = FALSE /\ loading = FALSE
  /\ grading = NoJob
  /\ job = [j \in Jobs |-> Idle]
  /\ crossed = FALSE

JobAt(j, place) == job[j].at = place
MovesOn(j, place) == job' = [job EXCEPT ![j].at = place]
Ends(j) == job' = [job EXCEPT ![j] = Idle]

\* The attempt of the store becomes another one, whoever is at work on the old.
Exchanged(j) == crossed' = (crossed \/ \E k \in Jobs \ {j} : ~JobAt(k, "idle"))
InExchange == \E k \in Jobs : job[k].at \in {"loadAnswers", "reviewAnswers"}

\* The answers of the store, with one more or another one.
With(q, row, v) ==
  [p \in DOMAIN answers \union {q} |-> IF p = q THEN [row |-> row, v |-> v] ELSE answers[p]]

-----------------------------------------------------------------------------
(* What the page offers.                                                   *)

AllAnswered == questions # {} /\ Cardinality(DOMAIN answers) = Cardinality(questions)
Runner == ~loading /\ current # NoQuiz
Asking == Runner /\ active # NoAttempt /\ ~AllAnswered /\ ~reviewing
Summary == Runner /\ active # NoAttempt /\ AllAnswered /\ showResults
Open(q) == Asking /\ q \in questions \ DOMAIN answers

-----------------------------------------------------------------------------
(* Loading a quiz.  The page shows no runner meanwhile, but what is under  *)
(* way goes on.                                                            *)

LoadQuiz(j, z) ==
  /\ JobAt(j, "idle")
  /\ job' = [job EXCEPT ![j].at = "load", ![j].z = z]
  /\ loading' = TRUE
  /\ UNCHANGED <<stored, current, questions, reviewing, showResults, active, answers, grading, crossed>>

QuizRead(j) ==
  /\ JobAt(j, "load")
  /\ current' = job[j].z
  /\ reviewing' = FALSE /\ showResults' = FALSE
  /\ MovesOn(j, "loadQuestions")
  /\ UNCHANGED <<stored, questions, loading, active, answers, grading, crossed>>

\* The quiz has been deleted meanwhile.
QuizMissing(j) ==
  /\ JobAt(j, "load")
  /\ current' = NoQuiz /\ questions' = {} /\ answers' = <<>> /\ active' = NoAttempt
  /\ loading' = FALSE
  /\ Ends(j) /\ Exchanged(j)
  /\ UNCHANGED <<stored, reviewing, showResults, grading>>

QuestionsRead(j) ==
  /\ JobAt(j, "loadQuestions")
  /\ questions' = Questions
  /\ MovesOn(j, "loadAttempts")
  /\ UNCHANGED <<stored, current, reviewing, showResults, loading, active, answers, grading, crossed>>

\* The newest attempt that is not finished is resumed.
AttemptsRead(j) ==
  LET mine == {i \in DOMAIN attempts : attempts[i].quiz = job[j].z}
      unfinished == {i \in mine : ~attempts[i].done}
  IN
  /\ JobAt(j, "loadAttempts")
  /\ IF unfinished # {}
     THEN \E i \in unfinished :
            /\ \A k \in unfinished : k <= i
            /\ active' = [id |-> i, done |-> FALSE]
            /\ job' = [job EXCEPT ![j].at = "loadAnswers", ![j].a = i]
            /\ UNCHANGED <<answers, loading>>
     ELSE /\ active' = NoAttempt /\ answers' = <<>> /\ loading' = FALSE
          /\ Ends(j)
  /\ Exchanged(j)
  /\ UNCHANGED <<stored, current, questions, reviewing, showResults, grading>>

\* Any one of the rows of a question: they come in the order of their ids.
RowsOf(attempt, q) == {r \in DOMAIN rows : rows[r].attempt = attempt /\ rows[r].q = q}

Restores(attempt) ==
  \E pick \in [{q \in Questions : RowsOf(attempt, q) # {}} -> DOMAIN rows] :
    /\ \A q \in DOMAIN pick : pick[q] \in RowsOf(attempt, q)
    /\ answers' = [q \in DOMAIN pick |-> [row |-> pick[q], v |-> rows[pick[q]].v]]

AnswersRead(j) ==
  /\ JobAt(j, "loadAnswers")
  /\ Restores(job[j].a)
  /\ loading' = FALSE
  /\ Ends(j) /\ Exchanged(j)
  /\ UNCHANGED <<stored, current, questions, reviewing, showResults, active, grading>>

LoadFails(j) ==
  /\ job[j].at \in {"load", "loadQuestions", "loadAttempts", "loadAnswers"}
  /\ current' = NoQuiz /\ loading' = FALSE
  /\ Ends(j)
  /\ UNCHANGED <<stored, questions, reviewing, showResults, active, answers, grading>>
  /\ crossed' = (crossed \/ JobAt(j, "loadAnswers"))

-----------------------------------------------------------------------------
(* Attempts.                                                               *)

\* "Start quiz", and "Retake" below the summary.
Start(j) ==
  /\ JobAt(j, "idle") /\ Len(attempts) < MaxAttempts
  /\ Summary \/ (Runner /\ active = NoAttempt)
  /\ job' = [job EXCEPT ![j].at = "start", ![j].z = current]
  /\ UNCHANGED <<stored, view, active, answers, grading, crossed>>

Started(j) ==
  /\ JobAt(j, "start") /\ Len(attempts) < MaxAttempts
  /\ attempts' = Append(attempts, [quiz |-> job[j].z, done |-> FALSE, score |-> 0])
  /\ active' = [id |-> Len(attempts'), done |-> FALSE]
  /\ answers' = <<>> /\ grading' = NoJob /\ reviewing' = FALSE /\ showResults' = FALSE
  /\ Ends(j) /\ Exchanged(j)
  /\ UNCHANGED <<rows, current, questions, loading>>

Review(j, i) ==
  /\ JobAt(j, "idle")
  /\ Summary \/ (Runner /\ active = NoAttempt)
  /\ i \in DOMAIN attempts \ {active.id} /\ attempts[i].quiz = current
  /\ job' = [job EXCEPT ![j].at = "review", ![j].a = i]
  /\ UNCHANGED <<stored, view, active, answers, grading, crossed>>

AttemptRead(j) ==
  /\ JobAt(j, "review")
  /\ active' = [id |-> job[j].a, done |-> attempts[job[j].a].done]
  /\ MovesOn(j, "reviewAnswers") /\ Exchanged(j)
  /\ UNCHANGED <<stored, view, answers, grading>>

Reviewed(j) ==
  /\ JobAt(j, "reviewAnswers")
  /\ Restores(job[j].a)
  /\ reviewing' = TRUE /\ showResults' = TRUE
  /\ Ends(j) /\ Exchanged(j)
  /\ UNCHANGED <<stored, current, questions, loading, active, grading>>

ViewResults ==
  /\ Runner /\ active # NoAttempt /\ AllAnswered /\ ~showResults
  /\ showResults' = TRUE
  /\ UNCHANGED <<stored, current, questions, reviewing, loading, active, answers, grading, job, crossed>>

-----------------------------------------------------------------------------
(* Answers.  The attempt is the one of the store whenever a statement is   *)
(* made; locals hold only what the code keeps in them.                     *)

Correct(map) == Cardinality({q \in DOMAIN map : map[q].v = "right"})

\* finishIfComplete up to its await, with the answers just stored.
FinishIfComplete(j, map) ==
  IF active # NoAttempt /\ ~active.done /\ questions # {}
     /\ Cardinality(DOMAIN map) = Cardinality(questions)
  THEN job' = [job EXCEPT ![j].at = "finish", ![j].a = active.id, ![j].row = Correct(map)]
  ELSE Ends(j)

Finished(j) ==
  /\ JobAt(j, "finish")
  /\ attempts' = IF job[j].a = 0 THEN attempts
                 ELSE [attempts EXCEPT ![job[j].a] = [@ EXCEPT !.done = TRUE, !.score = job[j].row]]
  /\ active' = [active EXCEPT !.done = TRUE]
  /\ grading' = IF grading = job[j].q THEN NoJob ELSE grading
  /\ Ends(j)
  /\ UNCHANGED <<rows, view, answers, crossed>>

AnswerAuto(j, q, v) ==
  /\ JobAt(j, "idle") /\ q \in AtOnce /\ Open(q) /\ Len(rows) < MaxRows
  /\ job' = [job EXCEPT ![j] = [Idle EXCEPT !.at = "record", !.a = active.id, !.q = q, !.v = v]]
  /\ UNCHANGED <<stored, view, active, answers, grading>>
  /\ crossed' = (crossed \/ InExchange)

NewRow(j) == [attempt |-> job[j].a, q |-> job[j].q, v |-> "none"]

Recorded(j) ==
  /\ JobAt(j, "record") /\ Len(rows) < MaxRows
  /\ rows' = Append(rows, NewRow(j))
  /\ job' = [job EXCEPT ![j].at = "mark", ![j].row = Len(rows')]
  /\ UNCHANGED <<attempts, view, active, answers, grading, crossed>>

Marked(j) ==
  /\ JobAt(j, "mark")
  /\ rows' = [rows EXCEPT ![job[j].row].v = job[j].v]
  /\ answers' = With(job[j].q, job[j].row, job[j].v)
  /\ FinishIfComplete(j, answers')
  /\ UNCHANGED <<attempts, view, active, grading, crossed>>

AnswerShort(j, q) ==
  /\ JobAt(j, "idle") /\ q \in Short /\ Open(q) /\ grading # q /\ Len(rows) < MaxRows
  /\ grading' = q
  /\ job' = [job EXCEPT ![j] = [Idle EXCEPT !.at = "recordShort", !.a = active.id, !.q = q]]
  /\ UNCHANGED <<stored, view, active, answers>>
  /\ crossed' = (crossed \/ InExchange)

Ungraded(j) == grading' = IF grading = job[j].q THEN NoJob ELSE grading

\* The row is shown, and goes to the model unless the page has no attempt left.
ShortRecorded(j) ==
  /\ JobAt(j, "recordShort") /\ Len(rows) < MaxRows
  /\ rows' = Append(rows, NewRow(j))
  /\ answers' = With(job[j].q, Len(rows'), "none")
  /\ IF current = NoQuiz \/ active = NoAttempt
     THEN Ends(j) /\ Ungraded(j)
     ELSE /\ job' = [job EXCEPT ![j].at = "grade", ![j].a = active.id, ![j].row = Len(rows')]
          /\ UNCHANGED grading
  /\ UNCHANGED <<attempts, view, active, crossed>>

\* "Re-grade" is offered wherever there is no verdict, one on its way or not.
Regrade(j, q) ==
  /\ JobAt(j, "idle") /\ q \in Short /\ Asking
  /\ q \in DOMAIN answers /\ answers[q].row # 0 /\ answers[q].v \notin Graded
  /\ grading' = q
  /\ job' = [job EXCEPT ![j] = [Idle EXCEPT !.at = "grade", !.a = active.id, !.q = q, !.row = answers[q].row]]
  /\ crossed' = (crossed \/ InExchange \/ \E k \in Jobs : ~JobAt(k, "idle") /\ job[k].q = q)
  /\ UNCHANGED <<stored, view, active, answers>>

\* The model's verdict: dropped if the attempt has changed by now.
Judged(j, v) ==
  /\ JobAt(j, "grade")
  /\ IF active.id = job[j].a
     THEN job' = [job EXCEPT ![j].at = "storeGrade", ![j].v = v] /\ UNCHANGED grading
     ELSE Ends(j) /\ Ungraded(j)
  /\ UNCHANGED <<stored, view, active, answers, crossed>>

\* The request or the reading of its answer fails: noted whatever the attempt.
GradingFails(j) ==
  /\ JobAt(j, "grade")
  /\ job' = [job EXCEPT ![j].at = "storeGrade", ![j].v = "failed"]
  /\ UNCHANGED <<stored, view, active, answers, grading, crossed>>

\* Mutant: the verdict is shown and not stored.
GradeStoredMutant(j) ==
  LET q == job[j].q IN
  /\ JobAt(j, "storeGrade")
  /\ answers' = With(q, IF q \in DOMAIN answers THEN answers[q].row ELSE 0, job[j].v)
  /\ IF job[j].v = "failed" THEN Ends(j) ELSE FinishIfComplete(j, answers')
  /\ IF job'[j].at = "idle" THEN Ungraded(j) ELSE UNCHANGED grading
  /\ UNCHANGED <<stored, view, active, crossed>>

GradeStored(j) ==
  LET q == job[j].q IN
  /\ JobAt(j, "storeGrade")
  /\ rows' = [rows EXCEPT ![job[j].row].v = job[j].v]
  /\ answers' = With(q, IF q \in DOMAIN answers THEN answers[q].row ELSE 0, job[j].v)
  /\ IF job[j].v = "failed" THEN Ends(j) ELSE FinishIfComplete(j, answers')
  /\ IF job'[j].at = "idle" THEN Ungraded(j) ELSE UNCHANGED grading
  /\ UNCHANGED <<attempts, view, active, crossed>>

-----------------------------------------------------------------------------
Loading(j) ==
  \/ \E z \in Quizzed : LoadQuiz(j, z)
  \/ QuizRead(j) \/ QuizMissing(j) \/ QuestionsRead(j)
  \/ AttemptsRead(j) \/ AnswersRead(j) \/ LoadFails(j)

Attempting(j) ==
  \/ Start(j) \/ Started(j)
  \/ \E i \in 1 .. MaxAttempts : Review(j, i)
  \/ AttemptRead(j) \/ Reviewed(j)

Answering(j) ==
  \/ \E q \in AtOnce, v \in Graded : AnswerAuto(j, q, v)
  \/ Recorded(j) \/ Marked(j)
  \/ \E q \in Short : AnswerShort(j, q) \/ Regrade(j, q)
  \/ ShortRecorded(j)
  \/ \E v \in Graded : Judged(j, v)
  \/ GradingFails(j) \/ GradeStored(j) \/ Finished(j)

QuizNext ==
  \/ \E j \in Jobs : Loading(j) \/ Attempting(j) \/ Answering(j)
  \/ ViewResults

QuizSpec == QuizInit /\ [][QuizNext]_quizVars

-----------------------------------------------------------------------------
(* Properties.                                                             *)

QuizAtRest == \A j \in Jobs : JobAt(j, "idle")
OnceEach == \A r, s \in DOMAIN rows : rows[r].attempt = rows[s].attempt /\ rows[r].q = rows[s].q => r = s

\* At rest the runner shows what is stored: the attempt, finished or not, and
\* each of its answers with its verdict.  Stated while no attempt was exchanged
\* under a call and no question answered twice.
RunnerTellsTheTruth ==
  QuizAtRest /\ ~crossed /\ OnceEach /\ current # NoQuiz /\ active # NoAttempt =>
    /\ active.done = attempts[active.id].done
    /\ DOMAIN answers = {rows[r].q : r \in {s \in DOMAIN rows : rows[s].attempt = active.id}}
    /\ \A q \in DOMAIN answers :
         /\ rows[answers[q].row].attempt = active.id
         /\ rows[answers[q].row].v = answers[q].v

\* quizzes.svelte.ts:22: "re-grading (or answering another question) is what
\* closes the attempt": one that is open at rest has a question that is offered.
OpenAttemptsCanClose ==
  QuizAtRest /\ ~crossed /\ Runner /\ active # NoAttempt /\ ~active.done /\ ~reviewing => ~AllAnswered

\* quizzes.svelte.ts:387: "if the active attempt changed during the (async) grade
\* round-trip, the result is dropped".
GradesStayHome ==
  \A q \in DOMAIN answers : answers[q].row # 0

=============================================================================
