----------------------------- MODULE TaskProofs -----------------------------
(***************************************************************************)
(* Theorems about what the chat store does beside the turn (ChatTasks),    *)
(* for any number of chats and of calls of its methods.                    *)
(***************************************************************************)
EXTENDS ChatTasks, FiniteSetTheorems, TLAPS

-----------------------------------------------------------------------------
(* The least and the greatest of finitely many positions.                  *)

\* A set without one, as small as can be, would have one after all.
LEMMA HasExtrema ==
  ASSUME NEW S \in SUBSET Int, IsFiniteSet(S), S # {}
  PROVE  (\E m \in S : \A n \in S : m >= n) /\ (\E m \in S : \A n \in S : m <= n)
<1> DEFINE Good(T) == (\E m \in T : \A n \in T : m >= n) /\ (\E m \in T : \A n \in T : m <= n)
           Bad == {T \in FiniteSubsetsOf(S) : T # {} /\ ~Good(T)}
<1> HIDE DEF Good
<1>1. SUFFICES ASSUME Bad # {} PROVE FALSE
  <2>1. S \in FiniteSubsetsOf(S)
    BY DEF FiniteSubsetsOf
  <2> QED
    BY <2>1 DEF Good
<1>2. PICK T \in Bad : \A U \in Bad : <<U, T>> \notin StrictSubsetOrdering(S)
  <2>1. IsWellFoundedOn(StrictSubsetOrdering(S), FiniteSubsetsOf(S))
    BY FS_StrictSubsetOrderingWellFounded
  <2>2. Bad \subseteq FiniteSubsetsOf(S)
    OBVIOUS
  <2> HIDE DEF Bad
  <2> QED
    BY <1>1, <2>1, <2>2, WFMin
<1>3. T \subseteq S /\ IsFiniteSet(T) /\ T # {} /\ ~Good(T)
  BY <1>2 DEF FiniteSubsetsOf
<1>4. PICK x \in T : TRUE
  BY <1>3
<1> DEFINE U == T \ {x}
<1>5. U \in FiniteSubsetsOf(S) /\ <<U, T>> \in StrictSubsetOrdering(S)
  BY <1>3, FS_RemoveElement DEF FiniteSubsetsOf, StrictSubsetOrdering
<1>6. U = {} \/ Good(U)
  BY <1>2, <1>5
<1>7. x \in Int /\ \A y \in T : y \in Int /\ (y = x \/ y \in U)
  BY <1>3
<1>8. CASE U = {}
  <2>1. \A y \in T : y = x
    BY <1>8
  <2> QED
    BY <1>3, <1>7, <2>1 DEF Good
<1>9. CASE Good(U)
  <2>1. PICK a \in U : \A n \in U : a >= n
    BY <1>9 DEF Good
  <2>2. PICK b \in U : \A n \in U : b <= n
    BY <1>9 DEF Good
  <2>3. \E m \in T : \A n \in T : m >= n
    <3>1. \A n \in T : (IF a >= x THEN a ELSE x) >= n
      BY <1>7, <2>1
    <3> QED
      BY <2>1, <3>1
  <2>4. \E m \in T : \A n \in T : m <= n
    <3>1. \A n \in T : (IF b <= x THEN b ELSE x) <= n
      BY <1>7, <2>2
    <3> QED
      BY <2>2, <3>1
  <2> QED
    BY <1>3, <2>3, <2>4 DEF Good
<1> QED
  BY <1>6, <1>8, <1>9

LEMMA ExtremaAre ==
  ASSUME NEW S \in SUBSET Int, IsFiniteSet(S), S # {}
  PROVE  /\ Max(S) \in S /\ \A n \in S : Max(S) >= n
         /\ Min(S) \in S /\ \A n \in S : Min(S) <= n
BY HasExtrema DEF Max, Min

-----------------------------------------------------------------------------
(* Types, and how a step changes the jobs.                                 *)

\* Of a chat, the null one, and what spreading makes of either.
Known == [id : Chats \union {NoChat}, titled : BOOLEAN, briefed : BOOLEAN, null : BOOLEAN]
RowT == [by : 0 .. MaxJobs, ord : Int]
Rec == [at : At, home : Chats \union {NoChat}, saw : Known, first : BOOLEAN,
        title : {"none", "generating", "writing"}, brief : {"none", "generating"},
        about : Chats \union {NoChat}, sig : 0 .. MaxJobs,
        cut : BOOLEAN, noTitle : BOOLEAN, noBrief : BOOLEAN,
        seen : SUBSET RowT, lo : Int, hi : Int,
        place : {"none", "start", "after", "between"}]

Typed ==
  /\ chatId \in Chats \union {NoChat}
  /\ view \in Known
  /\ empty \in BOOLEAN /\ loading \in BOOLEAN /\ streaming \in BOOLEAN
  /\ titling \in BOOLEAN /\ inferring \in BOOLEAN /\ dismissed \in BOOLEAN
  /\ titleCtl \in 0 .. MaxJobs /\ inferCtl \in 0 .. MaxJobs
  /\ propCtl \in 0 .. MaxJobs /\ last \in 0 .. MaxJobs
  /\ inferred \in Chats \union {NoChat}
  /\ prop \in {"idle", "running", "error"}
  /\ alive \subseteq Chats /\ titled \subseteq Chats /\ briefed \subseteq Chats
  /\ rows \in [Chats -> SUBSET RowT] /\ \A c \in Chats : IsFiniteSet(rows[c])
  /\ job \in [Jobs -> Rec]

\* What the places of rows rest on, and what the flags do.
Places(q) == <<q.at, q.home, q.seen, q.lo, q.hi, q.place>>
Asks(q) == <<q.title # "none", q.brief # "none">>

LEMMA ConstantsAre ==
  /\ Parent \in Chats /\ Parent \in Roots /\ Branch \in Chats /\ NoChat \notin Chats
  /\ MaxJobs \in Nat /\ MaxJobs >= 1 /\ Null \in Known
  /\ 0 \in 0 .. MaxJobs /\ Jobs \subseteq 0 .. MaxJobs /\ 0 \notin Jobs
BY ChatTasksAssumption DEF Chats, Known, Jobs, Null

\* One job is replaced.
LEMMA IsMoves ==
  ASSUME job \in [Jobs -> Rec], NEW j \in Jobs, NEW q \in Rec, Is(j, q)
  PROVE  /\ job' \in [Jobs -> Rec] /\ job'[j] = q
         /\ \A k \in Jobs \ {j} : job'[k] = job[k]
BY DEF Is

\* A method that has returned keeps what it has seen, its place and its tasks.
LEMMA Resets ==
  ASSUME NEW q \in Rec, NEW what \in Known
  PROVE  LET r == [q EXCEPT !.home = NoChat, !.saw = what, !.first = FALSE] IN
         /\ r \in Rec /\ r.at = q.at /\ r.seen = q.seen /\ r.place = q.place
         /\ r.title = q.title /\ r.brief = q.brief
BY DEF Rec

LEMMA FinishedIs ==
  ASSUME job \in [Jobs -> Rec], NEW j \in Jobs
  PROVE  /\ Finished(j) \in Rec
         /\ Finished(j).at = "done" /\ Finished(j).seen = job[j].seen
         /\ Finished(j).place = job[j].place /\ Asks(Finished(j)) = Asks(job[j])
<1> DEFINE a == [job[j] EXCEPT !.at = "done"]
           b == [a EXCEPT !.home = NoChat, !.saw = Null, !.first = FALSE]
           d == [b EXCEPT !.sig = 0, !.lo = 0, !.hi = 0]
<1>1. job[j] \in Rec /\ Finished(j) = d
  BY DEF Finished
<1>2. /\ a \in Rec /\ a.at = "done" /\ a.seen = job[j].seen /\ a.place = job[j].place
      /\ a.title = job[j].title /\ a.brief = job[j].brief
  BY <1>1 DEF Rec, At
<1> HIDE DEF a
<1>3. /\ b \in Rec /\ b.at = "done" /\ b.seen = a.seen /\ b.place = a.place
      /\ b.title = a.title /\ b.brief = a.brief
  BY <1>2, Resets, ConstantsAre
<1> HIDE DEF b
<1>4. PICK nobody \in 0 .. MaxJobs, zero \in Int : nobody = 0 /\ zero = 0
  BY ConstantsAre
<1>0. d = [b EXCEPT !.sig = nobody, !.lo = zero, !.hi = zero]
  BY <1>4
<1> HIDE DEF d
<1>5. /\ d \in Rec /\ d.at = "done" /\ d.seen = b.seen /\ d.place = b.place
      /\ d.title = b.title /\ d.brief = b.brief
  BY <1>3, <1>0 DEF Rec
<1> QED
  BY <1>1, <1>2, <1>3, <1>5 DEF Asks

\* Aborting raises flags of the signals only.
LEMMA AbortKeeps ==
  ASSUME NEW jobs \in [Jobs -> Rec]
  PROVE  /\ Abort(jobs) \in [Jobs -> Rec]
         /\ \A k \in Jobs : Places(Abort(jobs)[k]) = Places(jobs[k])
                            /\ Asks(Abort(jobs)[k]) = Asks(jobs[k])
<1>1. ASSUME NEW k \in Jobs
      PROVE  /\ Abort(jobs)[k] \in Rec
             /\ Places(Abort(jobs)[k]) = Places(jobs[k]) /\ Asks(Abort(jobs)[k]) = Asks(jobs[k])
  <2>1. jobs[k] \in Rec
    OBVIOUS
  <2>2. Abort(jobs)[k] = [jobs[k] EXCEPT !.noTitle = @ \/ k = titleCtl,
                                         !.noBrief = @ \/ k = inferCtl,
                                         !.cut = @ \/ k = propCtl]
    BY DEF Abort
  <2> DEFINE a == jobs[k].noTitle \/ k = titleCtl
             b == jobs[k].noBrief \/ k = inferCtl
             d == jobs[k].cut \/ k = propCtl
  <2>3. a \in BOOLEAN /\ b \in BOOLEAN /\ d \in BOOLEAN
    OBVIOUS
  <2>4. Abort(jobs)[k] = [[[jobs[k] EXCEPT !.noTitle = a] EXCEPT !.noBrief = b] EXCEPT !.cut = d]
    BY <2>1, <2>2 DEF Rec
  <2> HIDE DEF a, b, d
  <2> QED
    BY <2>1, <2>3, <2>4, ZenonT(60) DEF Rec, Places, Asks
<1> QED
  BY <1>1 DEF Abort

LEMMA OrdsAre ==
  ASSUME Typed, NEW c \in Chats
  PROVE  /\ Ords(c) \in SUBSET Int /\ IsFiniteSet(Ords(c))
         /\ rows[c] # {} => Ords(c) # {}
         /\ \A r \in rows[c] : r \in RowT /\ r.ord \in Ords(c) /\ r.ord \in Int
         /\ \A o \in Ords(c) : \E r \in rows[c] : o = r.ord
<1>1. rows[c] \in SUBSET RowT /\ IsFiniteSet(rows[c])
  BY DEF Typed
<1>2. Ords(c) = {r.ord : r \in rows[c]}
  BY DEF Ords
<1>3. IsFiniteSet(Ords(c))
  <2> DEFINE ordOf == [r \in rows[c] |-> r.ord]
  <2>1. ordOf \in Surjection(rows[c], Ords(c))
    BY <1>2 DEF Surjection
  <2> QED
    BY <1>1, <2>1, FS_Surjection
<1> QED
  BY <1>1, <1>2, <1>3 DEF RowT

-----------------------------------------------------------------------------
(* The invariants, and the steps that leave most of them alone.            *)

Asking == {"streaming", "done"}

\* A title that is asked for has the flag and the controller to itself, and
\* the send that asks for it has come that far.
Titles == \A j \in Jobs : job[j].title # "none" => titling /\ titleCtl = j
Asked == \A j \in Jobs : job[j].title # "none" \/ job[j].brief # "none" => job[j].at \in Asking
Flags == Titles /\ Asked /\ FlagsComeDown

Stored == {"inserted", "done", "unheard"}
Landed == {"appended", "assembling", "streaming"} \union Stored
Placed == {"building", "summarising", "placing", "inserting"}

\* Only a propagation has a place for its row, and it has it from its anchor on.
Unplaced ==
  \A j \in Jobs : job[j].at \notin Placed \union Stored \union {"failed"} => job[j].place = "none"

\* A job keeps what the places of rows rest on, or it goes where nothing does.
Rests(k) ==
  \/ Places(job'[k]) = Places(job[k])
  \/ /\ job'[k].seen = job[k].seen /\ job'[k].place = job[k].place
     /\ job[k].at \notin {"done", "unheard"}
     /\ job'[k].at \notin Placed \union {"reading", "appending"}
     /\ job[k].at \in Landed => job'[k].at \in Landed
     /\ \/ job'[k].at = "failed" \/ job[k].place = "none"
        \/ job[k].at = "inserted" /\ job'[k].at \in Stored

Quiet ==
  /\ \A k \in Jobs : Rests(k)
  /\ \A c \in Chats : rows'[c] \subseteq rows[c]

\* No flag is raised, and the propagations that end take theirs down.
Lowers ==
  /\ \A k \in Jobs : /\ Asks(job'[k]) = Asks(job[k])
                     /\ job[k].at \in Asking => job'[k].at \in Asking
                     /\ job[k].at \in Propagating /\ job'[k].at \notin Propagating
                          => prop' # "running" /\ propCtl' = 0
  /\ titling' = titling /\ titleCtl' = titleCtl
  /\ inferring' \in {inferring, FALSE} /\ inferCtl' = inferCtl
  /\ prop' # prop => prop' # "running"
  /\ propCtl' \in {propCtl, 0}

LEMMA LoweringKeepsFlags ==
  ASSUME Typed, Typed', Flags, Lowers
  PROVE  Flags'
<1>1. \A k \in Jobs : /\ (job'[k].title # "none") = (job[k].title # "none")
                      /\ (job'[k].brief # "none") = (job[k].brief # "none")
  BY DEF Lowers, Asks
<1>2. Titles' /\ Asked'
  BY <1>1 DEF Flags, Titles, Asked, Lowers
<1>3. FlagsComeDown'
  <2>1. (\A k \in Jobs : job'[k].title = "none") => ~titling' /\ titleCtl' = 0
    BY <1>1 DEF Flags, FlagsComeDown, Lowers
  <2>2. (\A k \in Jobs : job'[k].brief = "none") => ~inferring' /\ inferCtl' = 0
    BY <1>1 DEF Flags, FlagsComeDown, Lowers
  <2>3. (\A k \in Jobs : job'[k].at \notin Propagating) => prop' # "running" /\ propCtl' = 0
    <3>1. CASE \A k \in Jobs : job[k].at \notin Propagating
      BY <3>1 DEF Flags, FlagsComeDown, Lowers
    <3>2. CASE ~\A k \in Jobs : job[k].at \notin Propagating
      BY <3>2 DEF Lowers
    <3> QED
      BY <3>1, <3>2
  <2> QED
    BY <2>1, <2>2, <2>3 DEF FlagsComeDown, Propagating
<1> QED
  BY <1>2, <1>3 DEF Flags

\* How a job may go on without touching what the places of rows rest on.
Onward(q, r) ==
  /\ r.seen = q.seen /\ r.place = q.place /\ Asks(r) = Asks(q)
  /\ q.at \notin {"done", "failed", "unheard"}
  /\ r.at \notin Placed \union {"reading", "appending"}
  /\ q.at \in Landed => r.at \in Landed
  /\ q.at \in Asking => r.at \in Asking
  /\ q.at \in Placed => r.at = "failed"
  /\ q.at = "inserted" => r.at \in Stored

LEMMA OnwardRests ==
  ASSUME Typed, Unplaced, NEW j \in Jobs, NEW r \in Rec, Onward(job[j], r),
         NEW k \in Jobs, k = j => Places(job'[k]) = Places(r) /\ Asks(job'[k]) = Asks(r),
         k # j => Places(job'[k]) = Places(job[k]) /\ Asks(job'[k]) = Asks(job[k])
  PROVE  /\ Rests(k) /\ Asks(job'[k]) = Asks(job[k])
         /\ job[k].at \in Asking => job'[k].at \in Asking
         /\ job'[k].at = IF k = j THEN r.at ELSE job[k].at
<1>1. CASE k # j
  BY <1>1 DEF Rests, Places
<1>2. CASE k = j
  <2>1. /\ job'[j].at = r.at /\ job'[j].seen = r.seen /\ job'[j].place = r.place
        /\ Asks(job'[j]) = Asks(r)
    BY <1>2 DEF Places
  <2>2. job[j].at \notin Placed \union {"inserted"} => job[j].place = "none"
    BY DEF Unplaced, Onward, Stored
  <2> QED
    BY <1>2, <2>1, <2>2 DEF Onward, Rests
<1> QED
  BY <1>1, <1>2

LEMMA MovesOn ==
  ASSUME Typed, Unplaced, NEW j \in Jobs, NEW r \in Rec, Is(j, r), Onward(job[j], r)
  PROVE  /\ job' \in [Jobs -> Rec]
         /\ \A k \in Jobs : /\ Rests(k) /\ Asks(job'[k]) = Asks(job[k])
                            /\ job[k].at \in Asking => job'[k].at \in Asking
                            /\ job'[k].at = IF k = j THEN r.at ELSE job[k].at
<1>1. /\ job' \in [Jobs -> Rec] /\ job'[j] = r
      /\ \A k \in Jobs \ {j} : job'[k] = job[k]
  BY IsMoves DEF Typed
<1> QED
  BY <1>1, OnwardRests

LEMMA AbortMovesOn ==
  ASSUME Typed, Unplaced, NEW j \in Jobs, NEW r \in Rec, Onward(job[j], r),
         job' = Abort([job EXCEPT ![j] = r])
  PROVE  /\ job' \in [Jobs -> Rec]
         /\ \A k \in Jobs : /\ Rests(k) /\ Asks(job'[k]) = Asks(job[k])
                            /\ job[k].at \in Asking => job'[k].at \in Asking
                            /\ job'[k].at = IF k = j THEN r.at ELSE job[k].at
<1> DEFINE jobs == [job EXCEPT ![j] = r]
<1>1. jobs \in [Jobs -> Rec] /\ jobs[j] = r /\ \A k \in Jobs \ {j} : jobs[k] = job[k]
  BY DEF Typed
<1> HIDE DEF jobs
<1>2. /\ Abort(jobs) \in [Jobs -> Rec]
      /\ \A k \in Jobs : Places(Abort(jobs)[k]) = Places(jobs[k])
                         /\ Asks(Abort(jobs)[k]) = Asks(jobs[k])
  BY <1>1, AbortKeeps
<1>3. job' = Abort(jobs)
  BY DEF jobs
<1>4. ASSUME NEW k \in Jobs
      PROVE  Places(job'[k]) = Places(jobs[k]) /\ Asks(job'[k]) = Asks(jobs[k])
  BY <1>2, <1>3
<1>5. ASSUME NEW k \in Jobs
      PROVE  /\ k = j => Places(job'[k]) = Places(r) /\ Asks(job'[k]) = Asks(r)
             /\ k # j => Places(job'[k]) = Places(job[k]) /\ Asks(job'[k]) = Asks(job[k])
  BY <1>1, <1>4
<1> QED
  BY <1>2, <1>3, <1>5, OnwardRests

-----------------------------------------------------------------------------
(* Steps that rest: the page's calls that only begin, the reads, and the   *)
(* ends.                                                                   *)

LEMMA ReturnsOnward ==
  ASSUME Typed, NEW j \in Jobs, job[j].at \notin Placed \union {"done", "failed", "unheard"}
  PROVE  Finished(j) \in Rec /\ Onward(job[j], Finished(j)) /\ Finished(j).at = "done"
BY FinishedIs DEF Typed, Onward, Placed, Asking, Landed, Stored

LEMMA RecIs ==
  ASSUME Typed, NEW j \in Jobs
  PROVE  /\ job[j] \in Rec /\ job[j].home \in Chats \union {NoChat}
         /\ job[j].saw \in Known /\ job[j].first \in BOOLEAN
BY DEF Typed, Rec

LEMMA LoadStep ==
  ASSUME Typed, Unplaced, NEW j \in Jobs, NEW c \in Chats, Load(j, c)
  PROVE  Typed' /\ Quiet /\ (Flags => Flags')
<1> DEFINE r == [job[j] EXCEPT !.at = "loading", !.home = c]
<1>1. job[j] \in Rec /\ job[j].at = "idle" /\ job' = Abort([job EXCEPT ![j] = r])
  <2>1. job[j] \in Rec /\ job[j].at = "idle"
    BY RecIs DEF Load, Starts
  <2>2. [job EXCEPT ![j].at = "loading", ![j].home = c] = [job EXCEPT ![j] = r]
    BY DEF Typed
  <2> QED
    BY <2>1, <2>2 DEF Load
<1>2. r \in Rec /\ Onward(job[j], r) /\ r.at = "loading"
  BY <1>1, ZenonT(60) DEF Rec, At, Onward, Asks, Placed, Landed, Stored, Asking
<1> HIDE DEF r
<1>3. /\ job' \in [Jobs -> Rec]
      /\ \A k \in Jobs : /\ Rests(k) /\ Asks(job'[k]) = Asks(job[k])
                         /\ job[k].at \in Asking => job'[k].at \in Asking
                         /\ job'[k].at = IF k = j THEN r.at ELSE job[k].at
  BY <1>1, <1>2, AbortMovesOn
<1>4. Typed' /\ rows' = rows
  BY <1>3, ConstantsAre DEF Typed, Load, Reset, title, db
<1>5. Quiet /\ Lowers
  BY <1>1, <1>2, <1>3, <1>4 DEF Quiet, Lowers, Load, Reset, title, Propagating
<1> QED
  BY <1>4, <1>5, LoweringKeepsFlags

LEMMA DeletedStep ==
  ASSUME Typed, Unplaced, NEW j \in Jobs, Deleted(j)
  PROVE  Typed' /\ Quiet /\ (Flags => Flags')
<1>1. job[j].at = "deleted"
  BY DEF Deleted
<1>2. Finished(j) \in Rec /\ Onward(job[j], Finished(j)) /\ Finished(j).at = "done"
  BY <1>1, ReturnsOnward DEF Placed
<1>3. /\ job' \in [Jobs -> Rec]
      /\ \A k \in Jobs : /\ Rests(k) /\ Asks(job'[k]) = Asks(job[k])
                         /\ job[k].at \in Asking => job'[k].at \in Asking
                         /\ job'[k].at = IF k = j THEN "done" ELSE job[k].at
  <2>1. CASE Is(j, Finished(j))
    BY <1>2, <2>1, MovesOn
  <2>2. CASE job' = Abort([job EXCEPT ![j] = Finished(j)])
    BY <1>2, <2>2, AbortMovesOn
  <2> QED
    BY <2>1, <2>2 DEF Deleted
<1>4. Typed' /\ rows' = rows
  BY <1>3, ConstantsAre DEF Typed, Deleted, Reset, store, title, infer, propagation, db
<1>5. Quiet /\ Lowers
  BY <1>1, <1>3, <1>4 DEF Quiet, Lowers, Deleted, Reset, title, infer, propagation, Propagating
<1> QED
  BY <1>4, <1>5, LoweringKeepsFlags

LEMMA LoadReadsStep ==
  ASSUME Typed, Unplaced, NEW j \in Jobs, LoadReads(j)
  PROVE  Typed' /\ Quiet /\ (Flags => Flags')
<1> DEFINE what == InDb(job[j].home)
           none == rows[job[j].home] = {}
           r == [job[j] EXCEPT !.at = "showing", !.saw = what, !.first = none]
<1>1. job[j] \in Rec /\ job[j].at = "loading" /\ Is(j, r)
  BY RecIs DEF LoadReads
<1>2. what \in Known /\ none \in BOOLEAN
  BY ConstantsAre, RecIs DEF InDb, Known
<1> HIDE DEF what, none
<1>3. r \in Rec /\ Onward(job[j], r) /\ r.at = "showing"
  BY <1>1, <1>2, ZenonT(60) DEF Rec, At, Onward, Asks, Placed, Landed, Stored, Asking
<1> HIDE DEF r
<1>4. /\ job' \in [Jobs -> Rec]
      /\ \A k \in Jobs : /\ Rests(k) /\ Asks(job'[k]) = Asks(job[k])
                         /\ job[k].at \in Asking => job'[k].at \in Asking
                         /\ job'[k].at = IF k = j THEN "showing" ELSE job[k].at
  BY <1>1, <1>3, MovesOn
<1>5. Typed' /\ rows' = rows
  BY <1>1, <1>4 DEF Typed, LoadReads, store, title, infer, propagation, db
<1>6. Quiet /\ Lowers
  BY <1>1, <1>4, <1>5 DEF Quiet, Lowers, LoadReads, title, infer, propagation, Propagating
<1> QED
  BY <1>5, <1>6, LoweringKeepsFlags

LEMMA LoadShowsStep ==
  ASSUME Typed, Unplaced, NEW j \in Jobs, LoadShows(j)
  PROVE  Typed' /\ Quiet /\ (Flags => Flags')
<1>1. job[j].at \in {"showing"} /\ Is(j, Finished(j))
  BY DEF LoadShows
<1>2. Finished(j) \in Rec /\ Onward(job[j], Finished(j)) /\ Finished(j).at = "done"
  BY <1>1, ReturnsOnward DEF Placed
<1>3. /\ job' \in [Jobs -> Rec]
      /\ \A k \in Jobs : /\ Rests(k) /\ Asks(job'[k]) = Asks(job[k])
                         /\ job[k].at \in Asking => job'[k].at \in Asking
                         /\ job'[k].at = IF k = j THEN "done" ELSE job[k].at
  BY <1>1, <1>2, MovesOn
<1>4. Typed' /\ rows' = rows
  BY <1>1, <1>3, RecIs, ConstantsAre DEF Typed, LoadShows, store, title, infer, propagation, db
<1>5. Quiet /\ Lowers
  BY <1>1, <1>3, <1>4 DEF Quiet, Lowers, LoadShows, title, infer, propagation, Propagating
<1> QED
  BY <1>4, <1>5, LoweringKeepsFlags

LEMMA StreamStep ==
  ASSUME Typed, Unplaced, NEW j \in Jobs, Stream(j)
  PROVE  Typed' /\ Quiet /\ (Flags => Flags')
<1> DEFINE r == [job[j] EXCEPT !.at = "assembling"]
<1>1. job[j] \in Rec /\ job[j].at \in {"appended"} /\ Is(j, r)
  BY RecIs DEF Stream, Goes
<1>2. r \in Rec /\ Onward(job[j], r) /\ r.at = "assembling"
  BY <1>1 DEF Rec, At, Onward, Asks, Placed, Landed, Stored, Asking
<1> HIDE DEF r
<1>3. /\ job' \in [Jobs -> Rec]
      /\ \A k \in Jobs : /\ Rests(k) /\ Asks(job'[k]) = Asks(job[k])
                         /\ job[k].at \in Asking => job'[k].at \in Asking
                         /\ job'[k].at = IF k = j THEN "assembling" ELSE job[k].at
  BY <1>1, <1>2, MovesOn
<1>4. Typed' /\ rows' = rows
  BY <1>1, <1>3 DEF Typed, Stream, store, title, infer, propagation, db
<1>5. Quiet /\ Lowers
  BY <1>1, <1>3, <1>4 DEF Quiet, Lowers, Stream, title, infer, propagation, Propagating
<1> QED
  BY <1>4, <1>5, LoweringKeepsFlags

LEMMA StreamOverStep ==
  ASSUME Typed, Unplaced, NEW j \in Jobs, StreamOver(j)
  PROVE  Typed' /\ Quiet /\ (Flags => Flags')
<1>1. job[j].at \in {"assembling", "streaming"} /\ Is(j, Finished(j))
  BY DEF StreamOver
<1>2. Finished(j) \in Rec /\ Onward(job[j], Finished(j)) /\ Finished(j).at = "done"
  BY <1>1, ReturnsOnward DEF Placed
<1>3. /\ job' \in [Jobs -> Rec]
      /\ \A k \in Jobs : /\ Rests(k) /\ Asks(job'[k]) = Asks(job[k])
                         /\ job[k].at \in Asking => job'[k].at \in Asking
                         /\ job'[k].at = IF k = j THEN "done" ELSE job[k].at
  BY <1>1, <1>2, MovesOn
<1>4. Typed' /\ rows' = rows
  BY <1>1, <1>3 DEF Typed, StreamOver, store, title, infer, propagation, db
<1>5. Quiet /\ Lowers
  BY <1>1, <1>3, <1>4 DEF Quiet, Lowers, StreamOver, title, infer, propagation, Propagating
<1> QED
  BY <1>4, <1>5, LoweringKeepsFlags

LEMMA SaveStep ==
  ASSUME Typed, Unplaced, NEW j \in Jobs, NEW how \in {"saving", "confirming"}, Save(j, how)
  PROVE  Typed' /\ Quiet /\ (Flags => Flags')
<1> DEFINE r == [job[j] EXCEPT !.at = how, !.saw = view]
<1>1. job[j] \in Rec /\ job[j].at \in {"idle"} /\ Is(j, r) /\ view \in Known
  BY RecIs DEF Save, Starts, Typed
<1>2. r \in Rec /\ Onward(job[j], r) /\ r.at = how
  BY <1>1, ZenonT(60) DEF Rec, At, Onward, Asks, Placed, Landed, Stored, Asking
<1> HIDE DEF r
<1>3. /\ job' \in [Jobs -> Rec]
      /\ \A k \in Jobs : /\ Rests(k) /\ Asks(job'[k]) = Asks(job[k])
                         /\ job[k].at \in Asking => job'[k].at \in Asking
                         /\ job'[k].at = IF k = j THEN how ELSE job[k].at
  BY <1>1, <1>2, MovesOn
<1>4. Typed' /\ rows' = rows
  BY <1>1, <1>3 DEF Typed, Save, store, title, infer, propagation, db
<1>5. Quiet /\ Lowers
  BY <1>1, <1>3, <1>4 DEF Quiet, Lowers, Save, title, infer, propagation, Propagating
<1> QED
  BY <1>4, <1>5, LoweringKeepsFlags

LEMMA SavedStep ==
  ASSUME Typed, Unplaced, NEW j \in Jobs, Saved(j)
  PROVE  Typed' /\ Quiet /\ (Flags => Flags')
<1>1. job[j].at \in {"saving", "confirming"} /\ Is(j, Finished(j))
  BY DEF Saved
<1>2. Finished(j) \in Rec /\ Onward(job[j], Finished(j)) /\ Finished(j).at = "done"
  BY <1>1, ReturnsOnward DEF Placed
<1>3. /\ job' \in [Jobs -> Rec]
      /\ \A k \in Jobs : /\ Rests(k) /\ Asks(job'[k]) = Asks(job[k])
                         /\ job[k].at \in Asking => job'[k].at \in Asking
                         /\ job'[k].at = IF k = j THEN "done" ELSE job[k].at
  BY <1>1, <1>2, MovesOn
<1>4. Typed' /\ rows' = rows
  BY <1>1, <1>3, RecIs DEF Typed, Saved, Known, store, title, infer, propagation, db
<1>5. Quiet /\ Lowers
  BY <1>1, <1>3, <1>4 DEF Quiet, Lowers, Saved, title, infer, propagation, Propagating
<1> QED
  BY <1>4, <1>5, LoweringKeepsFlags

LEMMA RegenerateStep ==
  ASSUME Typed, Unplaced, NEW j \in Jobs, Regenerate(j)
  PROVE  Typed' /\ Quiet /\ (Flags => Flags')
<1> DEFINE r == [job[j] EXCEPT !.at = "regen_checking"]
<1>1. job[j] \in Rec /\ job[j].at \in {"idle"} /\ Is(j, r)
  BY RecIs DEF Regenerate, Goes, Starts
<1>2. r \in Rec /\ Onward(job[j], r) /\ r.at = "regen_checking"
  BY <1>1 DEF Rec, At, Onward, Asks, Placed, Landed, Stored, Asking
<1> HIDE DEF r
<1>3. /\ job' \in [Jobs -> Rec]
      /\ \A k \in Jobs : /\ Rests(k) /\ Asks(job'[k]) = Asks(job[k])
                         /\ job[k].at \in Asking => job'[k].at \in Asking
                         /\ job'[k].at = IF k = j THEN "regen_checking" ELSE job[k].at
  BY <1>1, <1>2, MovesOn
<1>4. Typed' /\ rows' = rows
  BY <1>1, <1>3 DEF Typed, Regenerate, store, title, infer, propagation, db
<1>5. Quiet /\ Lowers
  BY <1>1, <1>3, <1>4 DEF Quiet, Lowers, Regenerate, title, infer, propagation, Propagating
<1> QED
  BY <1>4, <1>5, LoweringKeepsFlags

LEMMA DeleteStep ==
  ASSUME Typed, Unplaced, NEW j \in Jobs, NEW d \in Chats, Delete(j, d)
  PROVE  Typed' /\ Quiet /\ (Flags => Flags')
<1> DEFINE r == [job[j] EXCEPT !.at = "deleted", !.home = d]
<1>1. job[j] \in Rec /\ job[j].at \in {"idle"} /\ Is(j, r)
  BY RecIs DEF Delete, Starts
<1>2. r \in Rec /\ Onward(job[j], r) /\ r.at = "deleted"
  BY <1>1, ZenonT(60) DEF Rec, At, Onward, Asks, Placed, Landed, Stored, Asking
<1> HIDE DEF r
<1>3. /\ job' \in [Jobs -> Rec]
      /\ \A k \in Jobs : /\ Rests(k) /\ Asks(job'[k]) = Asks(job[k])
                         /\ job[k].at \in Asking => job'[k].at \in Asking
                         /\ job'[k].at = IF k = j THEN "deleted" ELSE job[k].at
  BY <1>1, <1>2, MovesOn
<1>4. Typed' /\ \A c \in Chats : rows'[c] \subseteq rows[c]
  BY <1>1, <1>3, FS_EmptySet DEF Typed, Delete, store, title, infer, propagation, db
<1>5. Quiet /\ Lowers
  BY <1>1, <1>3, <1>4 DEF Quiet, Lowers, Delete, title, infer, propagation, Propagating
<1> QED
  BY <1>4, <1>5, LoweringKeepsFlags

\* A method whose last await was its last: it returns, and any status it sets is not "running".
LEMMA ReturnsStep ==
  ASSUME Typed, Unplaced, NEW j \in Jobs, Is(j, Finished(j)),
         job[j].at \in {"discarding", "inserted", "regen_writing"},
         prop' \in {prop, "idle"}, propCtl' \in {propCtl, 0}, last' \in 0 .. MaxJobs,
         job[j].at \in Propagating => prop' = "idle" /\ propCtl' = 0,
         UNCHANGED <<store, title, infer, db>>
  PROVE  Typed' /\ Quiet /\ (Flags => Flags')
<1>1. Finished(j) \in Rec /\ Onward(job[j], Finished(j)) /\ Finished(j).at = "done"
  BY FinishedIs DEF Typed, Onward, Placed, Asking, Landed, Stored
<1>2. /\ job' \in [Jobs -> Rec]
      /\ \A k \in Jobs : /\ Rests(k) /\ Asks(job'[k]) = Asks(job[k])
                         /\ job[k].at \in Asking => job'[k].at \in Asking
                         /\ job'[k].at = IF k = j THEN "done" ELSE job[k].at
  BY <1>1, MovesOn
<1>3. Typed' /\ rows' = rows
  BY <1>2, ConstantsAre DEF Typed, store, title, infer, db
<1>4. Quiet /\ Lowers
  BY <1>2, <1>3 DEF Quiet, Lowers, title, infer, Propagating
<1> QED
  BY <1>3, <1>4, LoweringKeepsFlags

LEMMA ArtifactDeletedStep ==
  ASSUME Typed, Unplaced, NEW j \in Jobs, ArtifactDeleted(j)
  PROVE  Typed' /\ Quiet /\ (Flags => Flags')
<1>1. /\ job[j].at = "discarding" /\ Is(j, Finished(j))
      /\ prop' \in {prop, "idle"} /\ propCtl' = propCtl /\ last' = last
      /\ UNCHANGED <<store, title, infer, db>>
  BY DEF ArtifactDeleted
<1>2. last' \in 0 .. MaxJobs /\ job[j].at \notin Propagating
  BY <1>1 DEF Typed, Propagating
<1> QED
  BY <1>1, <1>2, ReturnsStep

-----------------------------------------------------------------------------
(* Steps that rest: the side tasks, the propagation that fails, and those  *)
(* of no job.                                                              *)

LEMMA StaysPut ==
  ASSUME Typed, NEW j \in Jobs, NEW r \in Rec, Is(j, r), Places(r) = Places(job[j])
  PROVE  /\ job' \in [Jobs -> Rec] /\ job'[j] = r
         /\ \A k \in Jobs : /\ Rests(k) /\ job'[k].at = job[k].at
                            /\ k # j => job'[k] = job[k]
<1>1. /\ job' \in [Jobs -> Rec] /\ job'[j] = r
      /\ \A k \in Jobs \ {j} : job'[k] = job[k]
  BY IsMoves DEF Typed
<1>2. \A k \in Jobs : Places(job'[k]) = Places(job[k])
  BY <1>1
<1> QED
  BY <1>1, <1>2 DEF Rests, Places

LEMMA DismissStep ==
  ASSUME Typed, Dismiss
  PROVE  Typed' /\ Quiet /\ (Flags => Flags')
<1>1. job' = job
  BY DEF Dismiss
<1>2. Typed' /\ rows' = rows
  BY <1>1, ConstantsAre DEF Typed, Dismiss, store, title, propagation, db
<1>3. \A k \in Jobs : Rests(k)
  BY <1>1 DEF Rests
<1>4. Quiet /\ Lowers
  BY <1>1, <1>2, <1>3 DEF Quiet, Lowers, Dismiss, title, propagation
<1> QED
  BY <1>2, <1>4, LoweringKeepsFlags

LEMMA DeleteArtifactStep ==
  ASSUME Typed, Unplaced, NEW j \in Jobs, DeleteArtifact(j)
  PROVE  Typed' /\ Quiet /\ (Flags => Flags')
<1> DEFINE r == [job[j] EXCEPT !.at = "discarding"]
<1>1. job[j] \in Rec /\ job[j].at = "idle" /\ Is(j, r)
  BY RecIs DEF DeleteArtifact, Starts, Goes
<1>2. r \in Rec /\ Onward(job[j], r) /\ r.at = "discarding"
  BY <1>1 DEF Rec, At, Onward, Asks, Placed, Landed, Stored, Asking
<1> HIDE DEF r
<1>3. /\ job' \in [Jobs -> Rec]
      /\ \A k \in Jobs : /\ Rests(k) /\ Asks(job'[k]) = Asks(job[k])
                         /\ job[k].at \in Asking => job'[k].at \in Asking
                         /\ job'[k].at = IF k = j THEN "discarding" ELSE job[k].at
  BY <1>1, <1>2, MovesOn
<1>4. PICK a \in Artifacts : rows' = [rows EXCEPT ![Parent] = @ \ {a}]
  BY DEF DeleteArtifact
<1>5. IsFiniteSet(rows[Parent] \ {a})
  BY ConstantsAre, FS_Subset DEF Typed
<1>6. Typed' /\ \A c \in Chats : rows'[c] \subseteq rows[c]
  BY <1>3, <1>4, <1>5, ConstantsAre DEF Typed, DeleteArtifact, store, title, infer, propagation
<1>7. Quiet /\ Lowers
  BY <1>1, <1>3, <1>6
     DEF Quiet, Lowers, DeleteArtifact, title, infer, propagation, Propagating
<1> QED
  BY <1>6, <1>7, LoweringKeepsFlags

\* The title that ends was the only one.
LEMMA TitleEndsStep ==
  ASSUME Typed, NEW j \in Jobs, job[j].title # "none", TitleEnds(j),
         UNCHANGED <<infer, propagation, rows>>,
         Typed => chatId' \in Chats \union {NoChat} /\ view' \in Known,
         UNCHANGED <<empty, loading, streaming, alive, briefed>>, titled' \subseteq Chats
  PROVE  Typed' /\ Quiet /\ (Flags => Flags')
<1> DEFINE whose == IF job[j].brief = "none" THEN NoChat ELSE job[j].about
           r == [job[j] EXCEPT !.title = "none", !.noTitle = FALSE, !.about = whose]
<1>1. job[j] \in Rec /\ Is(j, r)
  <2>1. job[j] \in Rec
    BY RecIs
  <2>2. r = [job[j] EXCEPT !.title = "none", !.noTitle = FALSE,
                           !.about = IF job[j].brief = "none" THEN NoChat ELSE @]
    BY <2>1 DEF Rec
  <2> QED
    BY <2>1, <2>2 DEF TitleEnds
<1>2. whose \in Chats \union {NoChat}
  BY <1>1 DEF Rec
<1> HIDE DEF whose
<1>3. r \in Rec /\ Places(r) = Places(job[j]) /\ r.title = "none" /\ r.brief = job[j].brief
  BY <1>1, <1>2 DEF Rec, Places
<1> HIDE DEF r
<1>4. /\ job' \in [Jobs -> Rec] /\ job'[j] = r
      /\ \A k \in Jobs : /\ Rests(k) /\ job'[k].at = job[k].at
                         /\ k # j => job'[k] = job[k]
  BY <1>1, <1>3, StaysPut
<1>5. Typed'
  BY <1>4, ConstantsAre DEF Typed, TitleEnds, infer, propagation
<1>6. Quiet
  BY <1>4 DEF Quiet, propagation
<1>7. ASSUME Flags PROVE Flags'
  <2>1. \A k \in Jobs : job'[k].title = "none" /\ job'[k].brief = job[k].brief
    BY <1>3, <1>4, <1>7 DEF Flags, Titles
  <2>2. Titles' /\ Asked'
    BY <1>4, <1>7, <2>1 DEF Flags, Titles, Asked
  <2>3. FlagsComeDown'
    BY <1>4, <1>7, <2>1 DEF Flags, FlagsComeDown, TitleEnds, infer, propagation, Propagating
  <2> QED
    BY <2>2, <2>3 DEF Flags
<1> QED
  BY <1>5, <1>6, <1>7

LEMMA TitleDroppedStep ==
  ASSUME Typed, NEW j \in Jobs, TitleDropped(j)
  PROVE  Typed' /\ Quiet /\ (Flags => Flags')
BY TitleEndsStep DEF TitleDropped, Typed, store, infer, propagation, db

LEMMA TitleWrittenStep ==
  ASSUME Typed, NEW j \in Jobs, TitleWritten(j)
  PROVE  Typed' /\ Quiet /\ (Flags => Flags')
<1>1. chatId' \in Chats \union {NoChat} /\ view' \in Known /\ titled' \subseteq Chats
  BY DEF TitleWritten, Typed, Known
<1> QED
  BY <1>1, TitleEndsStep DEF TitleWritten, infer, propagation

LEMMA TitleGeneratedStep ==
  ASSUME Typed, NEW j \in Jobs, TitleGenerated(j)
  PROVE  Typed' /\ Quiet /\ (Flags => Flags')
<1> DEFINE r == [job[j] EXCEPT !.title = "writing"]
<1>1. job[j] \in Rec /\ Is(j, r) /\ job[j].title # "none"
  BY RecIs DEF TitleGenerated
<1>2. r \in Rec /\ Places(r) = Places(job[j]) /\ Asks(r) = Asks(job[j])
  BY <1>1 DEF Rec, Places, Asks
<1> HIDE DEF r
<1>3. /\ job' \in [Jobs -> Rec] /\ job'[j] = r
      /\ \A k \in Jobs : /\ Rests(k) /\ job'[k].at = job[k].at
                         /\ k # j => job'[k] = job[k]
  BY <1>1, <1>2, StaysPut
<1>4. Typed'
  BY <1>3 DEF Typed, TitleGenerated, store, title, infer, propagation, db
<1>5. \A k \in Jobs : Asks(job'[k]) = Asks(job[k])
  BY <1>2, <1>3
<1>6. Quiet /\ Lowers
  BY <1>3, <1>5 DEF Quiet, Lowers, TitleGenerated, title, infer, propagation, db
<1> QED
  BY <1>4, <1>6, LoweringKeepsFlags

LEMMA BriefOverStep ==
  ASSUME Typed, NEW j \in Jobs, BriefOver(j)
  PROVE  Typed' /\ Quiet /\ (Flags => Flags')
<1> DEFINE whose == IF job[j].title = "none" THEN NoChat ELSE job[j].about
           r == [job[j] EXCEPT !.brief = "none", !.noBrief = FALSE, !.about = whose]
<1>1. job[j] \in Rec /\ Is(j, r)
  <2>1. job[j] \in Rec
    BY RecIs
  <2>2. r = [job[j] EXCEPT !.brief = "none", !.noBrief = FALSE,
                           !.about = IF job[j].title = "none" THEN NoChat ELSE @]
    BY <2>1 DEF Rec
  <2> QED
    BY <2>1, <2>2 DEF BriefOver
<1>2. whose \in Chats \union {NoChat} /\ job[j].about \in Chats \union {NoChat}
  BY <1>1 DEF Rec
<1> HIDE DEF whose
<1>3. r \in Rec /\ Places(r) = Places(job[j]) /\ r.brief = "none" /\ r.title = job[j].title
  BY <1>1, <1>2 DEF Rec, Places
<1> HIDE DEF r
<1>4. /\ job' \in [Jobs -> Rec] /\ job'[j] = r
      /\ \A k \in Jobs : /\ Rests(k) /\ job'[k].at = job[k].at
                         /\ k # j => job'[k] = job[k]
  BY <1>1, <1>3, StaysPut
<1>5. Typed'
  BY <1>2, <1>4, ConstantsAre DEF Typed, BriefOver, store, title, propagation, db
<1>6. Quiet
  BY <1>4 DEF Quiet, BriefOver, propagation, db
<1>7. ASSUME Flags PROVE Flags'
  <2>1. \A k \in Jobs : /\ job'[k].title = job[k].title
                        /\ job'[k].brief = "none" \/ job'[k].brief = job[k].brief
    BY <1>3, <1>4
  <2>2. Titles' /\ Asked'
    BY <1>4, <1>7, <2>1 DEF Flags, Titles, Asked, BriefOver, title
  <2>3. FlagsComeDown'
    BY <1>4, <1>7, <2>1 DEF Flags, FlagsComeDown, BriefOver, title, propagation, Propagating
  <2> QED
    BY <2>2, <2>3 DEF Flags
<1> QED
  BY <1>5, <1>6, <1>7

LEMMA AssembledStep ==
  ASSUME Typed, Unplaced, NEW j \in Jobs, Assembled(j)
  PROVE  Typed' /\ Quiet /\ (Flags => Flags')
<1> DEFINE t == AsksTitle(j)
           b == AsksBrief(j)
           what == IF t THEN "generating" ELSE "none"
           which == IF b THEN "generating" ELSE "none"
           whose == IF t \/ b THEN view.id ELSE NoChat
           a == [job[j] EXCEPT !.at = "streaming"]
           d == [a EXCEPT !.home = NoChat, !.saw = Null, !.first = FALSE]
           r == [d EXCEPT !.title = what, !.brief = which, !.about = whose]
<1>1. /\ job[j] \in Rec /\ job[j].at = "assembling" /\ Is(j, r)
      /\ titling' = (titling \/ t) /\ titleCtl' = IF t THEN j ELSE titleCtl
      /\ inferring' = (inferring \/ b) /\ inferCtl' = IF b THEN j ELSE inferCtl
      /\ UNCHANGED <<store, dismissed, inferred, propagation, db>>
  BY RecIs DEF Assembled
<1>2. /\ what \in {"none", "generating", "writing"} /\ (what # "none" <=> t)
      /\ which \in {"none", "generating"} /\ (which # "none" <=> b)
      /\ whose \in Chats \union {NoChat} /\ (t => ~titling)
  BY DEF AsksTitle, Typed, Known
<1> HIDE DEF t, b, what, which, whose
<1>3. /\ a \in Rec /\ a.at = "streaming" /\ a.seen = job[j].seen /\ a.place = job[j].place
  BY <1>1 DEF Rec, At
<1> HIDE DEF a
<1>4. /\ d \in Rec /\ d.at = "streaming" /\ d.seen = job[j].seen /\ d.place = job[j].place
  BY <1>3, Resets, ConstantsAre
<1> HIDE DEF d
<1>5. /\ r \in Rec /\ r.at = "streaming" /\ r.seen = job[j].seen /\ r.place = job[j].place
      /\ r.title = what /\ r.brief = which
  BY <1>2, <1>4, ZenonT(60) DEF Rec
<1> HIDE DEF r
<1>6. /\ job' \in [Jobs -> Rec] /\ job'[j] = r /\ \A k \in Jobs \ {j} : job'[k] = job[k]
  BY <1>1, <1>5, IsMoves DEF Typed
<1>7. \A k \in Jobs : Rests(k)
  <2>1. Rests(j)
    BY <1>1, <1>5, <1>6 DEF Rests, Unplaced, Placed, Landed, Stored
  <2> QED
    BY <1>6, <2>1 DEF Rests
<1>8. Typed'
  BY <1>1, <1>6 DEF Typed, store, propagation, db, Jobs
<1>9. Quiet
  BY <1>1, <1>7 DEF Quiet, propagation, db
<1>10. ASSUME Flags PROVE Flags'
  <2>1. job[j].title = "none" /\ job[j].brief = "none"
    BY <1>1, <1>10 DEF Flags, Asked, Asking
  <2>2. /\ job'[j].title = what /\ job'[j].brief = which /\ job'[j].at = "streaming"
    BY <1>5, <1>6
  <2>3. Titles' /\ Asked'
    BY <1>1, <1>2, <1>6, <1>10, <2>2 DEF Flags, Titles, Asked, Asking
  <2>4. (\A k \in Jobs : job'[k].title = "none") => ~titling' /\ titleCtl' = 0
    BY <1>1, <1>2, <1>6, <1>10, <2>1, <2>2 DEF Flags, FlagsComeDown
  <2>5. (\A k \in Jobs : job'[k].brief = "none") => ~inferring' /\ inferCtl' = 0
    BY <1>1, <1>2, <1>6, <1>10, <2>1, <2>2 DEF Flags, FlagsComeDown
  <2>6. (\A k \in Jobs : job'[k].at \notin Propagating) => prop' # "running" /\ propCtl' = 0
    <3>1. job[j].at \notin Propagating
      BY <1>1 DEF Propagating
    <3> QED
      BY <1>1, <1>6, <1>10, <3>1 DEF Flags, FlagsComeDown, propagation
  <2> QED
    BY <2>3, <2>4, <2>5, <2>6 DEF Flags, FlagsComeDown, Propagating
<1> QED
  BY <1>8, <1>9, <1>10

\* A propagation that begins, or a report that is written again.
LEMMA RaisingKeepsFlags ==
  ASSUME Typed, Flags, NEW j \in Jobs,
         \A k \in Jobs : Asks(job'[k]) = Asks(job[k]) /\ (job[k].at \in Asking => job'[k].at \in Asking),
         job'[j].at \in Propagating, UNCHANGED <<title, infer>>
  PROVE  Flags'
<1>1. \A k \in Jobs : /\ (job'[k].title # "none") = (job[k].title # "none")
                      /\ (job'[k].brief # "none") = (job[k].brief # "none")
  BY DEF Asks
<1>2. Titles' /\ Asked'
  BY <1>1 DEF Flags, Titles, Asked, title
<1>3. FlagsComeDown'
  BY <1>1 DEF Flags, FlagsComeDown, Propagating, title, infer
<1> QED
  BY <1>2, <1>3 DEF Flags

LEMMA PropFailsStep ==
  ASSUME Typed, Unplaced, NEW j \in Jobs, NEW aborted, PropFails(j, aborted),
         job[j].at \in Propagating, UNCHANGED <<store, title, infer, db>>
  PROVE  Typed' /\ Quiet /\ (Flags => Flags')
<1> DEFINE where == IF job[j].at = "inserted" THEN "unheard" ELSE "failed"
           r == [Finished(j) EXCEPT !.at = where]
<1>1. /\ Finished(j) \in Rec /\ Finished(j).seen = job[j].seen
      /\ Finished(j).place = job[j].place /\ Asks(Finished(j)) = Asks(job[j])
  BY FinishedIs DEF Typed
<1>2. r \in Rec /\ r.at = where /\ Onward(job[j], r) /\ Is(j, r)
  <2>1. r \in Rec /\ r.at = where /\ r.seen = job[j].seen /\ r.place = job[j].place
        /\ Asks(r) = Asks(job[j])
    BY <1>1 DEF Rec, At, Asks
  <2> QED
    BY <2>1 DEF Onward, PropFails, Propagating, Placed, Landed, Stored, Asking
<1>0. where \in {"failed", "unheard"}
  OBVIOUS
<1> HIDE DEF r, where
<1>3. /\ job' \in [Jobs -> Rec]
      /\ \A k \in Jobs : /\ Rests(k) /\ Asks(job'[k]) = Asks(job[k])
                         /\ job[k].at \in Asking => job'[k].at \in Asking
                         /\ job'[k].at = IF k = j THEN where ELSE job[k].at
  BY <1>2, MovesOn
<1>4. Typed' /\ rows' = rows
  BY <1>3, ConstantsAre DEF Typed, PropFails, store, title, infer, db
<1>5. Quiet /\ Lowers
  BY <1>0, <1>3, <1>4 DEF Quiet, Lowers, PropFails, title, infer
<1> QED
  BY <1>4, <1>5, LoweringKeepsFlags

LEMMA NotBuiltStep ==
  ASSUME Typed, Unplaced, NEW j \in Jobs, NotBuilt(j)
  PROVE  Typed' /\ Quiet /\ (Flags => Flags')
<1>1. job[j].at \in Propagating /\ PropFails(j, Aborted(j)) /\ UNCHANGED <<store, title, infer, db>>
  BY DEF NotBuilt, Propagating
<1> QED
  BY <1>1, PropFailsStep

LEMMA NotInsertedStep ==
  ASSUME Typed, Unplaced, NEW j \in Jobs, NotInserted(j)
  PROVE  Typed' /\ Quiet /\ (Flags => Flags')
<1>1. job[j].at \in Propagating /\ PropFails(j, FALSE) /\ UNCHANGED <<store, title, infer, db>>
  BY DEF NotInserted, Propagating
<1> QED
  BY <1>1, PropFailsStep

LEMMA InsertedStep ==
  ASSUME Typed, Unplaced, NEW j \in Jobs, Inserted(j)
  PROVE  Typed' /\ Quiet /\ (Flags => Flags')
<1>1. /\ job[j].at = "inserted" /\ Is(j, Finished(j))
      /\ last' = j /\ prop' = "idle" /\ propCtl' = 0
      /\ UNCHANGED <<store, title, infer, db>>
  BY DEF Inserted
<1>2. last' \in 0 .. MaxJobs
  BY <1>1, ConstantsAre
<1> QED
  BY <1>1, <1>2, ReturnsStep

LEMMA RegenWrittenStep ==
  ASSUME Typed, Unplaced, NEW j \in Jobs, RegenWritten(j)
  PROVE  Typed' /\ Quiet /\ (Flags => Flags')
<1>1. /\ job[j].at = "regen_writing" /\ job[j].at \in Propagating
      /\ UNCHANGED <<store, title, infer, db>>
  BY DEF RegenWritten, Propagating
<1>2. CASE PropFails(j, FALSE)
  BY <1>1, <1>2, PropFailsStep
<1>3. CASE prop' = "idle" /\ propCtl' = 0 /\ Is(j, Finished(j)) /\ last' = last
  <2>1. last' \in 0 .. MaxJobs
    BY <1>3 DEF Typed
  <2> QED
    BY <1>1, <1>3, <2>1, ReturnsStep
<1> QED
  BY <1>2, <1>3 DEF RegenWritten

LEMMA RegeneratedStep ==
  ASSUME Typed, Unplaced, NEW j \in Jobs, Regenerated(j)
  PROVE  Typed' /\ Quiet /\ (Flags => Flags')
<1>1. job[j].at = "regenerating" /\ UNCHANGED <<store, title, infer, db>>
  BY DEF Regenerated
<1>2. CASE PropFails(j, Aborted(j))
  BY <1>1, <1>2, PropFailsStep DEF Propagating
<1>3. CASE Goes(j, "regen_writing") /\ UNCHANGED propagation
  <2> DEFINE r == [job[j] EXCEPT !.at = "regen_writing"]
  <2>1. job[j] \in Rec /\ Is(j, r)
    BY <1>3, RecIs DEF Goes
  <2>2. r \in Rec /\ Onward(job[j], r) /\ r.at = "regen_writing"
    BY <1>1, <2>1 DEF Rec, At, Onward, Asks, Placed, Landed, Stored, Asking
  <2> HIDE DEF r
  <2>3. /\ job' \in [Jobs -> Rec]
        /\ \A k \in Jobs : /\ Rests(k) /\ Asks(job'[k]) = Asks(job[k])
                           /\ job[k].at \in Asking => job'[k].at \in Asking
                           /\ job'[k].at = IF k = j THEN "regen_writing" ELSE job[k].at
    BY <2>1, <2>2, MovesOn
  <2>4. Typed' /\ rows' = rows
    BY <1>1, <1>3, <2>3 DEF Typed, store, title, infer, propagation, db
  <2>5. Quiet /\ Lowers
    BY <1>1, <1>3, <2>3, <2>4 DEF Quiet, Lowers, title, infer, propagation, Propagating
  <2> QED
    BY <2>4, <2>5, LoweringKeepsFlags
<1> QED
  BY <1>2, <1>3 DEF Regenerated

LEMMA RegenCheckedStep ==
  ASSUME Typed, Unplaced, NEW j \in Jobs, RegenChecked(j)
  PROVE  Typed' /\ Quiet /\ (Flags => Flags')
<1>1. job[j].at = "regen_checking" /\ UNCHANGED <<store, title, infer, db>>
  BY DEF RegenChecked
<1>2. CASE prop' = "error" /\ Is(j, Finished(j)) /\ UNCHANGED <<propCtl, last>>
  <2>1. Finished(j) \in Rec /\ Onward(job[j], Finished(j)) /\ Finished(j).at = "done"
    BY <1>1, ReturnsOnward DEF Placed
  <2>2. /\ job' \in [Jobs -> Rec]
        /\ \A k \in Jobs : /\ Rests(k) /\ Asks(job'[k]) = Asks(job[k])
                           /\ job[k].at \in Asking => job'[k].at \in Asking
                           /\ job'[k].at = IF k = j THEN "done" ELSE job[k].at
    BY <1>2, <2>1, MovesOn
  <2>3. Typed' /\ rows' = rows
    BY <1>1, <1>2, <2>2 DEF Typed, store, title, infer, db
  <2>4. Quiet /\ Lowers
    BY <1>1, <1>2, <2>2, <2>3 DEF Quiet, Lowers, title, infer, Propagating
  <2> QED
    BY <2>3, <2>4, LoweringKeepsFlags
<1>3. CASE /\ prop' = "running" /\ propCtl' = j /\ last' = last
           /\ Is(j, [job[j] EXCEPT !.at = "regenerating", !.sig = j])
  <2> DEFINE r == [job[j] EXCEPT !.at = "regenerating", !.sig = j]
  <2>1. job[j] \in Rec /\ Is(j, r) /\ j \in 0 .. MaxJobs
    BY <1>3, RecIs, ConstantsAre
  <2>2. r \in Rec /\ Onward(job[j], r) /\ r.at = "regenerating"
    BY <1>1, <2>1, ZenonT(60) DEF Rec, At, Onward, Asks, Placed, Landed, Stored, Asking
  <2> HIDE DEF r
  <2>3. /\ job' \in [Jobs -> Rec]
        /\ \A k \in Jobs : /\ Rests(k) /\ Asks(job'[k]) = Asks(job[k])
                           /\ job[k].at \in Asking => job'[k].at \in Asking
                           /\ job'[k].at = IF k = j THEN "regenerating" ELSE job[k].at
    BY <2>1, <2>2, MovesOn
  <2>4. Typed' /\ rows' = rows
    BY <1>1, <1>3, <2>1, <2>3 DEF Typed, store, title, infer, db
  <2>5. Quiet
    BY <1>3, <2>3, <2>4 DEF Quiet
  <2>6. Flags => Flags'
    BY <1>1, <2>3, RaisingKeepsFlags DEF Propagating
  <2> QED
    BY <2>4, <2>5, <2>6
<1> QED
  BY <1>2, <1>3 DEF RegenChecked

-----------------------------------------------------------------------------
(* Where rows land.  Every artifact that goes between the row the branch   *)
(* hangs on and the next halves what is left there: behind that row there  *)
(* is always room for those that still can come.                           *)

Halved == {k \in Jobs : job[k].at \in Stored /\ job[k].place # "none"}
Least == 2 ^ (MaxJobs - Cardinality(Halved))

\* A row is of a job that has landed it, an artifact's of one that has stored it.
Own == \A c \in Chats : \A r \in rows[c] : r.by # 0 =>
         /\ r.by \in Jobs /\ job[r.by].at \in Landed
         /\ job[r.by].place # "none" => job[r.by].at \in Stored /\ c = Parent

\* What was seen had landed.
SeenLanded == \A j \in Jobs : \A s \in job[j].seen :
                s.by # 0 => s.by \in Jobs /\ job[s.by].at \in Landed

\* Behind the row the branch hangs on is room.
Axis == First \in rows[Parent] => \A r \in rows[Parent] : r = First \/ r.ord >= Least

\* A position that is computed is the right one, whatever happens meanwhile.
Appends(q) ==
  q.at = "appending" =>
    /\ \A s \in q.seen \intersect rows[q.home] : s.ord < q.lo
    /\ q.home = Parent /\ First \in rows[Parent] => q.lo >= Unit

Before(q) ==
  q.at \in Placed /\ q.place = "start" =>
    /\ First \notin rows[Parent]
    /\ q.at = "inserting" => \A s \in q.seen \intersect rows[Parent] : q.lo < s.ord

Behind(q) ==
  q.at \in Placed /\ q.place = "after" => q.seen \intersect rows[Parent] \subseteq {First}

Between(q) ==
  q.at \in Placed /\ q.place = "between" =>
    /\ q.hi >= Least
    /\ \A s \in q.seen \intersect rows[Parent] : s = First \/ s.ord >= q.hi

Ready(q) ==
  /\ q.at \in {"reading", "appending"} => q.home \in Chats
  /\ q.at \in Placed => q.place # "none"
  /\ q.at = "placing" => q.place = "start"
  /\ Appends(q) /\ Before(q) /\ Behind(q) /\ Between(q)

Ordered ==
  /\ Own /\ SeenLanded /\ Unplaced /\ Axis
  /\ Least <= Unit
  /\ \A j \in Jobs : Ready(job[j])
  /\ RowsLandInPlace

LEMMA HalvedIs ==
  ASSUME Typed
  PROVE  /\ Halved \subseteq Jobs /\ IsFiniteSet(Halved)
         /\ Cardinality(Halved) \in 0 .. MaxJobs
         /\ \A j \in Jobs \ Halved : Cardinality(Halved) < MaxJobs
<1>1. IsFiniteSet(Jobs) /\ Cardinality(Jobs) = MaxJobs
  <2>1. IsFiniteSet(1 .. MaxJobs) /\ Cardinality(1 .. MaxJobs) = MaxJobs
    BY ConstantsAre, FS_Interval
  <2> QED
    BY <2>1 DEF Jobs
<1>2. Halved \subseteq Jobs
  BY DEF Halved
<1>3. IsFiniteSet(Halved) /\ Cardinality(Halved) <= MaxJobs /\ Cardinality(Halved) \in Nat
  BY <1>1, <1>2, FS_Subset, FS_CardinalityType
<1>4. ASSUME NEW j \in Jobs \ Halved PROVE Cardinality(Halved) < MaxJobs
  <2>1. Halved # Jobs
    BY <1>4
  <2>2. Cardinality(Halved) # Cardinality(Jobs)
    BY <1>1, <1>2, <2>1, FS_Subset
  <2> QED
    BY <1>1, <1>3, <2>2, ConstantsAre
<1> QED
  BY <1>2, <1>3, <1>4, ConstantsAre

LEMMA PowersAre ==
  ASSUME NEW n \in 0 .. MaxJobs
  PROVE  2 ^ n \in Nat /\ 2 ^ n >= 1
<1>1. 2 ^ 0 = 1
  OBVIOUS
<1>2. CASE n = 0
  BY <1>1, <1>2
<1>3. CASE n # 0
  <2>1. n \in 1 .. MaxJobs
    BY <1>3, ConstantsAre
  <2>2. 2 ^ (n - 1) \in Nat \ {0} /\ 2 ^ n = 2 * 2 ^ (n - 1)
    BY <2>1, ChatTasksAssumption
  <2> QED
    BY <2>2
<1> QED
  BY <1>2, <1>3

LEMMA LeastIs ==
  ASSUME Typed
  PROVE  Least \in Nat /\ Least >= 1
<1>1. MaxJobs - Cardinality(Halved) \in 0 .. MaxJobs
  BY HalvedIs, ConstantsAre
<1> QED
  BY <1>1, PowersAre DEF Least

LEMMA LeastHalves ==
  ASSUME NEW c \in Nat, NEW d \in Nat, c < MaxJobs, d = c + 1
  PROVE  2 ^ (MaxJobs - c) = 2 * 2 ^ (MaxJobs - d)
<1>1. MaxJobs - c \in 1 .. MaxJobs /\ MaxJobs - c - 1 = MaxJobs - d
  BY ConstantsAre
<1> QED
  BY <1>1, ChatTasksAssumption

\* Rows that stay have their jobs where they were.
LEMMA QuietKeepsOrder ==
  ASSUME Typed, Typed', Ordered, Quiet
  PROVE  Ordered'
<1>1. ASSUME NEW k \in Jobs
      PROVE  /\ job'[k].seen = job[k].seen /\ job'[k].place = job[k].place
             /\ job[k].at \in Landed => job'[k].at \in Landed
             /\ job[k].at \in Stored /\ job[k].place # "none" => job'[k].at \in Stored
             /\ job'[k].at \notin Placed \union Stored \union {"failed"} => job'[k].place = "none"
             /\ job[k].at \notin Stored /\ job'[k].at \in Stored => job[k].place = "none"
             /\ job'[k].at \in Placed \union {"reading", "appending"} =>
                  job'[k].at = job[k].at /\ job'[k].home = job[k].home
                  /\ job'[k].lo = job[k].lo /\ job'[k].hi = job[k].hi
  <2>1. Rests(k) /\ (job[k].at \notin Placed \union Stored \union {"failed"} => job[k].place = "none")
    BY DEF Quiet, Ordered, Unplaced
  <2>2. CASE Places(job'[k]) = Places(job[k])
    BY <2>1, <2>2 DEF Places
  <2>3. CASE Places(job'[k]) # Places(job[k])
    BY <2>1, <2>3 DEF Rests, Landed, Stored
  <2> QED
    BY <2>2, <2>3
<1>2. Halved' = Halved
  BY <1>1 DEF Halved
<1>3. Least' = Least
  BY <1>2 DEF Least
<1>4. \A c \in Chats : rows'[c] \subseteq rows[c]
  BY DEF Quiet
<1>5. Own'
  BY <1>1, <1>4 DEF Ordered, Own
<1>6. SeenLanded'
  BY <1>1 DEF Ordered, SeenLanded
<1>7. Unplaced'
  BY <1>1 DEF Unplaced
<1>8. Axis' /\ Least' <= Unit
  BY <1>3, <1>4, ConstantsAre DEF Ordered, Axis
<1>9. ASSUME NEW j \in Jobs PROVE Ready(job[j])'
  <2>1. Ready(job[j])
    BY DEF Ordered
  <2>2. CASE job'[j].at \notin Placed \union {"reading", "appending"}
    BY <2>2 DEF Ready, Appends, Before, Behind, Between, Placed
  <2>3. CASE job'[j].at \in Placed \union {"reading", "appending"}
    <3>1. /\ job'[j].at = job[j].at /\ job'[j].home = job[j].home /\ job'[j].seen = job[j].seen
          /\ job'[j].lo = job[j].lo /\ job'[j].hi = job[j].hi /\ job'[j].place = job[j].place
      BY <1>1, <2>3
    <3>2. Appends(job[j])'
      BY <1>4, <2>1, <3>1, ConstantsAre DEF Ready, Appends
    <3>3. Before(job[j])'
      BY <1>4, <2>1, <3>1, ConstantsAre DEF Ready, Before
    <3>4. Behind(job[j])'
      BY <1>4, <2>1, <3>1, ConstantsAre DEF Ready, Behind
    <3>5. Between(job[j])'
      BY <1>3, <1>4, <2>1, <3>1, ConstantsAre DEF Ready, Between
    <3> QED
      BY <2>1, <3>1, <3>2, <3>3, <3>4, <3>5 DEF Ready
  <2> QED
    BY <2>2, <2>3
<1>10. RowsLandInPlace'
  <2> SUFFICES ASSUME NEW c \in Chats, NEW r \in rows'[c], r.by # 0,
                      NEW s \in job'[r.by].seen \intersect rows'[c]
               PROVE  IF job'[r.by].place = "none" THEN s.ord < r.ord
                      ELSE IF s.by = 0 /\ s.ord = 0 THEN s.ord < r.ord ELSE s.ord > r.ord
    BY DEF RowsLandInPlace
  <2>1. r \in rows[c] /\ s \in rows[c]
    BY <1>4
  <2>2. r.by \in Jobs
    BY <2>1 DEF Ordered, Own
  <2> QED
    BY <1>1, <2>1, <2>2 DEF Ordered, RowsLandInPlace
<1> QED
  BY <1>5, <1>6, <1>7, <1>8, <1>9, <1>10 DEF Ordered

\* A job that has landed nothing goes on, and is ready where it goes.
LEMMA GoesReady ==
  ASSUME Typed, Typed', Ordered, NEW j \in Jobs, rows' = rows,
         \A k \in Jobs \ {j} : job'[k] = job[k],
         job[j].at \notin Landed, job'[j].at \notin Landed \union {"failed"},
         \A s \in job'[j].seen : s.by # 0 => s.by \in Jobs /\ job[s.by].at \in Landed,
         job'[j].at \notin Placed => job'[j].place = "none",
         Ready(job'[j])
  PROVE  Ordered'
<1>1. Halved' = Halved
  BY DEF Halved, Landed, Stored
<1>2. Least' = Least
  BY <1>1 DEF Least
<1>3. \A k \in Jobs : job[k].at \in Landed => k # j /\ job'[k] = job[k]
  OBVIOUS
<1>4. \A c \in Chats : \A r \in rows[c] : r.by # 0 => r.by \in Jobs /\ r.by # j
  BY DEF Ordered, Own
<1>5. Own'
  BY <1>3, <1>4 DEF Ordered, Own
<1>6. SeenLanded'
  BY <1>3 DEF Ordered, SeenLanded
<1>7. Unplaced'
  BY DEF Unplaced, Ordered
<1>9. Axis' /\ Least' <= Unit
  BY <1>2 DEF Ordered, Axis
<1>10. ASSUME NEW k \in Jobs PROVE Ready(job[k])'
  <2>1. Ready(job'[k])
    BY DEF Ordered
  <2> QED
    BY <1>2, <2>1 DEF Ready, Appends, Before, Behind, Between
<1>11. RowsLandInPlace'
  BY <1>4 DEF Ordered, RowsLandInPlace
<1> QED
  BY <1>5, <1>6, <1>7, <1>9, <1>10, <1>11 DEF Ordered

\* A row that is new was seen by nobody.
LEMMA NobodySawIt ==
  ASSUME Ordered, NEW j \in Jobs, job[j].at \notin Landed, NEW row, row.by = j
  PROVE  /\ \A k \in Jobs : row \notin job[k].seen
         /\ \A c \in Chats : \A r \in rows[c] : r.by # j
         /\ row # First
<1>1. j # 0
  BY ConstantsAre
<1> QED
  BY <1>1 DEF Ordered, SeenLanded, Own, First

-----------------------------------------------------------------------------
(* Steps by which a row comes to its place.                                *)

\* Only j moves, and no task of it begins or ends.
Only(j, r) ==
  /\ job' \in [Jobs -> Rec] /\ job'[j] = r
  /\ \A k \in Jobs \ {j} : job'[k] = job[k]
  /\ \A k \in Jobs : Asks(job'[k]) = Asks(job[k])

LEMMA OnlyMoves ==
  ASSUME Typed, NEW j \in Jobs, NEW r \in Rec, Is(j, r), Asks(r) = Asks(job[j])
  PROVE  Only(j, r)
<1>1. /\ job' \in [Jobs -> Rec] /\ job'[j] = r
      /\ \A k \in Jobs \ {j} : job'[k] = job[k]
  BY IsMoves DEF Typed
<1>2. \A k \in Jobs : Asks(job'[k]) = Asks(job[k])
  BY <1>1
<1> QED
  BY <1>1, <1>2 DEF Only

LEMMA SendBeginsStep ==
  ASSUME Typed, Ordered, NEW j \in Jobs, Send(j)
  PROVE  Typed' /\ Ordered' /\ (Flags => Flags')
<1> DEFINE opening == view.id \in Roots /\ ~view.titled /\ empty
           seen == rows[chatId]
           r == [job[j] EXCEPT !.at = "reading", !.home = chatId, !.saw = view,
                               !.first = opening, !.seen = seen]
<1>1. job[j] \in Rec /\ job[j].at = "idle" /\ Is(j, r) /\ chatId \in Chats /\ view \in Known
  BY RecIs DEF Send, Starts, Typed
<1>2. opening \in BOOLEAN /\ seen \in SUBSET RowT
  BY <1>1 DEF Typed, Known
<1>3. \A s \in seen : s.by # 0 => s.by \in Jobs /\ job[s.by].at \in Landed
  BY <1>1 DEF Ordered, Own
<1>4. job[j].place = "none"
  BY <1>1 DEF Ordered, Unplaced, Placed, Stored
<1> HIDE DEF opening, seen
<1>5. /\ r \in Rec /\ r.at = "reading" /\ r.home = chatId /\ r.seen = seen
      /\ r.place = "none" /\ Asks(r) = Asks(job[j])
  BY <1>1, <1>2, <1>4 DEF Rec, At, Asks
<1> HIDE DEF r
<1>6. Only(j, r)
  BY <1>1, <1>5, OnlyMoves
<1>7. Typed'
  BY <1>6 DEF Only, Typed, Send, store, title, infer, propagation, db
<1>8. Ready(r)
  BY <1>1, <1>5 DEF Ready, Appends, Before, Behind, Between, Placed
<1>9. Ordered'
  BY <1>1, <1>3, <1>5, <1>6, <1>7, <1>8, GoesReady
     DEF Only, Send, propagation, db, Landed, Stored, Placed
<1>10. Lowers
  BY <1>1, <1>5, <1>6 DEF Only, Lowers, Send, title, infer, propagation, Asking, Propagating
<1> QED
  BY <1>7, <1>9, <1>10, LoweringKeepsFlags

LEMMA PropagateStep ==
  ASSUME Typed, Ordered, NEW j \in Jobs, NEW how \in {"anchoring", "anchoring_summary"},
         Propagate(j, how)
  PROVE  Typed' /\ Ordered' /\ (Flags => Flags')
<1> DEFINE seen == rows[Parent]
           r == [job[j] EXCEPT !.at = how, !.home = view.id, !.seen = seen]
<1>1. job[j] \in Rec /\ job[j].at = "idle" /\ Is(j, r) /\ view.id \in Chats \union {NoChat}
  BY RecIs DEF Propagate, Starts, Typed, Known
<1>2. seen \in SUBSET RowT
  BY ConstantsAre DEF Typed
<1>3. \A s \in seen : s.by # 0 => s.by \in Jobs /\ job[s.by].at \in Landed
  BY ConstantsAre DEF Ordered, Own
<1>4. job[j].place = "none"
  BY <1>1 DEF Ordered, Unplaced, Placed, Stored
<1> HIDE DEF seen
<1>5. /\ r \in Rec /\ r.at = how /\ r.seen = seen
      /\ r.place = "none" /\ Asks(r) = Asks(job[j])
  BY <1>1, <1>2, <1>4, ZenonT(60) DEF Rec, At, Asks
<1> HIDE DEF r
<1>6. Only(j, r)
  BY <1>1, <1>5, OnlyMoves
<1>7. Typed'
  BY <1>6, ConstantsAre DEF Only, Typed, Propagate, store, title, infer, db
<1>8. Ready(r)
  BY <1>5 DEF Ready, Appends, Before, Behind, Between, Placed
<1>9. Ordered'
  BY <1>1, <1>3, <1>5, <1>6, <1>7, <1>8, GoesReady
     DEF Only, Propagate, db, Landed, Stored, Placed
<1>10. Flags => Flags'
  BY <1>1, <1>5, <1>6, RaisingKeepsFlags DEF Only, Propagate, Asking, Propagating
<1> QED
  BY <1>7, <1>9, <1>10

LEMMA ReadLastStep ==
  ASSUME Typed, Ordered, NEW j \in Jobs, ReadLast(j)
  PROVE  Typed' /\ Ordered' /\ (Flags => Flags')
<1> DEFINE c == job[j].home
           next == IF rows[c] = {} THEN 0 ELSE Max(Ords(c)) + Unit
           r == [job[j] EXCEPT !.at = "appending", !.lo = next]
<1>1. job[j] \in Rec /\ job[j].at = "reading" /\ Is(j, r) /\ c \in Chats
  BY RecIs DEF ReadLast, Ordered, Ready
<1>2. /\ next \in Int /\ \A s \in rows[c] : s.ord < next
      /\ First \in rows[c] => next >= Unit
  <2>1. CASE rows[c] = {}
    BY <2>1
  <2>2. CASE rows[c] # {}
    <3>1. /\ Ords(c) \in SUBSET Int /\ IsFiniteSet(Ords(c)) /\ Ords(c) # {}
          /\ \A s \in rows[c] : s \in RowT /\ s.ord \in Ords(c) /\ s.ord \in Int
      BY <1>1, <2>2, OrdsAre
    <3>2. Max(Ords(c)) \in Ords(c) /\ \A n \in Ords(c) : Max(Ords(c)) >= n
      BY <3>1, ExtremaAre
    <3>3. Unit \in Nat /\ Unit >= 1
      BY ChatTasksAssumption, PowersAre, ConstantsAre
    <3> QED
      BY <2>2, <3>1, <3>2, <3>3 DEF First
  <2> QED
    BY <2>1, <2>2
<1>3. job[j].place = "none"
  BY <1>1 DEF Ordered, Unplaced, Placed, Stored
<1> HIDE DEF next
<1>4. /\ r \in Rec /\ r.at = "appending" /\ r.home = c /\ r.lo = next /\ r.seen = job[j].seen
      /\ r.place = "none" /\ Asks(r) = Asks(job[j])
  BY <1>1, <1>2, <1>3 DEF Rec, At, Asks
<1> HIDE DEF r, c
<1>5. Only(j, r)
  BY <1>1, <1>4, OnlyMoves
<1>6. Typed'
  BY <1>5 DEF Only, Typed, ReadLast, store, title, infer, propagation, db
<1>7. Ready(r)
  BY <1>1, <1>2, <1>4 DEF Ready, Appends, Before, Behind, Between, Placed
<1>8. \A s \in r.seen : s.by # 0 => s.by \in Jobs /\ job[s.by].at \in Landed
  BY <1>4 DEF Ordered, SeenLanded
<1>9. Ordered'
  BY <1>1, <1>4, <1>5, <1>6, <1>7, <1>8, GoesReady
     DEF Only, ReadLast, propagation, db, Landed, Stored, Placed
<1>10. Lowers
  BY <1>1, <1>4, <1>5 DEF Only, Lowers, ReadLast, title, infer, propagation, Asking, Propagating
<1> QED
  BY <1>6, <1>9, <1>10, LoweringKeepsFlags

LEMMA BuiltStep ==
  ASSUME Typed, Ordered, NEW j \in Jobs, Built(j)
  PROVE  Typed' /\ Ordered' /\ (Flags => Flags')
<1> DEFINE r == [job[j] EXCEPT !.at = Then(j)]
<1>1. job[j] \in Rec /\ job[j].at \in {"building", "summarising"} /\ Is(j, r)
  BY RecIs DEF Built, Goes
<1>2. /\ r \in Rec /\ r.at = Then(j) /\ r.seen = job[j].seen /\ r.place = job[j].place
      /\ r.hi = job[j].hi /\ Asks(r) = Asks(job[j])
  BY <1>1 DEF Rec, At, Asks, Then
<1>3. Then(j) = IF job[j].place = "start" THEN "placing" ELSE "inserting"
  BY DEF Then
<1> HIDE DEF r
<1>4. Only(j, r)
  BY <1>1, <1>2, OnlyMoves
<1>5. Typed'
  BY <1>4 DEF Only, Typed, Built, store, title, infer, propagation, db
<1>6. Ready(r)
  <2>1. Ready(job[j])
    BY DEF Ordered
  <2> QED
    BY <1>1, <1>2, <1>3, <2>1 DEF Ready, Appends, Before, Behind, Between, Placed
<1>7. \A s \in r.seen : s.by # 0 => s.by \in Jobs /\ job[s.by].at \in Landed
  BY <1>2 DEF Ordered, SeenLanded
<1>8. Ordered'
  BY <1>1, <1>2, <1>3, <1>4, <1>5, <1>6, <1>7, GoesReady
     DEF Only, Built, propagation, db, Landed, Stored, Placed
<1>9. Lowers
  BY <1>1, <1>2, <1>3, <1>4
     DEF Only, Lowers, Built, title, infer, propagation, Asking, Propagating
<1> QED
  BY <1>5, <1>8, <1>9, LoweringKeepsFlags

LEMMA ReadFirstStep ==
  ASSUME Typed, Ordered, NEW j \in Jobs, ReadFirst(j)
  PROVE  Typed' /\ Ordered' /\ (Flags => Flags')
<1> DEFINE before == IF rows[Parent] = {} THEN 0 ELSE Min(Ords(Parent)) - Unit
           r == [job[j] EXCEPT !.at = "inserting", !.lo = before]
<1>1. job[j] \in Rec /\ job[j].at = "placing" /\ Is(j, r)
  BY RecIs DEF ReadFirst
<1>2. before \in Int /\ \A s \in rows[Parent] : before < s.ord
  <2>1. CASE rows[Parent] = {}
    BY <2>1
  <2>2. CASE rows[Parent] # {}
    <3>1. /\ Ords(Parent) \in SUBSET Int /\ IsFiniteSet(Ords(Parent)) /\ Ords(Parent) # {}
          /\ \A s \in rows[Parent] : s \in RowT /\ s.ord \in Ords(Parent) /\ s.ord \in Int
      BY <2>2, OrdsAre, ConstantsAre
    <3>2. Min(Ords(Parent)) \in Ords(Parent) /\ \A n \in Ords(Parent) : Min(Ords(Parent)) <= n
      BY <3>1, ExtremaAre
    <3>3. Unit \in Nat /\ Unit >= 1
      BY ChatTasksAssumption, PowersAre, ConstantsAre
    <3> QED
      BY <2>2, <3>1, <3>2, <3>3
  <2> QED
    BY <2>1, <2>2
<1> HIDE DEF before
<1>3. /\ r \in Rec /\ r.at = "inserting" /\ r.lo = before /\ r.seen = job[j].seen
      /\ r.place = job[j].place /\ Asks(r) = Asks(job[j])
  BY <1>1, <1>2, ZenonT(60) DEF Rec, At, Asks
<1> HIDE DEF r
<1>4. Only(j, r)
  BY <1>1, <1>3, OnlyMoves
<1>5. Typed'
  BY <1>4 DEF Only, Typed, ReadFirst, store, title, infer, propagation, db
<1>6. Ready(r)
  <2>1. Ready(job[j])
    BY DEF Ordered
  <2> QED
    BY <1>1, <1>2, <1>3, <2>1 DEF Ready, Appends, Before, Behind, Between, Placed
<1>7. \A s \in r.seen : s.by # 0 => s.by \in Jobs /\ job[s.by].at \in Landed
  BY <1>3 DEF Ordered, SeenLanded
<1>8. Ordered'
  BY <1>1, <1>3, <1>4, <1>5, <1>6, <1>7, GoesReady
     DEF Only, ReadFirst, propagation, db, Landed, Stored, Placed
<1>9. Lowers
  BY <1>1, <1>3, <1>4 DEF Only, Lowers, ReadFirst, title, infer, propagation, Asking, Propagating
<1> QED
  BY <1>5, <1>8, <1>9, LoweringKeepsFlags

\* The anchor is the place the code computes, before anything is awaited.
LEMMA AnchorIs ==
  ASSUME Typed, Ordered, NEW j \in Jobs
  PROVE  /\ Anchor(j) \in Rec /\ Anchor(j).at = job[j].at /\ Anchor(j).seen = job[j].seen
         /\ Asks(Anchor(j)) = Asks(job[j]) /\ Anchor(j).place # "none"
         /\ Anchor(j).place = "start" => First \notin rows[Parent]
         /\ Anchor(j).place = "after" => rows[Parent] \subseteq {First}
         /\ Anchor(j).place = "between" =>
              /\ Anchor(j).hi >= Least
              /\ \A s \in rows[Parent] : s = First \/ s.ord >= Anchor(j).hi
<1> DEFINE above == {o \in Ords(Parent) : o > 0}
<1>1. job[j] \in Rec /\ Least \in Nat /\ Least >= 1
  BY RecIs, LeastIs
<1>2. /\ Ords(Parent) \in SUBSET Int /\ IsFiniteSet(Ords(Parent))
      /\ \A s \in rows[Parent] : s.ord \in Ords(Parent) /\ s.ord \in Int
      /\ \A o \in Ords(Parent) : \E s \in rows[Parent] : o = s.ord
  BY OrdsAre, ConstantsAre
<1>3. CASE First \notin rows[Parent]
  <2>1. Anchor(j) = [job[j] EXCEPT !.place = "start"]
    BY <1>3 DEF Anchor
  <2> QED
    BY <1>1, <1>3, <2>1 DEF Rec, Asks
<1>4. CASE First \in rows[Parent] /\ above = {}
  <2>1. Anchor(j) = [job[j] EXCEPT !.place = "after"]
    BY <1>4 DEF Anchor
  <2>2. \A s \in rows[Parent] : s = First
    BY <1>1, <1>2, <1>4 DEF Ordered, Axis
  <2> QED
    BY <1>1, <2>1, <2>2 DEF Rec, Asks
<1>5. CASE First \in rows[Parent] /\ above # {}
  <2>1. Anchor(j) = [job[j] EXCEPT !.place = "between", !.hi = Min(above)]
    BY <1>5 DEF Anchor
  <2>2. above \in SUBSET Int /\ IsFiniteSet(above)
    BY <1>2, FS_Subset
  <2>3. Min(above) \in above /\ \A n \in above : Min(above) <= n
    BY <1>5, <2>2, ExtremaAre
  <2>4. PICK s \in rows[Parent] : Min(above) = s.ord
    BY <1>2, <2>3
  <2>5. Min(above) >= Least /\ Min(above) \in Int
    BY <1>2, <1>5, <2>2, <2>3, <2>4 DEF Ordered, Axis, First
  <2>6. \A u \in rows[Parent] : u = First \/ u.ord >= Min(above)
    <3>1. \A u \in rows[Parent] : u = First \/ u.ord \in above
      BY <1>1, <1>2, <1>5 DEF Ordered, Axis
    <3> QED
      BY <1>2, <2>2, <2>3, <3>1
  <2> HIDE DEF above
  <2> QED
    BY <1>1, <2>1, <2>5, <2>6, ZenonT(60) DEF Rec, Asks
<1> QED
  BY <1>3, <1>4, <1>5

LEMMA AnchoredStep ==
  ASSUME Typed, Ordered, NEW j \in Jobs, Anchored(j)
  PROVE  Typed' /\ Ordered' /\ (Flags => Flags')
<1>0. UNCHANGED <<store, title, infer, db>> /\ job[j].at \in {"anchoring", "anchoring_summary"}
  BY DEF Anchored
<1>1. CASE PropFails(j, FALSE)
  <2>1. Typed' /\ Quiet /\ (Flags => Flags')
    BY <1>0, <1>1, PropFailsStep DEF Ordered, Propagating
  <2> QED
    BY <2>1, QuietKeepsOrder
<1>2. ASSUME NEW r \in Rec, Is(j, r), r.at \in {"building", "summarising"},
             r.seen = job[j].seen, r.place = Anchor(j).place, r.hi = Anchor(j).hi,
             Asks(r) = Asks(job[j]), UNCHANGED propagation
      PROVE  Typed' /\ Ordered' /\ (Flags => Flags')
  <2>1. Only(j, r)
    BY <1>2, OnlyMoves
  <2>2. Typed'
    BY <1>0, <1>2, <2>1 DEF Only, Typed, store, title, infer, propagation, db
  <2>3. Ready(r)
    BY <1>2, AnchorIs DEF Ready, Appends, Before, Behind, Between, Placed
  <2>4. \A s \in r.seen : s.by # 0 => s.by \in Jobs /\ job[s.by].at \in Landed
    BY <1>2 DEF Ordered, SeenLanded
  <2>5. Ordered'
    BY <1>0, <1>2, <2>1, <2>2, <2>3, <2>4, GoesReady DEF Only, propagation, db, Landed, Stored, Placed
  <2>6. Lowers
    BY <1>0, <1>2, <2>1 DEF Only, Lowers, title, infer, propagation, Asking, Propagating
  <2> QED
    BY <2>2, <2>5, <2>6, LoweringKeepsFlags
<1>3. CASE Is(j, [Anchor(j) EXCEPT !.at = "building"]) /\ UNCHANGED propagation
  <2> DEFINE r == [Anchor(j) EXCEPT !.at = "building"]
  <2>1. /\ r \in Rec /\ r.at = "building" /\ r.seen = job[j].seen /\ r.place = Anchor(j).place
        /\ r.hi = Anchor(j).hi /\ Asks(r) = Asks(job[j])
    BY AnchorIs DEF Rec, At, Asks
  <2> HIDE DEF r
  <2> QED
    BY <1>2, <1>3, <2>1 DEF r
<1>4. CASE Is(j, [Anchor(j) EXCEPT !.at = "summarising", !.sig = propCtl]) /\ UNCHANGED propagation
  <2> DEFINE r == [Anchor(j) EXCEPT !.at = "summarising", !.sig = propCtl]
  <2>1. propCtl \in 0 .. MaxJobs
    BY DEF Typed
  <2>2. /\ r \in Rec /\ r.at = "summarising" /\ r.seen = job[j].seen /\ r.place = Anchor(j).place
        /\ r.hi = Anchor(j).hi /\ Asks(r) = Asks(job[j])
    <3> DEFINE a == Anchor(j)
    <3>1. a \in Rec /\ a.seen = job[j].seen /\ Asks(a) = Asks(job[j])
      BY AnchorIs
    <3> HIDE DEF a
    <3>2. LET q == [a EXCEPT !.at = "summarising", !.sig = propCtl] IN
          /\ q \in Rec /\ q.at = "summarising" /\ q.seen = a.seen /\ q.place = a.place
          /\ q.hi = a.hi /\ q.title = a.title /\ q.brief = a.brief
      BY <2>1, <3>1 DEF Rec, At
    <3> QED
      BY <3>1, <3>2 DEF a, Asks
  <2> HIDE DEF r
  <2> QED
    BY <1>2, <1>4, <2>2 DEF r
<1> QED
  BY <1>1, <1>3, <1>4 DEF Anchored

\* A job that adds its row where it belongs.
LEMMA RowsGrow ==
  ASSUME Typed, Typed', Ordered, NEW j \in Jobs, NEW c \in Chats, NEW o \in Int,
         rows' = [rows EXCEPT ![c] = @ \union {[by |-> j, ord |-> o]}],
         \A k \in Jobs \ {j} : job'[k] = job[k],
         job[j].at \notin Landed, job'[j].at \in Landed,
         job'[j].seen = job[j].seen, job'[j].place = job[j].place,
         job[j].place # "none" => job'[j].at \in Stored /\ c = Parent,
         Least' \in Nat, Least' <= Least,
         c = Parent /\ First \in rows[Parent] => o >= Least',
         \A s \in job[j].seen \intersect rows[c] :
           IF job[j].place = "none" THEN s.ord < o
           ELSE IF s.by = 0 /\ s.ord = 0 THEN s.ord < o ELSE s.ord > o
  PROVE  Ordered'
<1> DEFINE row == [by |-> j, ord |-> o]
<1>1. row.by = j /\ row.ord = o
  OBVIOUS
<1> HIDE DEF row
<1>2. /\ \A k \in Jobs : row \notin job[k].seen /\ row \notin job'[k].seen
      /\ \A d \in Chats : \A x \in rows[d] : x.by # j
      /\ row # First
  BY <1>1, NobodySawIt
<1>3. /\ \A d \in Chats : rows[d] \subseteq rows'[d]
      /\ \A d \in Chats : \A x \in rows'[d] : x \in rows[d] \/ (d = c /\ x = row)
      /\ First \in rows'[Parent] <=> First \in rows[Parent]
  BY <1>2, ConstantsAre DEF Typed, row
<1>4. \A k \in Jobs : /\ job'[k].seen = job[k].seen /\ job'[k].place = job[k].place
                      /\ job[k].at \in Landed => job'[k].at \in Landed /\ k # j
  OBVIOUS
<1>5. Least \in Nat /\ Least' \in Nat /\ Least <= Unit /\ Unit \in Nat
  BY LeastIs, ChatTasksAssumption DEF Ordered
<1>6. Own'
  <2> SUFFICES ASSUME NEW d \in Chats, NEW x \in rows'[d], x.by # 0
               PROVE  /\ x.by \in Jobs /\ job'[x.by].at \in Landed
                      /\ job'[x.by].place # "none" => job'[x.by].at \in Stored /\ d = Parent
    BY DEF Own
  <2>1. CASE x \in rows[d]
    BY <1>2, <1>4, <2>1 DEF Ordered, Own
  <2>2. CASE d = c /\ x = row
    BY <1>1, <2>2
  <2> QED
    BY <1>3, <2>1, <2>2
<1>7. SeenLanded'
  BY <1>4 DEF Ordered, SeenLanded
<1>8. Unplaced'
  BY DEF Ordered, Unplaced
<1>10. Axis' /\ Least' <= Unit
  <2>1. ASSUME First \in rows'[Parent], NEW x \in rows'[Parent]
        PROVE  x = First \/ x.ord >= Least'
    <3>1. CASE x \in rows[Parent]
      <4>1. x.ord \in Int
        BY <3>1, OrdsAre, ConstantsAre
      <4> QED
        BY <1>3, <1>5, <2>1, <3>1, <4>1 DEF Ordered, Axis
    <3>2. CASE Parent = c /\ x = row
      BY <1>1, <1>3, <2>1, <3>2
    <3> QED
      BY <1>3, <3>1, <3>2, ConstantsAre
  <2> QED
    BY <1>5, <2>1 DEF Axis
<1>11. ASSUME NEW k \in Jobs PROVE Ready(job[k])'
  <2>1. CASE k = j
    BY <2>1 DEF Ready, Appends, Before, Behind, Between, Placed, Landed, Stored
  <2>2. CASE k # j
    <3>1. Ready(job[k]) /\ job'[k] = job[k] /\ job[k] \in Rec
      BY <2>2, RecIs DEF Ordered
    <3>2. \A d \in Chats : job[k].seen \intersect rows'[d] = job[k].seen \intersect rows[d]
      BY <1>2, <1>3
    <3>3. Appends(job[k])'
      BY <1>3, <3>1, <3>2, ConstantsAre DEF Ready, Appends
    <3>4. Before(job[k])'
      BY <1>3, <3>1, <3>2, ConstantsAre DEF Ready, Before
    <3>5. Behind(job[k])'
      BY <1>3, <3>1, <3>2, ConstantsAre DEF Ready, Behind
    <3>6. Between(job[k])'
      BY <1>5, <3>1, <3>2, ConstantsAre DEF Ready, Between, Rec
    <3> QED
      BY <3>1, <3>3, <3>4, <3>5, <3>6 DEF Ready
  <2> QED
    BY <2>1, <2>2
<1>12. RowsLandInPlace'
  <2> SUFFICES ASSUME NEW d \in Chats, NEW x \in rows'[d], x.by # 0,
                      NEW s \in job'[x.by].seen \intersect rows'[d]
               PROVE  IF job'[x.by].place = "none" THEN s.ord < x.ord
                      ELSE IF s.by = 0 /\ s.ord = 0 THEN s.ord < x.ord ELSE s.ord > x.ord
    BY DEF RowsLandInPlace
  <2>1. CASE x \in rows[d]
    <3>1. x.by \in Jobs /\ x.by # j
      BY <1>2, <2>1 DEF Ordered, Own
    <3>2. s \in job[x.by].seen \intersect rows[d]
      BY <1>2, <1>3, <1>4, <3>1
    <3> QED
      BY <1>4, <2>1, <3>1, <3>2 DEF Ordered, RowsLandInPlace
  <2>2. CASE d = c /\ x = row
    <3>1. s \in job[j].seen \intersect rows[c]
      BY <1>1, <1>2, <1>3, <1>4, <2>2
    <3> QED
      BY <1>1, <1>4, <2>2, <3>1
  <2> QED
    BY <1>3, <2>1, <2>2
<1> QED
  BY <1>6, <1>7, <1>8, <1>10, <1>11, <1>12 DEF Ordered

\* A message goes behind all that is there; nobody has seen it yet.
LEMMA AppendStep ==
  ASSUME Typed, Ordered, NEW j \in Jobs, Append(j)
  PROVE  Typed' /\ Ordered' /\ (Flags => Flags')
<1> DEFINE c == job[j].home
           r == [job[j] EXCEPT !.at = "appended"]
<1>1. /\ job[j] \in Rec /\ job[j].at = "appending" /\ c \in Chats /\ Ready(job[j])
      /\ job[j].place = "none" /\ job[j].lo \in Int
  BY RecIs DEF Append, Ordered, Ready, Unplaced, Placed, Rec, Stored
<1>2. CASE c \notin alive
  <2>1. Is(j, Finished(j)) /\ UNCHANGED <<rows, empty>>
    BY <1>2 DEF Append
  <2>2. Finished(j) \in Rec /\ Onward(job[j], Finished(j)) /\ Finished(j).at = "done"
    BY <1>1, ReturnsOnward DEF Placed
  <2>3. /\ job' \in [Jobs -> Rec]
        /\ \A k \in Jobs : /\ Rests(k) /\ Asks(job'[k]) = Asks(job[k])
                           /\ job[k].at \in Asking => job'[k].at \in Asking
                           /\ job'[k].at = IF k = j THEN "done" ELSE job[k].at
    BY <2>1, <2>2, MovesOn DEF Ordered
  <2>4. Typed'
    BY <2>1, <2>3 DEF Typed, Append, title, infer, propagation
  <2>5. Quiet /\ Lowers
    BY <1>1, <2>1, <2>3 DEF Quiet, Lowers, Append, title, infer, propagation, Propagating
  <2> QED
    BY <2>4, <2>5, LoweringKeepsFlags, QuietKeepsOrder
<1>3. CASE c \in alive
  <2> DEFINE o == job[j].lo
  <2>1. /\ rows' = [rows EXCEPT ![c] = @ \union {[by |-> j, ord |-> o]}]
        /\ Is(j, r) /\ empty' = FALSE
    BY <1>3 DEF Append, Goes
  <2>2. /\ r \in Rec /\ r.at = "appended" /\ r.seen = job[j].seen /\ r.place = "none"
        /\ Asks(r) = Asks(job[j])
    BY <1>1 DEF Rec, At, Asks
  <2> HIDE DEF r
  <2>3. Only(j, r)
    BY <2>1, <2>2, OnlyMoves
  <2>4. Typed'
    <3>1. [by |-> j, ord |-> o] \in RowT
      BY <1>1, ConstantsAre DEF RowT
    <3>2. IsFiniteSet(rows[c] \union {[by |-> j, ord |-> o]})
      BY <1>1, FS_AddElement DEF Typed
    <3>3. rows' \in [Chats -> SUBSET RowT] /\ \A d \in Chats : IsFiniteSet(rows'[d])
      BY <1>1, <2>1, <3>1, <3>2 DEF Typed
    <3> QED
      BY <2>1, <2>3, <3>3 DEF Only, Typed, Append, title, infer, propagation
  <2>5. Halved' = Halved
    BY <1>1, <2>2, <2>3 DEF Halved, Only
  <2>6. Least' = Least /\ Least \in Nat /\ Least <= Unit /\ Unit \in Nat
    BY <2>5, LeastIs, ChatTasksAssumption DEF Least, Ordered
  <2>7. /\ c = Parent /\ First \in rows[Parent] => o >= Least'
        /\ \A s \in job[j].seen \intersect rows[c] : s.ord < o
    BY <1>1, <2>6 DEF Ready, Appends
  <2>8. Ordered'
    <3>1. job[j].at \notin Landed /\ job'[j].at \in Landed
      BY <1>1, <2>2, <2>3 DEF Landed, Stored, Only
    <3>2. Least' \in Nat /\ Least' <= Least
      BY <2>6
    <3> HIDE DEF c, o
    <3> QED
      BY <1>1, <2>1, <2>2, <2>3, <2>4, <2>7, <3>1, <3>2, RowsGrow DEF Only, o
  <2>9. Lowers
    BY <1>1, <2>2, <2>3 DEF Only, Lowers, Append, title, infer, propagation, Asking, Propagating
  <2> QED
    BY <2>4, <2>8, <2>9, LoweringKeepsFlags
<1> QED
  BY <1>2, <1>3

LEMMA Doubles ==
  ASSUME NEW whole \in Nat, NEW half \in Nat, whole = 2 * half, half >= 1,
         NEW unit \in Nat, whole <= unit
  PROVE  half <= whole /\ half <= unit /\ unit > 0
OBVIOUS

\* An artifact that lands takes half of the room that is left, at most.
LEMMA InsertStep ==
  ASSUME Typed, Ordered, NEW j \in Jobs, Insert(j)
  PROVE  Typed' /\ Ordered' /\ (Flags => Flags')
<1> DEFINE o == Ord(j)
           r == [job[j] EXCEPT !.at = "inserted"]
<1>1. /\ job[j] \in Rec /\ job[j].at = "inserting" /\ Ready(job[j]) /\ job[j].place # "none"
      /\ job[j].lo \in Int /\ job[j].hi \in Int
      /\ UNCHANGED <<store, title, infer, propagation, alive, titled, briefed>>
  BY RecIs DEF Insert, Ordered, Ready, Placed, Rec
<1>2. /\ rows' = [rows EXCEPT ![Parent] = @ \union {[by |-> j, ord |-> o]}]
      /\ Is(j, r)
  BY DEF Insert, Goes
<1>3. /\ r \in Rec /\ r.at = "inserted" /\ r.seen = job[j].seen /\ r.place = job[j].place
      /\ Asks(r) = Asks(job[j])
  BY <1>1 DEF Rec, At, Asks
<1> HIDE DEF r
<1>4. Only(j, r)
  BY <1>2, <1>3, OnlyMoves
<1>5. /\ Halved' = Halved \union {j} /\ j \notin Halved
  BY <1>1, <1>3, <1>4 DEF Halved, Only, Stored
<1>6. /\ Least = 2 * Least' /\ Least' \in Nat /\ Least' >= 1 /\ Least <= Unit /\ Unit \in Nat
      /\ Least \in Nat /\ Least' <= Least /\ Least' <= Unit /\ Unit > 0
  <2>1. /\ Cardinality(Halved') = Cardinality(Halved) + 1
        /\ Cardinality(Halved) \in Nat /\ Cardinality(Halved) < MaxJobs
    BY <1>5, HalvedIs, FS_AddElement
  <2>2. Least = 2 * Least'
    BY <2>1, LeastHalves DEF Least
  <2>3. MaxJobs - Cardinality(Halved') \in 0 .. MaxJobs
    BY <2>1, ConstantsAre
  <2>4. Least' \in Nat /\ Least' >= 1
    BY <2>3, PowersAre DEF Least
  <2>5. Least \in Nat /\ Least <= Unit /\ Unit \in Nat
    BY LeastIs, ChatTasksAssumption DEF Ordered
  <2>6. Least' <= Least /\ Least' <= Unit /\ Unit > 0
    BY <2>2, <2>4, <2>5, Doubles
  <2> QED
    BY <2>2, <2>4, <2>5, <2>6
<1>7. /\ o \in Int
      /\ First \in rows[Parent] => o >= Least'
      /\ \A s \in job[j].seen \intersect rows[Parent] :
           IF s.by = 0 /\ s.ord = 0 THEN s.ord < o ELSE s.ord > o
  <2>0. \A s \in rows[Parent] : s \in RowT /\ s.ord \in Int
    BY OrdsAre, ConstantsAre
  <2>1. CASE job[j].place = "start"
    <3>1. o = job[j].lo
      BY <2>1 DEF Ord
    <3>2. First \notin rows[Parent] /\ \A s \in job[j].seen \intersect rows[Parent] : o < s.ord
      BY <1>1, <2>1, <3>1 DEF Ready, Before, Placed
    <3>3. \A s \in rows[Parent] : ~(s.by = 0 /\ s.ord = 0)
      BY <2>0, <3>2 DEF RowT, First
    <3> QED
      BY <1>1, <2>0, <3>1, <3>2, <3>3
  <2>2. CASE job[j].place = "after"
    <3>1. o = Unit
      BY <2>2 DEF Ord
    <3>2. \A s \in job[j].seen \intersect rows[Parent] : s = First
      BY <1>1, <2>2 DEF Ready, Behind, Placed
    <3>3. o \in Int /\ o >= Least' /\ o > 0
      BY <1>6, <3>1
    <3> QED
      BY <3>2, <3>3 DEF First
  <2>3. CASE job[j].place = "between"
    <3>1. o = job[j].hi \div 2
      BY <2>3 DEF Ord
    <3>2. /\ job[j].hi >= Least
          /\ \A s \in job[j].seen \intersect rows[Parent] : s = First \/ s.ord >= job[j].hi
      BY <1>1, <2>3 DEF Ready, Between, Placed
    <3>3. o \in Int /\ o >= Least' /\ o < job[j].hi /\ o > 0
      BY <1>1, <1>6, <3>1, <3>2
    <3>4. \A s \in rows[Parent] : s.ord >= job[j].hi => ~(s.by = 0 /\ s.ord = 0) /\ s.ord > o
      BY <1>1, <2>0, <3>3
    <3> QED
      BY <3>2, <3>3, <3>4 DEF First
  <2> QED
    BY <1>1, <2>1, <2>2, <2>3 DEF Rec
<1> HIDE DEF o
<1>8. Typed'
  <2>1. [by |-> j, ord |-> o] \in RowT
    BY <1>7, ConstantsAre DEF RowT
  <2>2. IsFiniteSet(rows[Parent] \union {[by |-> j, ord |-> o]})
    BY FS_AddElement, ConstantsAre DEF Typed
  <2>3. rows' \in [Chats -> SUBSET RowT] /\ \A d \in Chats : IsFiniteSet(rows'[d])
    BY <1>2, <2>1, <2>2, ConstantsAre DEF Typed
  <2> QED
    BY <1>1, <1>2, <1>4, <2>3, ConstantsAre DEF Only, Typed, store, title, infer, propagation
<1>9. Ordered'
  <2>1. /\ job[j].at \notin Landed /\ job'[j].at \in Landed /\ job'[j].at \in Stored
        /\ \A k \in Jobs \ {j} : job'[k] = job[k]
        /\ job'[j].seen = job[j].seen /\ job'[j].place = job[j].place
    BY <1>1, <1>3, <1>4 DEF Landed, Stored, Only
  <2>2. Least' \in Nat /\ Least' <= Least
    BY <1>6
  <2> QED
    BY <1>1, <1>2, <1>7, <1>8, <2>1, <2>2, RowsGrow, ConstantsAre
<1>10. Lowers
  BY <1>1, <1>3, <1>4 DEF Only, Lowers, title, infer, propagation, Asking, Propagating
<1> QED
  BY <1>8, <1>9, <1>10, LoweringKeepsFlags

-----------------------------------------------------------------------------
(* The theorems.                                                           *)

TasksInv == Typed /\ Ordered /\ Flags

LEMMA InitInv == Init => TasksInv
<1> SUFFICES ASSUME Init PROVE TasksInv
  OBVIOUS
<1>1. \A j \in Jobs : job[j] = Fresh
  BY DEF Init
<1>2. /\ Fresh.at = "idle" /\ Fresh.title = "none" /\ Fresh.brief = "none"
      /\ Fresh.seen = {} /\ Fresh.place = "none"
  BY DEF Fresh
<1>3. Fresh \in Rec
  <2>1. PICK nobody \in 0 .. MaxJobs, zero \in Int : nobody = 0 /\ zero = 0
    BY ConstantsAre
  <2>2. Fresh = [at |-> "idle", home |-> NoChat, saw |-> Null, first |-> FALSE,
                 title |-> "none", brief |-> "none", about |-> NoChat, sig |-> nobody,
                 cut |-> FALSE, noTitle |-> FALSE, noBrief |-> FALSE, seen |-> {},
                 lo |-> zero, hi |-> zero, place |-> "none"]
    BY <2>1 DEF Fresh
  <2> QED
    BY <2>2, ConstantsAre DEF Rec, At
<1>4. Unit \in Nat
  BY ChatTasksAssumption
<1>5. \A c \in Chats : /\ rows[c] \in SUBSET RowT /\ IsFiniteSet(rows[c])
                       /\ \A r \in rows[c] : r.by = 0 /\ (r = First \/ r.ord >= Unit)
  <2>1. First \in RowT /\ Second \in RowT /\ First.by = 0 /\ Second.by = 0 /\ Second.ord = Unit
    BY <1>4, ConstantsAre DEF First, Second, RowT
  <2>2. PICK old \in {{First}, {First, Second}} :
          rows = [c \in Chats |-> IF c \in titled THEN old ELSE {}]
    BY DEF Init
  <2>3. IsFiniteSet(old) /\ old \subseteq {First, Second}
    <3>1. IsFiniteSet({First}) /\ {First, Second} = {First} \union {Second}
      BY FS_Singleton
    <3>2. IsFiniteSet({First} \union {Second})
      BY <3>1, FS_AddElement
    <3> QED
      BY <3>1, <3>2
  <2> QED
    BY <1>4, <2>1, <2>2, <2>3, FS_EmptySet
<1>6. rows \in [Chats -> SUBSET RowT]
  BY <1>5 DEF Init
<1>7. Typed
  <2>1. view \in Known
    BY ConstantsAre DEF Init, InDb, Known
  <2> QED
    BY <1>3, <1>5, <1>6, <2>1, ConstantsAre DEF Typed, Init
<1>8. Halved = {} /\ Least = Unit
  <2>1. Halved = {}
    BY <1>1, <1>2 DEF Halved
  <2> QED
    BY <2>1, FS_EmptySet, ChatTasksAssumption DEF Least
<1>9. Ordered
  <2>1. Own /\ Axis /\ RowsLandInPlace
    BY <1>5, <1>8, ConstantsAre DEF Own, Axis, RowsLandInPlace
  <2>2. SeenLanded /\ Unplaced
    BY <1>1, <1>2 DEF SeenLanded, Unplaced
  <2>3. \A j \in Jobs : Ready(job[j])
    BY <1>1, <1>2 DEF Ready, Appends, Before, Behind, Between, Placed
  <2> QED
    BY <1>4, <1>8, <2>1, <2>2, <2>3 DEF Ordered
<1>10. Flags
  BY <1>1, <1>2, ConstantsAre DEF Flags, Titles, Asked, FlagsComeDown, Init
<1> QED
  BY <1>7, <1>9, <1>10 DEF TasksInv

LEMMA NextInv ==
  ASSUME TasksInv, [Next]_vars
  PROVE  TasksInv'
<1> USE DEF TasksInv
<1>0. Unplaced
  BY DEF Ordered
<1>1. CASE UNCHANGED vars
  <2>1. Typed'
    BY <1>1 DEF vars, Typed, store, title, infer, propagation, db
  <2>2. Quiet /\ Lowers
    BY <1>1 DEF vars, Quiet, Rests, Lowers, store, title, infer, propagation, db
  <2> QED
    BY <2>1, <2>2, QuietKeepsOrder, LoweringKeepsFlags
<1>2. ASSUME Typed' /\ Quiet /\ (Flags => Flags') PROVE TasksInv'
  BY <1>2, QuietKeepsOrder
<1>3. ASSUME NEW j \in Jobs, PageStep(j) PROVE TasksInv'
  <2>1. ASSUME NEW c \in Chats, Load(j, c) PROVE TasksInv'
    BY <1>0, <1>2, <2>1, LoadStep
  <2>2. ASSUME NEW c \in Chats, Delete(j, c) PROVE TasksInv'
    BY <1>0, <1>2, <2>2, DeleteStep
  <2>3. CASE Send(j)
    BY <2>3, SendBeginsStep
  <2>4. ASSUME NEW how \in {"saving", "confirming"}, Save(j, how) PROVE TasksInv'
    BY <1>0, <1>2, <2>4, SaveStep
  <2>5. ASSUME NEW how \in {"anchoring", "anchoring_summary"}, Propagate(j, how) PROVE TasksInv'
    BY <2>5, PropagateStep
  <2>6. CASE Regenerate(j)
    BY <1>0, <1>2, <2>6, RegenerateStep
  <2>7. CASE DeleteArtifact(j)
    BY <1>0, <1>2, <2>7, DeleteArtifactStep
  <2> QED
    BY <1>3, <2>1, <2>2, <2>3, <2>4, <2>5, <2>6, <2>7 DEF PageStep
<1>4. ASSUME NEW j \in Jobs, SendStep(j) PROVE TasksInv'
  <2>1. CASE ReadLast(j)
    BY <2>1, ReadLastStep
  <2>2. CASE Append(j)
    BY <2>2, AppendStep
  <2>3. CASE Stream(j)
    BY <1>0, <1>2, <2>3, StreamStep
  <2>4. CASE Assembled(j)
    BY <1>0, <1>2, <2>4, AssembledStep
  <2>5. CASE StreamOver(j)
    BY <1>0, <1>2, <2>5, StreamOverStep
  <2> QED
    BY <1>4, <2>1, <2>2, <2>3, <2>4, <2>5 DEF SendStep
<1>5. ASSUME NEW j \in Jobs, SideStep(j) PROVE TasksInv'
  <2>1. CASE TitleDropped(j)
    BY <1>2, <2>1, TitleDroppedStep
  <2>2. CASE TitleGenerated(j)
    BY <1>2, <2>2, TitleGeneratedStep
  <2>3. CASE TitleWritten(j)
    BY <1>2, <2>3, TitleWrittenStep
  <2>4. CASE BriefOver(j)
    BY <1>2, <2>4, BriefOverStep
  <2> QED
    BY <1>5, <2>1, <2>2, <2>3, <2>4 DEF SideStep
<1>6. ASSUME NEW j \in Jobs, PropStep(j) PROVE TasksInv'
  <2>1. CASE Anchored(j)
    BY <2>1, AnchoredStep
  <2>2. CASE Built(j)
    BY <2>2, BuiltStep
  <2>3. CASE NotBuilt(j)
    BY <1>0, <1>2, <2>3, NotBuiltStep
  <2>4. CASE ReadFirst(j)
    BY <2>4, ReadFirstStep
  <2>5. CASE Insert(j)
    BY <2>5, InsertStep
  <2>6. CASE RegenChecked(j)
    BY <1>0, <1>2, <2>6, RegenCheckedStep
  <2>7. CASE Regenerated(j)
    BY <1>0, <1>2, <2>7, RegeneratedStep
  <2>8. CASE RegenWritten(j)
    BY <1>0, <1>2, <2>8, RegenWrittenStep
  <2>9. CASE Inserted(j) \/ NotInserted(j)
    BY <1>0, <1>2, <2>9, InsertedStep, NotInsertedStep
  <2> QED
    BY <1>6, <2>1, <2>2, <2>3, <2>4, <2>5, <2>6, <2>7, <2>8, <2>9 DEF PropStep
<1>7. ASSUME NEW j \in Jobs, StoreStep(j) PROVE TasksInv'
  <2>1. CASE LoadReads(j)
    BY <1>0, <1>2, <2>1, LoadReadsStep
  <2>2. CASE LoadShows(j)
    BY <1>0, <1>2, <2>2, LoadShowsStep
  <2>3. CASE Deleted(j)
    BY <1>0, <1>2, <2>3, DeletedStep
  <2>4. CASE Saved(j)
    BY <1>0, <1>2, <2>4, SavedStep
  <2>5. CASE ArtifactDeleted(j)
    BY <1>0, <1>2, <2>5, ArtifactDeletedStep
  <2> QED
    BY <1>4, <1>5, <1>6, <1>7, <2>1, <2>2, <2>3, <2>4, <2>5 DEF StoreStep
<1>8. CASE Dismiss
  BY <1>2, <1>8, DismissStep
<1> QED
  BY <1>1, <1>3, <1>7, <1>8 DEF Next

LEMMA TasksInvHolds == Spec => []TasksInv
<1>1. Init => TasksInv
  BY InitInv
<1>2. TasksInv /\ [Next]_vars => TasksInv'
  BY NextInv
<1> QED
  BY <1>1, <1>2, PTL DEF Spec

\* Whatever is aborted, overtaken or refused, and however many calls of the
\* store's methods are under way at once: when no title, no brief or no
\* propagation is left, its flag is down and its controller dropped.
THEOREM FlagsAreDown == Spec => []FlagsComeDown
<1>1. TasksInv => FlagsComeDown
  BY DEF TasksInv, Flags
<1> QED
  BY <1>1, TasksInvHolds, PTL

\* One title is asked for at a time, over all chats that are opened meanwhile.
THEOREM TitlesAreAlone == Spec => []OneTitleAtATime
<1>1. TasksInv => OneTitleAtATime
  BY DEF TasksInv, Flags, Titles, OneTitleAtATime
<1> QED
  BY <1>1, TasksInvHolds, PTL

\* A message lands behind every row that was there when it was sent, and an
\* artifact between the row its branch hangs on and those that followed it,
\* for any number of sends, propagations and deletions that overlap.
THEOREM RowsAreInPlace == Spec => []RowsLandInPlace
<1>1. TasksInv => RowsLandInPlace
  BY DEF TasksInv, Ordered
<1> QED
  BY <1>1, TasksInvHolds, PTL
=============================================================================
