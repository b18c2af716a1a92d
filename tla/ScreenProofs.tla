----------------------------- MODULE ScreenProofs -----------------------------
(***************************************************************************)
(* Theorems about what a chat shows: the pacer of a streamed reply, for    *)
(* every text, pace and budget, and the page of a chat, for any number of  *)
(* chats and loads.                                                        *)
(***************************************************************************)
EXTENDS Pacer, ChatPage, FiniteSetTheorems, TLAPS

-----------------------------------------------------------------------------
(* The greatest of finitely many positions.                                *)

\* A set without one, as small as can be, would have one after all.
LEMMA HasGreatest ==
  ASSUME NEW S \in SUBSET Int, IsFiniteSet(S), S # {}
  PROVE  \E m \in S : \A n \in S : m >= n
<1> DEFINE Good(T) == \E m \in T : \A n \in T : m >= n
           Bad == {T \in FiniteSubsetsOf(S) : T # {} /\ ~Good(T)}
<1> HIDE DEF Good
<1>1. SUFFICES ASSUME Bad # {} PROVE FALSE
  <2>1. S \in FiniteSubsetsOf(S)
    BY DEF FiniteSubsetsOf
  <2> QED
    BY <2>1 DEF Good
<1>2. PICK T \in Bad : \A U \in Bad : <<U, T>> \notin StrictSubsetOrdering(S)
  <2>1. IsWellFoundedOn(StrictSubsetOrdering(S), FiniteSubsetsOf(S))
    BY FS_StrictSubsetOrderingWellFounded
  <2>2. Bad \subseteq FiniteSubsetsOf(S)
    OBVIOUS
  <2> HIDE DEF Bad
  <2> QED
    BY <1>1, <2>1, <2>2, WFMin
<1>3. T \subseteq S /\ IsFiniteSet(T) /\ T # {} /\ ~Good(T)
  BY <1>2 DEF FiniteSubsetsOf
<1>4. PICK x \in T : TRUE
  BY <1>3
<1> DEFINE U == T \ {x}
<1>5. U \in FiniteSubsetsOf(S) /\ <<U, T>> \in StrictSubsetOrdering(S)
  BY <1>3, FS_RemoveElement DEF FiniteSubsetsOf, StrictSubsetOrdering
<1>6. U = {} \/ Good(U)
  BY <1>2, <1>5
<1>7. x \in Int /\ \A y \in T : y \in Int /\ (y = x \/ y \in U)
  BY <1>3
<1>8. CASE U = {}
  <2>1. \A y \in T : y = x
    BY <1>8
  <2> QED
    BY <1>3, <1>7, <2>1 DEF Good
<1>9. CASE Good(U)
  <2>1. PICK a \in U : \A n \in U : a >= n
    BY <1>9 DEF Good
  <2>2. \A n \in T : (IF a >= x THEN a ELSE x) >= n
    BY <1>7, <2>1
  <2> QED
    BY <1>3, <2>1, <2>2 DEF Good
<1> QED
  BY <1>6, <1>8, <1>9

\* Of a set between two positions, and of two positions.
LEMMA MaxOfSome ==
  ASSUME NEW a \in Int, NEW b \in Int, NEW S \in SUBSET (a..b), S # {}
  PROVE  Max(S) \in S
<1>1. IsFiniteSet(a..b)
  BY FS_Interval
<1>2. IsFiniteSet(S)
  BY <1>1, FS_Subset
<1>3. S \in SUBSET Int
  OBVIOUS
<1> QED
  BY <1>2, <1>3, HasGreatest DEF Max

LEMMA MaxOfTwo ==
  ASSUME NEW a \in Int, NEW b \in Int
  PROVE  Max({a, b}) = IF a <= b THEN b ELSE a
BY DEF Max

LEMMA MinOfTwo ==
  ASSUME NEW a \in Int, NEW b \in Int
  PROVE  Min({a, b}) = IF a <= b THEN a ELSE b
BY DEF Min

-----------------------------------------------------------------------------
(* The pacer.                                                              *)

Spots == 0..Len(Text)

PacerTyped ==
  /\ paced \in BOOLEAN /\ seen \in BOOLEAN /\ stopped \in BOOLEAN /\ verbatim \in BOOLEAN
  /\ mode \in {"idle", "streaming", "draining", "flushed"}
  /\ turn \in {"streaming", "waiting", "over"}
  /\ released \in Spots /\ arrived \in Spots /\ render \in Spots
  /\ sinceTick \in Nat /\ sinceFlush \in Nat /\ sincePoll \in Nat /\ waited \in Nat
  /\ clears \in Nat /\ rows \in Nat /\ switches \in Nat

\* The pacer drains while the store waits, and only then.
DrainsInWaits ==
  /\ turn = "waiting" => mode \in {"draining", "flushed"}
  /\ turn # "waiting" => mode \in {"idle", "streaming"}

\* What is flushed is on screen.
FlushedIsShown == mode = "flushed" => render = arrived

\* A drain of a page that is seen is not flushed yet only if there was no frame in it, or
\* the last one was within the budget, or there is nothing to show.
DrainIsInTime ==
  /\ seen => sinceFlush <= MaxGap
  /\ turn = "waiting" /\ switches = 0 => paced
  /\ turn = "waiting" /\ mode = "draining" /\ seen /\ switches = 0 =>
       \/ waited <= sinceFlush
       \/ (arrived = 0 /\ render = 0)
       \/ waited * TickMs < DrainBudgetMs + sinceFlush * TickMs

PaceInv == PacerTyped /\ DrainsInWaits /\ FlushedIsShown /\ DrainIsInTime

LEMMA PacerConstants ==
  /\ Len(Text) \in Nat /\ Chunks \subseteq Spots /\ 0 \in Spots /\ Spots \subseteq Nat
  /\ TickMs \in Nat \ {0} /\ BaseCps \in Nat \ {0} /\ DrainRampMs \in Nat \ {0} /\ MaxGap \in Nat \ {0}
  /\ CatchupPerSec \in Nat /\ SnapLookback \in Nat /\ DrainBudgetMs \in Nat /\ DrainDeadlineMs \in Nat
  /\ MaxIdle \in Nat /\ MaxClears \in Nat /\ MaxRows \in Nat /\ MaxSwitches \in Nat
  /\ DrainDeadlineMs >= DrainBudgetMs + MaxGap * TickMs
<1>1. Len(Text) \in Nat
  BY PacerAssumption DEF PacerAssumption
<1> QED
  BY <1>1, PacerAssumption DEF PacerAssumption, Spots

\* The boundary that is found lies between the floor and the release point.
LEMMA SnappedIs ==
  ASSUME NEW length, NEW floor \in Int, NEW i \in Int
  PROVE  Snapped(length, floor, i) = -1 \/ Snapped(length, floor, i) \in floor..i
<1> DEFINE safe == {k \in floor..i : IsSafeBoundary(length, k)}
<1>1. safe = {} \/ Max(safe) \in safe
  BY MaxOfSome
<1>2. Snapped(length, floor, i) = IF safe = {} THEN -1 ELSE Max(safe)
  BY DEF Snapped
<1> QED
  BY <1>1, <1>2

LEMMA SyncedIs ==
  ASSUME PacerTyped
  PROVE  Synced \in Spots
<1> DEFINE target == Min({render, arrived})
           floor == Max({released, target - SnapLookback})
           back == Snapped(arrived, floor, target)
<1>1. target \in Spots /\ target <= arrived
  BY MinOfTwo DEF PacerTyped, Spots
<1>2. floor \in Int /\ floor >= released /\ (target > released => floor <= target)
  <2>1. released \in Int /\ target \in Int /\ target - SnapLookback \in Int /\ SnapLookback \in Nat
    BY <1>1, PacerConstants DEF PacerTyped, Spots
  <2>2. floor = IF released <= target - SnapLookback THEN target - SnapLookback ELSE released
    BY <2>1, MaxOfTwo
  <2> HIDE DEF target, floor
  <2> QED
    BY <2>1, <2>2
<1>3. back = -1 \/ back \in floor..target
  BY <1>1, <1>2, SnappedIs DEF Spots
<1>4. Synced = IF mode \notin {"streaming", "draining"} \/ target <= released THEN released
               ELSE IF back = -1 THEN floor ELSE back
  BY DEF Synced
<1> HIDE DEF target, floor, back
<1>5. CASE target <= released
  BY <1>4, <1>5 DEF PacerTyped
<1>6. CASE target > released
  <2>1. released \in Int /\ released >= 0 /\ target \in Int /\ target <= Len(Text)
    BY <1>1, PacerConstants DEF PacerTyped, Spots
  <2> QED
    BY <1>2, <1>3, <1>4, <1>6, <2>1, PacerConstants DEF Spots, PacerTyped
<1>7. target \in Int /\ released \in Int
  BY <1>1 DEF PacerTyped, Spots
<1> QED
  BY <1>5, <1>6, <1>7

\* The pacer cannot release more than there is.
LEMMA CandidatesAre ==
  ASSUME PacerTyped, NEW from \in Spots, NEW c \in Candidates(from)
  PROVE  c \in Int /\ (from <= arrived => c <= arrived)
<1> DEFINE cps == Max({BaseCps, (arrived - from) * CatchupPerSec})
           elapsed == waited * TickMs
           doublings == IF mode # "draining" THEN {0}
                        ELSE {elapsed \div DrainRampMs, (elapsed + DrainRampMs - 1) \div DrainRampMs}
           over(k) == (cps * (2 ^ k) * sinceTick * TickMs) \div 1000
           reach(k) == Min({arrived, from + over(k)})
<1>1. c \in reach(Min(doublings))..reach(Max(doublings))
  BY DEF Candidates
<1>2. from \in Int /\ arrived \in Int /\ sinceTick \in Int /\ waited \in Nat
  BY DEF PacerTyped, Spots
<1>3. cps \in Int
  <2>1. (arrived - from) * CatchupPerSec \in Int /\ BaseCps \in Int
    BY <1>2, PacerConstants
  <2> QED
    BY <2>1, MaxOfTwo
<1>4. Max(doublings) \in Nat
  <2>1. elapsed \in Nat
    BY <1>2, PacerConstants
  <2> HIDE DEF elapsed
  <2>2. elapsed \div DrainRampMs \in Nat /\ (elapsed + DrainRampMs - 1) \div DrainRampMs \in Nat
    BY <2>1, PacerConstants
  <2>3. Max({0}) = 0
    BY DEF Max
  <2> QED
    BY <2>2, <2>3, MaxOfTwo
<1> HIDE DEF cps, doublings
<1>5. ASSUME NEW k \in Nat PROVE over(k) \in Int
  <2>1. 2 ^ k \in Int
    OBVIOUS
  <2>2. cps * (2 ^ k) \in Int
    BY <2>1, <1>3
  <2>3. cps * (2 ^ k) * sinceTick \in Int
    BY <2>2, <1>2
  <2>4. cps * (2 ^ k) * sinceTick * TickMs \in Int
    BY <2>3, PacerConstants
  <2> QED
    BY <2>4
<1> HIDE DEF over
<1>6. reach(Max(doublings)) <= arrived /\ reach(Max(doublings)) \in Int
  <2>1. from + over(Max(doublings)) \in Int
    BY <1>2, <1>4, <1>5
  <2> QED
    BY <2>1, <1>2, MinOfTwo
<1> QED
  BY <1>1, <1>2, <1>6

\* What a tick may do to the release point, the mode and the screen.
LEMMA TicksAre ==
  ASSUME PacerTyped, NEW from \in Spots, NEW t \in Ticks(from)
  PROVE  /\ t.released \in Spots /\ t.shows \in Spots
         /\ t.mode = mode \/ (mode = "draining" /\ t.mode = "flushed")
         /\ t.mode = "flushed" => t.shows = arrived
         /\ t.mode = "draining" => \/ (arrived = 0 /\ t.shows = 0)
                                   \/ waited * TickMs < DrainBudgetMs
<1> DEFINE start == IF from > arrived THEN 0 ELSE from
           is(at, m, shows) == [released |-> at, mode |-> m, shows |-> shows]
           snap(c) == Snapped(arrived, Max({start, c - SnapLookback}), c)
           moved(c) == IF c <= start \/ snap(c) = -1 THEN start ELSE snap(c)
<1>1. /\ arrived \in Spots /\ start \in Spots /\ start <= arrived /\ (arrived = 0 => start = 0)
      /\ arrived \in Int /\ start \in Int /\ start >= 0 /\ arrived >= 0 /\ arrived <= Len(Text)
  BY PacerConstants DEF PacerTyped, Spots
<1>2. waited * TickMs \in Int
  BY PacerConstants DEF PacerTyped
<1>3. ASSUME NEW c \in Candidates(start) PROVE moved(c) \in Spots
  <2>1. c \in Int /\ c <= arrived
    BY <1>1, <1>3, CandidatesAre
  <2>2. CASE c <= start \/ snap(c) = -1
    BY <2>2, <1>1
  <2>3. CASE c > start /\ snap(c) # -1
    <3>1. c - SnapLookback \in Int
      BY <2>1, PacerConstants
    <3>2. Max({start, c - SnapLookback}) \in Int /\ Max({start, c - SnapLookback}) >= start
      BY <3>1, <1>1, MaxOfTwo
    <3>3. snap(c) \in Max({start, c - SnapLookback})..c
      BY <3>2, <2>1, <2>3, SnappedIs
    <3>4. snap(c) \in Int /\ snap(c) >= 0 /\ snap(c) <= Len(Text)
      BY <3>2, <3>3, <2>1, <1>1, PacerConstants
    <3>5. moved(c) = snap(c)
      BY <2>1, <2>3, <1>1
    <3> HIDE DEF moved, snap
    <3> QED
      BY <3>4, <3>5 DEF Spots
  <2> QED
    BY <2>1, <2>2, <2>3, <1>1
<1>4. \/ t = is(start, mode, arrived) /\ mode \in {"flushed", "idle"}
      \/ t = is(start, mode, start) /\ arrived = 0
      \/ t = is(start, IF mode = "draining" THEN "flushed" ELSE mode, arrived)
           /\ mode \in {"streaming", "draining"}
      \/ t = is(arrived, "flushed", arrived) /\ mode = "draining"
      \/ \E c \in Candidates(start) :
           /\ t = is(moved(c), mode, moved(c)) /\ mode \in {"streaming", "draining"}
           /\ mode = "draining" => waited * TickMs < DrainBudgetMs
  <2>1. mode \in {"idle", "streaming", "draining", "flushed"} /\ DrainBudgetMs \in Int
    BY PacerConstants DEF PacerTyped
  <2>2. CASE mode \in {"flushed", "idle"}
    BY <2>2 DEF Ticks
  <2>3. CASE mode \in {"streaming", "draining"} /\ arrived = 0
    BY <2>3 DEF Ticks
  <2>4. CASE mode \in {"streaming", "draining"} /\ arrived > 0 /\ start >= arrived
    <3>1. t \in {is(start, IF mode = "draining" THEN "flushed" ELSE mode, arrived)}
      BY <2>4, <1>1 DEF Ticks
    <3> QED
      BY <2>4, <3>1
  <2>5. CASE mode = "draining" /\ start < arrived /\ waited * TickMs >= DrainBudgetMs
    <3>1. t \in {is(arrived, "flushed", arrived)}
      BY <2>5, <1>1, <1>2, <2>1 DEF Ticks
    <3> QED
      BY <2>5, <3>1
  <2>6. CASE /\ mode \in {"streaming", "draining"} /\ start < arrived
             /\ mode = "draining" => waited * TickMs < DrainBudgetMs
    <3>0. /\ ~(mode \in {"flushed", "idle"}) /\ arrived > 0 /\ arrived # 0 /\ ~(start >= arrived)
          /\ ~(mode = "draining" /\ waited * TickMs >= DrainBudgetMs)
      BY <2>6, <1>1, <1>2, <2>1
    <3>1. t \in {is(moved(c), mode, moved(c)) : c \in Candidates(start)}
      BY <3>0 DEF Ticks
    <3> HIDE DEF moved
    <3> QED
      BY <2>6, <3>1
  <2> QED
    <3>1. start >= arrived \/ start < arrived
      BY <1>1
    <3>2. arrived = 0 \/ arrived > 0
      BY <1>1
    <3>3. waited * TickMs >= DrainBudgetMs \/ waited * TickMs < DrainBudgetMs
      BY <1>2, <2>1
    <3> HIDE DEF is
    <3> QED
      BY <2>1, <2>2, <2>3, <2>4, <2>5, <2>6, <3>1, <3>2, <3>3
<1> HIDE DEF start, moved
<1> QED
  BY <1>1, <1>2, <1>3, <1>4, PacerConstants DEF PacerTyped

\* Longer times are more milliseconds.
LEMMA TimesGrows ==
  ASSUME NEW a \in Nat, NEW b \in Nat, NEW t \in Nat, a <= b
  PROVE  a * t <= b * t
OBVIOUS

-----------------------------------------------------------------------------
LEMMA FlushPaces ==
  ASSUME PaceInv, FlushRender
  PROVE  PaceInv'
<1>1. PacerTyped /\ Synced \in Spots
  BY SyncedIs DEF PaceInv
<1>2. CASE ~paced
  <2>1. PacerTyped'
    BY <1>1, <1>2, PacerConstants DEF FlushRender, PacerTyped
  <2> QED
    BY <1>2, <2>1, PacerConstants
    DEF FlushRender, PaceInv, DrainsInWaits, FlushedIsShown, DrainIsInTime
<1>3. CASE paced
  <2>1. PICK t \in Ticks(Synced) : mode' = t.mode /\ released' = t.released /\ render' = t.shows
    BY <1>3 DEF FlushRender
  <2>2. /\ t.released \in Spots /\ t.shows \in Spots
        /\ t.mode = mode \/ (mode = "draining" /\ t.mode = "flushed")
        /\ t.mode = "flushed" => t.shows = arrived
        /\ t.mode = "draining" => \/ (arrived = 0 /\ t.shows = 0)
                                  \/ waited * TickMs < DrainBudgetMs
    BY <1>1, TicksAre
  <2>3. /\ turn' = turn /\ arrived' = arrived /\ sinceFlush' = 0 /\ waited' = waited
        /\ paced' = paced /\ switches' = switches /\ seen' = seen
    BY DEF FlushRender
  <2>4. PacerTyped'
    BY <1>1, <1>3, <2>1, <2>2, PacerConstants DEF FlushRender, PacerTyped
  <2>5. DrainsInWaits' /\ FlushedIsShown'
    BY <2>1, <2>2, <2>3 DEF PaceInv, DrainsInWaits, FlushedIsShown
  <2>6. waited * TickMs < DrainBudgetMs => waited * TickMs < DrainBudgetMs + 0 * TickMs
    BY <1>1, PacerConstants DEF PacerTyped
  <2>7. DrainIsInTime'
    BY <1>3, <2>1, <2>2, <2>3, <2>6, PacerConstants DEF PaceInv, DrainIsInTime
  <2> QED
    BY <2>4, <2>5, <2>7 DEF PaceInv
<1> QED
  BY <1>2, <1>3

LEMMA ArrivePaces ==
  ASSUME PaceInv, NEW n \in Chunks, Arrive(n)
  PROVE  PaceInv'
<1>1. n \in Spots
  BY PacerConstants
<1> QED
  BY <1>1 DEF Arrive, PaceInv, PacerTyped, DrainsInWaits, FlushedIsShown, DrainIsInTime

LEMMA ClearPaces ==
  ASSUME PaceInv, Clear
  PROVE  PaceInv'
BY PacerConstants DEF Clear, PaceInv, PacerTyped, DrainsInWaits, FlushedIsShown, DrainIsInTime

LEMMA RowLandsPaces ==
  ASSUME PaceInv, NEW how, RowLands(how), turn' = "streaming",
         UNCHANGED <<paced, seen, sinceFlush, stopped, clears, switches>>
  PROVE  PaceInv'
<1>0. /\ rows' = rows + 1 /\ verbatim' = FALSE /\ mode' = "idle" /\ sinceTick' = 0
      /\ arrived' = 0 /\ render' = 0 /\ released' = 0 /\ waited' = 0 /\ sincePoll' = 0
  BY DEF RowLands
<1>1. PacerTyped'
  <2>1. 0 \in Spots /\ 0 \in Nat /\ FALSE \in BOOLEAN
    BY PacerConstants
  <2>2. rows' \in Nat
    BY <1>0 DEF PaceInv, PacerTyped
  <2> QED
    BY <1>0, <2>1, <2>2 DEF PaceInv, PacerTyped
<1> QED
  BY <1>0, <1>1 DEF PaceInv, DrainsInWaits, FlushedIsShown, DrainIsInTime

LEMMA AppendTextPaces ==
  ASSUME PaceInv, AppendText
  PROVE  PaceInv'
<1>0. PICK empty \in BOOLEAN :
        IF paced /\ ~stopped /\ ~empty
        THEN /\ turn' = "waiting" /\ mode' = "draining" /\ waited' = 0 /\ sincePoll' = 0
             /\ UNCHANGED <<released, sinceTick, arrived, render, verbatim, fate, rows>>
        ELSE RowLands("stored") /\ UNCHANGED turn
  BY DEF AppendText
<1>1. CASE paced /\ ~stopped /\ ~empty
  <2>1. /\ turn' = "waiting" /\ mode' = "draining" /\ waited' = 0 /\ sincePoll' = 0
        /\ UNCHANGED <<paced, seen, sinceTick, sinceFlush, released, arrived, render, stopped,
                       verbatim, clears, rows, switches>>
    BY <1>0, <1>1 DEF AppendText
  <2>2. PacerTyped'
    BY <2>1 DEF PaceInv, PacerTyped
  <2>3. DrainsInWaits' /\ FlushedIsShown'
    BY <2>1 DEF DrainsInWaits, FlushedIsShown
  <2>4. waited' <= sinceFlush'
    BY <2>1 DEF PaceInv, PacerTyped
  <2>5. DrainIsInTime'
    BY <1>1, <2>1, <2>4 DEF PaceInv, DrainIsInTime
  <2> QED
    BY <2>2, <2>3, <2>5 DEF PaceInv
<1>2. CASE ~(paced /\ ~stopped /\ ~empty)
  BY <1>0, <1>2, RowLandsPaces DEF AppendText
<1> QED
  BY <1>1, <1>2

LEMMA PollPaces ==
  ASSUME PaceInv, Poll
  PROVE  PaceInv'
<1>1. CASE mode = "flushed" \/ stopped \/ waited * TickMs > DrainDeadlineMs
  BY <1>1, RowLandsPaces DEF Poll
<1>2. CASE ~(mode = "flushed" \/ stopped \/ waited * TickMs > DrainDeadlineMs)
  BY <1>2, PacerConstants
  DEF Poll, PaceInv, PacerTyped, DrainsInWaits, FlushedIsShown, DrainIsInTime
<1> QED
  BY <1>1, <1>2

LEMMA OthersPace ==
  ASSUME PaceInv, Stop \/ Switch \/ Ended \/ \E failed \in BOOLEAN : End(failed)
  PROVE  PaceInv'
<1>1. CASE Stop
  BY <1>1 DEF Stop, PaceInv, PacerTyped, DrainsInWaits, FlushedIsShown, DrainIsInTime
<1>2. CASE Switch
  BY <1>2 DEF Switch, PaceInv, PacerTyped, DrainsInWaits, FlushedIsShown, DrainIsInTime
<1>3. CASE Ended
  BY <1>3 DEF Ended, pacerVars, PaceInv, PacerTyped, DrainsInWaits, FlushedIsShown, DrainIsInTime
<1>4. CASE \E failed \in BOOLEAN : End(failed)
  <2>1. /\ turn' = "over" /\ mode' = "idle" /\ verbatim' = FALSE
        /\ released' = 0 /\ arrived' = 0 /\ render' = 0 /\ sinceTick' = 0
        /\ UNCHANGED <<paced, seen, sinceFlush, sincePoll, waited, stopped, clears, rows, switches>>
    BY <1>4 DEF End
  <2>2. PacerTyped'
    BY <2>1, PacerConstants DEF PaceInv, PacerTyped
  <2> QED
    BY <2>1, <2>2 DEF PaceInv, DrainsInWaits, FlushedIsShown, DrainIsInTime
<1> QED
  BY <1>1, <1>2, <1>3, <1>4

\* A tick of the clock adds as much to the wait as to the time without a frame.
LEMMA PassPaces ==
  ASSUME PaceInv, Pass
  PROVE  PaceInv'
<1> DEFINE long == (DrainDeadlineMs \div TickMs) + MaxGap + 1
<1>0. PacerTyped
  BY DEF PaceInv
<1>1. long \in Int /\ long >= 0
  <2>1. DrainDeadlineMs \div TickMs \in Nat
    BY PacerConstants
  <2> QED
    BY <2>1, PacerConstants
<1>2. /\ sinceTick' \in Nat
      /\ sinceFlush' = IF sinceFlush + 1 <= MaxGap THEN sinceFlush + 1 ELSE MaxGap
      /\ waited' \in Nat /\ waited' <= waited + 1
      /\ sincePoll' \in Nat
  <2>1. sinceTick' = Min({sinceTick + 1, MaxIdle}) /\ sinceFlush' = Min({sinceFlush + 1, MaxGap})
    BY DEF Pass
  <2>2. waited' = IF turn = "waiting" THEN Min({waited + 1, long}) ELSE waited
    BY DEF Pass
  <2>3. sincePoll' = IF turn = "waiting" THEN sincePoll + 1 ELSE sincePoll
    BY DEF Pass
  <2>4. /\ sinceTick + 1 \in Int /\ sinceFlush + 1 \in Int /\ waited + 1 \in Int
        /\ MaxIdle \in Int /\ MaxGap \in Int
    BY <1>0, PacerConstants DEF PacerTyped
  <2> HIDE DEF long
  <2>5. /\ sinceTick' = IF sinceTick + 1 <= MaxIdle THEN sinceTick + 1 ELSE MaxIdle
        /\ sinceFlush' = IF sinceFlush + 1 <= MaxGap THEN sinceFlush + 1 ELSE MaxGap
    BY <2>1, <2>4, MinOfTwo
  <2>6. waited' = waited \/ waited' = IF waited + 1 <= long THEN waited + 1 ELSE long
    BY <2>2, <2>4, <1>1, MinOfTwo
  <2> QED
    BY <1>0, <1>1, <2>3, <2>5, <2>6, PacerConstants DEF PacerTyped
<1>3. PacerTyped'
  BY <1>0, <1>2, PacerConstants DEF Pass, PacerTyped
<1>4. DrainsInWaits' /\ FlushedIsShown'
  BY DEF Pass, PaceInv, DrainsInWaits, FlushedIsShown
<1>5. DrainIsInTime'
  <2>1. seen => sinceFlush' = sinceFlush + 1 /\ sinceFlush' <= MaxGap
    BY <1>0, <1>2, PacerConstants DEF Pass, PacerTyped
  <2>2. waited <= sinceFlush /\ seen => waited' <= sinceFlush'
    <3> SUFFICES ASSUME seen, waited <= sinceFlush PROVE waited' <= sinceFlush'
      OBVIOUS
    <3>1. sinceFlush' = sinceFlush + 1 /\ waited' \in Int /\ waited' <= waited + 1
      BY <1>2, <2>1
    <3>2. waited \in Int /\ sinceFlush \in Int
      BY <1>0 DEF PacerTyped
    <3> QED
      BY <3>1, <3>2
  <2>3. waited * TickMs < DrainBudgetMs + sinceFlush * TickMs /\ seen =>
          waited' * TickMs < DrainBudgetMs + sinceFlush' * TickMs
    <3> SUFFICES ASSUME seen, waited * TickMs < DrainBudgetMs + sinceFlush * TickMs
                 PROVE  waited' * TickMs < DrainBudgetMs + sinceFlush' * TickMs
      OBVIOUS
    <3>1. waited' * TickMs <= (waited + 1) * TickMs
      <4>1. waited' \in Nat /\ waited + 1 \in Nat /\ TickMs \in Nat /\ waited' <= waited + 1
        BY <1>0, <1>2, PacerConstants DEF PacerTyped
      <4> QED
        BY <4>1, TimesGrows
    <3>2. (waited + 1) * TickMs = waited * TickMs + TickMs
      BY <1>0, PacerConstants DEF PacerTyped
    <3>3. sinceFlush' * TickMs = sinceFlush * TickMs + TickMs
      BY <1>0, <2>1, PacerConstants DEF PacerTyped
    <3>4. /\ waited' * TickMs \in Int /\ waited * TickMs \in Int /\ sinceFlush * TickMs \in Int
          /\ TickMs \in Int /\ DrainBudgetMs \in Int
      BY <1>0, <1>2, PacerConstants DEF PacerTyped
    <3> QED
      BY <3>1, <3>2, <3>3, <3>4
  <2>4. UNCHANGED <<paced, seen, mode, arrived, render, turn, switches>>
    BY DEF Pass
  <2> QED
    BY <2>1, <2>2, <2>3, <2>4 DEF PaceInv, DrainIsInTime
<1> QED
  BY <1>3, <1>4, <1>5 DEF PaceInv

LEMMA PaceKeeps ==
  ASSUME PaceInv, [PacerNext]_pacerVars
  PROVE  PaceInv'
<1>1. CASE UNCHANGED pacerVars
  BY <1>1 DEF pacerVars, PaceInv, PacerTyped, DrainsInWaits, FlushedIsShown, DrainIsInTime
<1>2. CASE PacerNext
  BY <1>2, FlushPaces, ArrivePaces, ClearPaces, AppendTextPaces, PollPaces, OthersPace, PassPaces
  DEF PacerNext
<1> QED
  BY <1>1, <1>2

LEMMA PaceBegins ==
  ASSUME PacerInit
  PROVE  PaceInv
<1>1. PacerTyped
  BY PacerConstants DEF PacerInit, PacerTyped
<1>2. sinceFlush <= MaxGap
  BY PacerConstants DEF PacerInit
<1> QED
  BY <1>1, <1>2 DEF PacerInit, PaceInv, DrainsInWaits, FlushedIsShown, DrainIsInTime

\* A row whose text was drained lands by a look at the drain: it was flushed, or the
\* deadline, which is longer than the budget and the lateness of a frame, has passed in vain.
LEMMA DrainEnds ==
  ASSUME PaceInv, [PacerNext]_pacerVars,
         fate' = "drained", rows' # rows, seen, switches = 0
  PROVE  render = arrived
<1>1. Poll /\ RowLands("drained") /\ ~stopped
  BY DEF PacerNext, pacerVars, FlushRender, Arrive, Clear, AppendText, RowLands, Poll, Stop, End,
         Switch, Pass, Ended
<1>2. turn = "waiting" /\ (mode = "flushed" \/ waited * TickMs > DrainDeadlineMs)
  BY <1>1 DEF Poll
<1>3. CASE mode = "flushed"
  BY <1>3 DEF PaceInv, FlushedIsShown
<1>4. CASE mode = "draining" /\ waited * TickMs > DrainDeadlineMs
  <2>1. PacerTyped /\ sinceFlush <= MaxGap
    BY DEF PaceInv, DrainIsInTime
  <2>2. sinceFlush * TickMs <= MaxGap * TickMs
    BY <2>1, PacerConstants DEF PacerTyped
  <2>3. /\ waited * TickMs \in Int /\ sinceFlush * TickMs \in Int /\ MaxGap * TickMs \in Int
        /\ DrainBudgetMs \in Nat /\ DrainDeadlineMs \in Nat
    BY <2>1, PacerConstants DEF PacerTyped
  <2>4. waited <= sinceFlush => waited * TickMs <= sinceFlush * TickMs
    BY <2>1, PacerConstants DEF PacerTyped
  <2>5. DrainDeadlineMs >= DrainBudgetMs + MaxGap * TickMs
    BY PacerConstants
  <2>6. ~(waited <= sinceFlush) /\ ~(waited * TickMs < DrainBudgetMs + sinceFlush * TickMs)
    BY <1>4, <2>2, <2>3, <2>4, <2>5
  <2> QED
    BY <1>2, <1>4, <2>6 DEF PaceInv, DrainIsInTime
<1> QED
  BY <1>2, <1>3, <1>4 DEF PaceInv, DrainsInWaits

\* When the row of a drained reply lands on a page that is seen and paced all along, its
\* text is on screen already: for every text and every cut of it into chunks, every pace,
\* budget and lateness of the frames, as long as the deadline of the store leaves a frame
\* after the budget (waitForDrain in chat.svelte.ts, tick in pacer.ts).
THEOREM DrainIsOnScreen == PacerSpec => DrainedTextIsOnScreen
<1> DEFINE A == [fate' = "drained" /\ rows' # rows /\ seen /\ switches = 0 => render = arrived]_pacerVars
<1>1. PacerInit => PaceInv
  BY PaceBegins
<1>2. PaceInv /\ [PacerNext]_pacerVars => PaceInv'
  BY PaceKeeps
<1>3. PaceInv /\ [PacerNext]_pacerVars => A
  BY DrainEnds
<1> HIDE DEF A
<1>4. PacerSpec => [][A]_pacerVars
  BY <1>1, <1>2, <1>3, PTL DEF PacerSpec
<1> QED
  BY <1>1, <1>2, <1>3, PTL DEF PacerSpec, DrainedTextIsOnScreen, A

-----------------------------------------------------------------------------
(* The draft of the composer.                                              *)

Somewhere == Chats \union {NoChat}

Timer == [on : BOOLEAN, chat : Somewhere, text : Somewhere, byUser : BOOLEAN]

Load == [at : {"over", "mount", "load", "draft", "nav"}, chat : Somewhere, gone : BOOLEAN]

PageTyped ==
  /\ url \in Somewhere /\ going \in Somewhere /\ shown \in Somewhere /\ chat \in Somewhere
  /\ loading \in BOOLEAN /\ streaming \in BOOLEAN /\ composer \in Somewhere
  /\ drafts \in [Chats -> Somewhere]
  /\ timer \in Timer /\ left \in Seq(Timer)
  /\ loads \in [Loads -> Load]

\* A load that has begun has a chat, and from then on the store has one.
StoreIsSomewhere ==
  /\ \A j \in Loads : loads[j].at \in {"load", "draft", "nav"} => loads[j].chat # NoChat
  /\ chat # NoChat \/ left # <<>> \/ timer.on
       \/ (\E j \in Loads : loads[j].at \in {"load", "draft", "nav"}) => shown # NoChat
  /\ url # NoChat /\ shown = NoChat => \E j \in Loads : loads[j].at = "mount"

\* A page that is gone shows nothing, and its loads know that it is gone.
GoneIsGone ==
  url = NoChat => /\ ~timer.on /\ composer = NoText
                  /\ \A j \in Loads : loads[j].at = "over" \/ loads[j].gone

\* The timer holds what the composer shows, for the chat that the store is in; without one
\* it is stored already, and nothing that is still to be stored is older.
TimerIsNews ==
  /\ timer.on => timer.chat = shown /\ timer.text = composer
  /\ url # NoChat /\ ~timer.on => left = <<>> /\ (shown # NoChat => drafts[shown] = composer)

DraftInv == PageTyped /\ StoreIsSomewhere /\ GoneIsGone /\ TimerIsNews

LEMMA ArmedIs ==
  ASSUME NEW now \in Timer, NEW text \in Somewhere, NEW c \in Somewhere, NEW byUser \in BOOLEAN
  PROVE  /\ Armed(now, text, c, byUser) \in Timer
         /\ \/ Armed(now, text, c, byUser) = now /\ (c = NoChat \/ (text = composer /\ c = shown))
            \/ /\ Armed(now, text, c, byUser) = [on |-> TRUE, chat |-> c, text |-> text, byUser |-> byUser]
               /\ c # NoChat
BY DEF Armed, Timer

LEMMA FiringDrafts ==
  ASSUME DraftInv, FireLeft \/ Fire
  PROVE  DraftInv'
<1>1. CASE FireLeft
  <2>1. Head(left) \in Timer /\ Tail(left) \in Seq(Timer)
    BY <1>1 DEF FireLeft, DraftInv, PageTyped
  <2>2. PageTyped'
    BY <1>1, <2>1 DEF FireLeft, DraftInv, PageTyped, Timer
  <2> QED
    BY <1>1, <2>2 DEF FireLeft, DraftInv, StoreIsSomewhere, GoneIsGone, TimerIsNews
<1>2. CASE Fire
  <2>1. timer.chat = shown /\ timer.text = composer /\ shown \in Chats
    BY <1>2 DEF Fire, DraftInv, TimerIsNews, StoreIsSomewhere, PageTyped, Somewhere
  <2>2. NoTimer \in Timer /\ NoTimer.on = FALSE
    BY DEF NoTimer, Timer, Somewhere, NoText
  <2>3. PageTyped'
    BY <1>2, <2>1, <2>2 DEF Fire, DraftInv, PageTyped
  <2>4. drafts'[shown] = composer
    BY <1>2, <2>1 DEF Fire, DraftInv, PageTyped
  <2> QED
    BY <1>2, <2>2, <2>3, <2>4 DEF Fire, DraftInv, StoreIsSomewhere, GoneIsGone, TimerIsNews
<1> QED
  BY <1>1, <1>2

\* A step that leaves the loads, the chat and the page alone, and arms the timer for a text
\* of the chat that is shown.
LEMMA TypingDrafts ==
  ASSUME DraftInv, NEW text \in Somewhere, Rendered, composer' = text,
         \/ timer' = timer /\ text = composer
         \/ timer' = [on |-> TRUE, chat |-> shown, text |-> text, byUser |-> TRUE],
         streaming' \in BOOLEAN,
         UNCHANGED <<url, going, shown, chat, loading, drafts, left, loads>>
  PROVE  DraftInv'
<1>1. timer \in Timer /\ shown \in Somewhere /\ url # NoChat /\ chat # NoChat /\ shown # NoChat
  BY DEF DraftInv, PageTyped, Rendered, StoreIsSomewhere
<1>2. timer' \in Timer
  <2>1. [on |-> TRUE, chat |-> shown, text |-> text, byUser |-> TRUE] \in Timer
    BY <1>1 DEF Timer
  <2> QED
    BY <1>1, <2>1
<1>3. PageTyped'
  BY <1>2 DEF DraftInv, PageTyped
<1>4. StoreIsSomewhere'
  BY <1>1 DEF DraftInv, StoreIsSomewhere
<1>5. GoneIsGone'
  BY <1>1 DEF GoneIsGone
<1>6. TimerIsNews'
  <2>1. CASE timer' = timer /\ text = composer
    BY <2>1 DEF DraftInv, TimerIsNews
  <2>2. CASE timer' = [on |-> TRUE, chat |-> shown, text |-> text, byUser |-> TRUE]
    BY <2>2 DEF TimerIsNews
  <2> QED
    BY <2>1, <2>2
<1> QED
  BY <1>3, <1>4, <1>5, <1>6 DEF DraftInv

LEMMA UsersDraft ==
  ASSUME DraftInv,
         Types \/ StreamEnds \/ (\E sends \in BOOLEAN : Empties(sends))
           \/ (\E c \in Chats : Goes(c) \/ Stage(c))
  PROVE  DraftInv'
<1>a. timer \in Timer /\ shown \in Somewhere /\ TRUE \in BOOLEAN
  BY DEF DraftInv, PageTyped
<1>b. Rendered => shown # NoChat
  BY DEF DraftInv, Rendered, StoreIsSomewhere
<1>1. CASE Types
  <2>1. \/ timer' = timer /\ shown = composer
        \/ timer' = [on |-> TRUE, chat |-> shown, text |-> shown, byUser |-> TRUE]
    BY <1>1, <1>a, <1>b, ArmedIs DEF Types
  <2> QED
    BY <1>1, <1>a, <2>1, TypingDrafts DEF Types, DraftInv, PageTyped
<1>2. CASE \E sends \in BOOLEAN : Empties(sends)
  <2>1. NoText \in Somewhere
    BY DEF NoText, Somewhere
  <2>2. streaming' \in BOOLEAN
    BY <1>2 DEF Empties, DraftInv, PageTyped
  <2>3. \/ timer' = timer /\ NoText = composer
        \/ timer' = [on |-> TRUE, chat |-> shown, text |-> NoText, byUser |-> TRUE]
    BY <1>2, <1>a, <1>b, <2>1, ArmedIs DEF Empties
  <2> QED
    BY <1>2, <2>1, <2>2, <2>3, TypingDrafts DEF Empties
<1>3. CASE StreamEnds
  BY <1>3 DEF StreamEnds, DraftInv, PageTyped, StoreIsSomewhere, GoneIsGone, TimerIsNews
<1>4. CASE \E c \in Chats : Goes(c) \/ Stage(c)
  BY <1>4 DEF Goes, Stage, DraftInv, PageTyped, Somewhere, StoreIsSomewhere, GoneIsGone, TimerIsNews
<1> QED
  BY <1>1, <1>2, <1>3, <1>4

LEMMA LeavingDrafts ==
  ASSUME DraftInv, Leaves
  PROVE  DraftInv'
<1>1. NoTimer \in Timer /\ NoTimer.on = FALSE /\ NoText \in Somewhere /\ NoChat \in Somewhere
  BY DEF NoTimer, Timer, Somewhere, NoText
<1>2. left' \in Seq(Timer) /\ (left' # <<>> => left # <<>> \/ timer.on)
  BY DEF Leaves, DraftInv, PageTyped
<1>3. loads' \in [Loads -> Load]
  BY DEF Leaves, DraftInv, PageTyped, Load
<1>4. \A j \in Loads : /\ loads'[j].at = loads[j].at /\ loads'[j].chat = loads[j].chat
                       /\ loads'[j].at = "over" \/ loads'[j].gone
  BY DEF Leaves, DraftInv, PageTyped, Load
<1>5. PageTyped'
  BY <1>1, <1>2, <1>3 DEF Leaves, DraftInv, PageTyped
<1> QED
  BY <1>1, <1>2, <1>4, <1>5 DEF Leaves, DraftInv, StoreIsSomewhere, GoneIsGone, TimerIsNews

\* load of the store goes to a chat, with the text that the composer has.
LEMMA BegunDrafts ==
  ASSUME DraftInv, NEW j \in Loads, NEW c \in Chats, NEW gone \in BOOLEAN, url # NoChat,
         Begun(c, composer, Armed(timer, composer, c, FALSE)), going' \in Somewhere, url' \in Chats,
         loads' = [loads EXCEPT ![j] = [at |-> "load", chat |-> c, gone |-> gone]],
         UNCHANGED <<chat, drafts, left>>
  PROVE  DraftInv'
<1>1. /\ timer \in Timer /\ composer \in Somewhere /\ c \in Somewhere /\ c # NoChat
      /\ url' # NoChat /\ url' \in Somewhere
  BY PageAssumption DEF PageAssumption, DraftInv, PageTyped, Somewhere
<1>2. /\ timer' \in Timer /\ shown' = c /\ composer' = composer
      /\ loading' = TRUE /\ streaming' = FALSE
      /\ \/ timer' = timer /\ c = shown
         \/ timer' = [on |-> TRUE, chat |-> c, text |-> composer, byUser |-> FALSE]
  BY <1>1, ArmedIs DEF Begun
<1>3. loads' \in [Loads -> Load]
  BY <1>1 DEF DraftInv, PageTyped, Load
<1>4. PageTyped'
  BY <1>1, <1>2, <1>3 DEF DraftInv, PageTyped
<1>5. \A k \in Loads : (k = j /\ loads'[k].chat = c) \/ loads'[k] = loads[k]
  BY DEF DraftInv, PageTyped
<1> QED
  BY <1>1, <1>2, <1>4, <1>5 DEF DraftInv, StoreIsSomewhere, GoneIsGone, TimerIsNews

LEMMA ArrivingDrafts ==
  ASSUME DraftInv, NEW j \in Loads, Arrives(j)
  PROVE  DraftInv'
<1>0. NoChat \in Somewhere /\ NoText \in Somewhere /\ FALSE \in BOOLEAN /\ NoChat \notin Chats
  BY PageAssumption DEF PageAssumption, Somewhere, NoText
<1>1. CASE Navigated(j)
  BY <1>0, <1>1, BegunDrafts DEF Navigated
<1>2. CASE Mounted(j)
  <2>1. going \in Chats /\ going \in Somewhere /\ going # NoChat /\ url = NoChat
    BY <1>0, <1>2 DEF Mounted, Somewhere
  <2>2. /\ timer' \in Timer
        /\ shown = NoChat => ~timer'.on
        /\ shown # NoChat => timer'.on /\ timer'.chat = shown /\ timer'.text = NoText
    BY <1>0, <1>2 DEF Mounted, NoTimer, Timer, DraftInv, PageTyped
  <2>3. loads' \in [Loads -> Load] /\ loads'[j].at = "mount"
    BY <1>2, <2>1 DEF Mounted, DraftInv, PageTyped, Load
  <2>4. \A k \in Loads : k = j \/ loads'[k] = loads[k]
    BY <1>2 DEF Mounted, DraftInv, PageTyped
  <2>5. PageTyped'
    BY <1>0, <1>2, <2>1, <2>2, <2>3 DEF Mounted, DraftInv, PageTyped
  <2>6. url' # NoChat /\ composer' = NoText /\ UNCHANGED <<shown, chat, left>>
    BY <1>2, <2>1 DEF Mounted
  <2> QED
    BY <2>2, <2>3, <2>4, <2>5, <2>6 DEF DraftInv, StoreIsSomewhere, GoneIsGone, TimerIsNews
<1> QED
  BY <1>1, <1>2 DEF Arrives

\* A load goes on, and leaves the composer and the timer alone, or arms the timer for a text
\* that it restores.
LEMMA LoadingDrafts ==
  ASSUME DraftInv, NEW j \in Loads, loads[j].at \in {"load", "draft", "nav"},
         NEW load \in Load, loads' = [loads EXCEPT ![j] = load], load.at \in {"over", "draft", "nav"},
         load.at # "over" => load.chat # NoChat /\ load.gone = loads[j].gone,
         chat' \in Somewhere, loading' \in BOOLEAN, streaming' \in BOOLEAN,
         \/ UNCHANGED <<composer, timer>>
         \/ /\ url # NoChat /\ composer' \in Somewhere
            /\ timer' = [on |-> TRUE, chat |-> shown, text |-> composer', byUser |-> FALSE],
         UNCHANGED <<url, going, shown, drafts, left>>
  PROVE  DraftInv'
<1>1. loads' \in [Loads -> Load] /\ loads'[j] = load /\ \A k \in Loads : k = j \/ loads'[k] = loads[k]
  BY DEF DraftInv, PageTyped
<1>2. PageTyped'
  <2>1. timer' \in Timer /\ composer' \in Somewhere
    <3>1. CASE UNCHANGED <<composer, timer>>
      BY <3>1 DEF DraftInv, PageTyped
    <3>2. CASE /\ composer' \in Somewhere
               /\ timer' = [on |-> TRUE, chat |-> shown, text |-> composer', byUser |-> FALSE]
      <4>1. shown \in Somewhere
        BY DEF DraftInv, PageTyped
      <4> QED
        BY <3>2, <4>1 DEF Timer
    <3> QED
      BY <3>1, <3>2
  <2> QED
    BY <1>1, <2>1 DEF DraftInv, PageTyped
<1>3. shown # NoChat
  BY DEF DraftInv, StoreIsSomewhere
<1>4. StoreIsSomewhere'
  BY <1>1, <1>3 DEF DraftInv, StoreIsSomewhere
<1>5. GoneIsGone'
  BY <1>1 DEF DraftInv, GoneIsGone
<1>6. TimerIsNews'
  <2>1. CASE UNCHANGED <<composer, timer>>
    BY <2>1 DEF DraftInv, TimerIsNews
  <2>2. CASE timer' = [on |-> TRUE, chat |-> shown, text |-> composer', byUser |-> FALSE]
    BY <2>2 DEF TimerIsNews
  <2> QED
    BY <2>1, <2>2
<1> QED
  BY <1>2, <1>4, <1>5, <1>6 DEF DraftInv

LEMMA ReadsDraft ==
  ASSUME DraftInv, NEW j \in Loads, Reads(j) \/ ReadFails(j)
  PROVE  DraftInv'
<1>0. /\ Over \in Load /\ Over.at = "over" /\ NoChat \in Somewhere /\ NoChat \notin Chats
      /\ loads \in [Loads -> Load] /\ loads[j] \in Load /\ chat \in Somewhere
      /\ url \in Somewhere /\ streaming \in BOOLEAN /\ loading \in BOOLEAN
  BY PageAssumption DEF PageAssumption, Over, Load, Somewhere, DraftInv, PageTyped
<1>1. CASE LoadBegins(j) /\ url = NoChat
  <2>1. /\ loads' = [loads EXCEPT ![j] = Over]
        /\ UNCHANGED <<url, going, shown, chat, loading, streaming, composer, drafts, timer, left>>
    BY <1>1 DEF LoadBegins
  <2>2. /\ loads' \in [Loads -> Load] /\ loads'[j] = Over
        /\ \A k \in Loads : k = j \/ loads'[k] = loads[k]
    BY <1>0, <2>1
  <2>3. PageTyped'
    BY <2>1, <2>2 DEF DraftInv, PageTyped
  <2> QED
    BY <1>0, <1>1, <2>1, <2>2, <2>3 DEF DraftInv, StoreIsSomewhere, GoneIsGone, TimerIsNews
<1>2. CASE LoadBegins(j) /\ url # NoChat
  <2>1. url \in Chats /\ url' = url /\ going' \in Somewhere
    BY <1>0, <1>2 DEF LoadBegins, Somewhere, DraftInv, PageTyped
  <2>2. loads' = [loads EXCEPT ![j] = [at |-> "load", chat |-> url, gone |-> loads[j].gone]]
    BY <1>0, <1>2 DEF LoadBegins, Load
  <2>3. loads[j].gone \in BOOLEAN
    BY <1>0 DEF Load
  <2> QED
    BY <1>2, <2>1, <2>2, <2>3, BegunDrafts DEF LoadBegins
<1>3. CASE Loaded(j)
  <2> DEFINE load == [loads[j] EXCEPT !.at = "draft"]
  <2>1. load \in Load /\ load.at = "draft" /\ load.chat # NoChat /\ load.gone = loads[j].gone
    BY <1>0, <1>3 DEF Loaded, Load, DraftInv, StoreIsSomewhere
  <2>2. loads' = [loads EXCEPT ![j] = load]
    BY <1>0, <1>3 DEF Loaded
  <2>3. chat' \in Somewhere /\ loading' \in BOOLEAN /\ streaming' \in BOOLEAN
    BY <1>0, <1>3 DEF Loaded, Load
  <2> HIDE DEF load
  <2> QED
    BY <1>3, <2>1, <2>2, <2>3, LoadingDrafts DEF Loaded
<1>4. CASE DraftRead(j)
  <2> DEFINE restored == IF loads[j].gone \/ composer # NoText THEN composer ELSE drafts[loads[j].chat]
             load == IF chat # NoChat THEN [loads[j] EXCEPT !.at = "nav", !.chat = chat] ELSE Over
  <2>1. /\ load \in Load /\ load.at \in {"over", "nav"}
        /\ load.at # "over" => load.chat # NoChat /\ load.gone = loads[j].gone
    BY <1>0 DEF Load
  <2>2. loads' = [loads EXCEPT ![j] = load] /\ streaming' \in BOOLEAN
    BY <1>0, <1>4 DEF DraftRead, AfterDraft, Drained
  <2>3. restored \in Somewhere /\ shown \in Somewhere /\ timer \in Timer
    <3>1. loads[j].chat \in Chats
      BY <1>0, <1>4 DEF DraftRead, DraftInv, StoreIsSomewhere, Load, Somewhere
    <3> QED
      BY <3>1 DEF DraftInv, PageTyped
  <2>4. composer' = restored /\ timer' = Armed(timer, restored, shown, FALSE)
    BY <1>4 DEF DraftRead
  <2>5. shown # NoChat
    BY <1>4 DEF DraftRead, DraftInv, StoreIsSomewhere
  <2>6. \/ timer' = timer /\ restored = composer
        \/ timer' = [on |-> TRUE, chat |-> shown, text |-> restored, byUser |-> FALSE]
    BY <2>3, <2>4, <2>5, ArmedIs
  <2>7. url = NoChat => restored = composer
    BY <1>4 DEF DraftRead, DraftInv, GoneIsGone
  <2>8. restored = composer => timer' = timer
    BY <2>4 DEF Armed
  <2>9. UNCHANGED <<url, going, shown, drafts, left, chat, loading>> /\ loads[j].at = "draft"
    BY <1>4 DEF DraftRead
  <2> HIDE DEF restored, load
  <2> QED
    BY <1>0, <2>1, <2>2, <2>3, <2>4, <2>6, <2>7, <2>8, <2>9, LoadingDrafts
<1>5. CASE NavDone(j)
  <2>1. streaming' \in BOOLEAN
    BY <1>0, <1>5 DEF NavDone, Drained
  <2> QED
    BY <1>0, <1>5, <2>1, LoadingDrafts DEF NavDone
<1>6. CASE ReadFails(j)
  BY <1>0, <1>6, LoadingDrafts DEF ReadFails
<1> QED
  BY <1>1, <1>2, <1>3, <1>4, <1>5, <1>6 DEF Reads

LEMMA DraftKeeps ==
  ASSUME DraftInv, [PageNext]_pageVars
  PROVE  DraftInv'
<1>1. CASE UNCHANGED pageVars
  BY <1>1 DEF pageVars, DraftInv, PageTyped, StoreIsSomewhere, GoneIsGone, TimerIsNews
<1>2. CASE PageNext
  BY <1>2, FiringDrafts, UsersDraft, LeavingDrafts, ArrivingDrafts, ReadsDraft DEF PageNext
<1> QED
  BY <1>1, <1>2

LEMMA DraftBegins ==
  ASSUME PageInit
  PROVE  DraftInv
<1>1. NoChat \in Somewhere /\ NoText = NoChat /\ NoTimer \in Timer /\ ~NoTimer.on
  BY DEF Somewhere, NoText, NoTimer, Timer
<1>2. Over \in Load /\ Over.at = "over"
  BY DEF Over, Load, Somewhere
<1>3. drafts \in [Chats -> Somewhere]
  BY DEF PageInit, Somewhere, NoText
<1>4. PageTyped
  <2>1. left \in Seq(Timer) /\ timer \in Timer /\ loads \in [Loads -> Load]
    BY <1>1, <1>2 DEF PageInit
  <2> QED
    BY <1>1, <1>3, <2>1 DEF PageInit, PageTyped
<1> QED
  BY <1>1, <1>2, <1>4 DEF PageInit, DraftInv, StoreIsSomewhere, GoneIsGone, TimerIsNews

\* Once nothing is under way, what the composer shows is stored for the chat that the store
\* is in, whatever navigations, timers of pages that are gone and failed loads came before,
\* for any number of chats and of loads (loadAll and the effect that stores drafts in
\* routes/chat/[id]/+page.svelte).
THEOREM DraftIsStored == PageSpec => []RestingDraftIsStored
<1>1. PageInit => DraftInv
  BY DraftBegins
<1>2. DraftInv /\ [PageNext]_pageVars => DraftInv'
  BY DraftKeeps
<1>3. DraftInv => RestingDraftIsStored
  BY DEF DraftInv, StoreIsSomewhere, TimerIsNews, RestingDraftIsStored, Quiet
<1> QED
  BY <1>1, <1>2, <1>3, PTL DEF PageSpec

-----------------------------------------------------------------------------
(* The prompt that is staged for a chat.                                   *)

\* The one load under way, which takes the store to the chat that the prompt is for.
Brings(j) ==
  /\ loads[j].at # "over" /\ \A k \in Loads \ {j} : loads[k].at = "over"
  /\ url = staged
  /\ loads[j].at # "mount" => shown = staged /\ ~streaming

\* A prompt in whose way nothing comes waits for the route, or for that load, or is home.
PromptIsOnItsWay ==
  lone => \/ landed = "home" /\ staged = NoChat
          \/ /\ landed = "none" /\ staged \in Chats
             /\ \/ going = staged /\ Quiet
                \/ going = NoChat /\ \E j \in Loads : Brings(j)

PromptInv == PageTyped /\ PromptIsOnItsWay

LEMMA ArrivingPrompts ==
  ASSUME PromptInv, NEW j \in Loads, Arrives(j)
  PROVE  PromptIsOnItsWay'
<1>1. \E at \in {"mount", "load"}, c \in Chats :
        loads' = [loads EXCEPT ![j] = [at |-> at, chat |-> c, gone |-> FALSE]]
  BY DEF Arrives, Navigated, Mounted
<1>2. /\ loads'[j].at \in {"mount", "load"} /\ \A k \in Loads \ {j} : loads'[k] = loads[k]
  BY <1>1 DEF PromptInv, PageTyped
<1>3. /\ going \in Chats /\ going # NoChat /\ url' = going /\ going' = NoChat
      /\ UNCHANGED <<staged, landed, lone>>
  BY PageAssumption DEF PageAssumption, Arrives, Navigated, Mounted
<1>4. loads'[j].at # "mount" => shown' = going /\ streaming' = FALSE
  <2>1. CASE Navigated(j)
    BY <2>1 DEF Navigated, Begun
  <2>2. CASE Mounted(j)
    BY <2>2 DEF Mounted, PromptInv, PageTyped
  <2> QED
    BY <2>1, <2>2 DEF Arrives
<1>5. going = staged /\ Quiet => Brings(j)'
  BY <1>2, <1>3, <1>4 DEF Brings, Quiet
<1> QED
  BY <1>3, <1>5 DEF PromptInv, PromptIsOnItsWay

\* The prompt is taken where it was to go.
LEMMA DrainingPrompts ==
  ASSUME PromptInv, NEW j \in Loads, loads[j].at \in {"draft", "nav"}, Drained, lone' = lone
  PROVE  PromptIsOnItsWay'
<1> SUFFICES ASSUME lone PROVE landed' = "home" /\ staged' = NoChat
  BY DEF PromptIsOnItsWay
<1>1. ~Quiet
  BY DEF Quiet
<1>2. CASE landed = "home" /\ staged = NoChat
  BY <1>2 DEF Drained
<1>3. CASE /\ landed = "none" /\ staged \in Chats
           /\ \E k \in Loads : Brings(k)
  <2>1. PICK k \in Loads : Brings(k)
    BY <1>3
  <2>2. shown = staged /\ ~streaming
    BY <2>1 DEF Brings
  <2> QED
    BY <1>3, <2>2, PageAssumption DEF PageAssumption, Drained, SentTo
<1> QED
  BY <1>1, <1>2, <1>3 DEF PromptInv, PromptIsOnItsWay

\* The load goes on, and the prompt waits.
LEMMA LoadingPrompts ==
  ASSUME PromptInv, NEW j \in Loads, NEW load,
         loads' = [loads EXCEPT ![j] = load], load.at \in {"load", "draft", "nav"},
         loads[j].at # "over", url' = url,
         \/ loads[j].at # "mount" /\ UNCHANGED <<shown, streaming>>
         \/ shown' = url /\ streaming' = FALSE,
         UNCHANGED <<going, staged, landed, lone>>
  PROVE  PromptIsOnItsWay'
<1>1. loads'[j] = load /\ \A k \in Loads \ {j} : loads'[k] = loads[k]
  BY DEF PromptInv, PageTyped
<1>2. ~Quiet
  BY DEF Quiet
<1>3. ASSUME NEW k \in Loads, Brings(k) PROVE Brings(j)'
  <2>1. k = j
    BY <1>3 DEF Brings
  <2> QED
    BY <1>1, <1>3, <2>1 DEF Brings
<1> QED
  BY <1>2, <1>3 DEF PromptInv, PromptIsOnItsWay

LEMMA ReadsPrompt ==
  ASSUME PromptInv, NEW j \in Loads, Reads(j)
  PROVE  PromptIsOnItsWay'
<1>0. loads \in [Loads -> Load] /\ loads[j] \in Load
  BY DEF PromptInv, PageTyped
<1>1. CASE LoadBegins(j) /\ url # NoChat
  <2>1. loads' = [loads EXCEPT ![j] = [at |-> "load", chat |-> url, gone |-> loads[j].gone]]
    BY <1>0, <1>1 DEF LoadBegins, Load
  <2> QED
    BY <1>1, <2>1, LoadingPrompts DEF LoadBegins, Begun
<1>2. CASE LoadBegins(j) /\ url = NoChat
  <2>1. ~Quiet
    BY <1>2 DEF LoadBegins, Quiet
  <2>2. \A k \in Loads : ~(staged \in Chats /\ Brings(k))
    BY <1>2, PageAssumption DEF PageAssumption, Brings
  <2> QED
    BY <1>2, <2>1, <2>2 DEF LoadBegins, PromptInv, PromptIsOnItsWay
<1>3. CASE Loaded(j)
  <2> DEFINE load == [loads[j] EXCEPT !.at = "draft"]
  <2>1. load.at = "draft" /\ loads' = [loads EXCEPT ![j] = load]
    BY <1>0, <1>3 DEF Loaded, Load
  <2> HIDE DEF load
  <2> QED
    BY <1>3, <2>1, LoadingPrompts DEF Loaded
<1>4. CASE DraftRead(j) /\ chat # NoChat
  <2> DEFINE load == [loads[j] EXCEPT !.at = "nav", !.chat = chat]
  <2>1. load.at = "nav" /\ loads' = [loads EXCEPT ![j] = load]
    BY <1>0, <1>4 DEF DraftRead, AfterDraft, Load
  <2> HIDE DEF load
  <2> QED
    BY <1>4, <2>1, LoadingPrompts DEF DraftRead, AfterDraft
<1>5. CASE DraftRead(j) /\ chat = NoChat
  BY <1>5, DrainingPrompts DEF DraftRead, AfterDraft
<1>6. CASE NavDone(j)
  BY <1>6, DrainingPrompts DEF NavDone
<1> QED
  BY <1>1, <1>2, <1>3, <1>4, <1>5, <1>6 DEF Reads

LEMMA OthersPrompt ==
  ASSUME PromptInv,
         \/ FireLeft \/ Fire \/ Types \/ StreamEnds \/ Leaves
         \/ \E sends \in BOOLEAN : Empties(sends)
         \/ \E c \in Chats : Goes(c) \/ Stage(c)
         \/ \E j \in Loads : ReadFails(j)
  PROVE  PromptIsOnItsWay'
<1>1. CASE Leaves \/ (\E c \in Chats : Goes(c)) \/ (\E j \in Loads : ReadFails(j))
  BY <1>1 DEF Leaves, Goes, ReadFails, PromptIsOnItsWay
<1>2. CASE \E c \in Chats : Stage(c)
  BY <1>2 DEF Stage, PromptIsOnItsWay, Quiet
<1>3. CASE FireLeft \/ Fire \/ Types
  <2>1. UNCHANGED <<url, going, shown, streaming, loads, staged, landed, lone>>
    BY <1>3 DEF FireLeft, Fire, Types
  <2> QED
    BY <2>1 DEF PromptInv, PromptIsOnItsWay, Quiet, Brings
<1>4. CASE StreamEnds
  BY <1>4 DEF StreamEnds, PromptInv, PromptIsOnItsWay, Quiet, Brings
<1>5. CASE \E sends \in BOOLEAN : Empties(sends)
  BY <1>5 DEF Empties, PromptInv, PromptIsOnItsWay, Quiet, Brings
<1> QED
  BY <1>1, <1>2, <1>3, <1>4, <1>5

LEMMA PromptKeeps ==
  ASSUME PromptInv, [PageNext]_pageVars
  PROVE  PromptIsOnItsWay'
<1>1. CASE UNCHANGED pageVars
  BY <1>1 DEF pageVars, PromptInv, PromptIsOnItsWay, Quiet, Brings
<1>2. CASE PageNext
  BY <1>2, ArrivingPrompts, ReadsPrompt, OthersPrompt DEF PageNext
<1> QED
  BY <1>1, <1>2

\* A prompt that is staged while nothing else is under way, and in whose way nothing comes,
\* is sent to the chat that it is for or still waits: it does not go astray and is not lost,
\* for any number of chats and loads, whatever was streaming and whether the page stays or is
\* mounted anew (pendingPrompt, loadAll in routes/chat/[id]/+page.svelte).
THEOREM PromptGoesHome == PageSpec => []LonePromptGoesHome
<1> DEFINE I == DraftInv /\ PromptIsOnItsWay
<1>1. PageInit => I
  BY DraftBegins DEF PageInit, PromptIsOnItsWay
<1>2. I /\ [PageNext]_pageVars => I'
  BY DraftKeeps, PromptKeeps DEF DraftInv, PromptInv
<1>3. I => LonePromptGoesHome
  BY DEF PromptIsOnItsWay, LonePromptGoesHome
<1> HIDE DEF I
<1> QED
  BY <1>1, <1>2, <1>3, PTL DEF PageSpec
=============================================================================
