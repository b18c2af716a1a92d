-------------------------------- MODULE Pacer --------------------------------
(***************************************************************************)
(* The pacer of a streamed reply (lib/chat/streaming/pacer.ts) with what   *)
(* the store of a chat does to it (lib/stores/chat.svelte.ts: flushRender, *)
(* appendAssistantText, waitForDrain, the end of send).  Time passes in    *)
(* steps of RENDER_INTERVAL_MS.  The buffer is a prefix of one text, whose *)
(* characters are told apart by whether they belong to a word.             *)
(***************************************************************************)
EXTENDS Integers, FiniteSets, FiniteSetsExt, Sequences

CONSTANTS
  Text,             \* a reply: TRUE for a character of a word
  Chunks,           \* where chunks of the stream end
  TickMs,           \* RENDER_INTERVAL_MS, of flushes and of looks at a drain
  BaseCps, CatchupPerSec, SnapLookback, DrainRampMs, DrainBudgetMs,  \* PacerConfig
  DrainDeadlineMs,  \* DRAIN_DEADLINE_MS of the store
  MaxGap,           \* ticks between two flushes, and two looks, of a page that is seen
  MaxIdle,          \* bound on the ticks that are counted without a look of the pacer
  MaxClears, MaxRows, MaxSwitches  \* bounds on a turn

ASSUME PacerAssumption ==
  /\ Text \in Seq(BOOLEAN) /\ Chunks \subseteq 1..Len(Text)
  /\ {TickMs, BaseCps, DrainRampMs, MaxGap} \subseteq Nat \ {0}
  /\ {CatchupPerSec, SnapLookback, DrainBudgetMs, DrainDeadlineMs} \subseteq Nat
  /\ {MaxIdle, MaxClears, MaxRows, MaxSwitches} \subseteq Nat
  /\ DrainDeadlineMs >= DrainBudgetMs + MaxGap * TickMs

VARIABLES
  paced,      \* streamPreset is not "standard"
  seen,       \* the page is on screen: its animation frames run
  mode, released,
  sinceTick,  \* ticks since lastTickAt
  arrived,    \* length of streamBuffer
  render,     \* length of streamBufferRender
  turn,       \* "streaming", "waiting" for a drain, "over"
  sinceFlush, sincePoll, waited,
  stopped,    \* the signal of the turn is aborted
  verbatim,   \* Standard showed text of this row
  fate,       \* what became of the text of the last row or turn
  clears, rows, switches

pacerVars == <<paced, seen, mode, released, sinceTick, arrived, render, turn, sinceFlush,
               sincePoll, waited, stopped, verbatim, fate, clears, rows, switches>>

PacerInit ==
  /\ paced \in BOOLEAN /\ seen \in BOOLEAN
  /\ mode = "idle" /\ released = 0 /\ sinceTick = 0
  /\ arrived = 0 /\ render = 0 /\ turn = "streaming"
  /\ sinceFlush = 0 /\ sincePoll = 0 /\ waited = 0
  /\ stopped = FALSE /\ verbatim = FALSE /\ fate = "none"
  /\ clears = 0 /\ rows = 0 /\ switches = 0

-----------------------------------------------------------------------------
(* The pacer.                                                              *)

\* Between two characters of a word it is not safe to stop; where the buffer ends it is.
IsSafeBoundary(length, i) == i <= 0 \/ i >= length \/ ~Text[i] \/ ~Text[i + 1]

\* The last safe boundary from a release point back to a floor; none is -1.
Snapped(length, floor, i) ==
  LET safe == {k \in floor..i : IsSafeBoundary(length, k)}
  IN IF safe = {} THEN -1 ELSE Max(safe)

\* syncTo: what is on screen counts as released, back to a boundary or the end of the
\* lookback.
Synced ==
  LET target == Min({render, arrived})
      floor == Max({released, target - SnapLookback})
      back == Snapped(arrived, floor, target)
  IN IF mode \notin {"streaming", "draining"} \/ target <= released THEN released
     ELSE IF back = -1 THEN floor ELSE back

\* Where a tick may stop, by the rate and the time since the last one.  In a drain the rate
\* doubles at every ramp; between two powers of two it is left open.
Candidates(from) ==
  LET backlog == arrived - from
      cps == Max({BaseCps, backlog * CatchupPerSec})
      elapsed == waited * TickMs
      doublings == IF mode # "draining" THEN {0}
                   ELSE {elapsed \div DrainRampMs, (elapsed + DrainRampMs - 1) \div DrainRampMs}
      reach(k) == Min({arrived, from + ((cps * (2 ^ k) * sinceTick * TickMs) \div 1000)})
  IN reach(Min(doublings))..reach(Max(doublings))

\* tick, from a release point: the release point, the mode and what is shown afterwards.
Ticks(from) ==
  LET start == IF from > arrived THEN 0 ELSE from
      is(at, m, shows) == [released |-> at, mode |-> m, shows |-> shows]
      snap(c) == Snapped(arrived, Max({start, c - SnapLookback}), c)
      moved(c) == IF c <= start \/ snap(c) = -1 THEN start ELSE snap(c)
  IN CASE mode \in {"flushed", "idle"} -> {is(start, mode, arrived)}
       [] mode \in {"streaming", "draining"} /\ arrived = 0 -> {is(start, mode, start)}
       [] mode \in {"streaming", "draining"} /\ arrived > 0 /\ start >= arrived ->
            {is(start, IF mode = "draining" THEN "flushed" ELSE mode, arrived)}
       [] mode = "draining" /\ start < arrived /\ waited * TickMs >= DrainBudgetMs ->
            {is(arrived, "flushed", arrived)}
       [] OTHER -> {is(moved(c), mode, moved(c)) : c \in Candidates(start)}

-----------------------------------------------------------------------------
(* The store.                                                              *)

\* flushRender, at most once in a tick.
FlushRender ==
  /\ turn # "over" /\ seen /\ sinceFlush >= 1
  /\ sinceFlush' = 0
  /\ IF ~paced
     THEN /\ render' = arrived
          /\ verbatim' = (verbatim \/ arrived > 0)
          /\ UNCHANGED <<mode, released, sinceTick>>
     ELSE /\ \E t \in Ticks(Synced) : mode' = t.mode /\ released' = t.released /\ render' = t.shows
          /\ sinceTick' = 0
          /\ UNCHANGED verbatim
  /\ UNCHANGED <<paced, seen, arrived, turn, sincePoll, waited, stopped, fate, clears, rows, switches>>

\* updateStreamBuffer of a longer buffer.
Arrive(n) ==
  /\ turn = "streaming" /\ ~stopped /\ n > arrived
  /\ arrived' = n
  /\ mode' = IF mode = "idle" THEN "streaming" ELSE mode
  /\ UNCHANGED <<paced, seen, released, sinceTick, render, turn, sinceFlush, sincePoll, waited,
                 stopped, verbatim, fate, clears, rows, switches>>

\* updateStreamBuffer(''): by a correction, or by a call of a generative tool.
Clear ==
  /\ turn = "streaming" /\ ~stopped /\ arrived > 0 /\ clears < MaxClears
  /\ arrived' = 0 /\ clears' = clears + 1
  /\ UNCHANGED <<paced, seen, mode, released, sinceTick, render, turn, sinceFlush, sincePoll, waited,
                 stopped, verbatim, fate, rows, switches>>

\* The row takes the place of the text; the pacer is reset.
RowLands(how) ==
  /\ fate' = how /\ rows' = rows + 1
  /\ arrived' = 0 /\ render' = 0 /\ verbatim' = FALSE
  /\ mode' = "idle" /\ released' = 0 /\ sinceTick' = 0
  /\ waited' = 0 /\ sincePoll' = 0

\* appendAssistantText: a row waits for the drain, unless it is empty.  Its text may be one
\* that never was in the buffer (the notice of a spent budget), or not what is in it (nothing,
\* after a request that blamed the tools).
AppendText ==
  /\ turn = "streaming" /\ rows < MaxRows
  /\ \E empty \in BOOLEAN :
     IF paced /\ ~stopped /\ ~empty
     THEN /\ turn' = "waiting" /\ mode' = "draining" /\ waited' = 0 /\ sincePoll' = 0
          /\ UNCHANGED <<released, sinceTick, arrived, render, verbatim, fate, rows>>
     ELSE RowLands("stored") /\ UNCHANGED turn
  /\ UNCHANGED <<paced, seen, sinceFlush, stopped, clears, switches>>

\* It waits for the end of the stream, not of the drain.
PollEarlyMutant ==
  /\ turn = "waiting" /\ (sincePoll >= 1 \/ mode = "flushed")
  /\ turn' = "streaming"
  /\ RowLands(IF stopped \/ ~paced THEN "stored" ELSE "drained")
  /\ UNCHANGED <<paced, seen, sinceFlush, stopped, clears, switches>>

\* A look of waitForDrain.
Poll ==
  /\ turn = "waiting" /\ (sincePoll >= 1 \/ mode = "flushed")
  /\ IF mode = "flushed" \/ stopped \/ waited * TickMs > DrainDeadlineMs
     THEN /\ turn' = "streaming"
          /\ RowLands(IF stopped \/ ~paced THEN "stored" ELSE "drained")
     ELSE /\ sincePoll' = 0
          /\ UNCHANGED <<turn, mode, released, sinceTick, arrived, render, waited, verbatim, fate, rows>>
  /\ UNCHANGED <<paced, seen, sinceFlush, stopped, clears, switches>>

Stop ==
  /\ turn # "over" /\ ~stopped
  /\ stopped' = TRUE
  /\ UNCHANGED <<paced, seen, mode, released, sinceTick, arrived, render, turn, sinceFlush, sincePoll,
                 waited, verbatim, fate, clears, rows, switches>>

\* The finally block of send: after the last row, after a stop, after an error.
End(failed) ==
  /\ turn = "streaming" /\ (stopped \/ failed \/ arrived = 0)
  /\ turn' = "over"
  /\ fate' = IF arrived = 0 THEN fate ELSE IF stopped THEN "interrupted" ELSE "dropped"
  /\ arrived' = 0 /\ render' = 0 /\ verbatim' = FALSE
  /\ mode' = "idle" /\ released' = 0 /\ sinceTick' = 0
  /\ UNCHANGED <<paced, seen, sinceFlush, sincePoll, waited, stopped, clears, rows, switches>>

\* setStreamPreset, by a chat page that is mounted while the store streams.
Switch ==
  /\ turn # "over" /\ switches < MaxSwitches
  /\ paced' = ~paced /\ switches' = switches + 1
  /\ UNCHANGED <<seen, mode, released, sinceTick, arrived, render, turn, sinceFlush, sincePoll,
                 waited, stopped, verbatim, fate, clears, rows>>

\* Flushes of a page that is seen, and looks at a drain, are not put off for ever.
Pass ==
  LET counted(n) == Min({n + 1, MaxIdle})
      long == (DrainDeadlineMs \div TickMs) + MaxGap + 1  \* no wait is
  IN /\ turn # "over"
     /\ seen => sinceFlush < MaxGap
     /\ turn = "waiting" => sincePoll < MaxGap
     /\ sinceTick' = counted(sinceTick) /\ sinceFlush' = Min({sinceFlush + 1, MaxGap})
     /\ waited' = IF turn = "waiting" THEN Min({waited + 1, long}) ELSE waited
     /\ sincePoll' = IF turn = "waiting" THEN sincePoll + 1 ELSE sincePoll
     /\ UNCHANGED <<paced, seen, mode, released, arrived, render, turn, stopped, verbatim, fate,
                    clears, rows, switches>>

Ended == turn = "over" /\ UNCHANGED pacerVars

PacerNext ==
  \/ FlushRender \/ Clear \/ AppendText \/ Poll \/ Stop \/ Switch \/ Pass \/ Ended
  \/ \E n \in Chunks : Arrive(n)
  \/ \E failed \in BOOLEAN : End(failed)

PacerFairness == WF_pacerVars(Poll) /\ WF_pacerVars(Pass) /\ WF_pacerVars(FlushRender)

PacerSpec == PacerInit /\ [][PacerNext]_pacerVars /\ PacerFairness

-----------------------------------------------------------------------------

PacerTypeOK ==
  /\ mode \in {"idle", "streaming", "draining", "flushed"}
  /\ turn \in {"streaming", "waiting", "over"}
  /\ {released, arrived, render} \subseteq 0..Len(Text)

\* The end of a reply never appears as a sudden dump (FR-004 of specs/022): when the row
\* takes the place of the text of a page that is seen and paced, that text is on screen
\* already, with as many ticks as the frames and the timer of the page come late by, with
\* corrections, and whatever the words.  About waitForDrain and the budget of the pacer.
DrainedTextIsOnScreen ==
  [][fate' = "drained" /\ rows' # rows /\ seen /\ switches = 0 => render = arrived]_pacerVars

\* Text on screen is not taken back (while Standard does not meet a pace): what is shown
\* only grows until the buffer is cleared or its row has landed, through arrivals, the end of
\* the stream, a stop and the drain.  About tick, syncTo and flushRender.
ShownOnlyGrows ==
  [][turn' # "over" /\ rows' = rows /\ ~verbatim /\ render' < render =>
       render > arrived]_pacerVars

\* What is shown is a piece of what arrived, and is cut within a word only where a chunk of
\* the stream was cut.  About isSafeBoundary and the lookback of tick.
WordsAreCutByTheStreamOnly ==
  ~verbatim => \/ render \in Chunks \union {0, Len(Text)}
               \/ ~Text[render] \/ ~Text[render + 1]

-----------------------------------------------------------------------------
(* What comments and specs/022-smooth-streaming say, and the code does not *)

\* "Pacing may activate mid-stream (preset switch) over text the verbatim Standard path
\* already revealed — never rewind it." (chat.svelte.ts, flushRender)
RevealedStays ==
  [][turn' # "over" /\ rows' = rows /\ render' < render => render > arrived]_pacerVars

\* "Text MUST be revealed on safe boundaries — never splitting a word mid-reveal" (FR-002).
WordsAreWhole == paced /\ switches = 0 => IsSafeBoundary(arrived, render)

\* "`onStreamEnd()` with empty backlog | Immediately `flushed` (finalize on next tick)"
\* (specs/022-smooth-streaming/contracts/pacer-api.md).
EmptyBacklogIsFlushed ==
  turn = "waiting" /\ seen /\ switches = 0 /\ released = arrived /\ waited > MaxGap => mode = "flushed"

\* "Very slow trickle: display never falls behind arrival by more than the smoothing window"
\* (specs/022-smooth-streaming/spec.md): what has arrived is shown in the end.
HiddenTextIsShown ==
  (turn = "streaming" /\ paced /\ seen /\ render < arrived)
    ~> (turn # "streaming" \/ ~paced \/ render >= arrived)

\* "abort/error keeps today's immediate full flush + `interrupted: true` persist" (D3).
ErrorKeepsText == fate # "dropped"
=============================================================================
