----------------------------- MODULE Telemetry -----------------------------
(***************************************************************************)
(* Telemetry from the page to the destination: the buffer of the page      *)
(* (lib/telemetry/relay.ts), the routes of the server (telemetry.ts), its  *)
(* queue and the flushes of it (telemetry-ingest.ts), and the switch in    *)
(* the settings.  Timers fire at any time once armed; a step runs from one *)
(* await to the next.                                                      *)
(***************************************************************************)
EXTENDS Integers, Sequences

CONSTANTS BUFFER_BOUND,          \* records the page keeps
          QUEUE_BOUND,           \* records the server keeps
          FLUSH_BATCH_RECORDS,   \* records of a delivery
          Posts, Flights,        \* requests of the page, runs of runFlush, at once
          MaxRecords, MaxSwitches, MaxFaults

ASSUME TelemetryAssumption ==
  /\ {BUFFER_BOUND, QUEUE_BOUND, FLUSH_BATCH_RECORDS} \subseteq Nat \ {0}
  /\ {MaxRecords, MaxSwitches, MaxFaults} \subseteq Nat

Modes == {"off", "metadata", "content"}

VARIABLES
  mode, buffer, timer,  \* the page: what it believes, its records, its timer
  post,                 \* requests with records, of the page that is there or not
  put,                  \* the request that changes the mode, likewise
  conf, cache,          \* the row of settings, and the copy that lives 5 s
  queue, armed,         \* the server's records and its timer
  flushing, flight,     \* runs of runFlush: [at, cfg, batch]
  entries,              \* how many records the server accepted so far
  delivered, dropped,   \* which of them were delivered, or dropped on purpose
  before,               \* those accepted when it was last switched off
  disturbed,            \* records were dropped while a delivery was under way
  left                  \* records, switches and faults still to come

page == <<mode, buffer, timer>>
server == <<queue, armed, flushing, flight>>
books == <<entries, delivered, dropped, before, disturbed>>
vars == <<page, post, put, conf, cache, server, books, left>>

NoPost == [at |-> "none", batch |-> <<>>, cfg |-> "off", page |-> TRUE]
NoFlight == [at |-> "none", batch |-> <<>>, cfg |-> "off"]
NoPut == [at |-> "none", want |-> "off", cfg |-> "off", page |-> TRUE]

Init ==
  /\ mode \in Modes /\ buffer = <<>> /\ timer = FALSE
  /\ post = [p \in Posts |-> NoPost] /\ put = NoPut
  /\ conf = mode /\ cache = "none"
  /\ queue = <<>> /\ armed = FALSE
  /\ flushing = FALSE /\ flight = [f \in Flights |-> NoFlight]
  /\ entries = 0 /\ delivered = {} /\ dropped = {} /\ before = 0 /\ disturbed = FALSE
  /\ left = [records |-> MaxRecords, switches |-> MaxSwitches, faults |-> MaxFaults]

Spend(what) == left[what] > 0 /\ left' = [left EXCEPT ![what] = @ - 1]
Newest(s, n) == IF Len(s) > n THEN SubSeq(s, Len(s) - n + 1, Len(s)) ELSE s
Oldest(s, n) == SubSeq(s, 1, IF Len(s) < n THEN Len(s) ELSE n)
EntriesOf(s) == {s[i].k : i \in DOMAIN s}

-----------------------------------------------------------------------------
(* The configuration: from the copy while it lives, else from the database *)
(* and into the copy.  A query that fails reads as switched off.           *)

\* A reader comes to the place `next` with the value v; one that asked the
\* database fills the copy when the answer is there.
Reads(v, next) ==
  \/ cache # "none" /\ v = cache /\ next = "gate" /\ UNCHANGED left
  \/ cache = "none" /\ v = conf /\ next = "read" /\ UNCHANGED left
  \/ cache = "none" /\ v = "off" /\ next = "gate" /\ Spend("faults")
Places == {"gate", "read"}
Expire == cache # "none" /\ cache' = "none"
          /\ UNCHANGED <<page, post, put, conf, server, books, left>>

-----------------------------------------------------------------------------
(* The page.                                                               *)

\* flush up to its await: what is full or due goes out, unless switched off.
Flush(records) ==
  IF mode = "off" \/ records = <<>>
  THEN buffer' = (IF mode = "off" THEN <<>> ELSE records) /\ UNCHANGED post
  ELSE \E p \in Posts :
         /\ post[p].at = "none"
         /\ post' = [post EXCEPT ![p] = [NoPost EXCEPT !.at = "sent", !.batch = Oldest(records, BUFFER_BOUND)]]
         /\ buffer' = SubSeq(records, Len(Oldest(records, BUFFER_BOUND)) + 1, Len(records))

\* captureChatTurn or captureGenerator, with the text of the chat or without.
Relay ==
  LET record == [rich |-> mode = "content"]
      kept == Newest(Append(buffer, record), BUFFER_BOUND)
  IN
  /\ mode # "off" /\ Spend("records")
  /\ IF Len(kept) >= BUFFER_BOUND
     THEN timer' = FALSE /\ Flush(kept)
     ELSE timer' = TRUE /\ buffer' = kept /\ UNCHANGED post
  /\ UNCHANGED <<mode, put, conf, cache, server, books>>

Window ==
  /\ timer /\ timer' = FALSE
  /\ Flush(buffer)
  /\ UNCHANGED <<mode, put, conf, cache, server, books, left>>

\* Any answer ends a request, a refusal too: its records are gone.
Answered(p) ==
  /\ post[p].at = "answered"
  /\ post' = [post EXCEPT ![p] = NoPost]
  /\ UNCHANGED <<page, put, conf, cache, server, books, left>>

\* The bound takes the oldest, which are those that were out.
Requeue(p) ==
  IF post[p].page
  THEN buffer' = Newest(post[p].batch \o buffer, BUFFER_BOUND) /\ timer' = TRUE
  ELSE UNCHANGED <<buffer, timer>>

GivenBack(p) ==
  /\ post' = [post EXCEPT ![p] = NoPost]
  /\ Requeue(p)
  /\ UNCHANGED <<mode, put, conf, cache, server, books>>

\* No answer comes, whether the request has arrived or not.
PostLost(p) == post[p].at \in {"sent", "answered"} /\ Spend("faults") /\ GivenBack(p)

\* The server went down under it.
PostFails(p) == post[p].at = "lost" /\ GivenBack(p) /\ UNCHANGED left

\* Requests that are out go on without the page.
Reload ==
  /\ Spend("faults")
  /\ mode' = conf /\ buffer' = <<>> /\ timer' = FALSE
  /\ post' = [p \in Posts |-> [post[p] EXCEPT !.page = post[p].at = "none"]]
  /\ put' = [put EXCEPT !.page = put.at = "none"]
  /\ UNCHANGED <<conf, cache, server, books>>

-----------------------------------------------------------------------------
(* POST /api/telemetry/events.                                             *)

PostReads(p) ==
  /\ post[p].at = "sent"
  /\ \E v \in Modes, next \in Places :
       Reads(v, next) /\ post' = [post EXCEPT ![p].at = next, ![p].cfg = v]
  /\ UNCHANGED <<page, put, conf, cache, server, books>>

PostCaches(p) ==
  /\ post[p].at = "read"
  /\ cache' = post[p].cfg
  /\ post' = [post EXCEPT ![p].at = "gate"]
  /\ UNCHANGED <<page, put, conf, server, books, left>>

InFlight == \E f \in Flights : flight[f].at = "deliver"
Drops(ids) == dropped' = dropped \union ids /\ disturbed' = (disturbed \/ (ids # {} /\ InFlight))

\* enqueueTelemetry for each record; a batch with text is refused as a whole.
Gate(p) ==
  LET batch == post[p].batch
      all == queue \o [i \in DOMAIN batch |-> [k |-> entries + i, rich |-> batch[i].rich]]
      refused == \/ post[p].cfg = "off"
                 \/ post[p].cfg = "metadata" /\ \E i \in DOMAIN batch : batch[i].rich
  IN
  /\ post[p].at = "gate"
  /\ post' = [post EXCEPT ![p].at = "answered"]
  /\ IF refused
     THEN UNCHANGED <<queue, armed, entries, dropped, disturbed>>
     ELSE /\ queue' = Newest(all, QUEUE_BOUND) /\ armed' = TRUE
          /\ entries' = entries + Len(batch)
          /\ Drops(EntriesOf(all) \ EntriesOf(queue'))
  /\ UNCHANGED <<page, put, conf, cache, flushing, flight, delivered, before, left>>

-----------------------------------------------------------------------------
(* runFlush.                                                               *)

\* Mutant: nothing keeps a second run from beginning.
RunFlushMutant ==
  /\ armed
  /\ IF queue = <<>>
     THEN UNCHANGED <<armed, flushing, flight>>
     ELSE \E f \in Flights :
            /\ flight[f].at = "none"
            /\ flight' = [flight EXCEPT ![f] = [NoFlight EXCEPT !.at = "config"]]
            /\ flushing' = TRUE /\ armed' = FALSE
  /\ UNCHANGED <<page, post, put, conf, cache, queue, books, left>>

\* While another run is under way the timer is armed again.
RunFlush ==
  /\ armed
  /\ IF flushing \/ queue = <<>>
     THEN UNCHANGED <<armed, flushing, flight>>
     ELSE \E f \in Flights :
            /\ flight[f].at = "none"
            /\ flight' = [flight EXCEPT ![f] = [NoFlight EXCEPT !.at = "config"]]
            /\ flushing' = TRUE /\ armed' = FALSE
  /\ UNCHANGED <<page, post, put, conf, cache, queue, books, left>>

FlushReads(f) ==
  /\ flight[f].at = "config"
  /\ \E v \in Modes, next \in Places :
       Reads(v, next) /\ flight' = [flight EXCEPT ![f].at = next, ![f].cfg = v]
  /\ UNCHANGED <<page, post, put, conf, cache, queue, armed, flushing, books>>

FlushCaches(f) ==
  /\ flight[f].at = "read"
  /\ cache' = flight[f].cfg
  /\ flight' = [flight EXCEPT ![f].at = "gate"]
  /\ UNCHANGED <<page, post, put, conf, queue, armed, flushing, books, left>>

Lands(f) == flight' = [flight EXCEPT ![f] = NoFlight] /\ flushing' = FALSE

FlushBegins(f) ==
  /\ flight[f].at = "gate"
  /\ IF flight[f].cfg = "off"
     THEN Lands(f) /\ armed' = TRUE
     ELSE /\ flight' = [flight EXCEPT ![f].at = "deliver", ![f].batch = Oldest(queue, FLUSH_BATCH_RECORDS)]
          /\ UNCHANGED <<flushing, armed>>
  /\ UNCHANGED <<page, post, put, conf, cache, queue, books, left>>

\* As many records leave the queue as were delivered, whichever they are by now.
FlushDelivers(f) ==
  LET n == Len(flight[f].batch) IN
  /\ flight[f].at = "deliver"
  /\ queue' = SubSeq(queue, n + 1, Len(queue))
  /\ delivered' = delivered \union EntriesOf(flight[f].batch)
  /\ Lands(f) /\ armed' = TRUE
  /\ UNCHANGED <<page, post, put, conf, cache, entries, dropped, before, disturbed, left>>

\* Mutant: a failed run leaves the next one to whoever enqueues.
FlushFailsMutant(f) ==
  /\ flight[f].at = "deliver"
  /\ Lands(f)
  /\ UNCHANGED <<page, post, put, conf, cache, queue, armed, books, left>>

FlushFails(f) ==
  /\ flight[f].at = "deliver"
  /\ Lands(f) /\ armed' = TRUE
  /\ UNCHANGED <<page, post, put, conf, cache, queue, books, left>>

-----------------------------------------------------------------------------
(* PUT /api/telemetry/config, asked for by the section of the settings.    *)

Save(want) ==
  /\ put.at = "none" /\ Spend("switches")
  /\ put' = [NoPut EXCEPT !.at = "sent", !.want = want]
  /\ UNCHANGED <<page, post, conf, cache, server, books>>

PutReads ==
  /\ put.at = "sent"
  /\ \E v \in Modes, next \in Places :
       Reads(v, next) /\ put' = [put EXCEPT !.at = next, !.cfg = v]
  /\ UNCHANGED <<page, post, conf, cache, server, books>>

PutCaches ==
  /\ put.at = "read"
  /\ cache' = put.cfg
  /\ put' = [put EXCEPT !.at = "gate"]
  /\ UNCHANGED <<page, post, conf, server, books, left>>

\* Enabling asks the destination first.
Probed ==
  /\ put.at = "gate"
  /\ \/ put' = [put EXCEPT !.at = "write"]
     \/ put.cfg = "off" /\ put.want # "off" /\ put' = NoPut
  /\ UNCHANGED <<page, post, conf, cache, server, books, left>>

PutWrites ==
  /\ put.at = "write"
  /\ conf' = put.want
  /\ put' = [put EXCEPT !.at = "written"]
  /\ UNCHANGED <<page, post, cache, server, books, left>>

\* resetTelemetryQueue.
PutDone ==
  /\ put.at = "written"
  /\ cache' = put.want
  /\ IF put.want = "off"
     THEN queue' = <<>> /\ armed' = FALSE /\ before' = entries /\ Drops(EntriesOf(queue))
     ELSE UNCHANGED <<queue, armed, before, dropped, disturbed>>
  /\ put' = [put EXCEPT !.at = "answered"]
  /\ UNCHANGED <<page, post, conf, flushing, flight, entries, delivered, left>>

\* The page is told, or not.
PutAnswered ==
  /\ put.at = "answered"
  /\ put' = NoPut
  /\ \/ mode' = (IF put.page THEN put.want ELSE mode) /\ UNCHANGED left
     \/ Spend("faults") /\ UNCHANGED mode
  /\ UNCHANGED <<buffer, timer, post, conf, cache, server, books>>

\* Nothing of the server's memory survives, and no request is answered.
Restart ==
  /\ Spend("faults")
  /\ cache' = "none" /\ queue' = <<>> /\ armed' = FALSE
  /\ flushing' = FALSE /\ flight' = [f \in Flights |-> NoFlight]
  /\ dropped' = dropped \union EntriesOf(queue)
  /\ post' = [p \in Posts |-> [post[p] EXCEPT !.at = IF @ = "none" THEN "none" ELSE "lost"]]
  /\ put' = NoPut
  /\ UNCHANGED <<page, conf, entries, delivered, before, disturbed>>

-----------------------------------------------------------------------------
PostStep(p) == PostReads(p) \/ PostCaches(p) \/ Gate(p) \/ Answered(p) \/ PostFails(p)
FlightStep(f) == FlushReads(f) \/ FlushCaches(f) \/ FlushBegins(f)
PutStep == PutReads \/ PutCaches \/ Probed \/ PutWrites \/ PutDone \/ PutAnswered

Next ==
  \/ Relay \/ Window \/ Reload \/ Restart \/ Expire
  \/ \E p \in Posts : PostStep(p) \/ PostLost(p)
  \/ RunFlush
  \/ \E f \in Flights : FlightStep(f) \/ FlushDelivers(f) \/ FlushFails(f)
  \/ \E want \in Modes : Save(want)
  \/ PutStep

\* Timers fire and calls return; a destination that is asked again and again
\* accepts in the end.
Fairness ==
  /\ WF_vars(Window) /\ WF_vars(RunFlush) /\ WF_vars(Expire) /\ WF_vars(PutStep)
  /\ \A p \in Posts : WF_vars(PostStep(p))
  /\ \A f \in Flights : WF_vars(FlightStep(f)) /\ SF_vars(FlushDelivers(f))

Spec == Init /\ [][Next]_vars /\ Fairness

-----------------------------------------------------------------------------
(* Properties.                                                             *)

\* telemetry-ingest.ts:50: "nothing buffered may ever flush": what was accepted
\* before telemetry was switched off is no longer in the queue.
SwitchedOffIsDropped == \A i \in DOMAIN queue : queue[i].k > before

\* A record the server took is waiting, delivered, or dropped by the bound or the
\* switch, and it is delivered once: stated while nothing was dropped under a
\* delivery, after which telemetry-ingest.ts:116 takes other records away.  What was
\* dropped by the switch never waits again, whatever deliveries were under way.
AcceptedAreAccountedFor ==
  /\ SwitchedOffIsDropped
  /\ ~disturbed =>
       /\ 1 .. entries = EntriesOf(queue) \union delivered \union dropped
       /\ EntriesOf(queue) \intersect delivered = {}

\* While telemetry stays on, what the page and the server hold is sent in the end.
TelemetryDrains ==
  <>[](conf # "off" /\ mode # "off") => <>[](queue = <<>> /\ buffer = <<>>)
=============================================================================
