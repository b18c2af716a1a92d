# Mayon, verified

Mayon is a chat workbench for learning: a browser application (Svelte) that keeps
chats in a database, talks to a model provider, lets the model call tools, and a
small server (Fastify) that offers Postgres, a proxy for providers and a bridge
to MCP servers that run as child processes. This directory models the parts of
it whose correctness depends on *when* things happen: TLA+ modules, TLC
configurations, and proofs that TLAPS checks. Paths below are relative to the
repository (`src/lib/...`, `server/src/...`).

## Inventory

| part | state it keeps | operations | talks to | what is hard |
|---|---|---|---|---|
| **Agent loop** `src/lib/agent/loop.ts` | iteration, text buffers, tool calls of the batch, budget of generative calls | one turn: stream, tool batch in two lanes, critic, fallback without tools | chat store (callbacks), tools, provider | Stop between any two awaits, two concurrent lanes, approvals, failures halfway |
| **Tools** `src/lib/agent/registry.ts`, `*-tools.ts` | registry | run | loop, provider, repositories | looking at the signal at the right time |
| **Chat store** `src/lib/stores/chat.svelte.ts` | open chat, rows on screen, streaming flag, buffers, one AbortController, approval cards | load, send, stop, approve, decline, delete, title, brief, propagate | loop, repositories, UI | everything is shared by sends and loads that overlap |
| **Context and projection** `src/lib/chat/{context,projection,kinds}.ts` | none | rows to provider messages | loop | histories cut short at any row; ids that repeat |
| **MCP bridge** `server/src/mcp.ts` | children per socket, counter of live children | spawn, stdin, kill, close, exit, error | browser transport, operating system | callbacks that come after the socket is gone; a counter with four writers |
| **MCP stdio transport** `src/lib/mcp/server-stdio.ts` | pending requests, dead flag | start, request, close | bridge | timeouts, exits, closes and answers racing |
| **MCP client, sessions, mounting** `src/lib/mcp/{client,lifecycle,mount,resources,prompts}.ts` | registered ids of each mount, one registry, tables of resources and prompts, one notification handler per client | connect for a turn, list, register, unmount | transport, registry | turns that overlap share the registry; list changes that nobody awaits; sessions nobody closes |
| **MCP sampling, elicitation** | budgets per turn | request, approve | store, provider | nothing starts them: only tests register their handlers |
| **MCP over HTTP** `src/lib/mcp/http.ts`, `client.ts` | session id, state, a flag for one re-initialization | request, close | MCP server | calls side by side over a session that the server forgets |
| **Message repository** `src/lib/db/repositories/messages.ts` | `ord` of rows, metadata | append, anchored insert, patches | database | read-then-write |
| **Drivers and boot** `src/lib/db/driver`, `stores/db.svelte.ts` | the driver in use | boot, migrate | server | fallback |
| **Database endpoint** `server/src/pg.ts` | pool of connections, restoring flag | query, batch | Postgres | a transaction over a pool |
| **Backup, restore, import** `server/src/pg-backup.ts`, `pg-import.ts` | restoring flag, dumps | backup, restore, roll back | Postgres tools | failing halfway |
| **Telemetry** `src/lib/telemetry/relay.ts`, `server/src/telemetry*.ts` | the page's buffer and timer, the server's queue and timer, a configuration that is cached for 5 s | capture, flush, enqueue, deliver, switch | page, server, destination | retries against new records; a delivery against the bound and the switch; a stale configuration |
| **Authentication** `server/src/auth` | identities, sessions, pending set-ups and enrolments, the limiter, the mode | set up, sign in, invite, enrol, revoke, lock, the operator's command line | database | every handler awaits between its checks and its writes |
| **Copilot** `components/ai/copilot-auth-dialog.svelte`, `server/src/copilot-auth.ts`, `ai/copilot-session.ts` | the dialog, device flows of the server, cached sessions | start, poll, close; exchange, refresh | server, GitHub, key store | a token that is given once; failures in the middle of a poll; closing |
| **Providers** `components/ai/ProviderConfig.svelte`, `ai/client.ts` | the list on screen, the stored list, the active one, keys | add, edit, discover, test, activate, remove | database, key store, provider | every operation stores the whole list from what it read before its awaits |
| **Quizzes, labs** `stores/{quizzes,labs}.svelte.ts` | open quiz, attempt, answers; open lab, checklist | answer, grade, re-grade, review; toggle; generate | provider, repositories | grades that come late or fail; screens that run ahead of the database |
| **Pacer** `src/lib/chat/streaming` | released prefix, mode, the time of the last tick | tick, drain, abort, reset | store | frames that come late, a drain against its deadline, corrections and stops; what was shown against what arrives |
| **Page of a chat** `routes/chat/[id]/+page.svelte` | draft in the composer, a timer, loads under way | type, send, navigate, restore, drain a staged prompt | store, settings, other pages | timers and loads that outlive the page they began in, navigations on the way |
| **Propagation** `src/lib/chat/propagation.ts` | none | insert an artifact | repository | where it is anchored |
| critic, markdown, adapters of providers, UI | | | | text, wording, layout |

What would make the parts correct, and so what the properties ask. Not all of it is true of the
code: "no" marks what a run or a named property refutes, under the heading "What the code does
otherwise than it says", and "as far as" what holds with the exception named.

* *agent loop*: every call gets one result; nothing risky runs without a grant and
  nothing starts after Stop; one generative tool per turn; text the user saw at Stop is stored, as far
  as it is not of a request that blamed the tools; a turn says something; a turn ends (no: `turn_stop`);
* *projection*: whatever a chat looks like, the next request is one that providers accept, as
  far as ids of calls do not repeat in a turn;
* *chat store*: overlapping sends and loads leave it at rest; a card that is waited for stays, as
  far as no other has its id; rows stay in their chat (no); a running turn can be stopped (no);
* *MCP*: no child outlives its socket, no slot leaks, no request waits on a dead
  transport; a line is an answer only if it is one (no);
* *restore*: what was in the database is in it or in a safety dump, whatever fails;
  a restore that says it succeeded did; one that says it rolled back did (no: `restore_rollback`); no query is
  let in while tables are empty, as far as restores do not overlap;
* *chat tasks*: flags that admit the next title, brief or propagation come down; rows
  land where they belong; what is reported of a propagation is true of it (no: `tasks_toast`);
* *mounting*: a turn takes away its own tools and nobody else's, as far as it registered them
  before it was over (`mcp_read_resource` excepted: no); it has what its servers offer and the chat
  allows, as far as turns do not overlap and lists do not change;
* *authentication*: one set-up makes one owner, one code signs in once, a locked server
  can be entered, the revoked stay out, as far as they were not enrolling at that moment;
* *quizzes, labs, generation*: screens at rest show what is stored, as far as calls do not meet and
  answers are not lost; attempts can be finished (no: `quiz_stuck`); no instructions of the user are lost;
* *telemetry*: accepted records are delivered or dropped on purpose, as far as nothing is dropped under a
  delivery; nothing is kept over a switch-off; everything is sent in the end;
* *MCP over HTTP*: a repeated call runs once; a client at rest has a session (no);
* *database endpoint*: a batch is stored as a whole or not at all, alone (in company no: `pg_batch`);
* *Copilot*: a token that GitHub gave is stored, as far as no outage and no user takes it away; the
  dialog comes to rest, closed, stuck or open after a success;
* *providers*: the list on a page at rest is stored as shown, whatever overlaps; the active provider and
  the keys are, as far as operations of several steps do not meet;
* *pacer*: the end of a reply is on screen before its row takes its place;
* *page of a chat*: the draft of a page at rest is stored; a staged prompt reaches its chat, as far
  as nothing comes in its way (otherwise no).

`PROJECT.json` lists the hazards line by line, with the properties for them.

## Modules

### `AgentTurn` -- one turn

`runAgentTurn` with `consumeStream` and `runCriticPhase`, the approval card of the
store and the end of `send`. It is one asynchronous function, so `pc` names the
await it is suspended at; an action is the code from one await to the next.
`Stop`, `Approve` and `Decline` are the user's, possible between any two of them.

| pc | where the code is |
|---|---|
| `top`, `stream` | the head of an iteration; `consumeStream` |
| `reasoning`, `partial`, `draft`, `listing` | the rows written after a stream (430-495) |
| `lanes` | the `Promise.all` of both lanes (510-625); `stage` says how far each call is |
| `answering` | the loop over the results (627-656) |
| `critic`, `correcting`, `stillborn`, `rechecking`, `noting`, `closing` | `runCriticPhase` and the rows after it |
| `finally`, `interrupting`, `ended` | the `finally` block of `send` |

`stage` of a call: `asking` (its card is being written), `pending` (the card listens
to Stop), `deaf` (it does not, because Stop came first), then the decision, then
`running` and the result. Text is abstracted to whether there is any (`buf`,
`shown`), tools to four kinds. What provider, tools and critic answer is
nondeterministic, and a request may fail, blaming the tools or not. Writes to the
database succeed. `owed` and `generated` are history variables.

### `CallLedger` -- what a turn promises about calls

The abstract specification: call, grant, start, settle, forget, halt. `AgentTurn`
implements it under the mapping at its end (`Status`, `Ledger`); this is checked as
the property `ImplementsLedger`.

### `Projection`, `TurnHistory` -- from rows to requests

`Projection` has `projectEntries` as an operator on sequences of rows, and what
providers require of messages (the check of the SDK, and answers in place).
`TurnHistory` composes it with `AgentTurn`: in every state, the rows written so far
are a chat that may be continued, because Stop, a failure or a closed page may end
the turn there; it looks at the request after the user's next message.

### `ChatStore` -- overlapping sends and loads

The same store seen across turns. A send is suspended at one of a dozen awaits
(`at`); inside the turn it streams, appends rows, asks and comes back. The open
chat, rows on screen, flag, buffer, controller and cards are shared. `signal[t]` is
the controller a turn took from the store when it started, `home[t]` the chat it
captured. Rows are sets, their order belongs to the repository. Each turn has at
most one card at a time, whose id is any of `CardIds`: ids repeat where a provider numbers its calls
afresh. What the store does beside the turn is in `ChatTasks`, staged
prompts are in `ChatPage`.

### `McpBridge`, `McpSession` -- MCP over stdio

`McpBridge` is the server's end: handlers are atomic, processes die by themselves
or after a signal, and the `exit` or `error` callback comes later. `McpSession`
EXTENDS it with the browser's transport and the socket between them: frames in
order in each direction, a close that waits for the frames sent before it, or a loss
that drops them. Each session is one socket and one spawn frame, as the transport
does it; `McpBridge` alone allows any sequence of frames. Each step of a session is one of the
bridge or leaves its variables alone, so what is proved of the bridge holds of sessions.

### `PgRestore` -- backup, restore and import

The database as the server serves it. `at` is the await each request is suspended
at, and the handlers of the one Node process interleave there, while `pg_dump` and
`pg_restore` run as processes of their own.

| at | where the code is |
|---|---|
| `dumping` | the safety dump (`pg-backup.ts` 274-275; `pg-import.ts` 154); the flag is up in a restore, never in an import |
| `truncating`, `loading`, `migrating` | the inner `try` of the restore (277-326) |
| `rolling` | its `catch` (336-349), which lowers the flag |
| `importing` | the one transaction of an import |
| `running` | a query that was admitted |

The database is the set of the keys in it, and rows come in lots that share their
fate: the old rows, the schema stamp, the identities of the gate, what each job or
write brings. A load is refused when a key is there already, which is what
`pg_restore --single-transaction` does with data; with `FaultyTools` every step may
also fail for no such reason. What a restore does before it raises the flag looks at
the uploaded file alone, so it belongs to `Put` or `Refuse`. A crash loses all
requests under way, and the boot that follows lowers the flag and stamps the schema.
The answer of a restore takes with it its temporary file (`dump`); safety dumps stay.
`kept` is a history variable. Assumed: safety files get different names (they carry
the millisecond), the stamp at boot succeeds, and a `pg_restore` dies with the server.
Migrations between schema versions change rows and no keys.

### `PgPool` -- batches over a pool of connections

`POST /api/db/query` asks the pool for a connection for every statement, those of a batch
between BEGIN and COMMIT too. The pool is that of the `pg` package as `pg.ts` uses it: the
connection released last is taken first, who finds none waits in a queue, a refused
statement closes its connection, an idle one is closed after a while. A transaction belongs
to its connection (`conn`), `on` says who runs a statement where. A restore whose TRUNCATE
is refused gives its connection back with the failed transaction in it. `mixed` is a history
variable: a batch was under way with anything else.

### `Pacer` -- a streamed reply on screen

`pacer.ts` with what the store does to it: `flushRender`, `appendAssistantText`,
`waitForDrain`, the end of `send`. Time passes in steps of `RENDER_INTERVAL_MS` (`Pass`), which
are put off by at most `MaxGap` of them while the page is seen; a hidden page gets no
frames. `Text` is one reply, told apart only into characters that belong to a word and those
that do not; the stream cuts it at `Chunks`, and may clear it. `turn` is streaming, waiting
for a drain, or over. `Ticks` is `tick` with its rate, its ramp (left open between two powers of
two) and its safe boundaries, `Synced` is `syncTo`. `fate` is a history variable: what became
of the text.

### `ChatPage` -- the page of a chat

Mounting, navigating and leaving the page, `loadAll` with its awaits, the effect that stores the
draft after a while, and the prompt that an expound or the home page stages. `url` is the chat of the
route, `shown` that of the store, which are different while a navigation is under way.
The timer of a page that is left goes on (`left`), as do its loads. A text is told by the chat it
was typed in. `landed` and `lone` are history variables: where the staged prompt was sent, and
whether anything came in its way.

### `ChatTasks` -- what the store does beside turns

Titles and briefs, which a send asks for on the side, propagation of a branch into its
parent, regeneration, saved briefs, deletions and loads. A job is one call of a store
method; `at` is the await it is suspended at, `title` and `brief` are the two tasks it
may have left running, and `home` is the chat it was called for while `chatId` and `view`
are the chat that is open by now. The insert of an artifact and its answer are two steps, since
the database is behind HTTP: it may be there with its answer lost. A controller is named by the job it was made for.
Positions are halved by an insertion between two rows, so they are scaled by `Unit`.

### `McpMount` -- the tools of a turn

A turn connects to its servers one after the other; for each it waits for the handshake,
the list of tools, the resources and the prompts, and registers what it found. A client
is a turn and a server. `registry` holds for each tool the turn whose client it is bound
to, as `mount.ts` registers closures; `own` is `registeredIds` of one mount. A change of
the list is a notification (`notes`), its handler lists again without being awaited
(`lists`), so that the answer may come after the turn. `overlapped`, `missed` and
`late` are history variables.

### `Auth` -- the gate of the server

Handlers of `server/src/auth/index.ts` with `store.ts`, `gate.ts`, the limiter and the
operator's `cli.ts`, on the same tables. `req[r].at` is the await a request is suspended
at; `saw` and `secret` are what it read. The cached mode may be five seconds old and the
command line does not know of it; no guard of the model depends on which mode a request saw.
Memory (`pending`, `enrolls`) is lost in a restart, the tables are not. A code is its
secret and its time step. `spent`, `forgotten`, `minted` are history variables.

### `Quizzes`, `Labs`, `Generation` -- the page's exercises

`Quizzes`: a call of a method is a job in the one store of the application; the page is
modelled as far as it decides what may be called (`Runner`, `Asking`, `Summary`).
Statements succeed; loads and gradings may fail. `crossed` is set where an attempt was
exchanged under a call, or an answer re-graded while its grade was on its way: the
properties are stated up to there, and the run explores up to there (`Straight`).
`Labs`: a toggle flips the screen, reads the row and writes it back; a failure takes the
screen back, and so does a write that was applied and whose answer is lost. `met` are the calls
that met another, `doubt` is set where the screen may differ because of it or of a lost answer. `Generation`: `generate` of both stores with the retries of the object tool,
and the move of an earlier version's prompt to its new row, which is two statements.

### `Telemetry` -- from the page to the destination

The page's buffer (`buffer`, `timer`, `post`), the routes, the server's queue and the runs
of `runFlush` (`flight`), and the switch (`put`). Readers of the configuration come from
the cache or ask the database and fill the cache when the answer is there, which may be
after somebody else has changed it. The server may restart, the page may reload, answers
get lost. A record is numbered when it is accepted (`k`), which is a history like
`delivered`, `dropped`, `before` and `disturbed`. Back-off times are left out: an armed
timer may fire at any time.

### `McpHttp` -- sessions over HTTP

`HttpMcpTransport.request` under `McpClient.#request`. Every call is sent with the session
of that moment, and each answer changes it: a 404 forgets it, an answer that brings one
sets it where there is none. The server is modelled by what these two files rely on: 404
for a session it does not know, 400 for none.

### `Copilot` -- connecting a GitHub account

The dialog (`dialog.at`), the requests it sends (`asks`), the flows that the server keeps in
memory, and GitHub's side of each code. A request goes on at the server when the dialog has
aborted it (`heard`), so that a token may arrive for nobody. `astray` is a history variable: the
flows that an outage, or a user who left, took from a request that had their token. A dialog
reads, stores and closes; where the code throws or returns without a timer it is `stuck`, or
`unclosed` after a success whose answer has no user. A code is abstracted to its flow, and all
requests of a flow are answered in any order.

### `ProviderForm` -- the providers of the settings page

An operation is suspended at a write (`save`, `point`, `key`, ...) or at a discovery
(`refresh`, `test`), and holds what it read before: the list it will store, the model that was
chosen. `screen` is what the page shows, `saved`, `pointed` and `keyed` what is stored, `earlier` relates two
operations whose writes of one kind are under way, the older one first. Writes into the database may land in another order than they were asked
for, those into the key store do not; both may fail. What is told apart of a provider is the
chosen model. `wanted`, `unsaved` and `tangled` are history variables: what the user asked for,
settings whose newest write failed, and whether operations of several steps have met.

### `PageMC`, `OverlapsMC`, `ClientMC`, `ServerMC` -- sums of parts

Labs, generation, telemetry, HTTP, the pool and Copilot share no state with each other. `PageMC` puts them
side by side and lets one of them move in each behaviour (`part`), so that one run
explores their sum, not their product. Nothing is lost by it: no variable of one is
read by another. `OverlapsMC` does the same with `ChatStore`, `McpMount`, `Quizzes` and
`ProviderForm`, whose operations overlap, `ClientMC` with `McpSession`, `Pacer` and `ChatPage`, and `ServerMC`
with `Auth` and `PgRestore`. They extend their parts,
so TLC evaluates their assumptions.

`ServerMC` and `OverlapsMC` add symmetry and views for
TLC. Operators named `...Mutant` (and `BatchOverMute`) are what a plausible bug would
make of the definition that follows them; each one breaks the property paired with
it in `PROJECT.json`, which is how we know that the property sees that code.

## Runs

| run | instance | asks |
|---|---|---|
| `turn_calls` | all kinds, 3 calls, 1 iteration, unique ids | `EveryCallIsAnswered`, `NextRequestIsAccepted`, `ImplementsLedger` |
| `turn_deep` | 3 kinds, 2 calls, 2 iterations, 2 corrections, fallback | `OneGenerativePerTurn`, `ShownTextIsKept`, `FinishedTurnSpeaks`, `TurnAdvances` |
| `overlaps` | one part in each behaviour: 2 sends, 2 loads, 2 chats; 2 turns, 1 MCP server, 2 tools, 2 changes of its list; 2 attempts and 2 calls on a quiz; 2 operations on 2 providers | `RestIsClean`, `OnlyATwinOrphans`, `OwnIsBound`, `FewToolsOutliveATurn`, `LoneTurnHasItsTools`, `RunnerTellsTheTruth`, `RestingFormIsStored` |
| `chat_tasks` | 3 calls of any method, 2 roots and a branch | `FlagsComeDown`, `RowsLandInPlace`, `PropagationSettles` |
| `server` | one part in each behaviour: 2 requests and the command line, 2 labels, 2 secrets, 2 time steps; 2 restores, 1 import, 1 download, 1 query, 1 crash, tools that fail | `ClaimIsExclusive`, `CodeSpentOnce`, `SomebodyCanEnter`, `RevokedComesBackLate`, `KeptRowsAreSafe`, `RestoredIsWhatWasGiven`, `RestoresKeepQueriesOut` |
| `client` | one part in each behaviour: 2 MCP sessions, 2 children, limit 1, 1 request, a server that asks; a reply of 10 characters that is cut at 3 and 7, 2 rows, 1 clear, 1 switch of the preset, frames and looks up to 2 ticks late; 2 chats, 2 loads, 3 navigations, 2 timers of pages that are gone | `NoneWaitsOnTheDead`, `NoOrphans`, `NoLeakedSlots`, `ClosedSessionsEnd`, `DrainedTextIsOnScreen`, `RestingDraftIsStored`, `LonePromptGoesHome` |
| `page` | one part in each behaviour: 2 labs; 2 generations; 2 records, 1 switch, 1 fault; 2 HTTP calls, 3 sessions, 2 failures; 2 batches of 2 statements, 2 single ones, 2 connections, 2 refusals; 2 codes, 2 requests, 1 outage | `ChecklistTellsTheTruth`, `LegacyIsKept`, `AcceptedAreAccountedFor`, `TelemetryDrains`, `CallsRunOnce`, `AloneIsAtomic`, `AuthorizationIsKept`, `DialogSettles` |

Bounds and why they do. Three calls in a batch give two in one lane beside one in
the other, an unanswered one between answered ones, and a lane that ends before its
last call. Two iterations are the least with a "next" one, and with a budget that
survives an iteration; the fallback adds a third. Two corrections reach both ends of
the correction loop. Two sends are every conflict between an old turn and a new one,
two loads are a switch of chats. `MaxFrames` only keeps an MCP server from printing
for ever. Two sessions at a limit of one child are a spawn that is refused, one that
finds its slot free again, and a client that closes before its spawn was handled. Two
restores and an import overlap in every order, each with its own dump, and one crash
can fall between any two steps. Three calls of the store are a task, one that overtakes it and a
load or a deletion in between. Two changes of a list are one that is being listed and one
that comes meanwhile; a second server of `overlaps` is left out, since ids of different
servers are different keys of the registry. Two requests and the command line are every pair of
handlers; two labels are an owner and an invitee, or two owners. Two records fill the
page's buffer and the server's queue, and with a batch of one a record stays while
another is delivered; one switch goes off, or on and is read late; one fault is a restart, a
reload, a lost answer or a failed read. Telemetry with two switches (1.6 million
states) agrees, and is too long for the runs. The reply has a word that ends with a chunk, a word of five characters that is longer than the lookback
of 3, and one that the stream cuts; with 80 ms per tick its drain passes the ramp, the budget and the
deadline. Two loads and three navigations are a page that is left and one that is reached while
the first one is still loading. Three HTTP sessions are the first, one made
after it was forgotten and one after that. Two refusals are a failed TRUNCATE that leaves its connection
to a batch, and a refused statement; the run follows the pool up to where a batch had
company (`Uncrossed`), `pg_batch` follows it beyond. Two codes of GitHub are a flow and the one
that a restart makes while requests of the first are still at the server. Two operations on
providers are a discovery under any other; once two of several steps have met, the run leaves out
keys and lost pointers (`Straight`), of which the property says nothing then, and follows the list. Two ids of
cards are twins and strangers. Parts of `overlaps` that never move together share model values, so that one
set of permutations exchanges those of each: turns with sends, and chats with providers. `turn_deep` leaves out kind `high`, which differs from `generative` only in
the budget and the dropped text, and is in `turn_calls`. `turn_deep` has correction
streams that end on abort (`AbortEnds = {"break"}`): whether the SDK throws there
is the SDK's behaviour, and if it does, text can be lost (a hazard in the list).
In `server` a query may come at any await of two restores and an import that overlap.
`overlaps` uses a VIEW without the rows: rows decide nothing the other variables
do, and the properties of that run are not about them. Type invariants are stated in the
modules or, where they are needed there only, with the proofs; the runs spend their time on the
rest. What the modules state beyond the runs (`HiddenTextIsShown`,
`SwitchedOffIsDropped`, `ShownOnlyGrows`, `WordsAreCutByTheStreamOnly`, ...) can be
checked by naming it in the configuration of its module.

`CHECK_DEADLOCK FALSE`: a turn ends; sends, jobs, children, secrets, records and failures are used up.

Fairness. `FairSpec` of `AgentTurn` is weak fairness of `Advances`, one action for all
the turn does by itself: writes, tools and requests return some day, streams end.
Nothing is assumed of the user, nor of more text coming. `SessionFairSpec` assumes that the
bridge handles frames and closes, and that a signalled child exits and is reaped;
nothing of children otherwise, nor of the client. `ChatTasks` has weak fairness of `PropStep(j)`,
the steps of one propagation: its requests and statements return, and nothing is assumed of
the other jobs. `Telemetry` has weak fairness of its timers and of each request and flush,
up to the answer of the destination, and strong fairness of `FlushDelivers`: a destination
that is asked again and again accepts some day, as the back-off of `runFlush`
expects; it is what `TelemetryDrains` needs and no more, since it may fail any number of
times before. `Copilot` has weak fairness of what goes on by itself: timers of the dialog, each request
up to its answer, writes into the key store, and the end of a flow by the clock; nothing is assumed
of the user or of GitHub's decisions.

### What the code does otherwise than it says

Five runs are expected to end in a violation: each checks what a comment, document or
test says of the program, and shows a behaviour of the code that departs from it.

| run | what happens |
|---|---|
| `turn_stop` | Stop while an approval card is being written: its listener is added to a signal that has aborted, the turn waits for ever |
| `restore_rollback` | the gate's tables are dumped but not truncated: a backup that holds them fails to load, the safety dump fails in the same way, and the answer is `rolledBack: true` with the chats gone |
| `tasks_toast` | a load takes the status of a propagation down, a second one lands, the first fails: its page finds `lastPropagation` set and reports that it landed |
| `quiz_stuck` | the last open answer of an attempt fails its grading: every question has an answer, none can be re-graded from the page, and the attempt stays open for good |
| `pg_batch` | a write takes the connection that BEGIN ran on: the statements of the batch run on another one, where each is stored at once, a later one is refused, and ROLLBACK ends nothing |

Properties that the modules state and TLC refutes, not kept as runs. Check one by naming it
as an INVARIANT (or PROPERTY) in the configuration of its module:

| property | what happens |
|---|---|
| `ChatStore!ViewIsFaithful` | a load shows rows read before others were added, or of another chat |
| `ChatStore!RowsStayHome` | an approval card is stored in the chat that is open, not in the turn's |
| `ChatStore!TurnsCanBeStopped` | two sends pass the guard before the flag is raised; one cannot be stopped |
| `McpSession!CapHolds` | a child is discounted at the close of its socket and again at its exit |
| `McpSession!OnlyResponsesAnswer` | a server's request is taken for the answer to ours |
| `McpMount!ReadToolWhileMounted` | the end of one turn takes `mcp_read_resource` away from another |
| `Quizzes!GradesStayHome` | a grade that fails after its attempt was exchanged is written into the answers on the screen |
| `McpHttp!RestHasASession` | a late 404 takes the new session away; requests without one get 400, which initializes nothing |
| `Copilot!SuccessCloses` | the server leaves out the user that GitHub did not name, the dialog reads its login and throws: it stays open although the token is stored |
| `ProviderForm!ChosenModelStays` | a test of the connection writes back the model that was chosen when it began |
| `Pacer!HiddenTextIsShown` | a word that is longer than what one frame releases: every frame snaps back to its start, and nothing more is shown until more arrives (`specs/022-smooth-streaming/spec.md` 75 says it never falls behind by more than the window) |
| `Pacer!RevealedStays` | a preset switched from Standard in the middle of a word takes back what was shown |
| `Pacer!WordsAreWhole` | words are cut where the stream cuts them, since the end of the buffer counts as a boundary |
| `Pacer!EmptyBacklogIsFlushed` | a drain with nothing in the buffer is never flushed: it waits for its deadline |
| `Pacer!ErrorKeepsText` | an error drops the text that was on screen, which no row holds |
| `ChatPage!DraftsStayHome` | navigating keeps the text of one chat in the composer and stores it as the draft of another |
| `ChatPage!DraftsOutliveLoads` | a page that is mounted stores its empty composer over a draft before it is restored |
| `ChatPage!PromptGoesToItsBranch` | a load that was under way takes the staged prompt and sends it to the chat that is open |
| `PgPool!AnsweredIsStored` | a write that runs inside somebody else's batch was answered with 200 and goes with its rollback |

Seen on the way, and not kept as runs: with `RestartIds = TRUE` (a provider that
numbers its calls afresh in each response) `NextRequestIsAccepted` fails with two
iterations, because a result of one response passes for that of another; and two turns whose
cards have one id lose one of them, because approving by id removes two cards and
answers one (`OnlyATwinOrphans` says that nothing else does); under `BridgeSpec` with a second spawn of a serverId on one socket
`NoOrphans` fails, because the first child drops out of the table. The transport never
spawns twice, so sessions are safe. The partial text of a stopped stream is stored
without the mark `interrupted` that `specs/022-smooth-streaming/quickstart.md` promises, and
`present_choices` beside another call does not end a turn, which
`docs/reference/tool-map.qmd` says it does. Text of a request that blamed the tools is lost when the
fallback without tools says nothing and Stop comes while its draft is judged or its empty row is
written: `loop.ts` 464 stores `''` and `chat.svelte.ts` 630 clears the buffer.

Where an answer of the database is lost after the statement was applied: the artifact of a propagation
is in place with the status `error` (`chat.svelte.ts` 1431-1437), and a second try stores it twice; and the
flip of a checklist is taken back on the screen alone, which `labs.svelte.ts` 202-203 ("so the UI never
lies") does not expect.

In telemetry, `queue.splice(0, batch.length)` (`telemetry-ingest.ts` 116) takes away records that were not
delivered, when the bound or the switch dropped some during the delivery; a configuration
read before a switch-off and put into the cache after it delivers for up to five seconds
more; the page's buffer survives a quick off and on; a batch answered with 409 or 400 is
dropped without a word; a lost answer makes the records arrive twice; and a delivery has no
timeout of its own. In MCP over HTTP `callTimeoutMs` covers the headers only, and the lines
of an event stream that are split over two chunks are lost (`http.ts` 119-122). Toggles of a
checklist that overlap lose updates. A quiz some of whose questions could not be
saved stays, with those it has. The dialog of Copilot waits for ever after an answer whose body
cannot be read (`readJson` gives null and nothing is scheduled) or a token that cannot be stored.
Two providers that are removed together can leave the active one pointing at a removed one, and a
key that is saved during the removal of its provider stays behind.

## Proofs

Every theorem holds for every value of the constants under the named assumption of its module.
One module of proofs goes with each composition. An invariant that a theorem needs was
checked by TLC before it was proved.

### `AgentTurnProofs` (`TurnAssumption`, `HistoryAssumption`)

* `TypeCorrect`: `Spec => []TypeOK`. `TypeOK` bounds
  `iteration` and `attempt`, which is not inductive by itself: `LoopBounds` says where
  they are below their bounds. One step per action; a lemma types the rows appended.
* `OneGenerative`: `Spec => []OneGenerativePerTurn`. The property counts what
  ran, the code counts its budget, and the fallback to a request without tools resets
  the budget. `Budget` relates them: they agree while tools are on; once they are off
  there are no calls, so the reset does no harm.
* `CallsAreAnswered`: `Spec => []EveryCallIsAnswered`. `AnswerInv` says, for the rows: those
  of calls and results are of the iterations up to this one (`RowsAreOfThePast`); a result
  of this batch belongs to a call that is "answered" (`OneResultEach`); a call without a result, unless the
  turn was stopped, is of the batch at hand and on its way (`OthersAreAtHand`); and only Stop makes a lane
  end before its calls have results (`LanesEndInResults`). Three lemmas do most of the work:
  a step between two batches (`Elsewhere`), one that moves one call on (`InLanes`), and what a
  new row adds (`NewRow`).
* `LedgerIsKept`: `Spec => ImplementsLedger`, the refinement of `CallLedger`. The mapping
  forgets most stages; `Tracked` says what the steps of the ledger ask for: only
  risky calls are asked about, and where the turn forgets its calls all of them are
  settled, which is so because a batch that was cut short ends the turn.
* `TextIsKept`: `"throw" \notin AbortEnds` implies `Spec => []ShownTextIsKept`. `Held`: text that was shown at Stop and has no
  row yet is still shown, or in the hands of the critic phase on its way to one. The hypothesis is on the
  SDK (does an aborted stream end, or throw?), and the loss that follows without it is a hazard of the list.
  Text of a request that blamed the tools counts only once text of the fallback has come (`silent`): the code
  loses it otherwise, as said above.
* `TurnsSpeak`: `Spec => []FinishedTurnSpeaks`; the text of the last row is what the model said, which may be
  nothing. `SpeakInv` follows both loops to each of their exits: a turn
  reaches its end from an answer, a failure or Stop; from a batch only when a call was
  aborted, which takes Stop, or when choices were its last rows.
* `ProjectionIsAccepted`: of any history that is `Paired`, whatever its length, `projectEntries` makes a request that
  passes `NoDanglingCall` and `NoStrayResult`. `Paired` is per turn, as `turnResultScopes` is: calls of one turn
  have distinct ids, and a result comes after its call, in its turn, with no branch artifact between (branching is
  blocked while a turn runs, `Composer.svelte` 126). Calls without a result need nothing, since they get a placeholder. The
  argument: walking the merged messages is walking them one by one (`WalkOfMerge`), since a merge joins messages of one
  role; and after `n` rows what is owed is the calls among them whose results are still to come (`OwedBy`, `OwedNext`),
  which at a message of the user, and at the end, is nothing. `FoldLeft` and `FlattenSeq` are recursive
  functions in the library: that they exist, and what they are step by step (`FoldExists`, `MergedStep`, `WalkStep`,
  `FlatRuns`), goes by induction over the naturals stated for a set of them (`NatsByInduction`), because the
  induction theorems of the library take an operator as a parameter.
* `NextIsAccepted`: `~RestartIds` implies `Spec => []NextRequestIsAccepted`. `LineageInv` adds to `AnswerInv` what makes the
  stored rows `Paired`: a row of a call is of an iteration gone by, or of this one and its call has been listed
  (`CallsOfThePast`); so no call has two rows (`OneCallEach`); every result has the row of its call before it
  (`ResultsHaveCalls`), because a call that was listed has its row (`ListedHaveRows`). It was checked with TLC on
  the instances of `turn_calls` and `turn_deep` before it was proved.

### `McpBridgeProofs` (`BridgeAssumption`, `SessionAssumption`)

* `TablesSound`, `SlotsReturn`: `BridgeSpec => []TableIsSound` and
  `[]NoLeakedSlots`. `BridgeInv` adds types and that a spawned child
  has a home. The heart is that entries of different tables name different
  children, because each child remembers its one home, and that signalling moves no child
  out of those still to be reaped.
* `SessionsKeepToTheBridge`, a lemma: `SessionSpec => BridgeSpec`. It holds by how sessions are composed, and carries
  what is proved of the bridge over to them. The invariant types the frames in flight, so that the frame
  at the front is one that the bridge takes.
* `NobodyIsOrphaned`: `SessionSpec => []NoOrphans`. `OneSpawn` says that a session sends one spawn frame, and that no
  child is there before it was handled; so no entry of a table is overwritten (`InTable`), and the end of the
  socket finds every child that runs. `BridgeSpec` alone does not imply it.
* `NobodyWaits`: `SessionSpec => []NoneWaitsOnTheDead`, in whichever order exits, closes, answers and `close()` come.

### `McpMountProofs` (`MountAssumption`)

* `MountsAreExact`: `Spec => []OwnIsBound`. It is inductive with
  the shape of the variables: a mount registers only names that nobody holds, and removes
  only names of its own, so it never disturbs the equation of another.
* `TurnsCleanUp`: `Spec => []FewToolsOutliveATurn`. `OutliveInv` adds that a mount given back
  is silent (`GivenBackIsSilent`): it has no tool, no handler and no listing under way but those
  that `late` knows of, so nothing registers for it any more.
* `LoneTurnIsServed`: `Spec => []LoneTurnHasItsTools`. `CourseInv` says that a turn mounts its servers in their order and
  that who listens is a mount of a turn that is not over; with no overlap one turn is active. Then, for that turn:
  what it lists is what the server offers or there is news on its way (`LoneIsInformed`), tables of
  resources and prompts name it (`LoneHasTables`), and what its chat does not allow is switched
  off as long as no list has changed (`LoneIsRestricted`): the code switches off when a turn begins, and what a
  change brings later is registered without it. What turns that are over have left in the registry is no excuse.

### `ServerProofs` (`RestoreAssumption`, `AuthAssumption`)

* `RestoreTypeCorrect`, `KeptIsSafe`: `RestoreSpec => []RestoreTypeOK` and
  `[]KeptRowsAreSafe`, for any number of restores, imports,
  queries and crashes. The second becomes inductive with `Covered`: while a job has
  dumped and has still to remove, all that counts as kept is in the dumps, since its
  dump took in what was there and what comes later, while a job is at work, does not count.
* `RestoreExchanges`: `RestoreSpec => RestoredIsWhatWasGiven`. A restore that no job was ever beside has removed
  the old rows once it is past its TRUNCATE, and has put its dump in once it is past the load
  (`LoneExchange`); queries that were admitted before bring rows of their own, which are not the old ones.
* `QueriesStayOut`: `RestoreSpec => RestoresKeepQueriesOut`. `FlagIsUp` says that a restore that is at work, and
  beside which none has come to its end, has the flag up: `Put` raises it, and only the end of a restore or a
  crash lowers it. The guard of a query does the rest. The exception is real: restores share one flag.
* `OneConfirms`: `Spec => []ClaimIsExclusive`. `TypeInv` says what each request
  knows at its await, and that a row that is named is there (`Known`: rows are never
  deleted). Secrets in hand or waiting have been made (`Made`), so that a new one is nobody's.
* `CodesOpenOnce`: `Spec => []CodeSpentOnce`. A secret is of one label, in the tables, in memory
  or in a request's hands (`OneHome`); a login still under way has the secret of its row,
  unless that was forgotten (`Bound`); and a code that signed in, or is about to, is not
  beyond the last step of the row and is in one request's hands (`SpentUp`). Then the
  comparison in `advanceTotpStep` finds every code that was used.
* `NobodyIsShutOut`: `Spec => []SomebodyCanEnter`. Whoever is about to lock, on the server or on the
  command line, found an active owner, or has written one (`Lockers`, `OwnersEnter`); no
  step takes an owner his status or his secret (`OwnersStay`).
* `NobodyComesBack`: `Spec => RevokedComesBackLate`: enrolments that write have found their
  identity invited (`SawInvited`), and only they make one active.

### `StoreProofs` (`StoreAssumption`, `FormAssumption`, `QuizAssumption`)

* `RestsClean`: `StoreSpec => []RestIsClean`, for any number of sends and loads. `StoreInv` says that a card is of a turn that waits for it (`CardsWait`),
  and that a turn has one at most: so the last turn to come back, which waits for none, leaves none. Cards are
  a sequence, of which an answer takes out the one it is for; lemmas say what such a filter leaves.
* `OnlyTwinsOrphan`: `StoreSpec => OnlyATwinOrphans`, for any ids. Besides `StoreInv` it needs only what the filter
  by id leaves of the cards.
* `FormIsStored`: `FormSpec => []RestingFormIsStored`, for any number of operations. `FormInv` says that the write of the list that was
  asked for last holds what is on the screen, or that this is stored, unless it failed or an older one
  landed after it (`LastIsShown`): this is so whatever meets;
  and for the one operation of several steps that may be under way, as long as none have met,
  how far the screen, the store, the active provider and the keys have come (`Phase`).
* `RunnerIsTruthful`: `QuizSpec => []RunnerTellsTheTruth`, for any number of calls. `QuizInv` says, while no attempt was exchanged under a
  call and no question answered twice, that what is shown is stored, and that what is stored of the shown
  attempt is shown or is the row of a call that has still to mark it (`AnswersAreStored`). It holds
  because a call at work is about the attempt that is shown and about a row of it (`WorkersKnow`), and because
  nothing else is at work between the reading of an attempt and that of its answers (`ExchangesAreAlone`).

### `TaskProofs` (`ChatTasksAssumption`)

* `FlagsAreDown`, `TitlesAreAlone`: `Spec => []FlagsComeDown` and `[]OneTitleAtATime`. `Flags` relates each flag and each
  controller to the job that owns it: a job that is overtaken leaves them to its successor.
* `RowsAreInPlace`: `Spec => []RowsLandInPlace`. What a new row needs is room: an insertion halves the gap behind
  its anchor, so the positions must not run out before the jobs do. The invariant says that the
  smallest gap is at least `2^(MaxJobs - n)` after `n` artifacts have landed, since every one of them takes at
  most half of what is left. `Unit = 2^MaxJobs` scales positions in the model; the code has floating
  point numbers, of which this says that `MaxJobs` insertions in one place are exact.

### `ScreenProofs` (`PacerAssumption`, `PageAssumption`)

* `DrainIsOnScreen`: `PacerSpec => DrainedTextIsOnScreen`, for every text, chunking, rate and budget. A drain that is
  not flushed yet has had no frame, or nothing to show, or its last frame came within the budget
  (`DrainIsInTime`); after it, the frame that comes at the latest `MaxGap` ticks later
  flushes, and the assumption `DrainDeadlineMs >= DrainBudgetMs + MaxGap * TickMs` says that the deadline
  of the store leaves it the time (400 ms, 240 ms and frames up to 160 ms late).
* `DraftIsStored`: `PageSpec => []RestingDraftIsStored`. The timer holds what the composer shows, for the chat that
  the store is in; without one it is stored, and nothing that pages which are gone have
  still to store comes after it (`TimerIsNews`).
* `PromptGoesHome`: `PageSpec => []LonePromptGoesHome`. A prompt in whose way nothing came waits for the route, or
  for the one load that brings it (`PromptIsOnItsWay`).

### `PageProofs` (`TelemetryAssumption`, `PoolAssumption`, `CopilotAssumption` and those of labs, generation and HTTP)

* `PromptsSurvive`: `GenerationSpec => []LegacyIsKept`, with `DeletedAfterwards`: where the
  deletion of the old row is due, the new row has been written.
* `ChecklistIsTrue`: `LabSpec => []ChecklistTellsTheTruth`. While toggles come one at a time, the one
  under way is of the open lab and keeps what is stored to go back to (`WayBack`); what met another, or lost its
  answer, leaves the screen in doubt (`doubt`) until a load or a flip succeeds by itself.
* `RunsOnce`: `HttpSpec => []CallsRunOnce`. A call that may still be sent or sent again
  (`NotYet`) has not been run: only a refusal leads back, and an initialization runs nothing.
* `DroppedForGood`: `Spec => []SwitchedOffIsDropped`. `PageInv` types
  the page and the posts; the numbers of the queue stay above `before`, because what is
  accepted later has a larger number, and a switch-off empties the queue.
* `BooksBalance`: `Spec => []AcceptedAreAccountedFor`. `BookInv` says that the queue is in
  order (`Ordered`), that one delivery at a time is under way and `flushing` tells of it
  (`OneFlight`), and that what is being delivered is the front of the queue, as long as
  nothing was dropped under it (`AtTheFront`): then taking off as many as were sent
  takes off those that were sent.
* `BatchesAreAtomic`: `PoolSpec => []AloneIsAtomic`, for any number of connections. `PoolSound`: a request under way
  has one connection or waits once, and a connection is idle or of one request. While no batch had company
  (`Atomic`), the connection that the batch runs on, or will be given next, which is the last idle one, holds exactly the
  rows it has written; no other one is open, and the stored rows of a request are all or none.
  So it is the order in which the pool gives connections that keeps a lone batch in one transaction.
* `TokensAreNotLost`: `CopilotSpec => []AuthorizationIsKept`. A code that GitHub spent has its token stored, on its way in an
  answer that the dialog listens to, or taken by an outage or by a user who left; a dialog
  listens to one request at most; a flow that the server forgot is over or its token is
  out; and answers say what is so. Three lemmas take the steps of the server, of what is cut, and of the dialog.

### Hypotheses

Some assumptions are there for the provers, and TLC evaluates them in the runs: `ChatTasksAssumption` lists what they do not know
of powers of two, `QuizAssumption` that questions are finite, `PoolAssumption` and `RestoreAssumption` that different requests have different
names. Two theorems have a hypothesis of their own about the constants (`TextIsKept`, `NextIsAccepted`), and TLC checks
those properties under it in `turn_deep` and `turn_calls`. The provers know nothing of the least element of a finite
set: where a proof needs one, it takes a subset with the strict subset ordering, which the library's
`FS_StrictSubsetOrderingWellFounded` says is well-founded.

### Only model-checked

Liveness (`TurnAdvances`, `ClosedSessionsEnd`, `PropagationSettles`, `TelemetryDrains`,
`DialogSettles`) needs fairness and ENABLED and stays with TLC. Every safety property of a passing run is stated by a
theorem.

## Plan

What would come next, in this order:

1. The patches of metadata in the message repository.
2. The two rows of one position that cards asked for together may get.
3. The sessions of Copilot and the caches they live in; the form of MCP servers.
4. Drivers and boot.

## Not modelled, and why

The wording of prompts, the markdown pipeline and critic rules, provider adapters,
layout: text in, text out, with nothing to interleave. Sampling and elicitation over
MCP: `registerSamplingHandler` and `registerElicitationHandler` are called by tests only, so that no run of the
program gets there. The frames of event streams (`sse.ts`, the body of an HTTP answer): parsing.
Sessions of Copilot: one request shared by those who wait for it. The page of MCP servers: a form like that
of providers. Leaving the settings page with writes under way. Drivers
and boot: a choice made once, before anything else runs. Images of the composer. The rest of the user
interface: the models take from it what decides which
call can be made when. The rest is in `PROJECT.json` part by part.
