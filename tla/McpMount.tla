------------------------------ MODULE McpMount ------------------------------
(***************************************************************************)
(* The MCP servers of a turn: mcp/lifecycle.ts, mount.ts, resources.ts and *)
(* prompts.ts, with the registry of tools they all share.  A turn connects *)
(* to its servers one by one, lists what each offers, registers it under   *)
(* "mcp.<server>.<tool>", and takes it away again when it ends.            *)
(*                                                                         *)
(* Turns overlap: opening another chat lets a new one start while the old  *)
(* one still runs.  Each has a client of its own for each server, but the  *)
(* registry and the tables of resources and prompts belong to all of them. *)
(* A client is a turn and a server; it is never closed, so that it goes on *)
(* receiving answers after its turn.                                       *)
(*                                                                         *)
(* Only tools whose schema is an object are offers.  What a tool returns,  *)
(* and the texts of resources and prompts, are left out.                   *)
(***************************************************************************)
EXTENDS Naturals, Sequences, FiniteSets, SequencesExt

CONSTANTS
  Turns,      \* the turns; a finite set
  Servers,    \* the enabled servers, in the order of the settings
  Names,      \* names of tools
  Resourceful, Prompting,   \* the servers with these capabilities
  MaxChanges, \* bound: changes of a server's tools
  NoTurn

Hosts == {Servers[i] : i \in DOMAIN Servers}
Ids == Hosts \X Names
Clients == Turns \X Hosts

ASSUME MountAssumption ==
  /\ Servers \in Seq(Hosts) /\ Len(Servers) > 0 /\ IsInjective(Servers)
  /\ Resourceful \subseteq Hosts /\ Prompting \subseteq Hosts
  /\ NoTurn \notin Turns /\ MaxChanges \in Nat

VARIABLES
  offers,    \* what each server offers
  changes,   \* how often offers changed
  registry,  \* TOOLS: the turn whose client a registered tool is bound to
  readTool,  \* mcp_read_resource is registered
  resources, \* RESOURCE_SERVERS: the turn whose client has the entry
  prompts,   \* PROMPT_SERVERS
  at,        \* each turn: where it is
  next,      \* the position in Servers it connects to
  seen,      \* the answer under way to the first listing
  allowed,   \* getChatMcpConfig: the tools its chat lets it use
  disabled,  \* disabledToolIds, computed once
  hears,     \* each client: the one notification handler of its transport
  notes,     \* notifications on their way to it
  own,       \* registeredIds of its mount
  lists,     \* answers under way to listings nobody awaits
  mounted,   \* the clients whose unmount function was kept
  overlapped, missed, late   \* history: turns overlapped; clients that missed a
                             \* change; those with a listing that outlived its turn

external == <<offers, changes>>
shared == <<registry, readTool, resources, prompts>>
turn == <<at, next, seen, allowed, disabled>>
client == <<hears, notes, own, lists, mounted>>
history == <<overlapped, missed, late>>
vars == <<external, shared, turn, client, history>>

At == {"idle", "opening", "listing", "resources", "prompts", "running", "over"}

MountTypeOK ==
  /\ offers \in [Hosts -> SUBSET Names] /\ changes \in 0 .. MaxChanges
  /\ registry \in [Ids -> Turns \union {NoTurn}] /\ readTool \in BOOLEAN
  /\ resources \in [Hosts -> Turns \union {NoTurn}]
  /\ prompts \in [Hosts -> Turns \union {NoTurn}]
  /\ at \in [Turns -> At] /\ next \in [Turns -> 1 .. Len(Servers) + 1]
  /\ seen \in [Turns -> SUBSET Names]
  /\ allowed \in [Turns -> [Hosts -> SUBSET Names]]
  /\ disabled \in [Turns -> SUBSET Ids]
  /\ hears \in [Clients -> {"nothing", "resources", "prompts", "tools"}]
  /\ notes \in [Clients -> 0 .. MaxChanges]
  /\ own \in [Clients -> SUBSET Names] /\ lists \in [Clients -> Seq(SUBSET Names)]
  /\ mounted \subseteq Clients /\ missed \subseteq Clients /\ late \subseteq Clients
  /\ overlapped \in BOOLEAN

Init ==
  /\ offers \in [Hosts -> SUBSET Names] /\ changes = 0
  /\ registry = [id \in Ids |-> NoTurn] /\ readTool = FALSE
  /\ resources = [s \in Hosts |-> NoTurn] /\ prompts = [s \in Hosts |-> NoTurn]
  /\ at = [t \in Turns |-> "idle"] /\ next = [t \in Turns |-> 1]
  /\ seen = [t \in Turns |-> {}]
  /\ allowed = [t \in Turns |-> [s \in Hosts |-> {}]]
  /\ disabled = [t \in Turns |-> {}]
  /\ hears = [c \in Clients |-> "nothing"] /\ notes = [c \in Clients |-> 0]
  /\ own = [c \in Clients |-> {}] /\ lists = [c \in Clients |-> <<>>]
  /\ mounted = {}
  /\ overlapped = FALSE /\ missed = {} /\ late = {}

-----------------------------------------------------------------------------
(* The registry.                                                           *)

Host(t) == Servers[next[t]]
Registered == {id \in Ids : registry[id] # NoTurn}

\* doMount skips the names that are taken, by whichever turn.
Fresh(s, names) == {n \in names : <<s, n>> \notin Registered}

\* The rest of doMount, on an answer: registerTool and registeredIds.add
Register(c, names) ==
  LET new == Fresh(c[2], names) IN
  /\ registry' = [id \in Ids |-> IF id[1] = c[2] /\ id[2] \in new THEN c[1] ELSE registry[id]]
  /\ own' = [own EXCEPT ![c] = @ \union new]

Deregistered(C) ==
  [id \in Ids |-> IF \E c \in C : id[1] = c[2] /\ id[2] \in own[c] THEN NoTurn ELSE registry[id]]

Emptied(C) == [c \in Clients |-> IF c \in C THEN {} ELSE own[c]]

-----------------------------------------------------------------------------
(* connectSession: one server after the other.  Whatever fails is skipped. *)

Begin(t) ==
  /\ at[t] = "idle"
  /\ at' = [at EXCEPT ![t] = "opening"]
  /\ \E a \in [Hosts -> SUBSET Names] : allowed' = [allowed EXCEPT ![t] = a]
  /\ overlapped' = (overlapped \/ \E u \in Turns : at[u] \notin {"idle", "over"})
  /\ UNCHANGED <<external, shared, next, seen, disabled, client, missed, late>>

\* The ids of registered tools that the chat does not let this turn use
Disallowed(t, reg) == {id \in reg : id[2] \notin allowed[t][id[1]]}

\* On to the next server, or to the request; reg is the registry by now.
Onwards(t, reg) ==
  IF next[t] = Len(Servers)
    THEN /\ at' = [at EXCEPT ![t] = "running"]
         /\ next' = [next EXCEPT ![t] = Len(Servers) + 1]
         /\ disabled' = [disabled EXCEPT ![t] = Disallowed(t, reg)]
    ELSE /\ at' = [at EXCEPT ![t] = "opening"]
         /\ next' = [next EXCEPT ![t] = @ + 1]
         /\ UNCHANGED disabled

\* Not trusted, without the bridge, or an error anywhere: what the mount has
\* registered stays, and nobody keeps its unmount function.
Fails(t) ==
  /\ at[t] \in {"opening", "listing", "resources", "prompts"}
  /\ Onwards(t, Registered)
  /\ seen' = [seen EXCEPT ![t] = {}]
  /\ UNCHANGED <<external, shared, allowed, client, history>>

\* Initialised, and the tools asked for; from now on the server notifies.
Opened(t) ==
  /\ at[t] = "opening"
  /\ at' = [at EXCEPT ![t] = "listing"]
  /\ seen' = [seen EXCEPT ![t] = offers[Host(t)]]
  /\ UNCHANGED <<external, shared, next, allowed, disabled, client, history>>

\* Mutant: the tools are subscribed to before resources and prompts are.
HeardMutant(from, to) ==
  IF from = "listing" THEN "tools" ELSE from

\* Each subscription takes the transport's one handler from the one before.
Heard(from, to) ==
  IF to = "mounted" THEN "tools" ELSE IF from = "listing" THEN "nothing" ELSE from

\* After doMount and the tables: what is awaited next, or the subscription.
Then(t, reg, from) ==
  LET s == Host(t)  c == <<t, s>>
      to == IF from = "listing" /\ s \in Resourceful THEN "resources"
            ELSE IF from # "prompts" /\ s \in Prompting THEN "prompts" ELSE "mounted"
  IN /\ hears' = [hears EXCEPT ![c] = Heard(from, to)]
     /\ IF to = "mounted"
          THEN mounted' = mounted \union {c} /\ Onwards(t, reg)
          ELSE at' = [at EXCEPT ![t] = to] /\ UNCHANGED <<mounted, next, disabled>>

Listed(t) ==
  /\ at[t] = "listing"
  /\ Register(<<t, Host(t)>>, seen[t])
  /\ seen' = [seen EXCEPT ![t] = {}]
  /\ Then(t, Registered \union ({Host(t)} \X seen[t]), "listing")
  /\ UNCHANGED <<external, readTool, resources, prompts, allowed, notes, lists, history>>

\* mountResources and mountPrompts: the entry of the server is this turn's now.
ResourcesListed(t) ==
  /\ at[t] = "resources"
  /\ resources' = [resources EXCEPT ![Host(t)] = t]
  /\ readTool' = TRUE
  /\ Then(t, Registered, "resources")
  /\ UNCHANGED <<external, registry, prompts, seen, allowed, notes, own, lists, history>>

PromptsListed(t) ==
  /\ at[t] = "prompts"
  /\ prompts' = [prompts EXCEPT ![Host(t)] = t]
  /\ Then(t, Registered, "prompts")
  /\ UNCHANGED <<external, registry, readTool, resources, seen, allowed, notes, own, lists,
                 history>>

-----------------------------------------------------------------------------
(* While it runs.                                                          *)

\* A server changes what it offers and tells every client that has asked.
Change(s) ==
  /\ changes < MaxChanges
  /\ changes' = changes + 1
  /\ \E names \in SUBSET Names \ {offers[s]} : offers' = [offers EXCEPT ![s] = names]
  /\ notes' = [c \in Clients |->
                IF c[2] = s /\ (\/ c \in mounted
                                \/ /\ at[c[1]] \in {"listing", "resources", "prompts"}
                                   /\ Host(c[1]) = s)
                  THEN notes[c] + 1 ELSE notes[c]]
  /\ UNCHANGED <<shared, turn, hears, own, lists, mounted, history>>

\* Mutant: the tools go, but not the record of them.
ListChangedMutant(c) ==
  /\ registry' = Deregistered({c})
  /\ lists' = [lists EXCEPT ![c] = Append(@, offers[c[2]])]
  /\ UNCHANGED own

\* The handler of tools/list_changed: all is taken away, and listed again by a
\* doMount that nobody awaits.
ListChanged(c) ==
  /\ registry' = Deregistered({c})
  /\ own' = Emptied({c})
  /\ lists' = [lists EXCEPT ![c] = Append(@, offers[c[2]])]

\* The transport has one handler, for one kind of notification; any other is
\* dropped.  (Resources and prompts refresh the text of their entry.)
Notified(c) ==
  /\ notes[c] > 0
  /\ notes' = [notes EXCEPT ![c] = @ - 1]
  /\ IF hears[c] = "tools"
       THEN ListChanged(c) /\ UNCHANGED missed
       ELSE /\ missed' = IF c \in mounted THEN missed ELSE missed \union {c}
            /\ UNCHANGED <<registry, own, lists>>
  /\ UNCHANGED <<external, readTool, resources, prompts, turn, hears, mounted,
                 overlapped, late>>

\* The answer to one of those listings; it fails, or registers what it says,
\* even after the turn.
Relisted(c, i) ==
  /\ i \in DOMAIN lists[c]
  /\ lists' = [lists EXCEPT ![c] = RemoveAt(@, i)]
  /\ \/ Register(c, lists[c][i]) /\ UNCHANGED missed
     \/ missed' = missed \union {c} /\ UNCHANGED <<registry, own>>
  /\ UNCHANGED <<external, readTool, resources, prompts, turn, hears, notes, mounted,
                 overlapped, late>>

\* Mutant: unmounting forgets the tools.
UnmountToolsMutant(C) == UNCHANGED <<registry, own>>

UnmountTools(C) == registry' = Deregistered(C) /\ own' = Emptied(C)

\* unmountResources and unmountPrompts: the entry of the server, whoever has it
\* by now; mcp_read_resource goes with the last.
UnmountTables(gone) ==
  LET without(table) == [s \in Hosts |-> IF s \in gone THEN NoTurn ELSE table[s]] IN
  /\ resources' = without(resources)
  /\ prompts' = without(prompts)
  /\ readTool' = (readTool /\ (resources' = resources \/ \E s \in Hosts : resources'[s] # NoTurn))

\* unmountAll, in the finally block of the turn.  An entry unsubscribes the client
\* it is of, and with it whatever that client's transport listened for.
End(t) ==
  LET mine == {c \in mounted : c[1] = t}
      deaf == mine \union {c \in Clients : <<t, c[2]>> \in mine /\ c[1] \in {resources[c[2]], prompts[c[2]]}}
  IN
  /\ at[t] = "running"
  /\ at' = [at EXCEPT ![t] = "over"]
  /\ UnmountTools(mine)
  /\ UnmountTables({c[2] : c \in mine})
  /\ hears' = [c \in Clients |-> IF c \in deaf THEN "nothing" ELSE hears[c]]
  /\ late' = late \union {c \in mine : lists[c] # <<>>}
  /\ allowed' = [allowed EXCEPT ![t] = [s \in Hosts |-> {}]]
  /\ disabled' = [disabled EXCEPT ![t] = {}]
  /\ UNCHANGED <<external, next, seen, notes, lists, mounted, overlapped, missed>>

TurnStep(t) ==
  \/ Begin(t) \/ Opened(t) \/ Fails(t)
  \/ Listed(t) \/ ResourcesListed(t) \/ PromptsListed(t)
  \/ End(t)

Next ==
  \/ \E t \in Turns : TurnStep(t)
  \/ \E s \in Hosts : Change(s)
  \/ \E c \in Clients : Notified(c) \/ \E i \in 1 .. MaxChanges : Relisted(c, i)

Spec == Init /\ [][Next]_vars

-----------------------------------------------------------------------------
(* Properties.                                                             *)

\* Every mount knows exactly the tools that are bound to its client.  This is
\* why a list that changes, or a turn that ends, takes away no tool of another
\* turn and leaves none of its own, however mounts and listings interleave.
OwnIsBound ==
  \A c \in Clients : own[c] = {n \in Names : registry[<<c[2], n>>] = c[1]}

\* A tool bound to a turn that is over is one of a mount that failed half way,
\* or came with a listing that was under way when the turn ended.
FewToolsOutliveATurn ==
  \A id \in Ids : \A t \in Turns :
    registry[id] = t /\ at[t] = "over" => \/ <<t, id[1]>> \notin mounted
                                          \/ <<t, id[1]>> \in late

\* While turns have not overlapped, a running one has all its servers offer, as
\* soon as it has heard of it, and the tables of resources and prompts.  Of the
\* tools it could use, its chat has switched off none: the list of disabled ones
\* is made once, and is complete for as long as the servers offer the same.
LoneTurnHasItsTools ==
  ~overlapped =>
    /\ \A c \in mounted : at[c[1]] = "running" =>
         /\ notes[c] = 0 /\ lists[c] = <<>> /\ c \notin missed =>
              \A n \in offers[c[2]] : <<c[2], n>> \in Registered
         /\ c[2] \in Resourceful => readTool /\ resources[c[2]] = c[1]
         /\ c[2] \in Prompting => prompts[c[2]] = c[1]
    /\ changes = 0 =>
         \A t \in Turns : at[t] = "running" =>
           \A id \in Registered \ disabled[t] : id[2] \in allowed[t][id[1]]

\* docs/reference/tool-map.qmd: mcp_read_resource is "registered while any
\* resource-capable server is mounted".
ReadToolWhileMounted ==
  \A c \in mounted : at[c[1]] = "running" /\ c[2] \in Resourceful => readTool

=============================================================================
