---------------------------- MODULE ProviderForm ----------------------------
(***************************************************************************)
(* The providers of the settings page                                      *)
(* (lib/components/ai/ProviderConfig.svelte over lib/ai/client.ts).  The   *)
(* page keeps the whole list and stores the whole list, at every change of *)
(* the user and whenever models were discovered.  A step runs from one     *)
(* await to the next; the page is loaded, and is not left.                 *)
(***************************************************************************)
EXTENDS Naturals, FiniteSets, Sequences, SequencesExt

CONSTANTS Provs,            \* providers that may be there
          Models,           \* models that may be chosen
          Ops,              \* operations that may be under way at once, as numbers
          NoProv, NoModel   \* none of them

ASSUME FormAssumption == Ops \subseteq Nat /\ Ops # {}

VARIABLES
  screen,   \* what the page shows: [list, conf, active, flags]
  wanted,   \* providers that the user added, or found there, and did not remove
  saved,    \* settings.providers: [list, conf]
  pointed,  \* settings.activeProvider
  keyed,    \* providers with a key in the key store
  ops,      \* [at, prov, old, list, conf, after]
  earlier,  \* pairs of operations with writes of a kind under way: asked for before
  passed,   \* operations whose write is under way while one asked for later has landed
  unsaved,  \* settings whose newest write failed; the list also if an older one was written after it
  tangled   \* operations of the user that take several steps met

formVars == <<screen, wanted, saved, pointed, keyed, ops, earlier, passed, unsaved, tangled>>

\* What is told apart of a provider: the model that is chosen.
NoConf == [p \in Provs |-> NoModel]
Waits == [at |-> "idle", prov |-> NoProv, old |-> NoModel, list |-> {}, conf |-> NoConf, after |-> "none"]

FormInit ==
  /\ passed = {} /\ unsaved = {} /\ tangled = FALSE
  /\ ops = [j \in Ops |-> Waits] /\ earlier = {} /\ keyed = {}
  /\ \E list \in SUBSET Provs :
       /\ wanted = list
       /\ saved = [list |-> list, conf |-> NoConf]
       /\ pointed \in IF list = {} THEN {NoProv} ELSE list
  /\ screen = [list |-> saved.list, conf |-> NoConf, active |-> pointed, flags |-> {}]

\* Operations take the first free place.
Free(j) == ops[j].at = "idle" /\ \A k \in Ops : k < j => ops[k].at # "idle"

-----------------------------------------------------------------------------
(* Writes.  The key store serves them in order, the database need not.     *)

Kind(at) ==
  CASE at = "save" -> "providers"
    [] at \in {"activate", "point"} -> "active"
    [] at \in {"key", "clear", "remove"} -> "key"
    [] OTHER -> "none"

\* An operation goes on with a write, or is over; what it wrote came before earlier writes
\* of the kind that are under way.
Proceeds(j, op) ==
  /\ ops' = [ops EXCEPT ![j] = op]
  /\ earlier' =
       {pair \in earlier : j \notin {pair[1], pair[2]}}
       \union {<<k, j>> : k \in {k \in Ops \ {j} : Kind(op.at) # "none" /\ Kind(ops[k].at) = Kind(op.at)}}
  /\ passed' = (passed \ {j}) \union {k \in Ops : <<k, j>> \in earlier}

\* saveProviders of what a page shows.
Save(shown, after, p) ==
  [Waits EXCEPT !.at = "save", !.list = shown.list, !.conf = shown.conf, !.after = after, !.prov = p]

\* Earlier writes of the kind are under way.
Overtakes(j) == \E k \in Ops : <<k, j>> \in earlier

\* A list that is written or not, when a newer one has landed or not.
ListLands(j) == unsaved' = IF j \in passed THEN unsaved \union {"providers"} ELSE unsaved \ {"providers"}
ListFails(j) == unsaved' = IF j \in passed THEN unsaved ELSE unsaved \union {"providers"}

\* Adding, removing, pointing and keys take several steps each.
Begins ==
  tangled' = (tangled \/ \E j \in Ops : \/ ops[j].at \in {"activate", "point", "key", "clear", "remove"}
                                        \/ ops[j].at = "save" /\ ops[j].after # "none")

-----------------------------------------------------------------------------
(* The user.                                                               *)

\* A field is stored when it is left, a selection at once.
SelectModel(j, p, m) ==
  /\ Free(j) /\ p \in screen.list
  /\ screen' = [screen EXCEPT !.conf[p] = m]
  /\ Proceeds(j, Save(screen', "none", NoProv))
  /\ UNCHANGED <<wanted, saved, pointed, keyed, unsaved, tangled>>

AddFromTemplate(j, p) ==
  /\ Free(j) /\ p \notin screen.list
  /\ screen' = [screen EXCEPT !.list = @ \union {p}]
  /\ wanted' = wanted \union {p}
  /\ Proceeds(j, Save(screen', "added", p))
  /\ Begins
  /\ UNCHANGED <<saved, pointed, keyed, unsaved>>

\* activate, saveKey and remove begin with a write; "clear" is saveKey of nothing.
Asks(j, p, at) ==
  /\ Free(j) /\ p \in screen.list
  /\ Proceeds(j, [Waits EXCEPT !.at = at, !.prov = p])
  /\ Begins
  /\ UNCHANGED <<screen, wanted, saved, pointed, keyed, unsaved>>

UserAsks(j, p) == \E at \in {"activate", "key", "clear", "remove"} : Asks(j, p, at)

-----------------------------------------------------------------------------
(* Models, which are discovered after a load, an addition or a key, and at *)
(* a click: at any time.                                                   *)

Discover(j, p) ==
  /\ Free(j) /\ p \in screen.list
  /\ \E at \in {"refresh", "test"} :
       ops' = [ops EXCEPT ![j] = [Waits EXCEPT !.at = at, !.prov = p, !.old = screen.conf[p]]]
  /\ UNCHANGED <<screen, wanted, saved, pointed, keyed, earlier, passed, unsaved, tangled>>

\* The provider as it was when the discovery began is put back.
MergedMutant(op, found) ==
  [screen EXCEPT !.list = @ \union {op.prov}, !.conf[op.prov] = op.old]

\* Merged into the provider as the page shows it now, if it does; testConnection also
\* writes the model that was chosen when it began, or the first one if none was.
Merged(op, found) ==
  IF op.prov \notin screen.list \/ op.at = "refresh" THEN screen
  ELSE [screen EXCEPT !.conf[op.prov] = IF op.old = NoModel THEN found ELSE op.old]

Discovered(j) ==
  /\ ops[j].at \in {"refresh", "test"}
  /\ \E found \in Models : screen' = Merged(ops[j], found)
  /\ Proceeds(j, Save(screen', "none", NoProv))
  /\ UNCHANGED <<wanted, saved, pointed, keyed, unsaved, tangled>>

NothingDiscovered(j) ==
  /\ ops[j].at \in {"refresh", "test"}
  /\ ops' = [ops EXCEPT ![j] = Waits]
  /\ UNCHANGED <<screen, wanted, saved, pointed, keyed, earlier, passed, unsaved, tangled>>

-----------------------------------------------------------------------------
(* Operations go on once a write has landed.                               *)

\* The first provider is made the active one; after a removal of the active one, another.
AfterSave(j) ==
  LET op == ops[j]
      writes(at, p) == [Waits EXCEPT !.at = at, !.prov = p]
  IN CASE op.after = "added" ->
            /\ Proceeds(j, IF op.list = {op.prov} THEN writes("activate", op.prov) ELSE Waits)
            /\ UNCHANGED screen
       [] op.after = "removed" ->
            \E next \in IF op.list = {} THEN {NoProv} ELSE op.list :
              LET wasActive == screen.active = op.prov
              IN /\ screen' = [screen EXCEPT !.flags = @ \ {op.prov},
                                             !.active = IF wasActive THEN next ELSE @]
                 /\ Proceeds(j, IF wasActive THEN writes("point", next) ELSE Waits)
       [] OTHER -> Proceeds(j, Waits) /\ UNCHANGED screen

Saved(j) ==
  /\ ops[j].at = "save"
  /\ saved' = [list |-> ops[j].list, conf |-> ops[j].conf]
  /\ ListLands(j) /\ AfterSave(j)
  /\ UNCHANGED <<wanted, pointed, keyed, tangled>>

\* persist catches, refreshModels and testConnection catch: what follows is done.
SaveFails(j) ==
  /\ ops[j].at = "save"
  /\ ListFails(j) /\ AfterSave(j)
  /\ UNCHANGED <<wanted, saved, pointed, keyed, tangled>>

\* activate shows it afterwards, remove has shown it before.
Pointed(j) ==
  LET op == ops[j]
  IN /\ op.at \in {"activate", "point"}
     /\ pointed' = op.prov
     /\ screen' = IF op.at = "activate" THEN [screen EXCEPT !.active = op.prov] ELSE screen
     /\ unsaved' = unsaved \ {"active"}
     /\ Proceeds(j, Waits)
     /\ UNCHANGED <<wanted, saved, keyed, tangled>>

PointFails(j) ==
  /\ ops[j].at \in {"activate", "point"}
  /\ unsaved' = IF ops[j].at = "point" THEN unsaved \union {"active"} ELSE unsaved
  /\ Proceeds(j, Waits)
  /\ UNCHANGED <<screen, wanted, saved, pointed, keyed, tangled>>

Keyed(j) ==
  LET op == ops[j]
      with(set) == IF op.at = "key" THEN set \union {op.prov} ELSE set \ {op.prov}
  IN /\ op.at \in {"key", "clear"} /\ ~Overtakes(j)
     /\ keyed' = with(keyed)
     /\ screen' = [screen EXCEPT !.flags = with(@)]
     /\ Proceeds(j, Waits)
     /\ UNCHANGED <<wanted, saved, pointed, unsaved, tangled>>

\* Neither saveKey nor remove catches: nothing follows.
KeyFails(j) ==
  /\ ops[j].at \in {"key", "clear", "remove"}
  /\ Proceeds(j, Waits)
  /\ UNCHANGED <<screen, wanted, saved, pointed, keyed, unsaved, tangled>>

\* remove deletes the key, then takes the provider from the list that is shown by now.
KeyRemoved(j) ==
  LET op == ops[j]
  IN /\ op.at = "remove" /\ ~Overtakes(j)
     /\ keyed' = keyed \ {op.prov}
     /\ screen' = [screen EXCEPT !.list = @ \ {op.prov}, !.conf[op.prov] = NoModel]
     /\ wanted' = wanted \ {op.prov}
     /\ Proceeds(j, Save(screen', "removed", op.prov))
     /\ UNCHANGED <<saved, pointed, unsaved, tangled>>

-----------------------------------------------------------------------------

OpStep(j) ==
  \/ Discovered(j) \/ NothingDiscovered(j) \/ Saved(j) \/ SaveFails(j)
  \/ Pointed(j) \/ PointFails(j) \/ Keyed(j) \/ KeyFails(j) \/ KeyRemoved(j)
  \/ \E p \in Provs : \/ AddFromTemplate(j, p) \/ UserAsks(j, p) \/ Discover(j, p)
                     \/ \E m \in Models : SelectModel(j, p, m)

FormNext == \E j \in Ops : OpStep(j)

FormSpec == FormInit /\ [][FormNext]_formVars

-----------------------------------------------------------------------------

AtRest == \A j \in Ops : ops[j].at = "idle"

\* Once nothing is under way, whatever operations met and discoveries came in between: the
\* page shows the providers that the user wants, and its list is stored unless the newest
\* write of it failed or an older one came after it.  If no write was lost so, and the user
\* began no operation of several steps within another one, the active provider is stored and
\* in the list, and keys are stored of those only that are.  About the operations of
\* ProviderConfig.svelte, from persist to remove.
RestingFormIsStored ==
  AtRest =>
    /\ screen.list = wanted
    /\ "providers" \notin unsaved => saved = [list |-> screen.list, conf |-> screen.conf]
    /\ ~tangled /\ unsaved = {} =>
         /\ pointed = screen.active /\ screen.active \in screen.list \union {NoProv}
         /\ keyed = screen.flags /\ keyed \subseteq screen.list

\* "Never auto-mutate the user's choice" (ProviderConfig.svelte, refreshModels): what is
\* discovered changes no model that was chosen.
ChosenModelStays ==
  [][\A j \in Ops : Discovered(j) => \A p \in screen.list :
       screen.conf[p] # NoModel => screen'.conf[p] = screen.conf[p]]_formVars
=============================================================================
