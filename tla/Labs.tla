-------------------------------- MODULE Labs --------------------------------
(***************************************************************************)
(* The lab that is open (lib/stores/labs.svelte.ts,                        *)
(* lib/db/repositories/labs.ts): its checklist changes on the screen first *)
(* and in the database afterwards.  A step runs from one await to the next.*)
(***************************************************************************)
CONSTANTS LabIds, Items,  \* labs that are there, and the items of a checklist
          LabCalls,       \* calls that may be under way at once
          NoLab           \* not one of the labs

VARIABLES
  checklist,     \* labs.checklist in the database: the items that are done
  lab,           \* the lab of the store ...
  shown,         \* ... and what it shows as done
  running,       \* a load or a toggle: [at, of, item, read, prev]
  met,           \* calls under way that met another one
  doubt          \* what is shown may differ from what is stored, and no call since then set it right

labVars == <<checklist, lab, shown, running, met, doubt>>

Idle == [at |-> "idle", of |-> NoLab, item |-> NoLab, read |-> {}, prev |-> {}]

LabInit ==
  /\ checklist = [l \in LabIds |-> {}]
  /\ lab = NoLab /\ shown = {} /\ met = {} /\ doubt = FALSE
  /\ running = [j \in LabCalls |-> Idle]

-----------------------------------------------------------------------------
(* The open lab.                                                           *)

Flipped(done, item) == IF item \in done THEN done \ {item} ELSE done \union {item}
Others(j) == {k \in LabCalls \ {j} : running[k].at # "idle"}
Meets(j) == met' = met \union (IF Others(j) = {} THEN {} ELSE {j} \union Others(j))
Ends(j) == running' = [running EXCEPT ![j] = Idle] /\ met' = met \ {j}

LoadLab(j, l) ==
  /\ running[j].at = "idle"
  /\ running' = [running EXCEPT ![j] = [Idle EXCEPT !.at = "load", !.of = l]]
  /\ Meets(j)
  /\ UNCHANGED <<checklist, lab, shown, doubt>>

LabRead(j) ==
  /\ running[j].at = "load"
  /\ lab' = running[j].of /\ shown' = checklist[running[j].of]
  /\ doubt' = (j \in met)
  /\ Ends(j)
  /\ UNCHANGED checklist

LoadFails(j) ==
  /\ running[j].at = "load"
  /\ lab' = NoLab /\ shown' = {}
  /\ doubt' = (doubt \/ j \in met)
  /\ Ends(j)
  /\ UNCHANGED checklist

\* Shown at once; the former checklist is kept to go back to.
Toggle(j, item) ==
  /\ running[j].at = "idle" /\ lab # NoLab
  /\ shown' = Flipped(shown, item)
  /\ running' = [running EXCEPT ![j] = [at |-> "read", of |-> lab, item |-> item, read |-> {}, prev |-> shown]]
  /\ Meets(j)
  /\ UNCHANGED <<checklist, lab, doubt>>

\* toggleChecklistItem reads the row and writes back the whole list.
ChecklistRead(j) ==
  /\ running[j].at = "read"
  /\ running' = [running EXCEPT ![j].at = "write", ![j].read = Flipped(checklist[running[j].of], running[j].item)]
  /\ UNCHANGED <<checklist, lab, shown, met, doubt>>

ChecklistWritten(j) ==
  /\ running[j].at = "write"
  /\ checklist' = [checklist EXCEPT ![running[j].of] = running[j].read]
  /\ shown' = running[j].read
  /\ doubt' = (j \in met)
  /\ Ends(j)
  /\ UNCHANGED lab

\* Mutant: a failed write is reported and not taken back.
ToggleFailsMutant(j) ==
  /\ running[j].at \in {"read", "write"}
  /\ doubt' = (doubt \/ j \in met)
  /\ Ends(j)
  /\ UNCHANGED <<checklist, lab, shown>>

ToggleFails(j) ==
  /\ running[j].at \in {"read", "write"}
  /\ shown' = running[j].prev
  /\ doubt' = (doubt \/ j \in met)
  /\ Ends(j)
  /\ UNCHANGED <<checklist, lab>>

\* The write was applied and its answer is lost: the flip is taken back on the screen alone.
AnswerLost(j) ==
  /\ running[j].at = "write"
  /\ checklist' = [checklist EXCEPT ![running[j].of] = running[j].read]
  /\ shown' = running[j].prev
  /\ doubt' = TRUE
  /\ Ends(j)
  /\ UNCHANGED lab

-----------------------------------------------------------------------------
LabStep(j) ==
  \/ \E l \in LabIds : LoadLab(j, l)
  \/ LabRead(j) \/ LoadFails(j)
  \/ \E item \in Items : Toggle(j, item)
  \/ ChecklistRead(j) \/ ChecklistWritten(j) \/ ToggleFails(j) \/ AnswerLost(j)

LabNext == \E j \in LabCalls : LabStep(j)

LabSpec == LabInit /\ [][LabNext]_labVars

-----------------------------------------------------------------------------
(* Properties.                                                             *)

\* labs.svelte.ts:202-203: a failed flip is taken back "so the UI never lies".  At rest the
\* open lab shows what is stored, unless calls met or the answer of a write was lost; the
\* next load or toggle that succeeds by itself ends that doubt.
ChecklistTellsTheTruth ==
  (\A j \in LabCalls : running[j].at = "idle") /\ ~doubt /\ lab # NoLab => shown = checklist[lab]

=============================================================================
