---------------------------- MODULE PageProofs ------------------------------
(***************************************************************************)
(* Theorems about parts of the page that share no state, for any bounds:   *)
(* the checklist of a lab and the prompts of generations (Labs,            *)
(* Generation), the books of telemetry (Telemetry), the requests to an MCP *)
(* server over HTTP (McpHttp), statements over the pool of the server      *)
(* (PgPool), the connection of a GitHub account (Copilot).                 *)
(***************************************************************************)
EXTENDS Labs, Generation, McpHttp, Telemetry, PgPool, Copilot, SequenceTheorems, TLAPS

-----------------------------------------------------------------------------
(* Labs.                                                                   *)

States == {"idle", "load", "read", "write"}
Call == [at : States, of : LabIds \union {NoLab}, item : Items \union {NoLab},
         read : SUBSET Items, prev : SUBSET Items]

LabTypes ==
  /\ checklist \in [LabIds -> SUBSET Items]
  /\ lab \in LabIds \union {NoLab} /\ shown \subseteq Items
  /\ running \in [LabCalls -> Call]
  /\ met \subseteq LabCalls /\ doubt \in BOOLEAN

\* A call that is under way has a lab of its own, and a toggle an item.
Directed ==
  \A j \in LabCalls :
    /\ running[j].at # "idle" => running[j].of \in LabIds
    /\ running[j].at \in {"read", "write"} => running[j].item \in Items

Toggling(j) == running[j].at \in {"read", "write"}

\* A call is either the only one or has met another.
Company ==
  /\ \A j \in LabCalls : running[j].at = "idle" => j \notin met
  /\ \A j, k \in LabCalls : running[j].at # "idle" /\ running[k].at # "idle" /\ j # k => j \in met

\* A toggle that met none keeps what is stored, to go back to, for the lab that is open.
WayBack ==
  \A j \in LabCalls : Toggling(j) /\ j \notin met =>
    running[j].of = lab /\ (doubt \/ running[j].prev = checklist[lab])

LabInv == LabTypes /\ Directed /\ Company /\ WayBack /\ ChecklistTellsTheTruth

LEMMA FlippedIs ==
  ASSUME NEW done \in SUBSET Items, NEW item \in Items
  PROVE  Flipped(done, item) \in SUBSET Items
  BY DEF Flipped

LEMMA IdleIs ==
  Idle \in Call /\ Idle.at = "idle"
  BY DEF Idle, Call, States

LEMMA LabInvStart == LabInit => LabInv
  BY IdleIs DEF LabInit, LabInv, LabTypes, Directed, Company, WayBack, Toggling, ChecklistTellsTheTruth

\* A call that starts meets those that are under way, and nothing else changes.
LEMMA StartKeeps ==
  ASSUME LabInv, NEW j \in LabCalls, NEW r \in Call, running[j].at = "idle", r.at \in {"load", "read"},
         r.of \in LabIds, r.at = "read" => r.item \in Items /\ r.of = lab /\ lab # NoLab /\ r.prev = shown,
         running' = [running EXCEPT ![j] = r], Meets(j), shown' \in SUBSET Items,
         UNCHANGED <<checklist, lab, doubt>>
  PROVE  LabInv'
<1>1. \A k \in LabCalls : running'[k] = IF k = j THEN r ELSE running[k]
  BY DEF LabInv, LabTypes
<1>2. Others(j) = {k \in LabCalls \ {j} : running[k].at # "idle"} BY DEF Others
<1>3. CASE Others(j) = {}
  <2>1. met' = met BY <1>3 DEF Meets
  <2>2. \A k \in LabCalls \ {j} : running[k].at = "idle" BY <1>2, <1>3
  <2>3. LabTypes' BY <2>1 DEF LabInv, LabTypes
  <2>4. Directed' BY <1>1 DEF LabInv, Directed
  <2>5. Company' BY <1>1, <2>1, <2>2 DEF LabInv, Company
  <2>6. doubt \/ lab = NoLab \/ shown = checklist[lab]
    BY <2>2 DEF LabInv, ChecklistTellsTheTruth
  <2>7. r.at = "read" => doubt \/ shown = checklist[lab]
    BY <2>6
  <2>8. WayBack' BY <1>1, <2>2, <2>7 DEF WayBack, Toggling
  <2>9. ChecklistTellsTheTruth' BY <1>1 DEF ChecklistTellsTheTruth
  <2> QED BY <2>3, <2>4, <2>5, <2>8, <2>9 DEF LabInv
<1>4. CASE Others(j) # {}
  <2>1. met' = met \union {j} \union Others(j) BY <1>4 DEF Meets
  <2>2. \A k \in LabCalls : running'[k].at # "idle" <=> k = j \/ k \in Others(j)
    BY <1>1, <1>2
  <2>3. LabTypes' BY <1>2, <2>1 DEF LabInv, LabTypes
  <2>4. Directed' BY <1>1 DEF LabInv, Directed
  <2>5. Company' BY <1>1, <2>1, <2>2 DEF LabInv, Company
  <2>6. WayBack' BY <2>1, <2>2 DEF WayBack, Toggling
  <2>7. ChecklistTellsTheTruth' BY <1>1 DEF ChecklistTellsTheTruth
  <2> QED BY <2>3, <2>4, <2>5, <2>6, <2>7 DEF LabInv
<1> QED BY <1>3, <1>4

LEMMA LoadKeeps ==
  ASSUME LabInv, NEW j \in LabCalls, NEW l \in LabIds, LoadLab(j, l)
  PROVE  LabInv'
<1> DEFINE r == [Idle EXCEPT !.at = "load", !.of = l]
<1>1. r \in Call /\ r.at = "load" /\ r.of = l BY DEF Idle, Call, States
<1>2. running[j].at = "idle" /\ running' = [running EXCEPT ![j] = r] /\ Meets(j)
      /\ UNCHANGED <<checklist, lab, shown, doubt>>
  BY DEF LoadLab
<1> HIDE DEF r
<1> QED BY <1>1, <1>2, StartKeeps DEF LabInv, LabTypes

LEMMA ToggleKeeps ==
  ASSUME LabInv, NEW j \in LabCalls, NEW item \in Items, Toggle(j, item)
  PROVE  LabInv'
<1> DEFINE r == [at |-> "read", of |-> lab, item |-> item, read |-> {}, prev |-> shown]
<1>1. r \in Call /\ r.at = "read" /\ r.of = lab /\ r.item = item /\ r.prev = shown
      /\ lab \in LabIds /\ lab # NoLab
  BY DEF Call, States, LabInv, LabTypes, Toggle
<1>2. running[j].at = "idle" /\ running' = [running EXCEPT ![j] = r] /\ Meets(j)
      /\ UNCHANGED <<checklist, lab, doubt>> /\ shown' \in SUBSET Items
  BY FlippedIs DEF Toggle, LabInv, LabTypes
<1> HIDE DEF r
<1> QED BY <1>1, <1>2, StartKeeps

LEMMA ReadKeeps ==
  ASSUME LabInv, NEW j \in LabCalls, ChecklistRead(j)
  PROVE  LabInv'
<1> DEFINE flipped == Flipped(checklist[running[j].of], running[j].item)
<1>1. running[j].at = "read" /\ UNCHANGED <<checklist, lab, shown, met, doubt>> BY DEF ChecklistRead
<1>2. running[j].of \in LabIds /\ running[j].item \in Items
  BY <1>1 DEF LabInv, Directed
<1>3. flipped \in SUBSET Items BY <1>2, FlippedIs DEF LabInv, LabTypes
<1> HIDE DEF flipped
<1>4. running' = [running EXCEPT ![j].at = "write", ![j].read = flipped] BY DEF ChecklistRead, flipped
<1>5. \A k \in LabCalls : /\ k # j => running'[k] = running[k]
                          /\ k = j => /\ running'[k].at = "write" /\ running'[k].of = running[k].of
                                      /\ running'[k].item = running[k].item
                                      /\ running'[k].prev = running[k].prev
  BY <1>4 DEF LabInv, LabTypes, Call
<1>6. LabTypes'
  <2> DEFINE r == [running[j] EXCEPT !.at = "write", !.read = flipped]
  <2>1. running \in [LabCalls -> Call] BY DEF LabInv, LabTypes
  <2>2. r \in Call BY <1>3, <2>1 DEF Call, States
  <2>3. running' = [running EXCEPT ![j] = r] BY <1>4, <2>1
  <2> HIDE DEF r
  <2>4. running' \in [LabCalls -> Call] BY <2>1, <2>2, <2>3
  <2> QED BY <1>1, <2>4 DEF LabInv, LabTypes
<1>7. Directed' BY <1>2, <1>5 DEF LabInv, Directed
<1>8. Company' BY <1>1, <1>5 DEF LabInv, Company
<1>9. ChecklistTellsTheTruth' BY <1>5 DEF ChecklistTellsTheTruth
<1>10. WayBack' BY <1>1, <1>5 DEF LabInv, WayBack, Toggling
<1> QED BY <1>6, <1>7, <1>8, <1>9, <1>10 DEF LabInv

\* What ends a call: a load that answers or fails, a toggle that is stored or taken back.
LEMMA EndKeeps ==
  ASSUME LabInv, NEW j \in LabCalls, running[j].at # "idle", Ends(j), doubt' \in BOOLEAN,
         checklist' \in [LabIds -> SUBSET Items], lab' \in LabIds \union {NoLab}, shown' \in SUBSET Items,
         j \in met => doubt',
         j \notin met => doubt' \/ lab' = NoLab \/ shown' = checklist'[lab']
  PROVE  LabInv'
<1>1. \A k \in LabCalls : running'[k] = IF k = j THEN Idle ELSE running[k]
  BY DEF Ends, LabInv, LabTypes
<1>2. met' = met \ {j} BY DEF Ends
<1>3. LabTypes' BY IdleIs DEF Ends, LabInv, LabTypes
<1>4. Directed' BY <1>1, IdleIs DEF LabInv, Directed
<1>5. Company' BY <1>1, <1>2, IdleIs DEF LabInv, Company
<1>6. WayBack'
  <2>1. \A k \in LabCalls : running'[k].at # "idle" => k \in met'
    BY <1>1, <1>2, IdleIs DEF LabInv, Company
  <2> QED BY <2>1 DEF WayBack, Toggling
<1>7. ChecklistTellsTheTruth' BY DEF ChecklistTellsTheTruth
<1> QED BY <1>3, <1>4, <1>5, <1>6, <1>7 DEF LabInv

LEMMA LabReadKeeps ==
  ASSUME LabInv, NEW j \in LabCalls, LabRead(j)
  PROVE  LabInv'
<1>1. running[j].at = "load" /\ Ends(j) /\ UNCHANGED checklist /\ doubt' = (j \in met)
      /\ lab' = running[j].of /\ shown' = checklist[running[j].of]
  BY DEF LabRead
<1>2. running[j].of \in LabIds BY <1>1 DEF LabInv, Directed
<1>3. checklist \in [LabIds -> SUBSET Items] BY DEF LabInv, LabTypes
<1>4. doubt' \in BOOLEAN /\ (j \in met => doubt')
  <2>1. doubt' = (j \in met) BY <1>1
  <2>2. CASE j \in met BY <2>1, <2>2
  <2>3. CASE j \notin met BY <2>1, <2>3
  <2> QED BY <2>2, <2>3
<1> QED BY <1>1, <1>2, <1>3, <1>4, EndKeeps

LEMMA LoadFailsKeeps ==
  ASSUME LabInv, NEW j \in LabCalls, LoadFails(j)
  PROVE  LabInv'
<1>1. checklist \in [LabIds -> SUBSET Items] /\ doubt \in BOOLEAN BY DEF LabInv, LabTypes
<1> QED BY <1>1, EndKeeps DEF LoadFails

\* A write goes to the row that its toggle read.
LEMMA RowWritten ==
  ASSUME LabInv, NEW j \in LabCalls, running[j].at = "write",
         checklist' = [checklist EXCEPT ![running[j].of] = running[j].read]
  PROVE  /\ checklist' \in [LabIds -> SUBSET Items] /\ checklist'[running[j].of] = running[j].read
         /\ running[j].read \in SUBSET Items /\ running[j].prev \in SUBSET Items
<1>1. running[j].of \in LabIds /\ running[j].read \in SUBSET Items /\ running[j].prev \in SUBSET Items
  BY DEF LabInv, Directed, LabTypes, Call
<1> QED BY <1>1 DEF LabInv, LabTypes

LEMMA WrittenKeeps ==
  ASSUME LabInv, NEW j \in LabCalls, ChecklistWritten(j)
  PROVE  LabInv'
<1>1. /\ running[j].at = "write" /\ Ends(j) /\ UNCHANGED lab /\ doubt' = (j \in met)
      /\ checklist' = [checklist EXCEPT ![running[j].of] = running[j].read]
      /\ shown' = running[j].read
  BY DEF ChecklistWritten
<1>2. j \notin met => running[j].of = lab BY <1>1 DEF LabInv, WayBack, Toggling
<1>3. lab \in LabIds \union {NoLab} BY DEF LabInv, LabTypes
<1>4. doubt' \in BOOLEAN /\ (j \in met => doubt')
  <2>1. doubt' = (j \in met) BY <1>1
  <2>2. CASE j \in met BY <2>1, <2>2
  <2>3. CASE j \notin met BY <2>1, <2>3
  <2> QED BY <2>2, <2>3
<1>5. lab' = lab BY <1>1
<1>6. /\ checklist' \in [LabIds -> SUBSET Items] /\ checklist'[running[j].of] = running[j].read
      /\ running[j].read \in SUBSET Items
  BY <1>1, RowWritten
<1>7. j \notin met => shown' = checklist'[lab'] BY <1>1, <1>2, <1>5, <1>6
<1> QED BY <1>1, <1>3, <1>4, <1>5, <1>6, <1>7, EndKeeps

LEMMA ToggleFailsKeeps ==
  ASSUME LabInv, NEW j \in LabCalls, ToggleFails(j)
  PROVE  LabInv'
<1>1. Toggling(j) /\ Ends(j) /\ UNCHANGED <<checklist, lab>> /\ shown' = running[j].prev
      /\ doubt' = (doubt \/ j \in met)
  BY DEF ToggleFails, Toggling
<1>2. running[j].prev \in SUBSET Items /\ doubt \in BOOLEAN BY DEF LabInv, LabTypes, Call
<1>3. j \notin met => doubt \/ running[j].prev = checklist[lab] BY <1>1 DEF LabInv, WayBack
<1>4. checklist \in [LabIds -> SUBSET Items] /\ lab \in LabIds \union {NoLab} BY DEF LabInv, LabTypes
<1>5. running[j].at # "idle" BY <1>1 DEF Toggling
<1> QED BY <1>1, <1>2, <1>3, <1>4, <1>5, EndKeeps

LEMMA AnswerLostKeeps ==
  ASSUME LabInv, NEW j \in LabCalls, AnswerLost(j)
  PROVE  LabInv'
<1>1. lab \in LabIds \union {NoLab} BY DEF LabInv, LabTypes
<1> QED BY <1>1, RowWritten, EndKeeps DEF AnswerLost

LEMMA LabInvStep == LabInv /\ [LabNext]_labVars => LabInv'
<1> SUFFICES ASSUME LabInv, [LabNext]_labVars PROVE LabInv' OBVIOUS
<1>1. CASE UNCHANGED labVars
  BY <1>1 DEF labVars, LabInv, LabTypes, Directed, Company, WayBack, Toggling, ChecklistTellsTheTruth
<1>2. CASE LabNext
  <2>1. PICK j \in LabCalls : LabStep(j) BY <1>2 DEF LabNext
  <2> QED BY <2>1, LoadKeeps, LabReadKeeps, LoadFailsKeeps, ToggleKeeps, ReadKeeps, WrittenKeeps,
             ToggleFailsKeeps, AnswerLostKeeps DEF LabStep
<1> QED BY <1>1, <1>2

\* labs.svelte.ts:202-203, for any number of labs, items and calls: a flip that failed and was
\* not stored is taken back, and after a load or a toggle that succeeded by itself the open
\* lab shows what is stored, until calls meet or the answer of a write is lost.
THEOREM ChecklistIsTrue == LabSpec => []ChecklistTellsTheTruth
<1>1. LabInv => ChecklistTellsTheTruth
  BY DEF LabInv
<1> QED BY <1>1, LabInvStart, LabInvStep, PTL DEF LabSpec

-----------------------------------------------------------------------------
(* Generation.                                                             *)

Stations == {"off", "context", "instructions", "legacy", "move", "delete", "ask", "save", "add"}

PromptTypes ==
  /\ gen \in [Kinds -> [at : Stations, tries : Int]]
  /\ instructions \in [Kinds -> {"absent", "text", "own"}]
  /\ legacy \in [Kinds -> {"absent", "text"}]

\* Before the old row is deleted the new one is written: that is why the deletion,
\* which is a statement of its own, takes nothing away.
DeletedAfterwards == \A k \in Kinds : gen[k].at = "delete" => instructions[k] # "absent"

PromptInv == PromptTypes /\ DeletedAfterwards /\ LegacyIsKept

LEMMA PromptInit == GenerationInit => PromptInv
<1> SUFFICES ASSUME GenerationInit PROVE PromptInv OBVIOUS
<1>1. PromptTypes BY SMT DEF GenerationInit, PromptTypes, Off, Stations
<1>2. DeletedAfterwards BY SMT DEF GenerationInit, DeletedAfterwards, Off
<1>3. LegacyIsKept BY Zenon DEF GenerationInit, LegacyIsKept
<1> QED BY <1>1, <1>2, <1>3 DEF Stations, PromptInv

\* Steps that change where a generation stands, and no prompt.
LEMMA PromptsStay ==
  ASSUME PromptInv, NEW k \in Kinds, NEW r \in [at : Stations, tries : Int], r.at # "delete",
         UNCHANGED prompts, gen' = [gen EXCEPT ![k] = r]
  PROVE  PromptInv'
<1>1. PromptTypes' BY SMT DEF PromptInv, PromptTypes, prompts
<1>2. DeletedAfterwards' BY SMT DEF PromptInv, PromptTypes, DeletedAfterwards, prompts
<1>3. LegacyIsKept' BY Zenon DEF PromptInv, LegacyIsKept, prompts
<1> QED BY <1>1, <1>2, <1>3 DEF Stations, PromptInv

LEMMA ReachesStays ==
  ASSUME PromptInv, NEW k \in Kinds, NEW place \in Stations, place # "delete",
         UNCHANGED prompts, Reaches(k, place)
  PROVE  PromptInv'
<1> DEFINE r == [gen[k] EXCEPT !.at = place]
<1>1. gen[k] \in [at : Stations, tries : Int] BY SMT DEF PromptInv, PromptTypes
<1>2. r \in [at : Stations, tries : Int] /\ r.at = place BY SMT, <1>1
<1>3. gen' = [gen EXCEPT ![k] = r] BY Zenon DEF Reaches
<1> HIDE DEF r
<1> QED BY <1>2, <1>3, PromptsStay

LEMMA PromptStep ==
  ASSUME PromptInv, [GenerationNext]_generationVars
  PROVE  PromptInv'
<1> USE DEF prompts
<1>1. ASSUME NEW k \in Kinds, NEW place \in Stations, place # "delete", Reaches(k, place), UNCHANGED prompts
      PROVE  PromptInv'
  BY <1>1, ReachesStays
<1>2. ASSUME NEW k \in Kinds, GenerationEnds(k), UNCHANGED prompts
      PROVE  PromptInv'
  <2>1. Off \in [at : Stations, tries : Int] /\ Off.at # "delete" BY SMT DEF Off, Stations
  <2> QED BY <1>2, <2>1, PromptsStay DEF GenerationEnds
<1>3. ASSUME UNCHANGED <<gen, prompts>> PROVE PromptInv'
  BY <1>3 DEF PromptInv, PromptTypes, DeletedAfterwards, LegacyIsKept
<1>4. ASSUME NEW k \in Kinds, Generating(k) PROVE PromptInv'
  <2>1. CASE Generate(k) BY <1>1, <2>1 DEF Stations, Generate
  <2>2. CASE ContextRead(k) BY <1>1, <1>2, <2>2 DEF Stations, ContextRead
  <2>3. CASE InstructionsRead(k) BY <1>1, <2>3 DEF Stations, InstructionsRead
  <2>4. CASE LegacyRead(k) BY <1>1, <2>4 DEF Stations, LegacyRead
  <2>5. CASE LegacyMoved(k)
    <3>1. PromptTypes' BY SMT, <2>5 DEF LegacyMoved, Reaches, PromptInv, PromptTypes, Stations
    <3>2. DeletedAfterwards' BY SMT, <2>5 DEF LegacyMoved, Reaches, PromptInv, PromptTypes, DeletedAfterwards
    <3>3. \A j \in Kinds : had'[j] = had[j] /\ legacy'[j] = legacy[j]
                           /\ (instructions[j] # "absent" => instructions'[j] # "absent")
      BY SMT, <2>5 DEF LegacyMoved, PromptInv, PromptTypes
    <3>4. LegacyIsKept' BY Zenon, <3>3 DEF PromptInv, LegacyIsKept
    <3> QED BY <3>1, <3>2, <3>4 DEF PromptInv
  <2>6. CASE LegacyDeleted(k)
    <3>1. PromptTypes' BY SMT, <2>6 DEF LegacyDeleted, Reaches, PromptInv, PromptTypes, Stations
    <3>2. DeletedAfterwards' BY SMT, <2>6 DEF LegacyDeleted, Reaches, PromptInv, PromptTypes, DeletedAfterwards
    <3>3. \A j \in Kinds : had'[j] = had[j] /\ instructions'[j] = instructions[j]
                           /\ (legacy'[j] = legacy[j] \/ instructions[j] # "absent")
      BY SMT, <2>6 DEF LegacyDeleted, PromptInv, PromptTypes, DeletedAfterwards
    <3>4. LegacyIsKept' BY Zenon, <3>3 DEF PromptInv, LegacyIsKept
    <3> QED BY <3>1, <3>2, <3>4 DEF PromptInv
  <2>7. CASE Generated(k) BY <1>1, <2>7 DEF Stations, Generated
  <2>8. CASE Mismatch(k)
    <3> DEFINE r == [gen[k] EXCEPT !.tries = @ + 1]
    <3>1. gen[k] \in [at : Stations, tries : Int] /\ gen[k].at = "ask"
      BY SMT, <2>8 DEF Mismatch, PromptInv, PromptTypes
    <3>2. r \in [at : Stations, tries : Int] /\ r.at # "delete" BY SMT, <3>1
    <3>3. gen' = [gen EXCEPT ![k] = r] BY Zenon, <2>8 DEF Mismatch
    <3> HIDE DEF r
    <3> QED BY <3>2, <3>3, <2>8, PromptsStay DEF Mismatch
  <2>9. CASE NotGenerated(k) BY <1>2, <2>9 DEF NotGenerated
  <2>10. CASE Created(k)
    <3>1. GenerationEnds(k) \/ Reaches(k, "add") BY <2>10 DEF Created
    <3> QED BY <1>1, <1>2, <3>1, <2>10 DEF Stations, Created
  <2>11. CASE QuestionAdded(k)
    <3>1. GenerationEnds(k) \/ UNCHANGED gen BY <2>11 DEF QuestionAdded
    <3> QED BY <1>2, <1>3, <3>1, <2>11 DEF QuestionAdded
  <2>12. CASE SaveFails(k) BY <1>2, <2>12 DEF SaveFails
  <2>13. CASE LoadList(k) BY <1>3, <2>13 DEF LoadList
  <2>14. CASE SaveInstructions(k)
    <3>1. PromptTypes' BY SMT, <2>14 DEF SaveInstructions, PromptInv, PromptTypes
    <3>2. DeletedAfterwards' BY SMT, <2>14 DEF SaveInstructions, PromptInv, PromptTypes, DeletedAfterwards
    <3>3. \A j \in Kinds : had'[j] = had[j] /\ legacy'[j] = legacy[j]
                           /\ (instructions[j] # "absent" => instructions'[j] # "absent")
      BY SMT, <2>14 DEF SaveInstructions, PromptInv, PromptTypes
    <3>4. LegacyIsKept' BY Zenon, <3>3 DEF PromptInv, LegacyIsKept
    <3> QED BY <3>1, <3>2, <3>4 DEF PromptInv
  <2> QED
    BY <1>4, <2>1, <2>2, <2>3, <2>4, <2>5, <2>6, <2>7, <2>8, <2>9, <2>10, <2>11, <2>12, <2>13, <2>14 DEF Generating
<1>5. CASE SaveRaw BY <1>3, <1>5 DEF SaveRaw
<1>6. CASE DismissRawOffer BY <1>3, <1>6 DEF DismissRawOffer
<1>7. CASE Leave
  <2>1. PromptTypes' BY SMT, <1>7 DEF Leave, Off, PromptInv, PromptTypes, Stations
  <2>2. DeletedAfterwards' BY SMT, <1>7 DEF Leave, Off, DeletedAfterwards
  <2>3. LegacyIsKept' BY Zenon, <1>7 DEF Leave, PromptInv, LegacyIsKept
  <2> QED BY <2>1, <2>2, <2>3 DEF PromptInv
<1>8. CASE UNCHANGED generationVars BY <1>3, <1>8 DEF generationVars
<1> QED BY <1>4, <1>5, <1>6, <1>7, <1>8 DEF GenerationNext

\* readCustomInstructions (lib/ai/generate/assembly.ts:32): the prompt of an earlier
\* version is in one of its two rows until the user's own instructions come.
THEOREM PromptsSurvive == GenerationSpec => []LegacyIsKept
<1>1. GenerationSpec => []PromptInv BY PromptInit, PromptStep, PTL DEF GenerationSpec
<1>2. PromptInv => LegacyIsKept BY DEF PromptInv
<1> QED BY <1>1, <1>2, PTL

-----------------------------------------------------------------------------
(* Requests to an MCP server over HTTP.                                    *)

CallStates == {"new", "sent", "answered", "body", "error", "aborted", "over"}
Whats == {"first", "init", "retry"}
Place == [at : CallStates, what : Whats, sid : Nat, status : Nat, given : Nat]

CallTypes ==
  /\ runs \in [Calls -> Nat]
  /\ call \in [Calls -> Place]
  /\ minted \in Nat /\ session \in Nat

\* A request that may still reach the server, or be made again, has not run: it is
\* made again only after a 404, and an initialization runs nothing.
NotYet(r) ==
  \/ r.at \in {"new", "sent", "error"}
  \/ r.at = "answered" /\ (r.status # 200 \/ r.what = "init")
  \/ r.at = "body" /\ r.what = "init"

RunInv == CallTypes /\ \A c \in Calls : runs[c] <= 1 /\ (NotYet(call[c]) => runs[c] = 0)

LEMMA RunInvStart == HttpInit => RunInv
  BY DEF HttpInit, RunInv, CallTypes, Place, NotYet, Fresh, CallStates, Whats, None

\* One call moves to where it may run again only if it could before.
LEMMA OneMoves ==
  ASSUME RunInv, NEW c \in Calls, NEW r \in Place, call' = [call EXCEPT ![c] = r],
         UNCHANGED <<runs, minted>>, session' \in Nat, NotYet(r) => NotYet(call[c])
  PROVE  RunInv'
<1>1. \A d \in Calls : call'[d] = IF d = c THEN r ELSE call[d] BY DEF RunInv, CallTypes
<1>2. CallTypes' BY DEF RunInv, CallTypes
<1>3. \A d \in Calls : NotYet(call'[d]) => runs[d] = 0 BY <1>1 DEF RunInv
<1> QED BY <1>2, <1>3 DEF RunInv

LEMMA SentKeeps ==
  ASSUME RunInv, NEW c \in Calls, NotYet(call[c]), NEW what \in Whats, NEW sid \in Nat, Sent(c, what, sid),
         UNCHANGED <<runs, minted, session>>
  PROVE  RunInv'
<1> DEFINE r == [Fresh EXCEPT !.at = "sent", !.what = what, !.sid = sid]
<1>1. r \in Place BY DEF Fresh, CallStates, Whats, Place, None
<1>2. call' = [call EXCEPT ![c] = r] /\ session' \in Nat BY DEF Sent, RunInv, CallTypes
<1> HIDE DEF r
<1> QED BY <1>1, <1>2, OneMoves

LEMMA OverKeeps ==
  ASSUME RunInv, NEW c \in Calls, Over(c), UNCHANGED <<runs, minted, session>>
  PROVE  RunInv'
<1> DEFINE r == [call[c] EXCEPT !.at = "over"]
<1>1. call[c] \in Place BY DEF RunInv, CallTypes
<1>2. r \in Place /\ ~NotYet(r) BY <1>1 DEF Place, CallStates, NotYet
<1>3. call' = [call EXCEPT ![c] = r] /\ session' \in Nat BY DEF Over, RunInv, CallTypes
<1> HIDE DEF r
<1> QED BY <1>2, <1>3, OneMoves

\* The answer of a request that did not run: a refusal, or a session.
LEMMA RefusedKeeps ==
  ASSUME RunInv, NEW c \in Calls, call[c].at = "sent", NEW status \in Nat, NEW given \in Nat,
         Answers(c, status, given), minted' \in Nat, UNCHANGED <<runs, session>>
  PROVE  RunInv'
<1> DEFINE r == [call[c] EXCEPT !.at = "answered", !.status = status, !.given = given]
<1>1. call[c] \in Place /\ NotYet(call[c]) BY DEF RunInv, CallTypes, NotYet
<1>2. r \in Place BY <1>1 DEF Place, CallStates
<1>3. call' = [call EXCEPT ![c] = r] BY DEF Answers
<1> HIDE DEF r
<1>4. \A d \in Calls : call'[d] = IF d = c THEN r ELSE call[d] BY <1>3 DEF RunInv, CallTypes
<1>5. CallTypes' BY <1>2, <1>3 DEF RunInv, CallTypes
<1>6. \A d \in Calls : NotYet(call'[d]) => runs[d] = 0 BY <1>1, <1>4 DEF RunInv
<1> QED BY <1>5, <1>6 DEF RunInv

\* The one step that runs a request ends its chance to run.
LEMMA ServeKeeps ==
  ASSUME RunInv, NEW c \in Calls, Serve(c)
  PROVE  RunInv'
<1>1. PICK given \in {None, call[c].sid} : Answers(c, 200, given) BY DEF Serve
<1> DEFINE r == [call[c] EXCEPT !.at = "answered", !.status = 200, !.given = given]
<1>2. call[c] \in Place /\ call[c].what # "init" /\ NotYet(call[c])
  BY DEF Serve, RunInv, CallTypes, NotYet
<1>3. given \in Nat BY <1>2 DEF Place, None
<1>4. r \in Place /\ ~NotYet(r)
  <2>1. r \in Place BY <1>2, <1>3, ZenonT(60) DEF Place, CallStates
  <2>2. r.at = "answered" /\ r.status = 200 /\ r.what # "init" BY <1>2 DEF Place
  <2> HIDE DEF r
  <2> QED BY <2>1, <2>2 DEF NotYet
<1>5. call' = [call EXCEPT ![c] = r] BY <1>1 DEF Answers
<1> HIDE DEF r
<1>6. \A d \in Calls : call'[d] = IF d = c THEN r ELSE call[d] BY <1>5 DEF RunInv, CallTypes
<1>7. runs' = [runs EXCEPT ![c] = @ + 1] /\ UNCHANGED <<minted, session>> BY DEF Serve, mcpServer
<1>8. \A d \in Calls : runs'[d] = IF d = c THEN 1 ELSE runs[d]
  BY <1>2, <1>7 DEF RunInv, CallTypes
<1>9. CallTypes' BY <1>4, <1>5, <1>7 DEF RunInv, CallTypes
<1> QED BY <1>4, <1>6, <1>8, <1>9 DEF RunInv

LEMMA HeadersKeeps ==
  ASSUME RunInv, NEW c \in Calls, Headers(c)
  PROVE  RunInv'
<1> DEFINE r == [call[c] EXCEPT !.at = IF call[c].status = 200 THEN "body" ELSE "error"]
<1>1. call[c] \in Place /\ session \in Nat BY DEF RunInv, CallTypes
<1>2. r \in Place /\ (NotYet(r) => NotYet(call[c]))
  BY <1>1 DEF Headers, Place, CallStates, NotYet
<1>3. call' = [call EXCEPT ![c] = r] /\ UNCHANGED <<runs, minted>> /\ session' \in Nat
  BY <1>1 DEF Headers, Place, None, mcpServer
<1> HIDE DEF r
<1> QED BY <1>2, <1>3, OneMoves

LEMMA CloseKeeps ==
  ASSUME RunInv, Close
  PROVE  RunInv'
<1>1. \A c \in Calls :
        call'[c] = IF call[c].at \in {"sent", "answered"} THEN [call[c] EXCEPT !.at = "aborted"] ELSE call[c]
  BY DEF Close
<1>2. \A c \in Calls : call[c] \in Place BY DEF RunInv, CallTypes
<1>3. ASSUME NEW c \in Calls
      PROVE  call'[c] \in Place /\ (NotYet(call'[c]) => NotYet(call[c]))
  <2>1. CASE call[c].at \in {"sent", "answered"}
    <3>1. call'[c] = [call[c] EXCEPT !.at = "aborted"] BY <1>1, <2>1
    <3> QED BY <1>2, <3>1 DEF Place, CallStates, NotYet
  <2>2. CASE call[c].at \notin {"sent", "answered"} BY <1>1, <1>2, <2>2
  <2> QED BY <2>1, <2>2
<1>4. call' \in [Calls -> Place] BY <1>3 DEF Close
<1>5. CallTypes' BY <1>4 DEF Close, RunInv, CallTypes
<1> QED BY <1>3, <1>5 DEF Close, RunInv

LEMMA CallStepKeeps ==
  ASSUME RunInv, NEW c \in Calls, CallStep(c)
  PROVE  RunInv'
<1>0. call[c] \in Place /\ session \in Nat /\ minted \in Nat BY DEF RunInv, CallTypes
<1>1. CASE Request(c)
  BY <1>0, <1>1, SentKeeps DEF Request, NotYet, Whats, mcpServer
<1>2. CASE Serve(c) BY <1>2, ServeKeeps
<1>3. CASE Reject(c)
  <2>1. (IF call[c].sid = None THEN 400 ELSE 404) \in Nat /\ None \in Nat BY DEF None
  <2> QED BY <1>0, <1>3, <2>1, RefusedKeeps DEF Reject, mcpServer
<1>4. CASE Initialize(c)
  <2>1. call[c].at = "sent" /\ UNCHANGED <<runs, session>> BY <1>4 DEF Initialize
  <2>2. CASE minted' = minted + 1 /\ Answers(c, 200, minted')
    BY <1>0, <2>1, <2>2, RefusedKeeps
  <2>3. CASE Answers(c, 400, None) /\ UNCHANGED mcpServer
    <3>1. None \in Nat BY DEF None
    <3> QED BY <1>0, <2>1, <2>3, <3>1, RefusedKeeps DEF mcpServer
  <2> QED BY <1>4, <2>2, <2>3 DEF Initialize
<1>5. CASE Lost(c) BY <1>5, OverKeeps DEF Lost, Fails, mcpServer
<1>6. CASE Headers(c) BY <1>6, HeadersKeeps
<1>7. CASE Body(c)
  <2>1. CASE call[c].what = "init"
    BY <1>0, <1>7, <2>1, SentKeeps DEF Body, NotYet, Whats, mcpServer
  <2>2. CASE call[c].what # "init" BY <1>7, <2>2, OverKeeps DEF Body, mcpServer
  <2> QED BY <2>1, <2>2
<1>8. CASE BodyFails(c) BY <1>8, OverKeeps DEF BodyFails, Fails, mcpServer
<1>9. CASE Error(c)
  <2>1. CASE Sent(c, "init", session) BY <1>0, <1>9, <2>1, SentKeeps DEF Error, NotYet, Whats, mcpServer
  <2>2. CASE Over(c) BY <1>9, <2>2, OverKeeps DEF Error, mcpServer
  <2> QED BY <1>9, <2>1, <2>2 DEF Error, Fails
<1>10. CASE Aborted(c) BY <1>10, OverKeeps DEF Aborted, Fails, mcpServer
<1> QED BY <1>1, <1>2, <1>3, <1>4, <1>5, <1>6, <1>7, <1>8, <1>9, <1>10 DEF CallStep

LEMMA RunInvStep == RunInv /\ [HttpNext]_httpVars => RunInv'
<1> SUFFICES ASSUME RunInv, [HttpNext]_httpVars PROVE RunInv' OBVIOUS
<1>1. CASE UNCHANGED httpVars BY <1>1 DEF httpVars, mcpServer, RunInv, CallTypes, NotYet
<1>2. CASE \E c \in Calls : CallStep(c) BY <1>2, CallStepKeeps
<1>3. CASE Forget BY <1>3 DEF Forget, RunInv, CallTypes, NotYet
<1>4. CASE Close BY <1>4, CloseKeeps
<1> QED BY <1>1, <1>2, <1>3, <1>4 DEF HttpNext

\* A call that http.ts:88 and client.ts:122 let be repeated, after the session
\* it was made under was forgotten, is run by the server once at most.
THEOREM RunsOnce == HttpSpec => []CallsRunOnce
<1>1. RunInv => CallsRunOnce BY DEF RunInv, CallsRunOnce
<1> QED BY <1>1, RunInvStart, RunInvStep, PTL DEF HttpSpec

-----------------------------------------------------------------------------
(* Telemetry.                                                              *)

-----------------------------------------------------------------------------
(* The two cuts of a sequence.                                             *)

LEMMA NewestIs ==
  ASSUME NEW S, NEW s \in Seq(S), NEW n \in Nat
  PROVE  /\ Newest(s, n) \in Seq(S)
         /\ Len(Newest(s, n)) <= Len(s)
         /\ Len(s) <= n => Newest(s, n) = s
         /\ Len(s) > n => Len(Newest(s, n)) = n
         /\ \A i \in 1 .. Len(Newest(s, n)) : Newest(s, n)[i] = s[Len(s) - Len(Newest(s, n)) + i]
<1>1. Len(s) \in Nat /\ \A i \in 1 .. Len(s) : s[i] \in S
  BY LenProperties, ElementOfSeq
<1>2. CASE Len(s) > n
  <2> DEFINE m == Len(s) - n + 1
  <2>1. m \in Int /\ \A i \in m .. Len(s) : s[i] \in S
    BY <1>1, <1>2
  <2>2. /\ SubSeq(s, m, Len(s)) \in Seq(S)
        /\ Len(SubSeq(s, m, Len(s))) = IF m <= Len(s) THEN Len(s) - m + 1 ELSE 0
        /\ \A i \in 1 .. Len(s) - m + 1 : SubSeq(s, m, Len(s))[i] = s[m + i - 1]
    BY <1>1, <2>1, SubSeqProperties
  <2>3. Newest(s, n) = SubSeq(s, m, Len(s))
    BY <1>2 DEF Newest
  <2>4. Len(Newest(s, n)) = n
    BY <1>1, <1>2, <2>2, <2>3
  <2>5. \A i \in 1 .. n : Newest(s, n)[i] = s[Len(s) - n + i]
    BY <1>1, <1>2, <2>2, <2>3
  <2> QED BY <1>1, <1>2, <2>2, <2>3, <2>4, <2>5
<1>3. CASE ~(Len(s) > n)
  <2>1. Newest(s, n) = s BY <1>3 DEF Newest
  <2> QED BY <1>1, <1>3, <2>1
<1> QED BY <1>2, <1>3

LEMMA OldestIs ==
  ASSUME NEW S, NEW s \in Seq(S), NEW n \in Nat
  PROVE  /\ Oldest(s, n) \in Seq(S)
         /\ Len(Oldest(s, n)) \in 0 .. Len(s)
         /\ \A i \in 1 .. Len(Oldest(s, n)) : Oldest(s, n)[i] = s[i]
<1> DEFINE m == IF Len(s) < n THEN Len(s) ELSE n
<1>1. Len(s) \in Nat /\ \A i \in 1 .. Len(s) : s[i] \in S
  BY LenProperties, ElementOfSeq
<1>2. m \in Nat /\ m <= Len(s) BY <1>1
<1>3. \A i \in 1 .. m : s[i] \in S BY <1>1, <1>2
<1> HIDE DEF m
<1>4. /\ SubSeq(s, 1, m) \in Seq(S)
      /\ Len(SubSeq(s, 1, m)) = IF 1 <= m THEN m - 1 + 1 ELSE 0
      /\ \A i \in 1 .. m - 1 + 1 : SubSeq(s, 1, m)[i] = s[1 + i - 1]
  BY <1>2, <1>3, SubSeqProperties
<1>5. Oldest(s, n) = SubSeq(s, 1, m) BY DEF Oldest, m
<1> QED BY <1>1, <1>2, <1>4, <1>5

LEMMA RestIs ==
  ASSUME NEW S, NEW s \in Seq(S), NEW n \in Nat
  PROVE  /\ SubSeq(s, n + 1, Len(s)) \in Seq(S)
         /\ n <= Len(s) => Len(SubSeq(s, n + 1, Len(s))) = Len(s) - n
         /\ \A i \in 1 .. Len(SubSeq(s, n + 1, Len(s))) :
              n + i \in 1 .. Len(s) /\ SubSeq(s, n + 1, Len(s))[i] = s[n + i]
<1>1. Len(s) \in Nat /\ \A i \in 1 .. Len(s) : s[i] \in S
  BY LenProperties, ElementOfSeq
<1>2. \A i \in n + 1 .. Len(s) : s[i] \in S BY <1>1
<1>3. /\ SubSeq(s, n + 1, Len(s)) \in Seq(S)
      /\ Len(SubSeq(s, n + 1, Len(s))) = IF n + 1 <= Len(s) THEN Len(s) - (n + 1) + 1 ELSE 0
      /\ \A i \in 1 .. Len(s) - (n + 1) + 1 : SubSeq(s, n + 1, Len(s))[i] = s[(n + 1) + i - 1]
  BY <1>1, <1>2, SubSeqProperties
<1> QED BY <1>1, <1>3

-----------------------------------------------------------------------------
(* The page sends sequences of records, whatever happens to them.          *)

Rec == [rich : BOOLEAN]
PostPlaces == {"none", "sent", "read", "gate", "answered", "lost"}
Post == [at : PostPlaces, batch : Seq(Rec), cfg : Modes, page : BOOLEAN]

PageInv == buffer \in Seq(Rec) /\ post \in [Posts -> Post]

LEMMA Bounds ==
  /\ BUFFER_BOUND \in Nat /\ BUFFER_BOUND > 0
  /\ QUEUE_BOUND \in Nat /\ QUEUE_BOUND > 0
  /\ FLUSH_BATCH_RECORDS \in Nat /\ FLUSH_BATCH_RECORDS > 0
  BY TelemetryAssumption

LEMMA NoPostIs == NoPost \in Post
<1>1. <<>> \in Seq(Rec) BY EmptySeq
<1> QED BY <1>1 DEF NoPost, Post, PostPlaces, Modes

LEMMA FlushKeeps ==
  ASSUME PageInv, NEW records \in Seq(Rec), Flush(records)
  PROVE  PageInv'
<1> DEFINE out == Oldest(records, BUFFER_BOUND)
<1>1. out \in Seq(Rec) /\ Len(out) \in Nat
  BY Bounds, OldestIs, LenProperties
<1>2. SubSeq(records, Len(out) + 1, Len(records)) \in Seq(Rec)
  BY <1>1, RestIs
<1>3. <<>> \in Seq(Rec) BY EmptySeq
<1> HIDE DEF out
<1>4. CASE mode = "off" \/ records = <<>>
  BY <1>3, <1>4 DEF Flush, PageInv
<1>5. ASSUME NEW p \in Posts, post' = [post EXCEPT ![p] = [NoPost EXCEPT !.at = "sent", !.batch = out]],
             buffer' = SubSeq(records, Len(out) + 1, Len(records))
      PROVE  PageInv'
  <2>1. [NoPost EXCEPT !.at = "sent", !.batch = out] \in Post
    BY <1>1 DEF NoPost, Post, PostPlaces, Modes
  <2> QED BY <1>2, <1>5, <2>1 DEF PageInv
<1> QED BY <1>4, <1>5 DEF Flush, out

LEMMA GivenBackKeeps ==
  ASSUME PageInv, NEW p \in Posts, GivenBack(p)
  PROVE  PageInv'
<1>1. post[p].batch \in Seq(Rec) BY DEF PageInv, Post
<1>2. post[p].batch \o buffer \in Seq(Rec)
  BY <1>1, ConcatProperties DEF PageInv
<1>3. Newest(post[p].batch \o buffer, BUFFER_BOUND) \in Seq(Rec)
  BY <1>2, Bounds, NewestIs
<1>4. buffer' \in Seq(Rec)
  BY <1>3 DEF GivenBack, Requeue, PageInv
<1> QED BY <1>4, NoPostIs DEF GivenBack, PageInv

LEMMA PageInit == Init => PageInv
<1>1. <<>> \in Seq(Rec) BY EmptySeq
<1> QED BY <1>1, NoPostIs DEF Init, PageInv

LEMMA PageStep ==
  ASSUME PageInv, [Next]_vars
  PROVE  PageInv'
<1>1. ASSUME UNCHANGED <<buffer, post>> PROVE PageInv'
  BY <1>1 DEF PageInv
<1>2. CASE Relay
  <2> DEFINE record == [rich |-> mode = "content"]
             kept == Newest(Append(buffer, record), BUFFER_BOUND)
  <2>1. record \in Rec BY DEF Rec
  <2>2. Append(buffer, record) \in Seq(Rec)
    BY <2>1, AppendProperties DEF PageInv
  <2>3. kept \in Seq(Rec) BY <2>2, Bounds, NewestIs
  <2>4. Flush(kept) \/ (buffer' = kept /\ UNCHANGED post) BY <1>2 DEF Relay
  <2> QED BY <2>3, <2>4, FlushKeeps DEF PageInv
<1>3. CASE Window
  BY <1>3, FlushKeeps DEF Window, PageInv
<1>4. CASE Reload
  <2>1. <<>> \in Seq(Rec) BY EmptySeq
  <2>2. \A p \in Posts : [post[p] EXCEPT !.page = post[p].at = "none"] \in Post
    BY DEF PageInv, Post
  <2> QED BY <1>4, <2>1, <2>2 DEF Reload, PageInv
<1>5. CASE Restart
  <2>1. \A p \in Posts : [post[p] EXCEPT !.at = IF @ = "none" THEN "none" ELSE "lost"] \in Post
    BY DEF PageInv, Post, PostPlaces
  <2>2. UNCHANGED buffer BY <1>5 DEF Restart, page
  <2>3. post' = [p \in Posts |-> [post[p] EXCEPT !.at = IF @ = "none" THEN "none" ELSE "lost"]]
    BY <1>5 DEF Restart
  <2> QED BY <2>1, <2>2, <2>3 DEF PageInv
<1>6. CASE Expire BY <1>1, <1>6 DEF Expire, page
<1>7. ASSUME NEW p \in Posts, PostStep(p) \/ PostLost(p) PROVE PageInv'
  <2>1. CASE PostReads(p)
    <3>1. UNCHANGED buffer BY <2>1 DEF PostReads, page
    <3>2. PICK v \in Modes, next \in Places : post' = [post EXCEPT ![p].at = next, ![p].cfg = v]
      BY <2>1 DEF PostReads
    <3> QED BY <3>1, <3>2, ZenonT(40) DEF PageInv, Post, PostPlaces, Places
  <2>2. CASE PostCaches(p)
    BY <2>2 DEF PostCaches, PageInv, Post, PostPlaces, page
  <2>3. CASE Gate(p)
    BY <2>3 DEF Gate, PageInv, Post, PostPlaces, page
  <2>4. CASE Answered(p)
    BY <2>4, NoPostIs DEF Answered, PageInv, page
  <2>5. CASE PostFails(p) BY <2>5, GivenBackKeeps DEF PostFails
  <2>6. CASE PostLost(p) BY <2>6, GivenBackKeeps DEF PostLost
  <2> QED BY <1>7, <2>1, <2>2, <2>3, <2>4, <2>5, <2>6 DEF PostStep
<1>8. CASE RunFlush BY <1>1, <1>8 DEF RunFlush, page
<1>9. ASSUME NEW f \in Flights, FlightStep(f) \/ FlushDelivers(f) \/ FlushFails(f) PROVE PageInv'
  BY <1>1, <1>9 DEF FlightStep, FlushReads, FlushCaches, FlushBegins, FlushDelivers, FlushFails, page
<1>10. ASSUME NEW want \in Modes, Save(want) PROVE PageInv'
  BY <1>1, <1>10 DEF Save, page
<1>11. CASE PutStep
  BY <1>1, <1>11 DEF PutStep, PutReads, PutCaches, Probed, PutWrites, PutDone, PutAnswered, page
<1>12. CASE UNCHANGED vars BY <1>1, <1>12 DEF vars, page
<1> QED BY <1>2, <1>3, <1>4, <1>5, <1>6, <1>7, <1>8, <1>9, <1>10, <1>11, <1>12 DEF Next

-----------------------------------------------------------------------------
(* The books.                                                              *)

Entry == [k : Nat, rich : BOOLEAN]
Flight == [at : {"none", "config", "read", "gate", "deliver"}, batch : Seq(Entry), cfg : Modes]

BookTypes ==
  /\ queue \in Seq(Entry)
  /\ flight \in [Flights -> Flight] /\ flushing \in BOOLEAN
  /\ entries \in Nat /\ before \in 0 .. entries
  /\ disturbed \in BOOLEAN

\* Records wait in the order of their numbers, none of them older than the switch.
Ordered ==
  /\ \A i \in 1 .. Len(queue) : before < queue[i].k /\ queue[i].k <= entries
  /\ \A i, j \in 1 .. Len(queue) : i < j => queue[i].k < queue[j].k

\* One run of runFlush is under way at a time.
OneFlight ==
  \A f, g \in Flights : flight[f].at # "none" => flushing /\ (flight[g].at # "none" => f = g)

\* What is being delivered was accepted, and stands at the front of the queue still,
\* unless something was dropped meanwhile.
AtTheFront ==
  \A f \in Flights :
    /\ \A i \in 1 .. Len(flight[f].batch) : flight[f].batch[i].k \in 1 .. entries
    /\ flight[f].at = "deliver" /\ ~disturbed =>
         /\ Len(flight[f].batch) <= Len(queue)
         /\ \A i \in 1 .. Len(flight[f].batch) : flight[f].batch[i] = queue[i]

Known == delivered \subseteq 1 .. entries

Accounted ==
  ~disturbed =>
    /\ 1 .. entries = EntriesOf(queue) \union delivered \union dropped
    /\ EntriesOf(queue) \intersect delivered = {}

BookInv == BookTypes /\ Ordered /\ OneFlight /\ AtTheFront /\ Known /\ Accounted

LEMMA NoFlightIs == NoFlight \in Flight /\ NoFlight.at = "none" /\ NoFlight.batch = <<>>
<1>1. <<>> \in Seq(Entry) BY EmptySeq
<1> QED BY <1>1 DEF NoFlight, Flight, Modes

LEMMA EntriesAre ==
  ASSUME NEW s \in Seq(Entry), NEW n
  PROVE  n \in EntriesOf(s) <=> \E i \in 1 .. Len(s) : n = s[i].k
<1>1. DOMAIN s = 1 .. Len(s) BY LenProperties
<1> QED BY <1>1 DEF EntriesOf

LEMMA BookInit == Init => BookInv
<1> SUFFICES ASSUME Init PROVE BookInv OBVIOUS
<1>1. queue = <<>> /\ queue \in Seq(Entry) /\ Len(queue) = 0 BY EmptySeq DEF Init
<1>2. EntriesOf(queue) = {}
  <2>1. DOMAIN queue = {} BY <1>1, LenProperties
  <2> QED BY <2>1 DEF EntriesOf
<1>3. \A f \in Flights : flight[f] = NoFlight BY DEF Init
<1>4. Len(<<>>) = 0 BY EmptySeq
<1>5. BookTypes
  <2>1. flight \in [Flights -> Flight] BY NoFlightIs DEF Init
  <2>2. entries = 0 /\ before = 0 /\ flushing = FALSE /\ disturbed = FALSE BY DEF Init
  <2>3. entries \in Nat /\ before \in 0 .. entries BY <2>2
  <2> QED BY <1>1, <2>1, <2>2, <2>3 DEF BookTypes
<1>6. Ordered /\ OneFlight /\ AtTheFront
  BY <1>1, <1>3, <1>4, NoFlightIs DEF Ordered, OneFlight, AtTheFront
<1>7. Known /\ Accounted BY <1>2 DEF Init, Known, Accounted
<1> QED BY <1>5, <1>6, <1>7 DEF BookInv

\* A step of one run that stays under way, or ends, without a look at the queue.
LEMMA RunMoves ==
  ASSUME BookInv, NEW f \in Flights, NEW r \in Flight, r.at # "deliver",
         flight[f].at # "none", flight' = [flight EXCEPT ![f] = r],
         r.batch = flight[f].batch \/ r.batch = <<>>,
         UNCHANGED <<queue, books>>,
         UNCHANGED flushing \/ (r.at = "none" /\ flushing' = FALSE)
  PROVE  BookInv'
<1> USE DEF books
<1>1. \A g \in Flights : flight'[g] = IF g = f THEN r ELSE flight[g]
  BY DEF BookInv, BookTypes
<1>2. BookTypes' BY DEF BookInv, BookTypes
<1>3. OneFlight'
  <2>1. \A g \in Flights : flight[g].at # "none" => g = f /\ flushing
    BY DEF BookInv, OneFlight
  <2> QED BY <1>1, <2>1 DEF OneFlight
<1>4. AtTheFront'
  <2>1. Len(<<>>) = 0 BY EmptySeq
  <2> QED BY <1>1, <2>1 DEF BookInv, AtTheFront
<1>5. Ordered' /\ Known' /\ Accounted'
  BY DEF BookInv, Ordered, Known, Accounted
<1> QED BY <1>2, <1>3, <1>4, <1>5 DEF BookInv

\* Other steps leave all of it alone.
LEMMA BooksStay ==
  ASSUME BookInv, UNCHANGED <<queue, flushing, flight, books>>
  PROVE  BookInv'
  BY DEF BookInv, BookTypes, Ordered, OneFlight, AtTheFront, Known, Accounted, books

\* What Gate makes of the queue and the batch that came in.
LEMMA GateKeeps ==
  ASSUME PageInv, BookInv, NEW p \in Posts, Gate(p)
  PROVE  BookInv'
<1> DEFINE batch == post[p].batch
           new == [i \in DOMAIN batch |-> [k |-> entries + i, rich |-> batch[i].rich]]
           all == queue \o new
<1> USE DEF books
<1>1. CASE UNCHANGED <<queue, armed, entries, dropped, disturbed>>
  BY <1>1, BooksStay DEF Gate
<1>2. CASE /\ queue' = Newest(all, QUEUE_BOUND) /\ armed' = TRUE
           /\ entries' = entries + Len(batch)
           /\ Drops(EntriesOf(all) \ EntriesOf(queue'))
  <2>1. batch \in Seq(Rec) /\ Len(batch) \in Nat /\ DOMAIN batch = 1 .. Len(batch)
    BY LenProperties DEF PageInv, Post
  <2>2. \A i \in 1 .. Len(batch) : batch[i] \in Rec BY <2>1, ElementOfSeq
  <2> HIDE DEF batch
  <2>3. new \in [1 .. Len(batch) -> Entry]
    BY <2>1, <2>2 DEF Entry, Rec, BookInv, BookTypes
  <2>4. new \in Seq(Entry) /\ Len(new) = Len(batch)
    BY <2>1, <2>3
  <2>5. \A i \in 1 .. Len(new) : new[i].k = entries + i
    BY <2>1, <2>4
  <2> HIDE DEF new
  <2>6. queue \in Seq(Entry) /\ Len(queue) \in Nat /\ entries \in Nat /\ before \in 0 .. entries
    BY LenProperties DEF BookInv, BookTypes
  <2>7. /\ all \in Seq(Entry) /\ Len(all) = Len(queue) + Len(new)
        /\ \A i \in 1 .. Len(queue) + Len(new) : all[i] = IF i <= Len(queue) THEN queue[i] ELSE new[i - Len(queue)]
    BY <2>4, <2>6, ConcatProperties
  <2>7a. \A i \in 1 .. Len(all) : all[i].k = IF i <= Len(queue) THEN queue[i].k ELSE entries + (i - Len(queue))
    <3> SUFFICES ASSUME NEW i \in 1 .. Len(all)
                 PROVE  all[i].k = IF i <= Len(queue) THEN queue[i].k ELSE entries + (i - Len(queue))
      OBVIOUS
    <3>1. CASE i <= Len(queue) BY <2>7, <3>1
    <3>2. CASE ~(i <= Len(queue))
      <4>1. i - Len(queue) \in 1 .. Len(new) BY <2>1, <2>4, <2>6, <2>7, <3>2
      <4> QED BY <2>5, <2>7, <3>2, <4>1
    <3> QED BY <3>1, <3>2
  <2>8. /\ \A i \in 1 .. Len(all) : before < all[i].k /\ all[i].k <= entries'
        /\ \A i, j \in 1 .. Len(all) : i < j => all[i].k < all[j].k
        /\ \A i \in 1 .. Len(all) : all[i].k \in Nat
    <3>1. \A i \in 1 .. Len(queue) : before < queue[i].k /\ queue[i].k <= entries /\ queue[i].k \in Nat
      <4>1. \A i \in 1 .. Len(queue) : queue[i] \in Entry BY <2>6, ElementOfSeq
      <4> QED BY <4>1 DEF BookInv, Ordered, Entry
    <3>2. \A i, j \in 1 .. Len(queue) : i < j => queue[i].k < queue[j].k
      BY DEF BookInv, Ordered
    <3>3. entries' = entries + Len(new) BY <1>2, <2>4
    <3>4. Len(new) \in Nat BY <2>1, <2>4
    <3>5. Len(queue) \in Nat /\ entries \in Nat /\ Len(all) = Len(queue) + Len(new) /\ before \in 0 .. entries
      BY <2>6, <2>7
    <3> HIDE DEF all
    <3>6. ASSUME NEW i \in 1 .. Len(all)
          PROVE  before < all[i].k /\ all[i].k <= entries' /\ all[i].k \in Nat
      <4>1. CASE i <= Len(queue)
        <5>1. i \in 1 .. Len(queue) /\ all[i].k = queue[i].k BY <2>7a, <3>5, <4>1
        <5>2. before < queue[i].k /\ queue[i].k <= entries /\ queue[i].k \in Nat BY <3>1, <5>1
        <5> QED BY <3>3, <3>4, <3>5, <5>1, <5>2
      <4>2. CASE ~(i <= Len(queue))
        <5>1. all[i].k = entries + (i - Len(queue)) BY <2>7a, <4>2
        <5>2. i - Len(queue) \in 1 .. Len(new) BY <3>4, <3>5, <4>2
        <5> QED BY <3>3, <3>4, <3>5, <5>1, <5>2
      <4> QED BY <4>1, <4>2
    <3>7. ASSUME NEW i \in 1 .. Len(all), NEW j \in 1 .. Len(all), i < j
          PROVE  all[i].k < all[j].k
      <4>1. CASE j <= Len(queue)
        <5>1. i \in 1 .. Len(queue) /\ j \in 1 .. Len(queue) BY <3>4, <3>5, <3>7, <4>1
        <5>2. all[i].k = queue[i].k /\ all[j].k = queue[j].k BY <2>7a, <5>1
        <5> QED BY <3>2, <3>7, <5>1, <5>2
      <4>2. CASE ~(j <= Len(queue)) /\ i <= Len(queue)
        <5>1. i \in 1 .. Len(queue) /\ all[i].k = queue[i].k BY <2>7a, <3>5, <4>2
        <5>2. queue[i].k <= entries /\ queue[i].k \in Nat BY <3>1, <5>1
        <5>3. all[j].k = entries + (j - Len(queue)) BY <2>7a, <4>2
        <5>4. j - Len(queue) \in 1 .. Len(new) BY <3>4, <3>5, <4>2
        <5> QED BY <3>4, <3>5, <5>1, <5>2, <5>3, <5>4
      <4>3. CASE ~(i <= Len(queue)) /\ ~(j <= Len(queue))
        <5>1. all[i].k = entries + (i - Len(queue)) /\ all[j].k = entries + (j - Len(queue))
          BY <2>7a, <4>3
        <5> QED BY <3>4, <3>5, <3>7, <5>1
      <4> QED BY <4>1, <4>2, <4>3
    <3> QED BY <3>6, <3>7
  <2> HIDE DEF all
  <2>9. /\ queue' \in Seq(Entry)
        /\ Len(queue') \in Nat /\ Len(queue') <= Len(all)
        /\ Len(all) <= QUEUE_BOUND => queue' = all
        /\ Len(all) > QUEUE_BOUND => Len(queue') = QUEUE_BOUND
        /\ \A i \in 1 .. Len(queue') : queue'[i] = all[Len(all) - Len(queue') + i]
    <3> DEFINE kept == Newest(all, QUEUE_BOUND)
    <3>1. /\ kept \in Seq(Entry) /\ Len(kept) <= Len(all)
          /\ Len(all) <= QUEUE_BOUND => kept = all
          /\ Len(all) > QUEUE_BOUND => Len(kept) = QUEUE_BOUND
          /\ \A i \in 1 .. Len(kept) : kept[i] = all[Len(all) - Len(kept) + i]
      <4>1. all \in Seq(Entry) /\ QUEUE_BOUND \in Nat BY <2>7, Bounds
      <4> QED BY ONLY <4>1, NewestIs
    <3>2. Len(kept) \in Nat BY <3>1, LenProperties
    <3>3. queue' = kept BY <1>2
    <3> HIDE DEF kept
    <3> QED BY <3>1, <3>2, <3>3
  <2>10. Len(all) \in Nat BY <2>7, LenProperties
  <2>11. UNCHANGED <<flushing, flight, delivered, before>> BY DEF Gate
  <2>12. BookTypes'
    <3>1. disturbed' \in BOOLEAN BY <1>2 DEF Drops, BookInv, BookTypes
    <3>2. entries' \in Nat /\ before' \in 0 .. entries' BY <1>2, <2>1, <2>6, <2>11
    <3> QED BY <2>9, <2>11, <3>1, <3>2 DEF BookInv, BookTypes
  <2>13. Ordered'
    <3> DEFINE place(i) == Len(all) - Len(queue') + i
    <3>1. \A i \in 1 .. Len(queue') : place(i) \in 1 .. Len(all) /\ queue'[i] = all[place(i)]
      BY <2>9, <2>10
    <3>2. \A i, j \in 1 .. Len(queue') : i < j => place(i) < place(j) BY <2>9, <2>10
    <3> HIDE DEF place
    <3>3. \A i \in 1 .. Len(queue') : before < queue'[i].k /\ queue'[i].k <= entries' BY <2>8, <3>1
    <3>4. \A i, j \in 1 .. Len(queue') : i < j => queue'[i].k < queue'[j].k BY <2>8, <3>1, <3>2
    <3> QED BY <2>11, <3>3, <3>4 DEF Ordered
  <2>14. OneFlight' BY <2>11 DEF BookInv, OneFlight
  <2>15. Known'
    BY <1>2, <2>1, <2>6, <2>11 DEF BookInv, Known
  <2>16. \A n : n \in EntriesOf(all) <=> n \in EntriesOf(queue) \/ n \in entries + 1 .. entries'
    <3>1. \A n : n \in EntriesOf(all) <=> \E i \in 1 .. Len(all) : n = all[i].k BY <2>7, EntriesAre
    <3>2. \A n : n \in EntriesOf(queue) <=> \E i \in 1 .. Len(queue) : n = queue[i].k BY <2>6, EntriesAre
    <3>3. ASSUME NEW n, n \in EntriesOf(all) PROVE n \in EntriesOf(queue) \/ n \in entries + 1 .. entries'
      <4>1. PICK i \in 1 .. Len(all) : n = all[i].k BY <3>1, <3>3
      <4>2. CASE i <= Len(queue) BY <2>6, <2>7a, <3>2, <4>1, <4>2
      <4>3. CASE ~(i <= Len(queue)) BY <1>2, <2>1, <2>4, <2>6, <2>7, <2>7a, <4>1, <4>3
      <4> QED BY <4>2, <4>3
    <3>4. ASSUME NEW n, n \in EntriesOf(queue) PROVE n \in EntriesOf(all)
      <4>1. PICK i \in 1 .. Len(queue) : n = queue[i].k BY <3>2, <3>4
      <4>2. i \in 1 .. Len(all) /\ n = all[i].k BY <2>1, <2>4, <2>6, <2>7, <2>7a, <4>1
      <4> QED BY <3>1, <4>2
    <3>5. ASSUME NEW n \in entries + 1 .. entries' PROVE n \in EntriesOf(all)
      <4> DEFINE i == Len(queue) + (n - entries)
      <4>1. i \in 1 .. Len(all) /\ ~(i <= Len(queue)) BY <1>2, <2>1, <2>4, <2>6, <2>7
      <4>2. entries + (i - Len(queue)) = n BY <1>2, <2>1, <2>6
      <4>3. n = all[i].k BY <2>7a, <4>1, <4>2
      <4> QED BY <3>1, <4>1, <4>3
    <3> QED BY <3>3, <3>4, <3>5
  <2>17. EntriesOf(queue') \subseteq EntriesOf(all)
    <3> SUFFICES ASSUME NEW n \in EntriesOf(queue') PROVE n \in EntriesOf(all) OBVIOUS
    <3>1. PICK i \in 1 .. Len(queue') : n = queue'[i].k BY <2>9, EntriesAre
    <3>2. Len(all) - Len(queue') + i \in 1 .. Len(all) /\ n = all[Len(all) - Len(queue') + i].k
      BY <2>9, <2>10, <3>1
    <3> QED BY <2>7, <3>2, EntriesAre
  <2>18. Accounted'
    <3> SUFFICES ASSUME ~disturbed'
                 PROVE  /\ 1 .. entries' = EntriesOf(queue') \union delivered' \union dropped'
                        /\ EntriesOf(queue') \intersect delivered' = {}
      BY DEF Accounted
    <3>1. ~disturbed /\ dropped' = dropped \union (EntriesOf(all) \ EntriesOf(queue'))
      BY <1>2 DEF Drops
    <3>2. 1 .. entries = EntriesOf(queue) \union delivered \union dropped /\ EntriesOf(queue) \intersect delivered = {}
      BY <3>1 DEF BookInv, Accounted
    <3>3. \A n : n \in 1 .. entries' <=> n \in 1 .. entries \/ n \in entries + 1 .. entries'
      BY <1>2, <2>1, <2>6
    <3>4. \A n \in delivered : n \notin entries + 1 .. entries'
      BY <2>6 DEF BookInv, Known
    <3>5. 1 .. entries' = EntriesOf(queue') \union delivered \union dropped'
      BY <2>16, <2>17, <3>1, <3>2, <3>3
    <3>6. EntriesOf(queue') \intersect delivered = {}
      BY <2>16, <2>17, <3>2, <3>4
    <3> QED BY <2>11, <3>5, <3>6
  <2>19. AtTheFront'
    <3> SUFFICES ASSUME NEW f \in Flights
                 PROVE  /\ \A i \in 1 .. Len(flight[f].batch) : flight[f].batch[i].k \in 1 .. entries'
                        /\ flight[f].at = "deliver" /\ ~disturbed' =>
                             /\ Len(flight[f].batch) <= Len(queue')
                             /\ \A i \in 1 .. Len(flight[f].batch) : flight[f].batch[i] = queue'[i]
      BY <2>11 DEF AtTheFront
    <3>1. flight[f].batch \in Seq(Entry) /\ Len(flight[f].batch) \in Nat
      BY LenProperties DEF BookInv, BookTypes, Flight
    <3>2. \A i \in 1 .. Len(flight[f].batch) : flight[f].batch[i].k \in 1 .. entries'
      BY <1>2, <2>1, <2>6 DEF BookInv, AtTheFront
    <3>3. ASSUME flight[f].at = "deliver", ~disturbed'
          PROVE  /\ Len(flight[f].batch) <= Len(queue')
                 /\ \A i \in 1 .. Len(flight[f].batch) : flight[f].batch[i] = queue'[i]
      <4>1. ~disturbed /\ EntriesOf(all) \ EntriesOf(queue') = {}
        BY <1>2, <3>3 DEF Drops, InFlight
      <4>2. Len(all) <= QUEUE_BOUND
        <5> SUFFICES ASSUME Len(all) > QUEUE_BOUND PROVE FALSE
          BY <2>10, Bounds
        <5>1. 1 \in 1 .. Len(all) BY <2>10, Bounds
        <5>2. all[1].k \in EntriesOf(all) BY <2>7, <5>1, EntriesAre
        <5>3. all[1].k \in EntriesOf(queue') BY <4>1, <5>2
        <5>3a. \A n : n \in EntriesOf(queue') <=> \E i \in 1 .. Len(queue') : n = queue'[i].k
          BY <2>9, EntriesAre
        <5>4. PICK i \in 1 .. Len(queue') : all[1].k = queue'[i].k BY <5>3, <5>3a
        <5>5. all[1].k = all[Len(all) - Len(queue') + i].k BY <2>9, <5>4
        <5>6. Len(all) - Len(queue') + i \in 1 .. Len(all) /\ 1 < Len(all) - Len(queue') + i
          BY <2>9, <2>10, Bounds, <5>4
        <5>7. all[1].k < all[Len(all) - Len(queue') + i].k BY <2>8, <5>1, <5>6
        <5>8. all[1].k \in Nat BY <2>8, <5>1
        <5> QED BY <5>5, <5>7, <5>8
      <4>3. queue' = all BY <2>9, <4>2
      <4>4. /\ Len(flight[f].batch) <= Len(queue)
            /\ \A i \in 1 .. Len(flight[f].batch) : flight[f].batch[i] = queue[i]
        BY <3>3, <4>1 DEF BookInv, AtTheFront
      <4>5. Len(queue) <= Len(all) /\ \A i \in 1 .. Len(queue) : all[i] = queue[i]
        BY <2>1, <2>4, <2>6, <2>7
      <4> QED BY <2>6, <2>10, <3>1, <4>3, <4>4, <4>5
    <3> QED BY <3>2, <3>3
  <2> QED BY <2>12, <2>13, <2>14, <2>15, <2>18, <2>19 DEF BookInv
<1> QED BY <1>1, <1>2 DEF Gate

LEMMA RunFlushKeeps ==
  ASSUME BookInv, RunFlush
  PROVE  BookInv'
<1>1. CASE UNCHANGED <<armed, flushing, flight>>
  BY <1>1, BooksStay DEF RunFlush
<1>2. ASSUME NEW f \in Flights, flight[f].at = "none", ~flushing, flushing' = TRUE,
             flight' = [flight EXCEPT ![f] = [NoFlight EXCEPT !.at = "config"]],
             UNCHANGED <<queue, books>>
      PROVE  BookInv'
  <2> USE DEF books
  <2> DEFINE r == [NoFlight EXCEPT !.at = "config"]
  <2>1. r \in Flight /\ r.at = "config" /\ r.batch = <<>>
    BY NoFlightIs DEF NoFlight, Flight
  <2> HIDE DEF r
  <2>2. \A g \in Flights : flight'[g] = IF g = f THEN r ELSE flight[g]
    BY <1>2 DEF BookInv, BookTypes, r
  <2>3. flight' \in [Flights -> Flight] BY <1>2, <2>1 DEF BookInv, BookTypes, r
  <2>4. BookTypes' BY <1>2, <2>3 DEF BookInv, BookTypes
  <2>5. OneFlight'
    <3>1. \A g \in Flights : flight[g].at = "none" BY <1>2 DEF BookInv, OneFlight
    <3> QED BY <1>2, <2>1, <2>2, <3>1 DEF OneFlight
  <2>6. AtTheFront'
    <3>1. ASSUME NEW g \in Flights
          PROVE  /\ \A i \in 1 .. Len(flight'[g].batch) : flight'[g].batch[i].k \in 1 .. entries'
                 /\ ~(flight'[g].at = "deliver" /\ ~disturbed')
                      \/ /\ Len(flight'[g].batch) <= Len(queue')
                         /\ \A i \in 1 .. Len(flight'[g].batch) : flight'[g].batch[i] = queue'[i]
      <4>1. CASE g = f
        <5>1. flight'[g].batch = <<>> /\ flight'[g].at # "deliver" BY <2>1, <2>2, <4>1
        <5>2. Len(flight'[g].batch) = 0 BY <5>1, EmptySeq
        <5>3. 1 .. Len(flight'[g].batch) = {} BY <5>2
        <5> QED BY <5>1, <5>3
      <4>2. CASE g # f
        BY <1>2, <2>2, <4>2 DEF BookInv, AtTheFront
      <4> QED BY <4>1, <4>2
    <3> QED BY <3>1 DEF AtTheFront
  <2>7. Ordered' /\ Known' /\ Accounted' BY <1>2 DEF BookInv, Ordered, Known, Accounted
  <2> QED BY <2>4, <2>5, <2>6, <2>7 DEF BookInv
<1> QED BY <1>1, <1>2 DEF RunFlush

LEMMA LandsKeeps ==
  ASSUME BookInv, NEW f \in Flights, flight[f].at # "none", Lands(f), UNCHANGED <<queue, books>>
  PROVE  BookInv'
  BY RunMoves, NoFlightIs DEF Lands

LEMMA FlushBeginsKeeps ==
  ASSUME BookInv, NEW f \in Flights, FlushBegins(f)
  PROVE  BookInv'
<1>1. CASE Lands(f) BY <1>1, LandsKeeps DEF FlushBegins
<1>2. CASE /\ flight' = [flight EXCEPT ![f].at = "deliver", ![f].batch = Oldest(queue, FLUSH_BATCH_RECORDS)]
           /\ UNCHANGED <<flushing, armed>>
  <2> DEFINE front == Oldest(queue, FLUSH_BATCH_RECORDS)
  <2>1. queue \in Seq(Entry) /\ FLUSH_BATCH_RECORDS \in Nat BY Bounds DEF BookInv, BookTypes
  <2>2. /\ front \in Seq(Entry) /\ Len(front) \in 0 .. Len(queue)
        /\ \A i \in 1 .. Len(front) : front[i] = queue[i]
    BY ONLY <2>1, OldestIs
  <2>3. \A g \in Flights : /\ g # f => flight'[g] = flight[g]
                           /\ g = f => flight'[g].at = "deliver" /\ flight'[g].batch = front
    BY <1>2 DEF BookInv, BookTypes, Flight
  <2>4. flight' \in [Flights -> Flight]
    BY <1>2, <2>2, ZenonT(40) DEF BookInv, BookTypes, Flight
  <2> HIDE DEF front
  <2>5. UNCHANGED <<queue, flushing, books>> BY <1>2 DEF FlushBegins
  <2>6. BookTypes' BY <2>4, <2>5 DEF BookInv, BookTypes, books
  <2>7. OneFlight'
    <3>1. flight[f].at # "none" BY DEF FlushBegins
    <3> QED BY <2>3, <2>5, <3>1 DEF BookInv, OneFlight
  <2>8. AtTheFront'
    <3>1. Len(queue) \in Nat /\ \A i \in 1 .. Len(queue) : queue[i] \in Entry
      BY <2>1, ElementOfSeq, LenProperties
    <3>2. \A i \in 1 .. Len(queue) : queue[i].k \in 1 .. entries
      <4>1. before \in Nat BY DEF BookInv, BookTypes
      <4> QED BY <3>1, <4>1 DEF BookInv, BookTypes, Ordered, Entry
    <3>3. \A i \in 1 .. Len(front) : front[i].k \in 1 .. entries BY <2>2, <3>1, <3>2
    <3>4. queue' = queue /\ entries' = entries /\ disturbed' = disturbed BY <2>5 DEF books
    <3>5. Len(front) <= Len(queue) BY ONLY <2>2, <3>1
    <3>6. ASSUME NEW g \in Flights
          PROVE  /\ \A i \in 1 .. Len(flight'[g].batch) : flight'[g].batch[i].k \in 1 .. entries'
                 /\ flight'[g].at = "deliver" /\ ~disturbed'
                    => /\ Len(flight'[g].batch) <= Len(queue')
                       /\ \A i \in 1 .. Len(flight'[g].batch) : flight'[g].batch[i] = queue'[i]
      <4>1. CASE g = f
        <5>1. flight'[g].batch = front BY <2>3, <4>1
        <5> QED BY ONLY <2>2, <3>3, <3>4, <3>5, <5>1
      <4>2. CASE g # f
        <5>1. flight'[g] = flight[g] BY <2>3, <4>2
        <5>2. AtTheFront BY DEF BookInv
        <5> QED BY ONLY <3>4, <3>6, <5>1, <5>2 DEF AtTheFront
      <4> QED BY <4>1, <4>2
    <3> QED BY ONLY <3>6 DEF AtTheFront
  <2>9. Ordered' /\ Known' /\ Accounted' BY <2>5 DEF BookInv, Ordered, Known, Accounted, books
  <2> QED BY <2>6, <2>7, <2>8, <2>9 DEF BookInv
<1> QED BY <1>1, <1>2 DEF FlushBegins

\* As many leave as were delivered, and they are the ones while nothing was dropped.
LEMMA FlushDeliversKeeps ==
  ASSUME BookInv, NEW f \in Flights, FlushDelivers(f)
  PROVE  BookInv'
<1> DEFINE batch == flight[f].batch
           n == Len(batch)
<1>1. batch \in Seq(Entry) /\ n \in Nat
  BY LenProperties DEF BookInv, BookTypes, Flight
<1>2. queue \in Seq(Entry) /\ Len(queue) \in Nat /\ entries \in Nat /\ before \in 0 .. entries
  BY LenProperties DEF BookInv, BookTypes
<1> HIDE DEF batch, n
<1>3. queue' = SubSeq(queue, n + 1, Len(queue)) BY DEF FlushDelivers, n, batch
<1>4. /\ queue' \in Seq(Entry)
      /\ n <= Len(queue) => Len(queue') = Len(queue) - n
      /\ \A i \in 1 .. Len(queue') : n + i \in 1 .. Len(queue) /\ queue'[i] = queue[n + i]
  BY <1>1, <1>2, <1>3, RestIs
<1>4a. Len(queue') \in Nat BY <1>4, LenProperties
<1>5. /\ delivered' = delivered \union EntriesOf(batch)
      /\ flight' = [flight EXCEPT ![f] = NoFlight] /\ flushing' = FALSE
      /\ UNCHANGED <<entries, dropped, before, disturbed>>
  BY DEF FlushDelivers, Lands, batch
<1>6. \A g \in Flights : flight'[g] = NoFlight \/ (g # f /\ flight'[g] = flight[g] /\ flight[g].at = "none")
  <2>1. flight[f].at # "none" BY DEF FlushDelivers
  <2> QED BY <1>5, <2>1 DEF BookInv, BookTypes, OneFlight
<1>7. BookTypes' BY <1>4, <1>5, NoFlightIs DEF BookInv, BookTypes
<1>8. OneFlight' BY <1>6, NoFlightIs DEF OneFlight
<1>9. AtTheFront'
  <2>1. Len(<<>>) = 0 BY EmptySeq
  <2> QED BY <1>5, <1>6, <2>1, NoFlightIs DEF BookInv, AtTheFront
<1>10. Ordered'
  <2>1. \A i \in 1 .. Len(queue') : before < queue'[i].k /\ queue'[i].k <= entries
    BY <1>4 DEF BookInv, Ordered
  <2>2. \A i, j \in 1 .. Len(queue') : i < j => n + i < n + j BY <1>1, <1>4a
  <2>3. \A i, j \in 1 .. Len(queue') : i < j => queue'[i].k < queue'[j].k
    BY <1>4, <2>2 DEF BookInv, Ordered
  <2> QED BY <1>5, <2>1, <2>3 DEF Ordered
<1>11. \A m : m \in EntriesOf(batch) <=> \E i \in 1 .. n : m = batch[i].k
  BY <1>1, EntriesAre DEF n
<1>12. Known'
  <2>1. \A i \in 1 .. n : batch[i].k \in 1 .. entries BY DEF BookInv, AtTheFront, batch, n
  <2>2. EntriesOf(batch) \subseteq 1 .. entries BY <1>11, <2>1
  <2>3. delivered \subseteq 1 .. entries BY DEF BookInv, Known
  <2> QED BY <1>5, <2>2, <2>3 DEF Known
<1>13. Accounted'
  <2> SUFFICES ASSUME ~disturbed
               PROVE  /\ 1 .. entries = EntriesOf(queue') \union delivered' \union dropped
                      /\ EntriesOf(queue') \intersect delivered' = {}
    BY <1>5 DEF Accounted
  <2>1. n <= Len(queue) /\ \A i \in 1 .. n : batch[i] = queue[i]
    BY DEF BookInv, AtTheFront, FlushDelivers, batch, n
  <2>2. \A m : m \in EntriesOf(queue) <=> \E i \in 1 .. Len(queue) : m = queue[i].k
    BY <1>2, EntriesAre
  <2>3. \A m : m \in EntriesOf(queue') <=> \E i \in 1 .. Len(queue') : m = queue'[i].k
    BY <1>4, EntriesAre
  <2>4. ASSUME NEW m, m \in EntriesOf(queue) PROVE m \in EntriesOf(batch) \/ m \in EntriesOf(queue')
    <3>1. PICK i \in 1 .. Len(queue) : m = queue[i].k BY <2>2, <2>4
    <3>2. CASE i <= n
      <4>1. i \in 1 .. n /\ batch[i] = queue[i] BY <1>1, <1>2, <2>1, <3>2
      <4> QED BY <1>11, <3>1, <4>1
    <3>3. CASE ~(i <= n)
      <4>1. i - n \in 1 .. Len(queue') /\ n + (i - n) = i BY <1>1, <1>2, <1>4, <2>1, <3>3
      <4>2. queue'[i - n] = queue[i] BY <1>4, <4>1
      <4> QED BY <2>3, <3>1, <4>1, <4>2
    <3> QED BY <3>2, <3>3
  <2>5. EntriesOf(batch) \subseteq EntriesOf(queue)
    <3>1. \A i \in 1 .. n : i \in 1 .. Len(queue) BY <1>1, <1>2, <2>1
    <3> QED BY <1>11, <2>1, <2>2, <3>1
  <2>6. EntriesOf(queue') \subseteq EntriesOf(queue)
    BY <1>4, <2>2, <2>3
  <2>7. ASSUME NEW m, m \in EntriesOf(queue'), m \in EntriesOf(batch) PROVE FALSE
    <3>1. PICK i \in 1 .. Len(queue') : m = queue'[i].k BY <2>3, <2>7
    <3>2. PICK j \in 1 .. n : m = batch[j].k BY <1>11, <2>7
    <3>3. j \in 1 .. Len(queue) /\ n + i \in 1 .. Len(queue) /\ j < n + i
      BY <1>1, <1>2, <1>4, <1>4a, <2>1
    <3>4. m = queue[j].k /\ m = queue[n + i].k BY <1>4, <2>1, <3>1, <3>2
    <3>5. queue[j].k < queue[n + i].k BY <3>3 DEF BookInv, Ordered
    <3>6. queue[j] \in Entry BY <1>2, <3>3, ElementOfSeq
    <3>7. queue[j].k \in Nat BY <3>6 DEF Entry
    <3> QED BY <3>4, <3>5, <3>7
  <2>8. 1 .. entries = EntriesOf(queue) \union delivered \union dropped /\ EntriesOf(queue) \intersect delivered = {}
    BY DEF BookInv, Accounted
  <2>9. 1 .. entries = EntriesOf(queue') \union delivered' \union dropped
    BY <1>5, <2>4, <2>5, <2>6, <2>8
  <2>10. EntriesOf(queue') \intersect delivered' = {}
    BY <1>5, <2>6, <2>7, <2>8
  <2> QED BY <2>9, <2>10
<1> QED BY <1>7, <1>8, <1>9, <1>10, <1>12, <1>13 DEF BookInv

LEMMA EmptiedKeeps ==
  ASSUME BookInv, queue' = <<>>, dropped' = dropped \union EntriesOf(queue),
         UNCHANGED <<entries, delivered>>, before' \in 0 .. entries,
         \/ /\ disturbed' = disturbed /\ flushing' = FALSE /\ \A f \in Flights : flight'[f] = NoFlight
            /\ flight' \in [Flights -> Flight]
         \/ /\ disturbed' = (disturbed \/ (EntriesOf(queue) # {} /\ InFlight))
            /\ UNCHANGED <<flushing, flight>>
  PROVE  BookInv'
<1>1. queue' \in Seq(Entry) /\ Len(queue') = 0 BY EmptySeq
<1>2. DOMAIN queue' = {} BY <1>1, LenProperties
<1>3. EntriesOf(queue') = {} BY <1>2 DEF EntriesOf
<1>4. Len(<<>>) = 0 BY EmptySeq
<1>5. BookTypes' BY <1>1, NoFlightIs DEF BookInv, BookTypes
<1>6. Ordered' BY <1>1 DEF Ordered
<1>7. OneFlight' BY NoFlightIs DEF BookInv, OneFlight
<1>8. Known' BY DEF BookInv, Known
<1>9. Accounted'
  <2>1. ~disturbed' => ~disturbed BY DEF BookInv, BookTypes
  <2> QED BY <1>3, <2>1 DEF BookInv, Accounted
<1>10. AtTheFront'
  <2>1. CASE \A f \in Flights : flight'[f] = NoFlight
    BY <1>4, <2>1, NoFlightIs DEF AtTheFront
  <2>2. CASE /\ disturbed' = (disturbed \/ (EntriesOf(queue) # {} /\ InFlight))
             /\ UNCHANGED <<flushing, flight>>
    <3>1. \A f \in Flights : \A i \in 1 .. Len(flight[f].batch) : flight[f].batch[i].k \in 1 .. entries
      BY DEF BookInv, AtTheFront
    <3>2. ASSUME NEW f \in Flights, flight[f].at = "deliver", ~disturbed' PROVE Len(flight[f].batch) = 0
      <4>1. ~disturbed /\ EntriesOf(queue) = {} BY <2>2, <3>2 DEF InFlight
      <4>2. Len(queue) = 0
        <5>1. queue \in Seq(Entry) /\ Len(queue) \in Nat BY LenProperties DEF BookInv, BookTypes
        <5>2. \A m : m \in EntriesOf(queue) <=> \E i \in 1 .. Len(queue) : m = queue[i].k BY <5>1, EntriesAre
        <5>3. \A i \in 1 .. Len(queue) : FALSE BY <4>1, <5>2
        <5> QED BY <5>1, <5>3
      <4>3. Len(flight[f].batch) \in Nat BY LenProperties DEF BookInv, BookTypes, Flight
      <4>4. Len(flight[f].batch) <= Len(queue) BY <3>2, <4>1 DEF BookInv, AtTheFront
      <4> QED BY <4>2, <4>3, <4>4
    <3> QED BY <1>1, <2>2, <3>1, <3>2 DEF AtTheFront
  <2> QED BY <2>1, <2>2
<1> QED BY <1>5, <1>6, <1>7, <1>8, <1>9, <1>10 DEF BookInv

LEMMA PutDoneKeeps ==
  ASSUME BookInv, PutDone
  PROVE  BookInv'
<1>1. CASE UNCHANGED <<queue, armed, before, dropped, disturbed>>
  BY <1>1, BooksStay DEF PutDone, books
<1>2. CASE queue' = <<>> /\ armed' = FALSE /\ before' = entries /\ Drops(EntriesOf(queue))
  <2>1. entries \in 0 .. entries BY DEF BookInv, BookTypes
  <2>2. UNCHANGED <<flushing, flight, entries, delivered>> BY DEF PutDone
  <2> QED BY <1>2, <2>1, <2>2, EmptiedKeeps DEF Drops
<1> QED BY <1>1, <1>2 DEF PutDone

LEMMA RestartKeeps ==
  ASSUME BookInv, Restart
  PROVE  BookInv'
<1>1. /\ queue' = <<>> /\ dropped' = dropped \union EntriesOf(queue)
      /\ flushing' = FALSE /\ flight' = [f \in Flights |-> NoFlight]
      /\ UNCHANGED <<entries, delivered, before, disturbed>>
  BY DEF Restart
<1>2. before' \in 0 .. entries BY <1>1 DEF BookInv, BookTypes
<1>3. flight' \in [Flights -> Flight] /\ \A f \in Flights : flight'[f] = NoFlight
  BY <1>1, NoFlightIs
<1> QED BY <1>1, <1>2, <1>3, EmptiedKeeps

LEMMA BookStep ==
  ASSUME PageInv, BookInv, [Next]_vars
  PROVE  BookInv'
<1> USE DEF server
<1>1. CASE Relay \/ Window \/ Reload BY <1>1, BooksStay DEF Relay, Window, Reload
<1>2. CASE Restart BY <1>2, RestartKeeps
<1>3. CASE Expire BY <1>3, BooksStay DEF Expire
<1>4. ASSUME NEW p \in Posts, PostStep(p) \/ PostLost(p) PROVE BookInv'
  <2>1. CASE Gate(p) BY <2>1, GateKeeps
  <2>2. CASE PostReads(p) \/ PostCaches(p) \/ Answered(p) \/ PostFails(p) \/ PostLost(p)
    BY <2>2, BooksStay DEF PostReads, PostCaches, Answered, PostFails, PostLost, GivenBack
  <2> QED BY <1>4, <2>1, <2>2 DEF PostStep
<1>5. CASE RunFlush BY <1>5, RunFlushKeeps
<1>6. ASSUME NEW f \in Flights, FlightStep(f) \/ FlushDelivers(f) \/ FlushFails(f) PROVE BookInv'
  <2>1. CASE FlushReads(f)
    <3>1. PICK v \in Modes, next \in Places : flight' = [flight EXCEPT ![f].at = next, ![f].cfg = v]
      BY <2>1 DEF FlushReads
    <3> DEFINE r == [flight[f] EXCEPT !.at = next, !.cfg = v]
    <3>2. flight' = [flight EXCEPT ![f] = r] BY <3>1 DEF BookInv, BookTypes
    <3>3. r \in Flight /\ r.at # "deliver" /\ r.batch = flight[f].batch
      BY DEF BookInv, BookTypes, Flight, Places
    <3>4. flight[f].at # "none" /\ UNCHANGED <<queue, flushing, books>> BY <2>1 DEF FlushReads
    <3> HIDE DEF r
    <3> QED BY <3>2, <3>3, <3>4, RunMoves
  <2>2. CASE FlushCaches(f)
    <3> DEFINE r == [flight[f] EXCEPT !.at = "gate"]
    <3>2. flight' = [flight EXCEPT ![f] = r] BY <2>2 DEF FlushCaches
    <3>3. r \in Flight /\ r.at # "deliver" /\ r.batch = flight[f].batch
      BY DEF BookInv, BookTypes, Flight
    <3>4. flight[f].at # "none" /\ UNCHANGED <<queue, flushing, books>> BY <2>2 DEF FlushCaches
    <3> HIDE DEF r
    <3> QED BY <3>2, <3>3, <3>4, RunMoves
  <2>3. CASE FlushBegins(f) BY <2>3, FlushBeginsKeeps
  <2>4. CASE FlushDelivers(f) BY <2>4, FlushDeliversKeeps
  <2>5. CASE FlushFails(f) BY <2>5, LandsKeeps DEF FlushFails
  <2> QED BY <1>6, <2>1, <2>2, <2>3, <2>4, <2>5 DEF FlightStep
<1>7. ASSUME NEW want \in Modes, Save(want) PROVE BookInv'
  BY <1>7, BooksStay DEF Save
<1>8. CASE PutStep
  <2>1. CASE PutDone BY <2>1, PutDoneKeeps
  <2>2. CASE PutReads \/ PutCaches \/ Probed \/ PutWrites \/ PutAnswered
    BY <2>2, BooksStay DEF PutReads, PutCaches, Probed, PutWrites, PutAnswered
  <2> QED BY <1>8, <2>1, <2>2 DEF PutStep
<1>9. CASE UNCHANGED vars BY <1>9, BooksStay DEF vars
<1> QED BY <1>1, <1>2, <1>3, <1>4, <1>5, <1>6, <1>7, <1>8, <1>9 DEF Next

LEMMA BooksAlways == Spec => [](PageInv /\ BookInv)
<1>1. Init => PageInv /\ BookInv BY PageInit, BookInit
<1>2. (PageInv /\ BookInv) /\ [Next]_vars => (PageInv /\ BookInv)' BY PageStep, BookStep
<1> QED BY <1>1, <1>2, PTL DEF Spec

-----------------------------------------------------------------------------
\* resetTelemetryQueue (telemetry-ingest.ts:51): no record that was accepted before
\* the last switch-off is in the queue, whatever deliveries were under way.
THEOREM DroppedForGood == Spec => []SwitchedOffIsDropped
<1>1. BookInv => SwitchedOffIsDropped
  <2> SUFFICES ASSUME BookInv PROVE SwitchedOffIsDropped OBVIOUS
  <2>1. DOMAIN queue = 1 .. Len(queue) BY LenProperties DEF BookInv, BookTypes
  <2> QED BY <2>1 DEF SwitchedOffIsDropped, BookInv, Ordered
<1> QED BY <1>1, BooksAlways, PTL

\* enqueueTelemetry and runFlush (telemetry-ingest.ts:82, :98): an accepted record
\* waits, was delivered or was dropped, and none that was delivered waits still,
\* while nothing is dropped under a delivery; none from before a switch-off waits.
THEOREM BooksBalance == Spec => []AcceptedAreAccountedFor
<1>1. BookInv /\ SwitchedOffIsDropped => AcceptedAreAccountedFor
  BY DEF BookInv, Accounted, AcceptedAreAccountedFor
<1> QED BY <1>1, BooksAlways, DroppedForGood, PTL

-----------------------------------------------------------------------------
(* Sequences whose elements differ.                                        *)

LEMMA AppendIs ==
  ASSUME NEW S, NEW q \in Seq(S), NEW x \in S
  PROVE  /\ Append(q, x) \in Seq(S) /\ Append(q, x) # <<>> /\ Last(Append(q, x)) = x
         /\ ToSet(q) \subseteq S /\ ToSet(Append(q, x)) = ToSet(q) \union {x}
         /\ IsInjective(q) /\ x \notin ToSet(q) => IsInjective(Append(q, x))
<1>1. /\ Append(q, x) \in Seq(S) /\ Len(Append(q, x)) = Len(q) + 1 /\ Append(q, x)[Len(q) + 1] = x
      /\ DOMAIN q = 1 .. Len(q) /\ DOMAIN Append(q, x) = 1 .. Len(q) + 1 /\ Len(q) \in Nat
      /\ \A i \in 1 .. Len(q) : Append(q, x)[i] = q[i] /\ q[i] \in S
  OBVIOUS
<1>2. 1 .. Len(q) + 1 = (1 .. Len(q)) \union {Len(q) + 1}
  BY <1>1
<1>3. ToSet(q) \subseteq S /\ ToSet(Append(q, x)) = ToSet(q) \union {x}
  BY <1>1, <1>2 DEF ToSet
<1>4. ASSUME IsInjective(q), x \notin ToSet(q) PROVE IsInjective(Append(q, x))
  <2>1. \A i \in 1 .. Len(q) : q[i] # x
    BY <1>1, <1>4 DEF ToSet
  <2>2. \A i, j \in 1 .. Len(q) : q[i] = q[j] => i = j
    BY <1>1, <1>4 DEF IsInjective
  <2> QED BY <1>1, <1>2, <2>1, <2>2 DEF IsInjective
<1> QED BY <1>1, <1>3, <1>4 DEF Last

LEMMA TailIs ==
  ASSUME NEW S, NEW q \in Seq(S), q # <<>>
  PROVE  /\ Tail(q) \in Seq(S) /\ Head(q) \in S /\ ToSet(q) = {Head(q)} \union ToSet(Tail(q))
         /\ IsInjective(q) => IsInjective(Tail(q)) /\ Head(q) \notin ToSet(Tail(q))
<1>1. /\ Tail(q) \in Seq(S) /\ Head(q) = q[1] /\ q[1] \in S /\ Len(q) \in Nat \ {0} /\ Len(Tail(q)) = Len(q) - 1
      /\ \A i \in 1 .. Len(q) - 1 : Tail(q)[i] = q[i + 1]
      /\ DOMAIN q = 1 .. Len(q) /\ DOMAIN Tail(q) = 1 .. Len(q) - 1
  OBVIOUS
<1>2. ASSUME NEW i \in DOMAIN q, i # 1 PROVE q[i] \in ToSet(Tail(q))
  <2>1. i - 1 \in 1 .. Len(q) - 1 /\ (i - 1) + 1 = i
    BY <1>1, <1>2
  <2> QED BY <1>1, <2>1 DEF ToSet
<1>3. \A i \in 1 .. Len(q) - 1 : i + 1 \in 1 .. Len(q) /\ i + 1 # 1
  BY <1>1
<1>4. Head(q) \in ToSet(q) /\ ToSet(Tail(q)) \subseteq ToSet(q) /\ ToSet(q) \subseteq {Head(q)} \union ToSet(Tail(q))
  <2>1. Head(q) \in ToSet(q)
    BY <1>1 DEF ToSet
  <2>2. ToSet(Tail(q)) \subseteq ToSet(q)
    BY <1>1, <1>3 DEF ToSet
  <2>3. ASSUME NEW x \in ToSet(q), x # Head(q) PROVE x \in ToSet(Tail(q))
    <3>1. PICK i \in DOMAIN q : x = q[i]
      BY DEF ToSet
    <3> QED BY <1>1, <1>2, <2>3, <3>1
  <2> QED BY <2>1, <2>2, <2>3
<1>5. ASSUME IsInjective(q) PROVE IsInjective(Tail(q)) /\ Head(q) \notin ToSet(Tail(q))
  <2>1. \A i, j \in 1 .. Len(q) : q[i] = q[j] => i = j
    BY <1>1, <1>5 DEF IsInjective
  <2>2. \A i, j \in 1 .. Len(q) - 1 : i + 1 = j + 1 => i = j
    BY <1>1
  <2>3. 1 \in 1 .. Len(q)
    BY <1>1
  <2> QED BY <1>1, <1>3, <2>1, <2>2, <2>3 DEF IsInjective, ToSet
<1> QED BY <1>1, <1>4, <1>5

LEMMA FrontIs ==
  ASSUME NEW S, NEW q \in Seq(S), q # <<>>
  PROVE  /\ Front(q) \in Seq(S) /\ Last(q) \in S /\ Last(q) \in ToSet(q) /\ ToSet(Front(q)) \subseteq ToSet(q)
         /\ IsInjective(q) => IsInjective(Front(q)) /\ Last(q) \notin ToSet(Front(q))
<1>1. Len(q) \in Nat \ {0} /\ DOMAIN q = 1 .. Len(q) /\ \A i \in 1 .. Len(q) : q[i] \in S
  OBVIOUS
<1>2. /\ Front(q) \in Seq(S) /\ Len(Front(q)) = Len(q) - 1 /\ DOMAIN Front(q) = 1 .. Len(q) - 1
      /\ \A i \in 1 .. Len(q) - 1 : Front(q)[i] = q[i]
  BY <1>1 DEF Front
<1>3. Len(q) \in 1 .. Len(q) /\ \A i \in 1 .. Len(q) - 1 : i \in 1 .. Len(q) /\ i # Len(q)
  <2>1. \A n \in Nat \ {0} : n \in 1 .. n /\ \A i \in 1 .. n - 1 : i \in 1 .. n /\ i # n
    OBVIOUS
  <2> QED BY <1>1, <2>1
<1>4. Last(q) = q[Len(q)]
  BY DEF Last
<1> QED BY <1>1, <1>2, <1>3, <1>4 DEF ToSet, IsInjective

LEMMA RemoveAtIs ==
  ASSUME NEW S, NEW q \in Seq(S), NEW k \in DOMAIN q
  PROVE  /\ RemoveAt(q, k) \in Seq(S) /\ ToSet(RemoveAt(q, k)) \subseteq ToSet(q) /\ q[k] \in S /\ q[k] \in ToSet(q)
         /\ IsInjective(q) => IsInjective(RemoveAt(q, k)) /\ q[k] \notin ToSet(RemoveAt(q, k))
<1> DEFINE n == Len(q)
           r == RemoveAt(q, k)
<1>1. n \in Nat /\ DOMAIN q = 1 .. n /\ k \in 1 .. n /\ \A i \in 1 .. n : q[i] \in S
  OBVIOUS
<1>2. /\ SubSeq(q, 1, k - 1) \in Seq(S) /\ Len(SubSeq(q, 1, k - 1)) = k - 1
      /\ \A i \in 1 .. k - 1 : SubSeq(q, 1, k - 1)[i] = q[i]
  BY <1>1
<1>3. /\ SubSeq(q, k + 1, n) \in Seq(S) /\ Len(SubSeq(q, k + 1, n)) = n - k
      /\ \A i \in 1 .. n - k : SubSeq(q, k + 1, n)[i] = q[i + k]
  BY <1>1
<1>4. /\ r \in Seq(S) /\ Len(r) = n - 1
      /\ \A i \in 1 .. n - 1 : r[i] = IF i < k THEN q[i] ELSE q[i + 1]
  <2> DEFINE s == SubSeq(q, 1, k - 1)
             t == SubSeq(q, k + 1, n)
  <2>1. /\ s \o t \in Seq(S) /\ Len(s \o t) = Len(s) + Len(t)
        /\ \A i \in 1 .. Len(s) + Len(t) : (s \o t)[i] = IF i <= Len(s) THEN s[i] ELSE t[i - Len(s)]
    BY <1>2, <1>3, ConcatProperties
  <2>2. Len(s) + Len(t) = n - 1
    BY <1>1, <1>2, <1>3
  <2>3. ASSUME NEW i \in 1 .. n - 1 PROVE (s \o t)[i] = IF i < k THEN q[i] ELSE q[i + 1]
    <3>1. CASE i < k
      <4>1. i \in 1 .. k - 1
        BY <1>1, <3>1
      <4> QED BY <1>1, <1>2, <2>1, <2>2, <3>1, <4>1
    <3>2. CASE ~(i < k)
      <4>1. i - (k - 1) \in 1 .. n - k /\ (i - (k - 1)) + k = i + 1 /\ ~(i <= k - 1)
        BY <1>1, <3>2
      <4> QED BY <1>1, <1>2, <1>3, <2>1, <2>2, <3>2, <4>1
    <3> QED BY <3>1, <3>2
  <2> QED BY <2>1, <2>2, <2>3 DEF RemoveAt
<1>5. DOMAIN r = 1 .. n - 1
  BY <1>4
<1>6. \A i \in 1 .. n - 1 : \E j \in (1 .. n) \ {k} : r[i] = q[j] /\ j = IF i < k THEN i ELSE i + 1
  BY <1>1, <1>4
<1>7. \A i, j \in 1 .. n - 1 : (IF i < k THEN i ELSE i + 1) = (IF j < k THEN j ELSE j + 1) => i = j
  BY <1>1
<1> HIDE DEF r
<1>8. ToSet(r) \subseteq ToSet(q)
  BY <1>1, <1>5, <1>6 DEF ToSet
<1>9. ASSUME IsInjective(q) PROVE IsInjective(r) /\ q[k] \notin ToSet(r)
  <2>1. \A i, j \in 1 .. n : q[i] = q[j] => i = j
    BY <1>1, <1>9 DEF IsInjective
  <2> QED BY <1>1, <1>5, <1>6, <1>7, <2>1, SMTT(30) DEF IsInjective, ToSet
<1> QED BY <1>1, <1>4, <1>8, <1>9 DEF ToSet, r

-----------------------------------------------------------------------------
(* The pool of connections.                                                *)

Row == [of : DbRequests, n : Nat]
Tx == {"closed", "none", "open", "failed"}
Pc == {"new", "begin", "statement", "commit", "rollback", "ok", "failed"}

PoolTypes ==
  /\ conn \in [Conns -> [tx : Tx, held : SUBSET Row]]
  /\ idle \in Seq(Conns) /\ waiting \in Seq(DbRequests)
  /\ poolAt \in [DbRequests -> [pc : Pc, n : Nat]]
  /\ on \in [DbRequests -> Conns \union {NoConn}]
  /\ mixed \in BOOLEAN

\* A request that is under way has a connection, or waits for one, once.
QueueIsSound ==
  /\ IsInjective(waiting)
  /\ \A r \in DbRequests : r \in ToSet(waiting) <=> UnderWay(r) /\ on[r] = NoConn
  /\ \A r \in DbRequests : on[r] # NoConn => UnderWay(r)

\* A connection that is not closed is idle or runs the statement of one request.
ConnsAreSound ==
  /\ IsInjective(idle)
  /\ \A c \in ToSet(idle) : conn[c].tx # "closed" /\ \A r \in DbRequests : on[r] # c
  /\ \A r \in DbRequests : on[r] # NoConn =>
       conn[on[r]].tx # "closed" /\ \A q \in DbRequests : on[q] = on[r] => q = r
  /\ \A c \in Conns : conn[c].tx # "open" => conn[c].held = {}

RequestsAreSound ==
  \A r \in DbRequests :
    /\ r \in Singles => poolAt[r].pc \in {"new", "statement", "ok", "failed"} /\ poolAt[r].n = 0
    /\ r \in Batches =>
         /\ poolAt[r].pc = "begin" => poolAt[r].n = 0
         /\ poolAt[r].pc = "statement" => poolAt[r].n < Length
         /\ poolAt[r].pc = "commit" => poolAt[r].n = Length

PoolSound == PoolTypes /\ QueueIsSound /\ ConnsAreSound /\ RequestsAreSound

\* While no batch had company:
BatchesAreAlone == \A b \in Batches : UnderWay(b) => \A r \in DbRequests \ {b} : ~UnderWay(r)

InTransaction(b) == poolAt[b].pc \in {"statement", "commit"}
\* the connection that runs its statement, or the one it will be given,
Its(b) == IF on[b] # NoConn THEN on[b] ELSE Last(idle)
Written(b) == {[of |-> b, n |-> i] : i \in 1 .. poolAt[b].n}

\* is the one with its transaction, and no other has any.
TransactionIsKept ==
  \A b \in Batches : InTransaction(b) =>
    (on[b] # NoConn \/ idle # <<>>) /\ conn[Its(b)].tx = "open" /\ conn[Its(b)].held = Written(b)

OpenIsOfABatch ==
  \A c \in Conns : conn[c].tx = "open" => \E b \in Batches : InTransaction(b) /\ c = Its(b)

RowsAreAllOrNone ==
  \A r \in DbRequests : RowsOf(r) = IF poolAt[r].pc = "ok" THEN AllOf(r) ELSE {}

Atomic == BatchesAreAlone /\ TransactionIsKept /\ OpenIsOfABatch /\ RowsAreAllOrNone

PoolInv == PoolSound /\ (~mixed => Atomic)

-----------------------------------------------------------------------------
LEMMA PoolStart == PoolInit => PoolInv
<1> SUFFICES ASSUME PoolInit PROVE PoolInv
  OBVIOUS
<1>1. /\ conn = [c \in Conns |-> Closed] /\ idle = <<>> /\ waiting = <<>>
      /\ poolAt = [r \in DbRequests |-> [pc |-> "new", n |-> 0]]
      /\ on = [r \in DbRequests |-> NoConn] /\ stored = {} /\ mixed = FALSE
  BY DEF PoolInit
<1>2. ToSet(<<>>) = {} /\ IsInjective(<<>>)
  BY DEF ToSet, IsInjective
<1>3. /\ \A c \in Conns : conn[c] = Closed
      /\ \A r \in DbRequests : poolAt[r].pc = "new" /\ poolAt[r].n = 0 /\ on[r] = NoConn /\ ~UnderWay(r)
  BY <1>1 DEF UnderWay
<1>4. PoolTypes
  <2>1. Closed \in [tx : Tx, held : SUBSET Row] /\ [pc |-> "new", n |-> 0] \in [pc : Pc, n : Nat]
    BY DEF Closed, Tx, Pc
  <2>2. conn \in [Conns -> [tx : Tx, held : SUBSET Row]] /\ poolAt \in [DbRequests -> [pc : Pc, n : Nat]]
    BY <1>1, <2>1
  <2>3. on \in [DbRequests -> Conns \union {NoConn}] /\ idle \in Seq(Conns) /\ waiting \in Seq(DbRequests)
    BY <1>1
  <2> QED BY <1>1, <2>2, <2>3 DEF PoolTypes
<1>5. QueueIsSound
  BY <1>1, <1>2, <1>3 DEF QueueIsSound
<1>6. ConnsAreSound
  BY <1>1, <1>2, <1>3 DEF ConnsAreSound, Closed
<1>7. RequestsAreSound
  BY <1>3 DEF RequestsAreSound
<1>8. Atomic
  <2>1. Batches \subseteq DbRequests
    BY DEF DbRequests
  <2>2. BatchesAreAlone /\ TransactionIsKept
    BY <1>3, <2>1 DEF BatchesAreAlone, TransactionIsKept, InTransaction
  <2>3. OpenIsOfABatch
    BY <1>3 DEF OpenIsOfABatch, Closed
  <2>4. RowsAreAllOrNone
    BY <1>1, <1>3 DEF RowsAreAllOrNone, RowsOf
  <2> QED BY <2>2, <2>3, <2>4 DEF Atomic
<1> QED BY <1>4, <1>5, <1>6, <1>7, <1>8 DEF PoolInv, PoolSound

\* Who is alone
LEMMA AloneIs ==
  ASSUME PoolSound, BatchesAreAlone, NEW b \in Batches, UnderWay(b)
  PROVE  /\ b \in DbRequests /\ \A r \in DbRequests \ {b} : ~UnderWay(r) /\ on[r] = NoConn
         /\ IF on[b] # NoConn THEN waiting = <<>> ELSE waiting # <<>> /\ Head(waiting) = b
<1>1. b \in DbRequests /\ \A r \in DbRequests \ {b} : ~UnderWay(r)
  BY DEF DbRequests, BatchesAreAlone
<1>2. /\ waiting \in Seq(DbRequests) /\ \A r \in DbRequests : r \in ToSet(waiting) <=> UnderWay(r) /\ on[r] = NoConn
      /\ \A r \in DbRequests : on[r] # NoConn => UnderWay(r)
  BY DEF PoolSound, PoolTypes, QueueIsSound
<1>3. waiting # <<>> => Head(waiting) \in ToSet(waiting) /\ Head(waiting) \in DbRequests
  BY <1>2, TailIs
<1>4. waiting = <<>> => ToSet(waiting) = {}
  BY DEF ToSet
<1> QED BY <1>1, <1>2, <1>3, <1>4

LEMMA ConnIs ==
  ASSUME PoolSound
  PROVE  /\ Closed \in [tx : Tx, held : SUBSET Row] /\ Closed.tx = "closed" /\ Closed.held = {}
         /\ Ready \in [tx : Tx, held : SUBSET Row] /\ Ready.tx = "none" /\ Ready.held = {}
         /\ [tx |-> "failed", held |-> {}] \in [tx : Tx, held : SUBSET Row]
         /\ conn \in [Conns -> [tx : Tx, held : SUBSET Row]] /\ on \in [DbRequests -> Conns \union {NoConn}]
         /\ \A c \in Conns : conn[c] \in [tx : Tx, held : SUBSET Row]
         /\ idle \in Seq(Conns) /\ ToSet(idle) \subseteq Conns /\ waiting \in Seq(DbRequests)
         /\ poolAt \in [DbRequests -> [pc : Pc, n : Nat]]
         /\ \A r \in DbRequests : poolAt[r].pc \in Pc /\ poolAt[r].n \in Nat
BY DEF Closed, Ready, Tx, PoolSound, PoolTypes, ToSet

\* Dispatch.
LEMMA DispatchIs ==
  ASSUME PoolSound, Dispatch
  PROVE  \E r \in DbRequests, c \in Conns :
           /\ r = Head(waiting) /\ on[r] = NoConn /\ UnderWay(r) /\ on' = [on EXCEPT ![r] = c]
           /\ waiting' \in Seq(DbRequests) /\ ToSet(waiting') = ToSet(waiting) \ {r} /\ IsInjective(waiting')
           /\ idle' \in Seq(Conns) /\ ToSet(idle') \subseteq ToSet(idle) \ {c} /\ IsInjective(idle')
           /\ \A q \in DbRequests : on[q] # c
           /\ \/ idle # <<>> /\ c = Last(idle) /\ conn' = conn /\ conn[c].tx # "closed"
              \/ idle = <<>> /\ conn[c].tx = "closed" /\ conn' = [conn EXCEPT ![c] = Ready]
           /\ UNCHANGED <<poolAt, stored, mixed>>
<1> DEFINE r == Head(waiting)
<1>1. /\ r \in DbRequests /\ waiting' \in Seq(DbRequests) /\ ToSet(waiting) = {r} \union ToSet(waiting')
      /\ r \notin ToSet(waiting') /\ IsInjective(waiting')
  <2>1. waiting # <<>> /\ waiting' = Tail(waiting) /\ waiting \in Seq(DbRequests) /\ IsInjective(waiting)
    BY ConnIs DEF Dispatch, PoolSound, QueueIsSound
  <2> QED BY <2>1, TailIs
<1>2. on[r] = NoConn /\ UnderWay(r)
  BY <1>1 DEF PoolSound, QueueIsSound
<1>3. UNCHANGED <<poolAt, stored, mixed>>
  BY DEF Dispatch
<1>4. CASE idle # <<>> /\ idle' = Front(idle) /\ on' = [on EXCEPT ![r] = Last(idle)] /\ UNCHANGED conn
  <2>1. idle \in Seq(Conns) /\ IsInjective(idle)
    BY ConnIs DEF PoolSound, ConnsAreSound
  <2>2. /\ idle' \in Seq(Conns) /\ Last(idle) \in Conns /\ Last(idle) \in ToSet(idle) /\ IsInjective(idle')
        /\ ToSet(idle') \subseteq ToSet(idle) \ {Last(idle)}
    BY <1>4, <2>1, FrontIs
  <2>3. conn[Last(idle)].tx # "closed" /\ \A q \in DbRequests : on[q] # Last(idle)
    BY <2>2 DEF PoolSound, ConnsAreSound
  <2> QED BY <1>1, <1>2, <1>3, <1>4, <2>2, <2>3
<1>5. ASSUME idle = <<>>, UNCHANGED idle, NEW c \in Conns, conn[c].tx = "closed", conn' = [conn EXCEPT ![c] = Ready],
             on' = [on EXCEPT ![r] = c]
      PROVE  \A q \in DbRequests : on[q] # c
  BY <1>5, PoolAssumption DEF PoolSound, ConnsAreSound
<1>6. IsInjective(<<>>) /\ ToSet(<<>>) = {} /\ idle \in Seq(Conns)
  BY ConnIs DEF IsInjective, ToSet
<1>7. CASE idle = <<>> /\ UNCHANGED idle
           /\ \E c \in Conns : conn[c].tx = "closed" /\ conn' = [conn EXCEPT ![c] = Ready] /\ on' = [on EXCEPT ![r] = c]
  <2>1. PICK c \in Conns : conn[c].tx = "closed" /\ conn' = [conn EXCEPT ![c] = Ready] /\ on' = [on EXCEPT ![r] = c]
    BY <1>7
  <2>2. \A q \in DbRequests : on[q] # c
    BY <1>5, <1>7, <2>1
  <2>3. idle' \in Seq(Conns) /\ ToSet(idle') \subseteq ToSet(idle) \ {c} /\ IsInjective(idle')
    BY <1>6, <1>7
  <2>4. ToSet(waiting') = ToSet(waiting) \ {r}
    BY <1>1
  <2> HIDE DEF r
  <2> QED BY <1>1, <1>2, <1>3, <1>7, <2>1, <2>2, <2>3, <2>4 DEF r
<1> QED BY <1>4, <1>7 DEF Dispatch

LEMMA DispatchKeepsSound ==
  ASSUME PoolSound, Dispatch
  PROVE  PoolSound'
<1>1. PICK r \in DbRequests, c \in Conns :
           /\ r = Head(waiting) /\ on[r] = NoConn /\ UnderWay(r) /\ on' = [on EXCEPT ![r] = c]
           /\ waiting' \in Seq(DbRequests) /\ ToSet(waiting') = ToSet(waiting) \ {r} /\ IsInjective(waiting')
           /\ idle' \in Seq(Conns) /\ ToSet(idle') \subseteq ToSet(idle) \ {c} /\ IsInjective(idle')
           /\ \A q \in DbRequests : on[q] # c
           /\ \/ idle # <<>> /\ c = Last(idle) /\ conn' = conn /\ conn[c].tx # "closed"
              \/ idle = <<>> /\ conn[c].tx = "closed" /\ conn' = [conn EXCEPT ![c] = Ready]
           /\ UNCHANGED <<poolAt, stored, mixed>>
  BY DispatchIs
<1>2. /\ on' \in [DbRequests -> Conns \union {NoConn}] /\ on'[r] = c /\ c # NoConn
      /\ \A q \in DbRequests \ {r} : on'[q] = on[q]
  BY <1>1, ConnIs, PoolAssumption
<1>3. /\ conn' \in [Conns -> [tx : Tx, held : SUBSET Row]] /\ conn'[c].tx # "closed"
      /\ \A d \in Conns \ {c} : conn'[d] = conn[d]
      /\ conn'[c].held = {} \/ conn'[c] = conn[c]
  <2>1. /\ conn \in [Conns -> [tx : Tx, held : SUBSET Row]] /\ Ready \in [tx : Tx, held : SUBSET Row]
        /\ Ready.tx # "closed" /\ Ready.held = {}
    BY ConnIs
  <2>2. CASE conn' = conn /\ conn[c].tx # "closed"
    BY <2>1, <2>2
  <2>3. CASE conn' = [conn EXCEPT ![c] = Ready]
    BY <2>1, <2>3
  <2> QED BY <1>1, <2>2, <2>3
<1>4. \A q \in DbRequests : UnderWay(q)' <=> UnderWay(q)
  BY <1>1 DEF UnderWay
<1>5. PoolTypes'
  BY <1>1, <1>2, <1>3 DEF PoolSound, PoolTypes
<1>6. QueueIsSound'
  BY <1>1, <1>2, <1>4 DEF PoolSound, QueueIsSound
<1>7. ConnsAreSound'
  <2>1. \A d \in ToSet(idle') : d \in ToSet(idle) /\ d \in Conns \ {c}
    BY <1>1, ConnIs
  <2>2. \A d \in ToSet(idle') : conn'[d].tx # "closed" /\ \A q \in DbRequests : on'[q] # d
    BY <1>2, <1>3, <2>1 DEF PoolSound, ConnsAreSound
  <2>3. \A q \in DbRequests : on'[q] # NoConn =>
          conn'[on'[q]].tx # "closed" /\ \A p \in DbRequests : on'[p] = on'[q] => p = q
    BY <1>1, <1>2, <1>3, ConnIs DEF PoolSound, ConnsAreSound
  <2>4. \A d \in Conns : conn'[d].tx # "open" => conn'[d].held = {}
    BY <1>3 DEF PoolSound, ConnsAreSound
  <2> QED BY <1>1, <2>2, <2>3, <2>4 DEF ConnsAreSound
<1>8. RequestsAreSound'
  BY <1>1 DEF PoolSound, RequestsAreSound
<1> QED BY <1>5, <1>6, <1>7, <1>8 DEF PoolSound

\* IdleTimeout, TruncateRefused.
LEMMA IdleTimeoutIs ==
  ASSUME PoolSound, IdleTimeout
  PROVE  /\ waiting = <<>> /\ UNCHANGED <<waiting, poolAt, on, stored, mixed>>
         /\ \E c \in Conns :
              /\ c \in ToSet(idle) /\ idle' \in Seq(Conns) /\ ToSet(idle') \subseteq ToSet(idle) \ {c} /\ IsInjective(idle')
              /\ conn' = [conn EXCEPT ![c] = Closed] /\ \A q \in DbRequests : on[q] # c
<1>1. PICK i \in DOMAIN idle : idle' = RemoveAt(idle, i) /\ conn' = [conn EXCEPT ![idle[i]] = Closed]
  BY DEF IdleTimeout
<1>2. /\ idle' \in Seq(Conns) /\ idle[i] \in Conns /\ idle[i] \in ToSet(idle) /\ IsInjective(idle')
      /\ ToSet(idle') \subseteq ToSet(idle) \ {idle[i]}
  <2>1. idle \in Seq(Conns) /\ IsInjective(idle)
    BY ConnIs DEF PoolSound, ConnsAreSound
  <2> QED BY <1>1, <2>1, RemoveAtIs
<1>3. \A q \in DbRequests : on[q] # idle[i]
  BY <1>2 DEF PoolSound, ConnsAreSound
<1> QED BY <1>1, <1>2, <1>3 DEF IdleTimeout

LEMMA IdleTimeoutKeepsSound ==
  ASSUME PoolSound, IdleTimeout
  PROVE  PoolSound'
<1>1. UNCHANGED <<waiting, poolAt, on, mixed>>
  BY IdleTimeoutIs
<1>2. PICK c \in Conns :
        /\ idle' \in Seq(Conns) /\ ToSet(idle') \subseteq ToSet(idle) \ {c} /\ IsInjective(idle')
        /\ conn' = [conn EXCEPT ![c] = Closed] /\ \A q \in DbRequests : on[q] # c
  BY IdleTimeoutIs
<1>3. /\ conn' \in [Conns -> [tx : Tx, held : SUBSET Row]] /\ conn'[c].held = {}
      /\ \A d \in Conns \ {c} : conn'[d] = conn[d]
  BY <1>2, ConnIs
<1>4. PoolTypes'
  BY <1>1, <1>2, <1>3 DEF PoolSound, PoolTypes
<1>5. QueueIsSound'
  BY <1>1 DEF PoolSound, QueueIsSound, UnderWay
<1>6. ConnsAreSound'
  <2>1. \A d \in ToSet(idle') : d \in ToSet(idle) /\ d \in Conns \ {c}
    BY <1>2, ConnIs
  <2>2. \A q \in DbRequests : on[q] # NoConn => on[q] \in Conns \ {c}
    BY <1>2, ConnIs
  <2> QED BY <1>1, <1>2, <1>3, <2>1, <2>2 DEF PoolSound, ConnsAreSound
<1>7. RequestsAreSound'
  BY <1>1 DEF PoolSound, RequestsAreSound
<1> QED BY <1>4, <1>5, <1>6, <1>7 DEF PoolSound

LEMMA TruncateRefusedIs ==
  ASSUME PoolSound, TruncateRefused
  PROVE  /\ UNCHANGED <<waiting, poolAt, on, stored>>
         /\ mixed' = (mixed \/ \E b \in Batches : UnderWay(b))
         /\ \E c \in Conns :
              /\ conn' = [conn EXCEPT ![c] = [tx |-> "failed", held |-> {}]] /\ \A q \in DbRequests : on[q] # c
              /\ idle' \in Seq(Conns) /\ IsInjective(idle') /\ ToSet(idle') \subseteq ToSet(idle) \union {c}
<1>1. UNCHANGED <<waiting, poolAt, on, stored>> /\ mixed' = (mixed \/ \E b \in Batches : UnderWay(b))
  BY DEF TruncateRefused
<1>2. idle \in Seq(Conns) /\ IsInjective(idle)
  BY ConnIs DEF PoolSound, ConnsAreSound
<1>3. CASE idle # <<>> /\ conn' = [conn EXCEPT ![Last(idle)] = [tx |-> "failed", held |-> {}]] /\ UNCHANGED idle
  <2>1. Last(idle) \in Conns /\ Last(idle) \in ToSet(idle)
    BY <1>2, <1>3, FrontIs
  <2>2. \A q \in DbRequests : on[q] # Last(idle)
    BY <2>1 DEF PoolSound, ConnsAreSound
  <2> QED BY <1>1, <1>2, <1>3, <2>1, <2>2
<1>4. CASE idle = <<>> /\ \E c \in Conns : /\ conn[c].tx = "closed" /\ idle' = <<c>>
                                          /\ conn' = [conn EXCEPT ![c] = [tx |-> "failed", held |-> {}]]
  <2>1. PICK c \in Conns : /\ conn[c].tx = "closed" /\ idle' = <<c>>
                           /\ conn' = [conn EXCEPT ![c] = [tx |-> "failed", held |-> {}]]
    BY <1>4
  <2>2. \A q \in DbRequests : on[q] # c
    BY <2>1, PoolAssumption DEF PoolSound, ConnsAreSound
  <2>3. <<c>> \in Seq(Conns) /\ IsInjective(<<c>>) /\ ToSet(<<c>>) = {c}
    BY DEF IsInjective, ToSet
  <2> QED BY <1>1, <2>1, <2>2, <2>3
<1> QED BY <1>3, <1>4 DEF TruncateRefused

LEMMA TruncateRefusedKeepsSound ==
  ASSUME PoolSound, TruncateRefused
  PROVE  PoolSound'
<1>1. UNCHANGED <<waiting, poolAt, on>> /\ mixed' \in BOOLEAN
  BY TruncateRefusedIs
<1>2. PICK c \in Conns :
        /\ conn' = [conn EXCEPT ![c] = [tx |-> "failed", held |-> {}]] /\ \A q \in DbRequests : on[q] # c
        /\ idle' \in Seq(Conns) /\ IsInjective(idle') /\ ToSet(idle') \subseteq ToSet(idle) \union {c}
  BY TruncateRefusedIs
<1>3. /\ conn' \in [Conns -> [tx : Tx, held : SUBSET Row]] /\ conn'[c].held = {} /\ conn'[c].tx = "failed"
      /\ \A d \in Conns \ {c} : conn'[d] = conn[d]
  BY <1>2, ConnIs
<1>4. PoolTypes'
  BY <1>1, <1>2, <1>3 DEF PoolSound, PoolTypes
<1>5. QueueIsSound'
  BY <1>1 DEF PoolSound, QueueIsSound, UnderWay
<1>6. ConnsAreSound'
  <2>1. \A d \in ToSet(idle') : d = c \/ (d \in ToSet(idle) /\ d \in Conns \ {c})
    BY <1>2, ConnIs
  <2>2. \A q \in DbRequests : on[q] # NoConn => on[q] \in Conns \ {c}
    BY <1>2, ConnIs
  <2> QED BY <1>1, <1>2, <1>3, <2>1, <2>2 DEF PoolSound, ConnsAreSound
<1>7. RequestsAreSound'
  BY <1>1 DEF PoolSound, RequestsAreSound
<1> QED BY <1>4, <1>5, <1>6, <1>7 DEF PoolSound

\* Start, Done and StatementRefused: a request asks for its next statement, or is answered.
LEMMA GoesOnKeepsQueue ==
  ASSUME PoolSound, NEW r \in DbRequests, NEW p \in [pc : Pc, n : Nat], r \notin ToSet(waiting),
         poolAt' = [poolAt EXCEPT ![r] = p], on' = [on EXCEPT ![r] = NoConn],
         \/ waiting' = Append(waiting, r) /\ p.pc \in {"begin", "statement", "commit", "rollback"}
         \/ waiting' = waiting /\ p.pc \in {"ok", "failed"}
  PROVE  /\ poolAt' \in [DbRequests -> [pc : Pc, n : Nat]] /\ on' \in [DbRequests -> Conns \union {NoConn}]
         /\ waiting' \in Seq(DbRequests) /\ QueueIsSound'
         /\ on'[r] = NoConn /\ poolAt'[r] = p
         /\ \A q \in DbRequests \ {r} : poolAt'[q] = poolAt[q] /\ on'[q] = on[q]
<1>1. /\ poolAt' \in [DbRequests -> [pc : Pc, n : Nat]] /\ on' \in [DbRequests -> Conns \union {NoConn}]
      /\ on'[r] = NoConn /\ poolAt'[r] = p
      /\ \A q \in DbRequests \ {r} : poolAt'[q] = poolAt[q] /\ on'[q] = on[q]
  BY ConnIs
<1>2. /\ waiting \in Seq(DbRequests) /\ IsInjective(waiting)
      /\ \A q \in DbRequests : q \in ToSet(waiting) <=> UnderWay(q) /\ on[q] = NoConn
      /\ \A q \in DbRequests : on[q] # NoConn => UnderWay(q)
  BY ConnIs DEF PoolSound, QueueIsSound
<1>3. \A q \in DbRequests \ {r} : UnderWay(q)' <=> UnderWay(q)
  BY <1>1 DEF UnderWay
<1>4. UnderWay(r)' <=> p.pc \notin {"new", "ok", "failed"}
  BY <1>1 DEF UnderWay
<1>5. CASE waiting' = Append(waiting, r) /\ p.pc \in {"begin", "statement", "commit", "rollback"}
  <2>1. waiting' \in Seq(DbRequests) /\ IsInjective(waiting') /\ ToSet(waiting') = ToSet(waiting) \union {r}
    BY <1>2, <1>5, AppendIs
  <2>2. UnderWay(r)'
    BY <1>4, <1>5
  <2>3. QueueIsSound'
    BY <1>1, <1>2, <1>3, <2>1, <2>2 DEF QueueIsSound
  <2> QED BY <1>1, <2>1, <2>3
<1>6. CASE waiting' = waiting /\ p.pc \in {"ok", "failed"}
  <2>1. ~UnderWay(r)'
    BY <1>4, <1>6
  <2>2. QueueIsSound'
    BY <1>1, <1>2, <1>3, <1>6, <2>1 DEF QueueIsSound
  <2> QED BY <1>1, <1>2, <1>6, <2>2
<1> QED BY <1>5, <1>6

LEMMA ExecutesIs ==
  ASSUME PoolSound, NEW r \in DbRequests, on[r] # NoConn, Executes(r)
  PROVE  /\ on[r] \in Conns /\ conn' \in [Conns -> [tx : Tx, held : SUBSET Row]]
         /\ \A d \in Conns \ {on[r]} : conn'[d] = conn[d]
         /\ conn'[on[r]].tx # "closed" /\ (conn'[on[r]].tx # "open" => conn'[on[r]].held = {})
<1> DEFINE c == on[r]
           row == [of |-> r, n |-> poolAt[r].n + 1]
<1>1. /\ c \in Conns /\ conn \in [Conns -> [tx : Tx, held : SUBSET Row]] /\ conn[c] \in [tx : Tx, held : SUBSET Row]
      /\ conn[c].tx # "closed" /\ (conn[c].tx # "open" => conn[c].held = {})
  BY ConnIs DEF PoolSound, ConnsAreSound
<1>2. row \in Row
  BY ConnIs DEF Row
<1>3. CASE conn' = [conn EXCEPT ![c].tx = "open"]
  BY <1>1, <1>3 DEF Tx
<1>4. CASE conn[c].tx = "open" /\ conn' = [conn EXCEPT ![c].held = @ \union {row}]
  <2>1. [conn[c] EXCEPT !.held = @ \union {row}] \in [tx : Tx, held : SUBSET Row]
    BY <1>1, <1>2
  <2> QED BY <1>1, <1>4, <2>1
<1>5. CASE conn' = conn
  BY <1>1, <1>5
<1>6. CASE conn' = [conn EXCEPT ![c] = Ready]
  BY <1>1, <1>6, ConnIs
<1> QED BY <1>3, <1>4, <1>5, <1>6 DEF Executes

LEMMA WithPc ==
  ASSUME NEW r \in DbRequests, poolAt \in [DbRequests -> [pc : Pc, n : Nat]], NEW to \in Pc
  PROVE  [poolAt EXCEPT ![r].pc = to] = [poolAt EXCEPT ![r] = [pc |-> to, n |-> poolAt[r].n]]
<1>1. ASSUME NEW p \in [pc : Pc, n : Nat] PROVE [p EXCEPT !.pc = to] = [pc |-> to, n |-> p.n]
  OBVIOUS
<1>2. poolAt[r] \in [pc : Pc, n : Nat]
  OBVIOUS
<1>3. [poolAt[r] EXCEPT !.pc = to] = [pc |-> to, n |-> poolAt[r].n]
  BY <1>1, <1>2
<1> QED BY <1>3

LEMMA DoneIs ==
  ASSUME PoolSound, NEW r \in DbRequests, Done(r)
  PROVE  /\ on[r] # NoConn /\ Executes(r) /\ idle' = Append(idle, on[r]) /\ on' = [on EXCEPT ![r] = NoConn]
         /\ mixed' = mixed /\ r \notin ToSet(waiting) /\ UnderWay(r)
         /\ \E p \in [pc : Pc, n : Nat] :
              /\ poolAt' = [poolAt EXCEPT ![r] = p]
              /\ \/ waiting' = Append(waiting, r) /\ p.pc \in {"begin", "statement", "commit", "rollback"}
                 \/ waiting' = waiting /\ p.pc \in {"ok", "failed"}
              /\ \/ poolAt[r].pc = "begin" /\ p = [pc |-> "statement", n |-> 0] /\ r \in Batches
                 \/ poolAt[r].pc = "statement" /\ r \in Singles /\ p = [pc |-> "ok", n |-> 0]
                 \/ /\ poolAt[r].pc = "statement" /\ r \in Batches
                    /\ p = [pc |-> IF poolAt[r].n + 1 = Length THEN "commit" ELSE "statement", n |-> poolAt[r].n + 1]
                 \/ poolAt[r].pc = "commit" /\ r \in Batches /\ p = [pc |-> "ok", n |-> poolAt[r].n]
                 \/ poolAt[r].pc = "rollback" /\ r \in Batches /\ p = [pc |-> "failed", n |-> poolAt[r].n]
<1>1. /\ on[r] # NoConn /\ Executes(r) /\ idle' = Append(idle, on[r]) /\ on' = [on EXCEPT ![r] = NoConn] /\ mixed' = mixed
      /\ r \notin ToSet(waiting) /\ UnderWay(r)
  BY DEF Done, PoolSound, QueueIsSound
<1>2. /\ poolAt \in [DbRequests -> [pc : Pc, n : Nat]] /\ poolAt[r].pc \in Pc /\ poolAt[r].n \in Nat
      /\ poolAt[r] \in [pc : Pc, n : Nat]
  BY ConnIs
<1>3. /\ r \in Singles => poolAt[r].pc \in {"new", "statement", "ok", "failed"} /\ poolAt[r].n = 0
      /\ r \in Batches \/ r \in Singles
  BY DEF PoolSound, RequestsAreSound, DbRequests
<1>4. CASE poolAt[r].pc = "begin"
  <2> DEFINE p == [pc |-> "statement", n |-> 0]
  <2>1. poolAt' = [poolAt EXCEPT ![r] = p] /\ waiting' = Append(waiting, r)
    BY <1>4 DEF Done, Asks
  <2>2. p \in [pc : Pc, n : Nat] /\ p.pc = "statement"
    BY DEF Pc
  <2>3. r \in Batches
    BY <1>3, <1>4
  <2> QED BY <1>1, <1>4, <2>1, <2>2, <2>3
<1>5. CASE poolAt[r].pc = "statement" /\ r \in Singles
  <2> DEFINE p == [pc |-> "ok", n |-> 0]
  <2>1. poolAt' = [poolAt EXCEPT ![r].pc = "ok"] /\ waiting' = waiting
    BY <1>5, PoolAssumption DEF Done, Responds
  <2>2. poolAt' = [poolAt EXCEPT ![r] = p]
    BY <1>2, <1>3, <1>5, <2>1, WithPc DEF Pc
  <2>3. p \in [pc : Pc, n : Nat] /\ p.pc = "ok"
    BY DEF Pc
  <2> QED BY <1>1, <1>5, <2>1, <2>2, <2>3
<1>6. CASE poolAt[r].pc = "statement" /\ r \in Batches
  <2> DEFINE p == [pc |-> IF poolAt[r].n + 1 = Length THEN "commit" ELSE "statement", n |-> poolAt[r].n + 1]
  <2>1. poolAt' = [poolAt EXCEPT ![r] = p] /\ waiting' = Append(waiting, r)
    BY <1>6, PoolAssumption DEF Done, Asks
  <2>2. p \in [pc : Pc, n : Nat] /\ p.pc \in {"statement", "commit"}
    BY <1>2 DEF Pc
  <2> QED BY <1>1, <1>6, <2>1, <2>2
<1>7. CASE poolAt[r].pc = "commit"
  <2> DEFINE p == [pc |-> "ok", n |-> poolAt[r].n]
  <2>1. poolAt' = [poolAt EXCEPT ![r].pc = "ok"] /\ waiting' = waiting
    BY <1>7 DEF Done, Responds
  <2>2. poolAt' = [poolAt EXCEPT ![r] = p]
    BY <1>2, <2>1, WithPc DEF Pc
  <2>3. p \in [pc : Pc, n : Nat] /\ p.pc = "ok" /\ r \in Batches
    BY <1>2, <1>3, <1>7 DEF Pc
  <2> QED BY <1>1, <1>7, <2>1, <2>2, <2>3
<1>8. CASE poolAt[r].pc = "rollback"
  <2> DEFINE p == [pc |-> "failed", n |-> poolAt[r].n]
  <2>1. poolAt' = [poolAt EXCEPT ![r].pc = "failed"] /\ waiting' = waiting
    BY <1>8 DEF Done, Responds
  <2>2. poolAt' = [poolAt EXCEPT ![r] = p]
    BY <1>2, <2>1, WithPc DEF Pc
  <2>3. p \in [pc : Pc, n : Nat] /\ p.pc = "failed" /\ r \in Batches
    BY <1>2, <1>3, <1>8 DEF Pc
  <2> QED BY <1>1, <1>8, <2>1, <2>2, <2>3
<1>9. poolAt[r].pc \in {"begin", "statement", "commit", "rollback"}
  BY <1>1 DEF Executes
<1> QED BY <1>3, <1>4, <1>5, <1>6, <1>7, <1>8, <1>9

LEMMA StartIs ==
  ASSUME PoolSound, NEW r \in DbRequests, Start(r)
  PROVE  /\ UNCHANGED <<conn, idle, on, stored>> /\ poolAt[r].pc = "new" /\ ~UnderWay(r)
         /\ r \notin ToSet(waiting) /\ on[r] = NoConn /\ on' = [on EXCEPT ![r] = NoConn]
         /\ poolAt' = [poolAt EXCEPT ![r] = [pc |-> First(r), n |-> 0]] /\ waiting' = Append(waiting, r)
         /\ mixed' = (mixed \/ \E q \in DbRequests \ {r} : UnderWay(q) /\ (r \in Batches \/ q \in Batches))
         /\ [pc |-> First(r), n |-> 0] \in [pc : Pc, n : Nat]
<1>1. poolAt[r].pc = "new" /\ ~UnderWay(r) /\ UNCHANGED <<conn, idle, on, stored>>
  BY DEF Start, UnderWay
<1>2. r \notin ToSet(waiting) /\ on[r] = NoConn
  BY <1>1 DEF PoolSound, QueueIsSound
<1>3. on' = [on EXCEPT ![r] = NoConn]
  BY <1>1, <1>2, ConnIs
<1>4. [pc |-> First(r), n |-> 0] \in [pc : Pc, n : Nat]
  BY DEF First, Pc
<1> QED BY <1>1, <1>2, <1>3, <1>4 DEF Start, Asks

LEMMA StartKeepsSound ==
  ASSUME PoolSound, NEW r \in DbRequests, Start(r)
  PROVE  PoolSound'
<1> DEFINE p == [pc |-> First(r), n |-> 0]
<1>1. /\ p \in [pc : Pc, n : Nat] /\ r \notin ToSet(waiting) /\ on' = [on EXCEPT ![r] = NoConn]
      /\ p.pc \in {"begin", "statement", "commit", "rollback"} /\ p.n = 0
      /\ poolAt' = [poolAt EXCEPT ![r] = p] /\ waiting' = Append(waiting, r) /\ UNCHANGED <<conn, idle, on>>
      /\ mixed' \in BOOLEAN
  BY StartIs DEF First
<1>2. /\ poolAt' \in [DbRequests -> [pc : Pc, n : Nat]] /\ waiting' \in Seq(DbRequests) /\ QueueIsSound'
      /\ poolAt'[r] = p /\ \A q \in DbRequests \ {r} : poolAt'[q] = poolAt[q]
  BY <1>1, GoesOnKeepsQueue
<1>3. PoolTypes'
  BY <1>1, <1>2 DEF PoolSound, PoolTypes
<1>4. ConnsAreSound'
  BY <1>1 DEF PoolSound, ConnsAreSound
<1>5. RequestsAreSound'
  <2>1. r \in Batches => p.pc = "begin"
    BY DEF First
  <2>2. r \in Singles => p.pc = "statement"
    BY PoolAssumption DEF First
  <2> QED BY <1>1, <1>2, <2>1, <2>2 DEF PoolSound, RequestsAreSound
<1> QED BY <1>2, <1>3, <1>4, <1>5 DEF PoolSound

LEMMA DoneKeepsSound ==
  ASSUME PoolSound, NEW r \in DbRequests, Done(r)
  PROVE  PoolSound'
<1> DEFINE c == on[r]
<1>1. /\ c # NoConn /\ Executes(r) /\ idle' = Append(idle, c) /\ on' = [on EXCEPT ![r] = NoConn]
      /\ mixed' = mixed /\ r \notin ToSet(waiting)
  BY DoneIs
<1>2. PICK p \in [pc : Pc, n : Nat] :
              /\ poolAt' = [poolAt EXCEPT ![r] = p]
              /\ \/ waiting' = Append(waiting, r) /\ p.pc \in {"begin", "statement", "commit", "rollback"}
                 \/ waiting' = waiting /\ p.pc \in {"ok", "failed"}
              /\ \/ poolAt[r].pc = "begin" /\ p = [pc |-> "statement", n |-> 0] /\ r \in Batches
                 \/ poolAt[r].pc = "statement" /\ r \in Singles /\ p = [pc |-> "ok", n |-> 0]
                 \/ /\ poolAt[r].pc = "statement" /\ r \in Batches
                    /\ p = [pc |-> IF poolAt[r].n + 1 = Length THEN "commit" ELSE "statement", n |-> poolAt[r].n + 1]
                 \/ poolAt[r].pc = "commit" /\ r \in Batches /\ p = [pc |-> "ok", n |-> poolAt[r].n]
                 \/ poolAt[r].pc = "rollback" /\ r \in Batches /\ p = [pc |-> "failed", n |-> poolAt[r].n]
  BY DoneIs
<1>3. /\ poolAt' \in [DbRequests -> [pc : Pc, n : Nat]] /\ on' \in [DbRequests -> Conns \union {NoConn}]
      /\ waiting' \in Seq(DbRequests) /\ QueueIsSound' /\ on'[r] = NoConn /\ poolAt'[r] = p
      /\ \A q \in DbRequests \ {r} : poolAt'[q] = poolAt[q] /\ on'[q] = on[q]
  BY <1>1, <1>2, GoesOnKeepsQueue
<1>4. /\ c \in Conns /\ conn' \in [Conns -> [tx : Tx, held : SUBSET Row]]
      /\ \A d \in Conns \ {c} : conn'[d] = conn[d]
      /\ conn'[c].tx # "closed" /\ (conn'[c].tx # "open" => conn'[c].held = {})
  BY <1>1, ExecutesIs
<1>5. /\ c \notin ToSet(idle) /\ \A q \in DbRequests \ {r} : on[q] # c
  BY <1>1 DEF PoolSound, ConnsAreSound
<1>6. idle' \in Seq(Conns) /\ IsInjective(idle') /\ ToSet(idle') = ToSet(idle) \union {c}
  <2>1. idle \in Seq(Conns) /\ IsInjective(idle)
    BY ConnIs DEF PoolSound, ConnsAreSound
  <2> QED BY <1>1, <1>4, <1>5, <2>1, AppendIs
<1>7. PoolTypes'
  BY <1>1, <1>3, <1>4, <1>6 DEF PoolSound, PoolTypes
<1>8. ConnsAreSound'
  <2>1. \A d \in ToSet(idle) : d \in Conns \ {c} /\ conn[d].tx # "closed" /\ \A q \in DbRequests : on[q] # d
    BY <1>5, ConnIs DEF PoolSound, ConnsAreSound
  <2>2. \A d \in ToSet(idle') : conn'[d].tx # "closed" /\ \A q \in DbRequests : on'[q] # d
    <3>1. \A q \in DbRequests : on'[q] = NoConn \/ (q # r /\ on'[q] = on[q])
      BY <1>3
    <3>2. ASSUME NEW d \in ToSet(idle) PROVE conn'[d].tx # "closed" /\ \A q \in DbRequests : on'[q] # d
      BY <1>4, <2>1, <3>1, PoolAssumption
    <3>3. conn'[c].tx # "closed" /\ \A q \in DbRequests : on'[q] # c
      BY <1>1, <1>4, <1>5, <3>1
    <3> QED BY <1>6, <3>2, <3>3
  <2>3. ASSUME NEW q \in DbRequests, on'[q] # NoConn
        PROVE  conn'[on'[q]].tx # "closed" /\ \A o \in DbRequests : on'[o] = on'[q] => o = q
    <3>1. q # r /\ on'[q] = on[q] /\ on[q] \in Conns \ {c}
      BY <1>3, <1>5, <2>3, ConnIs
    <3>2. conn[on[q]].tx # "closed" /\ \A o \in DbRequests : on[o] = on[q] => o = q
      BY <2>3, <3>1 DEF PoolSound, ConnsAreSound
    <3>3. \A o \in DbRequests : on'[o] = NoConn \/ on'[o] = on[o]
      BY <1>3
    <3> QED BY <1>4, <2>3, <3>1, <3>2, <3>3
  <2>4. \A d \in Conns : conn'[d].tx # "open" => conn'[d].held = {}
    BY <1>4 DEF PoolSound, ConnsAreSound
  <2> QED BY <1>6, <2>2, <2>3, <2>4 DEF ConnsAreSound
<1>9. RequestsAreSound'
  <2>1. r \in Batches /\ poolAt[r].pc = "statement" => poolAt[r].n < Length /\ poolAt[r].n \in Nat
    BY ConnIs DEF PoolSound, RequestsAreSound
  <2>2. /\ r \in Singles => p.pc \in {"new", "statement", "ok", "failed"} /\ p.n = 0
        /\ r \in Batches =>
              /\ p.pc = "begin" => p.n = 0
              /\ p.pc = "statement" => p.n < Length
              /\ p.pc = "commit" => p.n = Length
    BY <1>2, <2>1, PoolAssumption
  <2> QED BY <1>3, <2>2 DEF PoolSound, RequestsAreSound
<1> QED BY <1>3, <1>7, <1>8, <1>9 DEF PoolSound

LEMMA StatementRefusedIs ==
  ASSUME PoolSound, NEW r \in DbRequests, StatementRefused(r)
  PROVE  /\ on[r] # NoConn /\ on[r] \in Conns /\ on' = [on EXCEPT ![r] = NoConn] /\ conn' = [conn EXCEPT ![on[r]] = Closed]
         /\ UNCHANGED <<idle, stored, mixed>> /\ r \notin ToSet(waiting) /\ UnderWay(r)
         /\ \E p \in [pc : Pc, n : Nat] :
              /\ poolAt' = [poolAt EXCEPT ![r] = p] /\ p.n = poolAt[r].n
              /\ \/ waiting' = Append(waiting, r) /\ p.pc = "rollback" /\ r \in Batches
                 \/ waiting' = waiting /\ p.pc = "failed"
<1>1. /\ on[r] # NoConn /\ on' = [on EXCEPT ![r] = NoConn] /\ conn' = [conn EXCEPT ![on[r]] = Closed]
      /\ UNCHANGED <<idle, stored, mixed>>
  BY DEF StatementRefused
<1>2. on[r] \in Conns /\ r \notin ToSet(waiting) /\ UnderWay(r)
  BY <1>1, ConnIs DEF PoolSound, QueueIsSound
<1>3. CASE r \in Batches /\ Asks(r, "rollback", poolAt[r].n)
  <2> DEFINE p == [pc |-> "rollback", n |-> poolAt[r].n]
  <2>1. p \in [pc : Pc, n : Nat] /\ p.pc = "rollback" /\ p.n = poolAt[r].n
    BY ConnIs DEF Pc
  <2>2. poolAt' = [poolAt EXCEPT ![r] = p] /\ waiting' = Append(waiting, r)
    BY <1>3 DEF Asks
  <2> QED BY <1>1, <1>2, <1>3, <2>1, <2>2
<1>4. CASE Responds(r, "failed")
  <2> DEFINE p == [pc |-> "failed", n |-> poolAt[r].n]
  <2>1. p \in [pc : Pc, n : Nat] /\ p.pc = "failed" /\ p.n = poolAt[r].n
    BY ConnIs DEF Pc
  <2>2. poolAt' = [poolAt EXCEPT ![r] = p] /\ waiting' = waiting
    BY <1>4, ConnIs, WithPc DEF Responds, Pc
  <2> QED BY <1>1, <1>2, <2>1, <2>2
<1> QED BY <1>3, <1>4 DEF StatementRefused

LEMMA StatementRefusedKeepsSound ==
  ASSUME PoolSound, NEW r \in DbRequests, StatementRefused(r)
  PROVE  PoolSound'
<1> DEFINE c == on[r]
<1>1. /\ c # NoConn /\ c \in Conns /\ on' = [on EXCEPT ![r] = NoConn] /\ conn' = [conn EXCEPT ![c] = Closed]
      /\ UNCHANGED <<idle, mixed>> /\ r \notin ToSet(waiting)
  BY StatementRefusedIs
<1>2. PICK p \in [pc : Pc, n : Nat] :
        /\ poolAt' = [poolAt EXCEPT ![r] = p] /\ p.n = poolAt[r].n
        /\ \/ waiting' = Append(waiting, r) /\ p.pc = "rollback" /\ r \in Batches
           \/ waiting' = waiting /\ p.pc = "failed"
  BY StatementRefusedIs
<1>3. /\ poolAt' \in [DbRequests -> [pc : Pc, n : Nat]] /\ on' \in [DbRequests -> Conns \union {NoConn}]
      /\ waiting' \in Seq(DbRequests) /\ QueueIsSound' /\ on'[r] = NoConn /\ poolAt'[r] = p
      /\ \A q \in DbRequests \ {r} : poolAt'[q] = poolAt[q] /\ on'[q] = on[q]
  BY <1>1, <1>2, GoesOnKeepsQueue
<1>4. /\ conn' \in [Conns -> [tx : Tx, held : SUBSET Row]] /\ conn'[c].held = {}
      /\ \A d \in Conns \ {c} : conn'[d] = conn[d]
  BY <1>1, ConnIs
<1>5. c \notin ToSet(idle) /\ \A q \in DbRequests \ {r} : on[q] # c
  BY <1>1 DEF PoolSound, ConnsAreSound
<1>6. PoolTypes'
  BY <1>1, <1>3, <1>4 DEF PoolSound, PoolTypes
<1>7. ConnsAreSound'
  <2>1. \A q \in DbRequests : on'[q] = NoConn \/ (q # r /\ on'[q] = on[q])
    BY <1>3
  <2>2. ASSUME NEW d \in ToSet(idle') PROVE conn'[d].tx # "closed" /\ \A q \in DbRequests : on'[q] # d
    <3>1. d \in Conns \ {c} /\ conn[d].tx # "closed" /\ \A q \in DbRequests : on[q] # d
      BY <1>1, <1>5, ConnIs DEF PoolSound, ConnsAreSound
    <3> QED BY <1>4, <2>1, <3>1, PoolAssumption
  <2>3. ASSUME NEW q \in DbRequests, on'[q] # NoConn
        PROVE  conn'[on'[q]].tx # "closed" /\ \A o \in DbRequests : on'[o] = on'[q] => o = q
    <3>1. q # r /\ on'[q] = on[q] /\ on[q] \in Conns \ {c}
      BY <1>3, <1>5, <2>3, ConnIs
    <3>2. conn[on[q]].tx # "closed" /\ \A o \in DbRequests : on[o] = on[q] => o = q
      BY <2>3, <3>1 DEF PoolSound, ConnsAreSound
    <3> QED BY <1>4, <2>1, <2>3, <3>1, <3>2
  <2>4. \A d \in Conns : conn'[d].tx # "open" => conn'[d].held = {}
    BY <1>4 DEF PoolSound, ConnsAreSound
  <2> QED BY <1>1, <2>2, <2>3, <2>4 DEF PoolSound, ConnsAreSound
<1>8. RequestsAreSound'
  <2>1. r \in Singles => p.pc \in {"new", "statement", "ok", "failed"} /\ p.n = 0
    BY <1>2, PoolAssumption DEF PoolSound, RequestsAreSound
  <2> QED BY <1>2, <1>3, <2>1 DEF PoolSound, RequestsAreSound
<1> QED BY <1>3, <1>6, <1>7, <1>8 DEF PoolSound

-----------------------------------------------------------------------------
\* Its transaction is the only one there is.
LEMMA OnlyOne ==
  ASSUME PoolSound, Atomic
  PROVE  /\ \A b \in Batches : b \in DbRequests /\ (InTransaction(b) => UnderWay(b))
         /\ \A b \in Batches, r \in DbRequests : UnderWay(b) /\ UnderWay(r) => r = b
         /\ \A c \in Conns : conn[c].tx = "open" => \E b \in Batches : InTransaction(b) /\ c = Its(b)
BY DEF DbRequests, InTransaction, UnderWay, Atomic, BatchesAreAlone, OpenIsOfABatch

\* Rows that stay
LEMMA RowsStay ==
  ASSUME RowsAreAllOrNone, stored' = stored, \A r \in DbRequests : poolAt'[r].pc = "ok" <=> poolAt[r].pc = "ok"
  PROVE  RowsAreAllOrNone'
BY DEF RowsAreAllOrNone, RowsOf, AllOf

LEMMA DispatchKeepsAtomic ==
  ASSUME PoolSound, Atomic, Dispatch
  PROVE  Atomic'
<1>1. PICK r \in DbRequests, c \in Conns :
           /\ on[r] = NoConn /\ UnderWay(r) /\ on' = [on EXCEPT ![r] = c]
           /\ \/ idle # <<>> /\ c = Last(idle) /\ conn' = conn
              \/ idle = <<>> /\ conn' = [conn EXCEPT ![c] = Ready]
           /\ UNCHANGED <<poolAt, stored, mixed>>
  BY DispatchIs
<1>2. on'[r] = c /\ c # NoConn /\ \A q \in DbRequests \ {r} : on'[q] = on[q]
  BY <1>1, ConnIs, PoolAssumption
<1>3. \A q \in DbRequests : UnderWay(q)' <=> UnderWay(q)
  BY <1>1 DEF UnderWay
<1>4. BatchesAreAlone'
  BY <1>3, OnlyOne DEF BatchesAreAlone
<1>5. ASSUME NEW b \in Batches, InTransaction(b)
      PROVE  b = r /\ idle # <<>> /\ Its(b) = c /\ Its(b)' = c /\ conn' = conn
  <2>1. b = r
    BY <1>1, <1>5, OnlyOne
  <2>2. idle # <<>>
    BY <1>1, <1>5, <2>1 DEF Atomic, TransactionIsKept
  <2> QED BY <1>1, <1>2, <2>1, <2>2 DEF Its
<1>6. TransactionIsKept'
  <2> SUFFICES ASSUME NEW b \in Batches, InTransaction(b)'
               PROVE  (on'[b] # NoConn \/ idle' # <<>>) /\ conn'[Its(b)'].tx = "open" /\ conn'[Its(b)'].held = Written(b)'
    BY DEF TransactionIsKept
  <2>1. InTransaction(b) /\ Written(b)' = Written(b)
    BY <1>1 DEF InTransaction, Written
  <2>2. b = r /\ Its(b) = c /\ Its(b)' = c /\ conn' = conn
    BY <1>5, <2>1
  <2> QED BY <1>2, <2>1, <2>2 DEF Atomic, TransactionIsKept
<1>7. OpenIsOfABatch'
  <2> SUFFICES ASSUME NEW d \in Conns, conn'[d].tx = "open" PROVE \E b \in Batches : InTransaction(b)' /\ d = Its(b)'
    BY DEF OpenIsOfABatch
  <2>1. conn[d].tx = "open"
    BY <1>1, ConnIs
  <2>2. PICK b \in Batches : InTransaction(b) /\ d = Its(b)
    BY <2>1, OnlyOne
  <2>3. InTransaction(b)'
    BY <1>1, <2>2 DEF InTransaction
  <2> QED BY <1>5, <2>2, <2>3
<1>8. RowsAreAllOrNone'
  BY <1>1, RowsStay DEF Atomic
<1> QED BY <1>4, <1>6, <1>7, <1>8 DEF Atomic

LEMMA IdleTimeoutKeepsAtomic ==
  ASSUME PoolSound, Atomic, IdleTimeout
  PROVE  Atomic'
<1>1. waiting = <<>> /\ UNCHANGED <<waiting, poolAt, on, stored, mixed>>
  BY IdleTimeoutIs
<1>2. PICK c \in Conns : conn' = [conn EXCEPT ![c] = Closed] /\ \A q \in DbRequests : on[q] # c
  BY IdleTimeoutIs
<1>3. \A q \in DbRequests : UnderWay(q)' <=> UnderWay(q)
  BY <1>1 DEF UnderWay
<1>4. BatchesAreAlone'
  BY <1>3, OnlyOne DEF BatchesAreAlone
<1>5. ASSUME NEW b \in Batches, InTransaction(b)
      PROVE  on[b] # NoConn /\ Its(b) = on[b] /\ Its(b)' = on[b] /\ on[b] \in Conns \ {c} /\ conn'[on[b]] = conn[on[b]]
  <2>1. b \in DbRequests /\ on[b] # NoConn
    BY <1>1, <1>5, OnlyOne, AloneIs DEF Atomic
  <2>2. on[b] \in Conns \ {c}
    BY <1>2, <2>1, ConnIs
  <2> QED BY <1>1, <1>2, <2>1, <2>2, ConnIs DEF Its
<1>6. TransactionIsKept'
  <2> SUFFICES ASSUME NEW b \in Batches, InTransaction(b)'
               PROVE  (on'[b] # NoConn \/ idle' # <<>>) /\ conn'[Its(b)'].tx = "open" /\ conn'[Its(b)'].held = Written(b)'
    BY DEF TransactionIsKept
  <2>1. InTransaction(b) /\ Written(b)' = Written(b)
    BY <1>1 DEF InTransaction, Written
  <2>2. on[b] # NoConn /\ Its(b) = on[b] /\ Its(b)' = on[b] /\ conn'[on[b]] = conn[on[b]]
    BY <1>5, <2>1
  <2> QED BY <1>1, <2>1, <2>2 DEF Atomic, TransactionIsKept
<1>7. OpenIsOfABatch'
  <2> SUFFICES ASSUME NEW d \in Conns, conn'[d].tx = "open" PROVE \E b \in Batches : InTransaction(b)' /\ d = Its(b)'
    BY DEF OpenIsOfABatch
  <2>1. conn[d].tx = "open"
    BY <1>2, ConnIs
  <2>2. PICK b \in Batches : InTransaction(b) /\ d = Its(b)
    BY <2>1, OnlyOne
  <2>3. InTransaction(b)'
    BY <1>1, <2>2 DEF InTransaction
  <2> QED BY <1>5, <2>2, <2>3
<1>8. RowsAreAllOrNone'
  BY <1>1, RowsStay DEF Atomic
<1> QED BY <1>4, <1>6, <1>7, <1>8 DEF Atomic

\* Where no batch is in a transaction, none is open.
LEMMA NoneOpen ==
  ASSUME PoolSound, Atomic, \A b \in Batches : ~InTransaction(b)
  PROVE  \A c \in Conns : conn[c].tx # "open" /\ conn[c].held = {}
BY OnlyOne DEF PoolSound, ConnsAreSound

LEMMA TruncateRefusedKeepsAtomic ==
  ASSUME PoolSound, Atomic, TruncateRefused, ~mixed'
  PROVE  Atomic'
<1>1. UNCHANGED <<waiting, poolAt, on, stored>> /\ \A b \in Batches : ~UnderWay(b)
  BY TruncateRefusedIs
<1>2. PICK c \in Conns : conn' = [conn EXCEPT ![c] = [tx |-> "failed", held |-> {}]]
  BY TruncateRefusedIs
<1>3. \A b \in Batches : ~InTransaction(b) /\ ~InTransaction(b)' /\ ~UnderWay(b)'
  BY <1>1 DEF InTransaction, UnderWay
<1>4. \A d \in Conns : conn'[d].tx # "open"
  BY <1>2, <1>3, NoneOpen, ConnIs
<1>5. BatchesAreAlone' /\ TransactionIsKept' /\ OpenIsOfABatch'
  BY <1>3, <1>4 DEF BatchesAreAlone, TransactionIsKept, OpenIsOfABatch
<1>6. RowsAreAllOrNone'
  BY <1>1, RowsStay DEF Atomic
<1> QED BY <1>5, <1>6 DEF Atomic

LEMMA StartKeepsAtomic ==
  ASSUME PoolSound, Atomic, NEW r \in DbRequests, Start(r), ~mixed'
  PROVE  Atomic'
<1>1. /\ UNCHANGED <<conn, stored>> /\ poolAt[r].pc = "new" /\ ~UnderWay(r)
      /\ poolAt' = [poolAt EXCEPT ![r] = [pc |-> First(r), n |-> 0]]
      /\ \A q \in DbRequests \ {r} : UnderWay(q) => r \notin Batches /\ q \notin Batches
  BY StartIs
<1>2. poolAt'[r].pc = First(r) /\ \A q \in DbRequests \ {r} : poolAt'[q] = poolAt[q]
  BY <1>1, ConnIs
<1>3. \A q \in DbRequests \ {r} : UnderWay(q)' <=> UnderWay(q)
  BY <1>2 DEF UnderWay
<1>4. \A b \in Batches : b \in DbRequests /\ ~InTransaction(b) /\ ~InTransaction(b)'
  <2>1. ASSUME NEW b \in Batches PROVE b \in DbRequests /\ ~InTransaction(b)
    BY <1>1, OnlyOne
  <2>2. ASSUME NEW b \in Batches PROVE ~InTransaction(b)'
    BY <1>2, <2>1 DEF InTransaction, First
  <2> QED BY <2>1, <2>2
<1>5. BatchesAreAlone'
  <2> SUFFICES ASSUME NEW b \in Batches, UnderWay(b)', NEW q \in DbRequests \ {b}, UnderWay(q)' PROVE FALSE
    BY DEF BatchesAreAlone
  <2>1. CASE b = r
    BY <1>1, <1>3, <2>1
  <2>2. CASE b # r
    BY <1>1, <1>3, <1>4, <2>2
  <2> QED BY <2>1, <2>2
<1>6. TransactionIsKept' /\ OpenIsOfABatch'
  <2>1. \A d \in Conns : conn'[d].tx # "open"
    BY <1>1, <1>4, NoneOpen
  <2> QED BY <1>4, <2>1 DEF TransactionIsKept, OpenIsOfABatch
<1>7. RowsAreAllOrNone'
  <2>1. poolAt'[r].pc # "ok" /\ poolAt[r].pc # "ok"
    BY <1>1, <1>2 DEF First
  <2> QED BY <1>1, <1>2, <2>1, RowsStay DEF Atomic
<1> QED BY <1>5, <1>6, <1>7 DEF Atomic

LEMMA StatementRefusedKeepsAtomic ==
  ASSUME PoolSound, Atomic, NEW r \in DbRequests, StatementRefused(r)
  PROVE  Atomic'
<1>1. /\ on[r] # NoConn /\ on[r] \in Conns /\ conn' = [conn EXCEPT ![on[r]] = Closed] /\ stored' = stored /\ UnderWay(r)
  BY StatementRefusedIs
<1>2. PICK p \in [pc : Pc, n : Nat] : poolAt' = [poolAt EXCEPT ![r] = p] /\ p.pc \in {"rollback", "failed"}
  BY StatementRefusedIs
<1>3. poolAt'[r] = p /\ \A q \in DbRequests \ {r} : poolAt'[q] = poolAt[q]
  BY <1>2, ConnIs
<1>4. \A q \in DbRequests : UnderWay(q)' => UnderWay(q)
  BY <1>1, <1>3 DEF UnderWay
<1>5. BatchesAreAlone'
  BY <1>4, OnlyOne DEF BatchesAreAlone
<1>6. ASSUME NEW b \in Batches, InTransaction(b)' PROVE FALSE
  <2>1. b # r
    BY <1>2, <1>3, <1>6 DEF InTransaction
  <2>2. InTransaction(b)
    BY <1>3, <1>6, <2>1, OnlyOne DEF InTransaction
  <2> QED BY <1>1, <2>1, <2>2, OnlyOne
<1>7. ASSUME NEW d \in Conns, conn'[d].tx = "open" PROVE FALSE
  <2>1. d # on[r] /\ conn[d].tx = "open"
    BY <1>1, <1>7, ConnIs
  <2>2. PICK b \in Batches : InTransaction(b) /\ d = Its(b)
    BY <2>1, OnlyOne
  <2>3. b = r
    BY <1>1, <2>2, OnlyOne
  <2> QED BY <1>1, <2>1, <2>2, <2>3 DEF Its
<1>8. TransactionIsKept' /\ OpenIsOfABatch'
  BY <1>6, <1>7 DEF TransactionIsKept, OpenIsOfABatch
<1>9. RowsAreAllOrNone'
  <2>1. poolAt'[r].pc # "ok" /\ poolAt[r].pc # "ok"
    BY <1>1, <1>2, <1>3 DEF UnderWay
  <2> QED BY <1>1, <1>3, <2>1, RowsStay DEF Atomic
<1> QED BY <1>5, <1>8, <1>9 DEF Atomic

\* The rows of one request are written.
LEMMA RowsLand ==
  ASSUME RowsAreAllOrNone, NEW r \in DbRequests, poolAt[r].pc # "ok", poolAt'[r].pc = "ok",
         \A q \in DbRequests \ {r} : poolAt'[q] = poolAt[q], stored' = stored \union AllOf(r)
  PROVE  RowsAreAllOrNone'
<1>1. \A row \in AllOf(r) : row.of = r
  BY DEF AllOf
<1>2. ASSUME NEW q \in DbRequests \ {r} PROVE RowsOf(q)' = RowsOf(q) /\ AllOf(q)' = AllOf(q)
  BY <1>1 DEF RowsOf, AllOf
<1>3. RowsOf(r)' = AllOf(r) /\ AllOf(r)' = AllOf(r)
  BY <1>1 DEF RowsAreAllOrNone, RowsOf, AllOf
<1> QED BY <1>2, <1>3 DEF RowsAreAllOrNone

LEMMA WhatExecutes ==
  ASSUME NEW r \in DbRequests, NEW c \in Conns, c = on[r], Executes(r), conn[c].tx # "closed"
  PROVE  /\ poolAt[r].pc = "begin" => conn' = [conn EXCEPT ![c].tx = "open"] /\ stored' = stored
         /\ poolAt[r].pc = "statement" /\ conn[c].tx = "open" =>
              conn' = [conn EXCEPT ![c].held = @ \union {[of |-> r, n |-> poolAt[r].n + 1]}] /\ stored' = stored
         /\ poolAt[r].pc = "statement" /\ conn[c].tx # "open" =>
              conn' = conn /\ stored' = stored \union {[of |-> r, n |-> poolAt[r].n + 1]}
         /\ poolAt[r].pc = "commit" => conn' = [conn EXCEPT ![c] = Ready] /\ stored' = stored \union conn[c].held
         /\ poolAt[r].pc = "rollback" => conn' = [conn EXCEPT ![c] = Ready] /\ stored' = stored
<1> DEFINE row == [of |-> r, n |-> poolAt[r].n + 1]
<1>1. CASE poolAt[r].pc = "begin"
  BY <1>1 DEF Executes
<1>2. CASE poolAt[r].pc = "statement"
  BY <1>2 DEF Executes
<1>3. CASE poolAt[r].pc = "commit"
  BY <1>3 DEF Executes
<1>4. CASE poolAt[r].pc = "rollback"
  BY <1>4 DEF Executes
<1> QED BY <1>1, <1>2, <1>3, <1>4 DEF Executes

LEMMA DoneKeepsAtomic ==
  ASSUME PoolSound, Atomic, NEW r \in DbRequests, Done(r)
  PROVE  Atomic'
<1> DEFINE n == poolAt[r].n
<1>1. PICK c \in Conns : c = on[r]
  BY DoneIs, ConnIs
<1>2. /\ c # NoConn /\ Executes(r) /\ idle' = Append(idle, c) /\ on' = [on EXCEPT ![r] = NoConn] /\ UnderWay(r)
      /\ idle' # <<>> /\ Last(idle') = c /\ on'[r] = NoConn
  <2>1. c # NoConn /\ Executes(r) /\ idle' = Append(idle, c) /\ on' = [on EXCEPT ![r] = NoConn] /\ UnderWay(r)
    BY <1>1, DoneIs
  <2>2. idle \in Seq(Conns) /\ on'[r] = NoConn
    BY <2>1, ConnIs
  <2> QED BY <2>1, <2>2, AppendIs
<1>3. PICK p \in [pc : Pc, n : Nat] :
              /\ poolAt' = [poolAt EXCEPT ![r] = p] /\ p.pc # "new"
              /\ \/ poolAt[r].pc = "begin" /\ p = [pc |-> "statement", n |-> 0] /\ r \in Batches
                 \/ poolAt[r].pc = "statement" /\ r \in Singles /\ p = [pc |-> "ok", n |-> 0]
                 \/ /\ poolAt[r].pc = "statement" /\ r \in Batches
                    /\ p = [pc |-> IF n + 1 = Length THEN "commit" ELSE "statement", n |-> n + 1]
                 \/ poolAt[r].pc = "commit" /\ r \in Batches /\ p = [pc |-> "ok", n |-> n]
                 \/ poolAt[r].pc = "rollback" /\ r \in Batches /\ p = [pc |-> "failed", n |-> n]
  BY DoneIs
<1>4. poolAt'[r] = p /\ \A q \in DbRequests \ {r} : poolAt'[q] = poolAt[q]
  BY <1>3, ConnIs
<1>5. n \in Nat /\ conn[c].tx # "closed" /\ conn[c] \in [tx : Tx, held : SUBSET Row] /\ conn \in [Conns -> [tx : Tx, held : SUBSET Row]]
  BY <1>1, <1>2, ConnIs DEF PoolSound, ConnsAreSound
<1>6. BatchesAreAlone'
  <2>1. \A q \in DbRequests : UnderWay(q)' => UnderWay(q)
    BY <1>2, <1>4 DEF UnderWay
  <2> QED BY <2>1, OnlyOne DEF BatchesAreAlone
<1>7. ASSUME NEW b \in Batches, b # r PROVE ~InTransaction(b) /\ ~InTransaction(b)'
  <2>1. ~InTransaction(b)
    BY <1>2, <1>7, OnlyOne
  <2> QED BY <1>4, <1>7, <2>1, OnlyOne DEF InTransaction
<1>8. ASSUME ~InTransaction(r)', \A d \in Conns : conn'[d].tx # "open" PROVE TransactionIsKept' /\ OpenIsOfABatch'
  BY <1>7, <1>8 DEF TransactionIsKept, OpenIsOfABatch
<1>9. ASSUME r \in Batches, conn'[c].tx = "open", conn'[c].held = Written(r)', InTransaction(r)',
             \A d \in Conns \ {c} : conn'[d].tx # "open"
      PROVE  TransactionIsKept' /\ OpenIsOfABatch'
  <2>1. Its(r)' = c
    BY <1>2 DEF Its
  <2>2. TransactionIsKept'
    BY <1>2, <1>7, <1>9, <2>1 DEF TransactionIsKept
  <2>3. OpenIsOfABatch'
    BY <1>9, <2>1 DEF OpenIsOfABatch
  <2> QED BY <2>2, <2>3
<1>10. CASE poolAt[r].pc = "begin" /\ p = [pc |-> "statement", n |-> 0] /\ r \in Batches
  <2>1. conn' = [conn EXCEPT ![c].tx = "open"] /\ stored' = stored
    BY <1>1, <1>2, <1>5, <1>10, WhatExecutes
  <2>2. ~InTransaction(r) /\ \A d \in Conns : conn[d].tx # "open" /\ conn[d].held = {}
    <3>1. ~InTransaction(r)
      BY <1>10 DEF InTransaction
    <3> QED BY <1>7, <3>1, NoneOpen
  <2>3. conn'[c].tx = "open" /\ conn'[c].held = {} /\ \A d \in Conns \ {c} : conn'[d].tx # "open"
    BY <1>5, <2>1, <2>2
  <2>4. Written(r)' = {} /\ InTransaction(r)'
    BY <1>4, <1>10 DEF Written, InTransaction
  <2>5. RowsAreAllOrNone'
    BY <1>4, <1>10, <2>1, RowsStay DEF Atomic
  <2> QED BY <1>6, <1>9, <1>10, <2>3, <2>4, <2>5 DEF Atomic
<1>11. CASE poolAt[r].pc = "statement" /\ r \in Singles /\ p = [pc |-> "ok", n |-> 0]
  <2>1. r \notin Batches
    BY <1>11, PoolAssumption
  <2>2. \A d \in Conns : conn[d].tx # "open"
    BY <1>7, <2>1, NoneOpen
  <2>3. conn' = conn /\ stored' = stored \union {[of |-> r, n |-> n + 1]}
    BY <1>1, <1>2, <1>5, <1>11, <2>2, WhatExecutes
  <2>4. n = 0 /\ AllOf(r) = {[of |-> r, n |-> 1]}
    BY <1>11, <2>1 DEF AllOf, PoolSound, RequestsAreSound
  <2>5. stored' = stored \union AllOf(r)
    BY <2>3, <2>4
  <2>6. RowsAreAllOrNone'
    BY <1>4, <1>11, <2>5, RowsLand DEF Atomic
  <2>7. TransactionIsKept' /\ OpenIsOfABatch'
    BY <1>7, <2>1, <2>2, <2>3 DEF TransactionIsKept, OpenIsOfABatch
  <2> QED BY <1>6, <2>6, <2>7 DEF Atomic
<1>12. ASSUME InTransaction(r), r \in Batches
       PROVE  /\ conn[c].tx = "open" /\ conn[c].held = Written(r)
              /\ \A d \in Conns \ {c} : conn[d].tx # "open"
  <2>1. Its(r) = c
    BY <1>1, <1>2 DEF Its
  <2> QED BY <1>7, <1>12, <2>1, OnlyOne DEF Atomic, TransactionIsKept
<1>13. CASE /\ poolAt[r].pc = "statement" /\ r \in Batches
            /\ p = [pc |-> IF n + 1 = Length THEN "commit" ELSE "statement", n |-> n + 1]
  <2> DEFINE row == [of |-> r, n |-> n + 1]
  <2>1. /\ conn[c].tx = "open" /\ conn[c].held = Written(r) /\ \A d \in Conns \ {c} : conn[d].tx # "open"
    BY <1>12, <1>13 DEF InTransaction
  <2>2. conn' = [conn EXCEPT ![c].held = @ \union {row}] /\ stored' = stored
    BY <1>1, <1>2, <1>5, <1>13, <2>1, WhatExecutes
  <2>3. conn'[c].tx = "open" /\ conn'[c].held = Written(r) \union {row} /\ \A d \in Conns \ {c} : conn'[d].tx # "open"
    BY <1>5, <2>1, <2>2
  <2>4. p.n = n + 1 /\ p.pc \in {"statement", "commit"}
    BY <1>13
  <2>5. Written(r)' = Written(r) \union {row}
    <3>1. 1 .. n + 1 = (1 .. n) \union {n + 1}
      BY <1>5
    <3>2. poolAt'[r].n = n + 1
      BY <1>4, <2>4
    <3> QED BY <3>1, <3>2 DEF Written
  <2>6. InTransaction(r)'
    BY <1>4, <2>4 DEF InTransaction
  <2>7. RowsAreAllOrNone'
    BY <1>4, <1>13, <2>2, <2>4, RowsStay DEF Atomic
  <2> QED BY <1>6, <1>9, <1>13, <2>3, <2>5, <2>6, <2>7 DEF Atomic
<1>14. CASE poolAt[r].pc = "commit" /\ r \in Batches /\ p = [pc |-> "ok", n |-> n]
  <2>1. /\ conn[c].tx = "open" /\ conn[c].held = Written(r) /\ \A d \in Conns \ {c} : conn[d].tx # "open"
    BY <1>12, <1>14 DEF InTransaction
  <2>2. conn' = [conn EXCEPT ![c] = Ready] /\ stored' = stored \union conn[c].held
    BY <1>1, <1>2, <1>5, <1>14, WhatExecutes
  <2>3. Written(r) = AllOf(r)
    BY <1>14 DEF Written, AllOf, PoolSound, RequestsAreSound
  <2>4. RowsAreAllOrNone'
    BY <1>4, <1>14, <2>1, <2>2, <2>3, RowsLand DEF Atomic
  <2>5. ~InTransaction(r)' /\ \A d \in Conns : conn'[d].tx # "open"
    BY <1>4, <1>5, <1>14, <2>1, <2>2, ConnIs DEF InTransaction
  <2> QED BY <1>6, <1>8, <2>4, <2>5 DEF Atomic
<1>15. CASE poolAt[r].pc = "rollback" /\ r \in Batches /\ p = [pc |-> "failed", n |-> n]
  <2>1. conn' = [conn EXCEPT ![c] = Ready] /\ stored' = stored
    BY <1>1, <1>2, <1>5, <1>15, WhatExecutes
  <2>2. \A d \in Conns : conn[d].tx # "open"
    <3>1. ~InTransaction(r)
      BY <1>15 DEF InTransaction
    <3> QED BY <1>7, <3>1, NoneOpen
  <2>3. ~InTransaction(r)' /\ \A d \in Conns : conn'[d].tx # "open"
    BY <1>4, <1>5, <1>15, <2>1, <2>2, ConnIs DEF InTransaction
  <2>4. RowsAreAllOrNone'
    BY <1>4, <1>15, <2>1, RowsStay DEF Atomic
  <2> QED BY <1>6, <1>8, <2>3, <2>4 DEF Atomic
<1> QED BY <1>3, <1>10, <1>11, <1>13, <1>14, <1>15

LEMMA PoolInvHolds == PoolSpec => []PoolInv
<1>1. PoolInv /\ [PoolNext]_poolVars => PoolInv'
  <2> SUFFICES ASSUME PoolInv, [PoolNext]_poolVars PROVE PoolInv'
    OBVIOUS
  <2>1. PoolSound /\ (~mixed => Atomic)
    BY DEF PoolInv
  <2>2. CASE Dispatch
    BY <2>1, <2>2, DispatchKeepsSound, DispatchKeepsAtomic, DispatchIs DEF PoolInv
  <2>3. CASE IdleTimeout
    BY <2>1, <2>3, IdleTimeoutKeepsSound, IdleTimeoutKeepsAtomic, IdleTimeoutIs DEF PoolInv
  <2>4. CASE TruncateRefused
    BY <2>1, <2>4, TruncateRefusedKeepsSound, TruncateRefusedKeepsAtomic, TruncateRefusedIs DEF PoolInv
  <2>5. ASSUME NEW r \in DbRequests, Start(r) PROVE PoolInv'
    BY <2>1, <2>5, StartKeepsSound, StartKeepsAtomic, StartIs DEF PoolInv
  <2>6. ASSUME NEW r \in DbRequests, Done(r) PROVE PoolInv'
    BY <2>1, <2>6, DoneKeepsSound, DoneKeepsAtomic, DoneIs DEF PoolInv
  <2>7. ASSUME NEW r \in DbRequests, StatementRefused(r) PROVE PoolInv'
    BY <2>1, <2>7, StatementRefusedKeepsSound, StatementRefusedKeepsAtomic, StatementRefusedIs DEF PoolInv
  <2>8. CASE UNCHANGED poolVars
    BY <2>8 DEF poolVars, PoolInv, PoolSound, PoolTypes, QueueIsSound, ConnsAreSound, RequestsAreSound, Atomic,
       BatchesAreAlone, TransactionIsKept, OpenIsOfABatch, RowsAreAllOrNone, InTransaction, Its, Written, UnderWay, RowsOf, AllOf
  <2> QED BY <2>2, <2>3, <2>4, <2>5, <2>6, <2>7, <2>8 DEF PoolNext
<1> QED BY <1>1, PoolStart, PTL DEF PoolSpec

\* AloneIsAtomic.
THEOREM BatchesAreAtomic == PoolSpec => []AloneIsAtomic
<1>1. PoolInv => AloneIsAtomic
  <2> SUFFICES ASSUME PoolSound, Atomic PROVE AloneIsAtomic
    BY DEF PoolInv, AloneIsAtomic
  <2>1. \A r \in DbRequests : RowsOf(r) = IF poolAt[r].pc = "ok" THEN AllOf(r) ELSE {}
    BY DEF Atomic, RowsAreAllOrNone
  <2>2. (\A b \in Batches : ~UnderWay(b)) => \A c \in Conns : conn[c].tx # "open"
    BY OnlyOne
  <2> QED BY <2>1, <2>2 DEF AloneIsAtomic
<1> QED BY <1>1, PoolInvHolds, PTL

-----------------------------------------------------------------------------
(* The connection of a GitHub account.                                     *)

DialogAt == {"shut", "starting", "waiting", "polling", "storing", "connected", "unclosed", "error", "stuck"}
AskAt == {"idle", "sent", "github", "user", "answered"}
Answer == {"none", "refused", "failed", "dropped", "code", "pending", "unknown", "denied", "expired",
           "complete", "nameless"}
Ask == [at : AskAt, flow : Flows \union {NoFlow}, heard : BOOLEAN, answer : Answer]
CodeAt == {"unused", "waiting", "accepted", "spent", "denied", "expired"}

CopilotTypes ==
  /\ dialog \in [at : DialogAt, flow : Flows \union {NoFlow}, named : BOOLEAN]
  /\ asks \in [Polls -> Ask] /\ code \in [Flows -> CodeAt] /\ putting \in Seq(Flows)
  /\ flows \subseteq Flows /\ grants \subseteq Flows

\* The dialog listens to one request, while it starts a flow or polls.
Listening ==
  /\ \A a \in Polls : asks[a].heard => dialog.at \in {"starting", "polling"}
  /\ \A a, b \in Polls : asks[a].heard /\ asks[b].heard => a = b

AsksAreSound ==
  \A a \in Polls :
    /\ IF asks[a].at = "answered" THEN asks[a].heard /\ asks[a].answer # "none" ELSE asks[a].answer = "none"
    /\ HasToken(a) => asks[a].flow # NoFlow /\ code[asks[a].flow] = "spent"
    /\ asks[a].flow # NoFlow => code[asks[a].flow] # "unused"
    /\ asks[a].heard /\ asks[a].flow # NoFlow /\ asks[a].answer # "code" => asks[a].flow = dialog.flow

DialogIsSound ==
  /\ dialog.flow # NoFlow => code[dialog.flow] # "unused"
  /\ dialog.at = "starting" => dialog.flow = NoFlow

\* The server may say that it has no such flow, or no longer.
Ended(f) == f \in due \union astray \/ code[f] \in {"denied", "expired"}

AnswersAreTrue ==
  \A a \in Polls : asks[a].answer \in {"unknown", "denied", "expired"} => asks[a].flow # NoFlow /\ Ended(asks[a].flow)

FlowsAreKept == \A f \in Flows \ flows : code[f] # "unused" => Ended(f) \/ code[f] = "spent"

TokensAreSpent == \A f \in grants \union ToSet(putting) : code[f] = "spent"

\* No token of a flow has come through while the dialog goes on asking for it.
Awaited(f) ==
  \/ dialog.at \in {"waiting", "polling"} /\ dialog.flow = f
  \/ \E a \in Polls : asks[a].answer = "code" /\ asks[a].flow = f

AwaitedHaveNoToken == \A f \in grants \union ToSet(putting) : ~Awaited(f)

TokensAreKept ==
  \A f \in Flows : code[f] = "spent" =>
    \/ f \in astray \union grants \union ToSet(putting)
    \/ \E a \in Polls : asks[a].heard /\ asks[a].flow = f /\ HasToken(a)

ErrorsAreTrue == dialog.at = "error" /\ dialog.flow # NoFlow => Ended(dialog.flow)

CopilotInv ==
  /\ CopilotTypes /\ Listening /\ AsksAreSound /\ DialogIsSound /\ AnswersAreTrue /\ FlowsAreKept
  /\ TokensAreSpent /\ AwaitedHaveNoToken /\ TokensAreKept /\ ErrorsAreTrue

-----------------------------------------------------------------------------

LEMMA NoAskIsAsk ==
  /\ NoAsk \in Ask /\ NoAsk.at = "idle" /\ NoAsk.flow = NoFlow /\ ~NoAsk.heard /\ NoAsk.answer = "none"
BY DEF NoAsk, Ask, AskAt, Answer

-----------------------------------------------------------------------------
\* A step of the server, on one request
LEMMA ServerKeepsInv ==
  ASSUME CopilotInv, NEW a \in Polls, NEW r \in Ask, asks' = [asks EXCEPT ![a] = r],
         UNCHANGED <<dialog, due, putting, grants>>,
         code' \in [Flows -> CodeAt], flows' \subseteq Flows, astray \subseteq astray',
         r.heard => asks[a].heard,
         IF r.at = "answered" THEN r.heard /\ r.answer # "none" ELSE r.answer = "none",
         IF r.answer = "code" THEN r.flow \in Flows /\ code[r.flow] = "unused" /\ code'[r.flow] # "unused"
         ELSE r.flow \in {asks[a].flow, NoFlow} /\ asks[a].answer # "code",
         r.at = "user" \/ r.answer \in {"complete", "nameless"} => r.flow \in Flows /\ code'[r.flow] = "spent",
         r.answer \in {"unknown", "denied", "expired"} => r.flow \in Flows /\ Ended(r.flow)',
         \A f \in Flows :
           /\ code'[f] # code[f] => code[f] \notin {"spent", "denied", "expired"} /\ code'[f] # "unused"
           /\ code'[f] # code[f] /\ code'[f] = "spent" =>
                f \in astray' \/ (r.heard /\ r.flow = f /\ (r.at = "user" \/ r.answer \in {"complete", "nameless"}))
           /\ code'[f] # code[f] /\ code[f] = "unused" => f \in flows'
           /\ f \in flows \ flows' => Ended(f)' \/ code'[f] \in {"spent", "unused"},
         asks[a].heard /\ HasToken(a) =>
           r.heard /\ r.flow = asks[a].flow /\ (r.at = "user" \/ r.answer \in {"complete", "nameless"})
  PROVE  CopilotInv'
<1>1. /\ asks \in [Polls -> Ask] /\ code \in [Flows -> CodeAt] /\ asks'[a] = r
      /\ \A b \in Polls \ {a} : asks'[b] = asks[b]
      /\ \A b \in Polls : asks[b] \in Ask /\ asks[b].flow \in Flows \union {NoFlow}
      /\ grants \union ToSet(putting) \subseteq Flows /\ dialog.flow \in Flows \union {NoFlow}
  <2>1. asks \in [Polls -> Ask] /\ code \in [Flows -> CodeAt] /\ putting \in Seq(Flows) /\ grants \subseteq Flows
        /\ dialog.flow \in Flows \union {NoFlow}
    BY DEF CopilotInv, CopilotTypes
  <2>2. ToSet(putting) \subseteq Flows
    BY <2>1 DEF ToSet
  <2> QED BY <2>1, <2>2 DEF Ask
<1>2. CopilotTypes'
  BY <1>1 DEF CopilotInv, CopilotTypes
<1>3. \A f \in Flows : /\ Ended(f) => Ended(f)'
                       /\ code[f] = "spent" => code'[f] = "spent"
                       /\ code[f] # "unused" => code'[f] # "unused"
  BY DEF Ended
<1>4. Listening'
  BY <1>1 DEF CopilotInv, Listening
<1>5. AsksAreSound'
  <2>1. ASSUME NEW b \in Polls \ {a}
        PROVE  /\ asks'[b].at = "answered" => asks'[b].heard
               /\ IF asks'[b].at = "answered" THEN asks'[b].answer # "none" ELSE asks'[b].answer = "none"
               /\ HasToken(b)' => asks'[b].flow # NoFlow /\ code'[asks'[b].flow] = "spent"
               /\ asks'[b].flow # NoFlow => code'[asks'[b].flow] # "unused"
               /\ asks'[b].heard /\ asks'[b].flow # NoFlow /\ asks'[b].answer # "code" => asks'[b].flow = dialog'.flow
    <3>1. HasToken(b)' = HasToken(b)
      BY <1>1 DEF HasToken
    <3> QED BY <1>1, <1>3, <3>1 DEF CopilotInv, AsksAreSound
  <2>2. /\ IF r.at = "answered" THEN r.heard /\ r.answer # "none" ELSE r.answer = "none"
        /\ r.heard /\ r.flow # NoFlow /\ r.answer # "code" => r.flow = dialog'.flow
    BY DEF CopilotInv, AsksAreSound
  <2>3. r.flow # NoFlow => code'[r.flow] # "unused"
    BY <1>1, <1>3 DEF CopilotInv, AsksAreSound
  <2>4. HasToken(a)' => r.flow # NoFlow /\ code'[r.flow] = "spent"
    <3>1. HasToken(a)' => r.at = "user" \/ r.answer \in {"complete", "nameless"}
      BY <1>1 DEF HasToken
    <3> QED BY <3>1, CopilotAssumption
  <2> QED BY <1>1, <2>1, <2>2, <2>3, <2>4 DEF AsksAreSound
<1>6. DialogIsSound'
  BY <1>1, <1>3 DEF CopilotInv, DialogIsSound
<1>7. AnswersAreTrue'
  BY <1>1, <1>3, CopilotAssumption DEF CopilotInv, AnswersAreTrue
<1>8. FlowsAreKept'
  BY <1>1, <1>3 DEF CopilotInv, FlowsAreKept
<1>9. TokensAreSpent'
  BY <1>1, <1>3 DEF CopilotInv, TokensAreSpent
<1>10. AwaitedHaveNoToken'
  BY <1>1 DEF CopilotInv, AwaitedHaveNoToken, Awaited, TokensAreSpent
<1>11. TokensAreKept'
  <2> SUFFICES ASSUME NEW f \in Flows, code'[f] = "spent", f \notin astray' \union grants' \union ToSet(putting)'
               PROVE  \E b \in Polls : asks'[b].heard /\ asks'[b].flow = f /\ HasToken(b)'
    BY DEF TokensAreKept
  <2>1. CASE code[f] # "spent"
    BY <1>1, <2>1 DEF HasToken
  <2>2. CASE code[f] = "spent"
    <3>1. PICK b \in Polls : asks[b].heard /\ asks[b].flow = f /\ HasToken(b)
      BY <2>2 DEF CopilotInv, TokensAreKept
    <3>2. CASE b = a
      BY <1>1, <3>1, <3>2 DEF HasToken
    <3>3. CASE b # a
      BY <1>1, <3>1, <3>3 DEF HasToken
    <3> QED BY <3>2, <3>3
  <2> QED BY <2>1, <2>2
<1>12. ErrorsAreTrue'
  BY <1>1, <1>3 DEF CopilotInv, ErrorsAreTrue
<1> QED BY <1>2, <1>4, <1>5, <1>6, <1>7, <1>8, <1>9, <1>10, <1>11, <1>12 DEF CopilotInv

LEMMA AnAsk ==
  ASSUME CopilotInv, NEW a \in Polls
  PROVE  /\ asks \in [Polls -> Ask] /\ asks[a] \in Ask /\ asks[a].at \in AskAt /\ asks[a].heard \in BOOLEAN
         /\ asks[a].flow \in Flows \union {NoFlow} /\ asks[a].answer \in Answer
         /\ asks[a].at # "answered" => asks[a].answer = "none"
         /\ HasToken(a) => asks[a].flow # NoFlow /\ code[asks[a].flow] = "spent"
<1>1. asks \in [Polls -> Ask]
  BY DEF CopilotInv, CopilotTypes
<1>2. asks[a] \in Ask /\ asks[a].at \in AskAt /\ asks[a].heard \in BOOLEAN
      /\ asks[a].flow \in Flows \union {NoFlow} /\ asks[a].answer \in Answer
  BY <1>1 DEF Ask
<1> QED BY <1>1, <1>2 DEF CopilotInv, AsksAreSound

LEMMA AnswerIsAsk ==
  ASSUME CopilotInv, NEW a \in Polls, NEW f \in Flows \union {NoFlow}, NEW answer \in Answer, Replies(a, f, answer)
  PROVE  \E r \in Ask :
           /\ asks' = [asks EXCEPT ![a] = r] /\ r.heard = asks[a].heard
           /\ r.heard => r.at = "answered" /\ r.flow = f /\ r.answer = answer
           /\ ~r.heard => r.at = "idle" /\ r.flow = NoFlow /\ r.answer = "none"
<1>1. asks \in [Polls -> Ask] /\ asks[a] \in Ask /\ asks[a].heard \in BOOLEAN
  BY AnAsk
<1>2. CASE asks[a].heard
  <2> DEFINE r == [asks[a] EXCEPT !.at = "answered", !.flow = f, !.answer = answer]
  <2>1. asks' = [asks EXCEPT ![a] = r]
    BY <1>1, <1>2 DEF Replies
  <2>2. r \in Ask /\ r.heard = asks[a].heard /\ r.at = "answered" /\ r.flow = f /\ r.answer = answer
    BY <1>1 DEF Ask, AskAt
  <2> QED BY <1>2, <2>1, <2>2
<1>3. CASE ~asks[a].heard
  <2>1. asks' = [asks EXCEPT ![a] = NoAsk]
    BY <1>1, <1>3 DEF Replies
  <2> QED BY <1>3, <2>1, NoAskIsAsk, <1>1 DEF NoAsk
<1> QED BY <1>1, <1>2, <1>3

LEMMA FlowOf ==
  ASSUME CopilotInv, NEW a \in Polls
  PROVE  /\ asks[a].at # "answered" => asks[a].answer \notin {"code", "complete", "nameless"}
         /\ asks[a].flow # NoFlow => code[asks[a].flow] # "unused"
         /\ code \in [Flows -> CodeAt] /\ flows \subseteq Flows
BY DEF CopilotInv, CopilotTypes, AsksAreSound

\* What the dialog polls for has no token on its way to it.
LEMMA SpentIsAstray ==
  ASSUME CopilotInv, NEW a \in Polls, asks[a].heard, ~HasToken(a), asks[a].flow \in Flows, asks[a].answer = "none",
         code[asks[a].flow] = "spent"
  PROVE  asks[a].flow \in astray
<1>1. asks[a].flow = dialog.flow /\ dialog.at = "polling"
  BY CopilotAssumption DEF CopilotInv, AsksAreSound, Listening, DialogIsSound
<1>2. asks[a].flow \notin grants \union ToSet(putting)
  BY <1>1 DEF CopilotInv, AwaitedHaveNoToken, Awaited
<1>3. \A b \in Polls : asks[b].heard => b = a
  BY DEF CopilotInv, Listening
<1> QED BY <1>2, <1>3 DEF CopilotInv, TokensAreKept

LEMMA ArriveKeeps ==
  ASSUME CopilotInv, NEW a \in Polls, Arrive(a)
  PROVE  CopilotInv'
<1> DEFINE f == asks[a].flow
           sent == [asks[a] EXCEPT !.at = "github"]
<1>1. /\ asks[a].at = "sent" /\ asks[a].answer = "none" /\ ~HasToken(a) /\ f \in Flows \union {NoFlow}
      /\ UNCHANGED <<code, astray>> /\ UNCHANGED <<dialog, due, putting, grants>>
      /\ asks \in [Polls -> Ask] /\ asks[a] \in Ask /\ code \in [Flows -> CodeAt] /\ flows \subseteq Flows
  BY AnAsk, FlowOf DEF Arrive, ServerKeeps, HasToken
<1>2. sent \in Ask /\ sent.heard = asks[a].heard /\ sent.at = "github" /\ sent.flow = f /\ sent.answer = "none"
  BY <1>1 DEF Ask, AskAt
<1>3. /\ \A g \in Flows : Ended(g)' <=> Ended(g)
      /\ \A g \in Flows : g \in due => Ended(g)
      /\ \A g \in Flows : g \notin flows => Ended(g) \/ code[g] \in {"spent", "unused"}
  BY <1>1 DEF Ended, CopilotInv, FlowsAreKept
<1>4. CASE f = NoFlow /\ flows' = flows \ due /\ asks' = [asks EXCEPT ![a] = sent]
  BY <1>1, <1>2, <1>3, <1>4, ServerKeepsInv
<1>5. CASE f \in flows \ due /\ asks' = [asks EXCEPT ![a] = sent] /\ UNCHANGED flows
  BY <1>1, <1>2, <1>3, <1>5, ServerKeepsInv
<1>6. CASE f # NoFlow /\ f \notin flows /\ AnswersPoll(a, "unknown") /\ UNCHANGED flows
  <2>1. PICK r \in Ask :
           /\ asks' = [asks EXCEPT ![a] = r] /\ r.heard = asks[a].heard
           /\ r.heard => r.at = "answered" /\ r.flow = f /\ r.answer = "unknown"
           /\ ~r.heard => r.at = "idle" /\ r.flow = NoFlow /\ r.answer = "none"
    BY <1>1, <1>6, AnswerIsAsk DEF AnswersPoll, Answer
  <2>2. f \in Flows /\ (r.heard => Ended(f))
    \* a flow that is not in the map is over, or its token is out
    <3>1. code[f] # "unused" /\ f \in Flows
      BY <1>1, <1>6, FlowOf
    <3>2. code[f] = "spent" /\ r.heard => Ended(f)
      BY <1>1, <2>1, <3>1, SpentIsAstray DEF Ended
    <3> QED BY <1>3, <1>6, <3>1, <3>2
  <2> QED BY <1>1, <1>3, <1>6, <2>1, <2>2, ServerKeepsInv
<1>7. CASE f \in flows \intersect due /\ flows' = flows \ {f} /\ AnswersPoll(a, "expired")
  <2>1. PICK r \in Ask :
           /\ asks' = [asks EXCEPT ![a] = r] /\ r.heard = asks[a].heard
           /\ r.heard => r.at = "answered" /\ r.flow = f /\ r.answer = "expired"
           /\ ~r.heard => r.at = "idle" /\ r.flow = NoFlow /\ r.answer = "none"
    BY <1>1, <1>7, AnswerIsAsk DEF AnswersPoll, Answer
  <2> QED BY <1>1, <1>3, <1>7, <2>1, ServerKeepsInv
<1> QED BY <1>4, <1>5, <1>6, <1>7 DEF Arrive

LEMMA StartRefusedKeeps ==
  ASSUME CopilotInv, NEW a \in Polls, Refused(a)
  PROVE  CopilotInv'
<1>1. /\ asks[a].at = "github" /\ asks[a].flow = NoFlow /\ asks[a].answer = "none" /\ ~HasToken(a)
      /\ AnswersPoll(a, "refused") /\ UNCHANGED <<flows, code, astray>> /\ UNCHANGED <<dialog, due, putting, grants>>
      /\ code \in [Flows -> CodeAt] /\ flows \subseteq Flows
  BY AnAsk, FlowOf DEF Refused, ServerKeeps, HasToken
<1>2. PICK r \in Ask :
         /\ asks' = [asks EXCEPT ![a] = r] /\ r.heard = asks[a].heard
         /\ r.heard => r.at = "answered" /\ r.flow = NoFlow /\ r.answer = "refused"
         /\ ~r.heard => r.at = "idle" /\ r.flow = NoFlow /\ r.answer = "none"
  BY <1>1, AnswerIsAsk DEF AnswersPoll, Answer
<1> QED BY <1>1, <1>2, ServerKeepsInv

LEMMA CodeGivenKeeps ==
  ASSUME CopilotInv, NEW a \in Polls, NEW f \in Flows, CodeGiven(a, f)
  PROVE  CopilotInv'
<1>1. /\ asks[a].at = "github" /\ asks[a].answer = "none" /\ ~HasToken(a) /\ asks[a].flow = NoFlow
      /\ code[f] = "unused" /\ code' = [code EXCEPT ![f] = "waiting"] /\ flows' = flows \union {f}
      /\ Replies(a, f, "code") /\ UNCHANGED astray /\ UNCHANGED <<dialog, due, putting, grants>>
      /\ code \in [Flows -> CodeAt] /\ flows \subseteq Flows
  BY AnAsk, FlowOf DEF CodeGiven, ServerKeeps, HasToken
<1>2. /\ code' \in [Flows -> CodeAt] /\ code'[f] = "waiting" /\ flows' \subseteq Flows
      /\ \A g \in Flows \ {f} : code'[g] = code[g]
  BY <1>1 DEF CodeAt
<1>3. PICK r \in Ask :
         /\ asks' = [asks EXCEPT ![a] = r] /\ r.heard = asks[a].heard
         /\ r.heard => r.at = "answered" /\ r.flow = f /\ r.answer = "code"
         /\ ~r.heard => r.at = "idle" /\ r.flow = NoFlow /\ r.answer = "none"
  BY <1>1, AnswerIsAsk DEF Answer
<1>4. \A g \in Flows : code'[g] # code[g] => g = f
  BY <1>2
<1> QED BY <1>1, <1>2, <1>3, <1>4, ServerKeepsInv

LEMMA NoTokenKeeps ==
  ASSUME CopilotInv, NEW a \in Polls, NoToken(a)
  PROVE  CopilotInv'
<1> DEFINE f == asks[a].flow
<1>1. /\ asks[a].at = "github" /\ asks[a].answer = "none" /\ ~HasToken(a) /\ f \in Flows
      /\ UNCHANGED <<code, astray>> /\ UNCHANGED <<dialog, due, putting, grants>>
      /\ code \in [Flows -> CodeAt] /\ flows \subseteq Flows
  BY AnAsk, FlowOf DEF NoToken, ServerKeeps, HasToken
<1>2. CASE AnswersPoll(a, "pending") /\ UNCHANGED flows
  <2>1. PICK r \in Ask :
         /\ asks' = [asks EXCEPT ![a] = r] /\ r.heard = asks[a].heard
         /\ r.heard => r.at = "answered" /\ r.flow = f /\ r.answer = "pending"
         /\ ~r.heard => r.at = "idle" /\ r.flow = NoFlow /\ r.answer = "none"
    BY <1>1, <1>2, AnswerIsAsk DEF AnswersPoll, Answer
  <2> QED BY <1>1, <1>2, <2>1, ServerKeepsInv
<1>3. CASE code[f] \in {"denied", "expired"} /\ AnswersPoll(a, code[f]) /\ flows' = flows \ {f}
  <2>1. code[f] \in Answer
    BY <1>3 DEF Answer
  <2>2. PICK r \in Ask :
         /\ asks' = [asks EXCEPT ![a] = r] /\ r.heard = asks[a].heard
         /\ r.heard => r.at = "answered" /\ r.flow = f /\ r.answer = code[f]
         /\ ~r.heard => r.at = "idle" /\ r.flow = NoFlow /\ r.answer = "none"
    BY <1>1, <1>3, <2>1, AnswerIsAsk DEF AnswersPoll
  <2>3. Ended(f) /\ \A g \in Flows : Ended(g)' <=> Ended(g)
    BY <1>1, <1>3 DEF Ended
  <2> QED BY <1>1, <1>3, <2>2, <2>3, ServerKeepsInv
<1> QED BY <1>2, <1>3 DEF NoToken

LEMMA TokenKeeps ==
  ASSUME CopilotInv, NEW a \in Polls, Token(a)
  PROVE  CopilotInv'
<1> DEFINE f == asks[a].flow
           r == [asks[a] EXCEPT !.at = "user"]
<1>1. /\ asks[a].at = "github" /\ asks[a].answer = "none" /\ ~HasToken(a) /\ f \in Flows /\ code[f] = "accepted"
      /\ code' = [code EXCEPT ![f] = "spent"] /\ asks \in [Polls -> Ask] /\ asks[a] \in Ask
      /\ UNCHANGED flows /\ UNCHANGED <<dialog, due, putting, grants>>
      /\ code \in [Flows -> CodeAt] /\ flows \subseteq Flows
      /\ asks' = [asks EXCEPT ![a] = r]
  BY AnAsk, FlowOf DEF Token, ServerKeeps, HasToken
<1>2. /\ code' \in [Flows -> CodeAt] /\ code'[f] = "spent" /\ \A g \in Flows : code'[g] # code[g] => g = f
  BY <1>1 DEF CodeAt
<1>3. r \in Ask /\ r.heard = asks[a].heard /\ r.at = "user" /\ r.flow = f /\ r.answer = "none"
  BY <1>1 DEF Ask, AskAt
<1>4. astray \subseteq astray' /\ (r.heard \/ f \in astray')
  BY <1>3 DEF Token
<1>5. /\ astray \subseteq astray' /\ flows' \subseteq Flows
      /\ r.heard => asks[a].heard
      /\ IF r.at = "answered" THEN r.heard /\ r.answer # "none" ELSE r.answer = "none"
  BY <1>1, <1>3, <1>4
<1>6. /\ r.answer # "code" /\ r.flow \in {asks[a].flow, NoFlow} /\ asks[a].answer # "code"
      /\ r.flow \in Flows /\ code'[r.flow] = "spent"
      /\ r.answer \notin {"unknown", "denied", "expired"}
  BY <1>1, <1>2, <1>3
<1>7. \A g \in Flows :
        /\ code'[g] # code[g] => code[g] \notin {"spent", "denied", "expired"} /\ code'[g] # "unused"
        /\ code'[g] # code[g] /\ code'[g] = "spent" =>
             g \in astray' \/ (r.heard /\ r.flow = g /\ (r.at = "user" \/ r.answer \in {"complete", "nameless"}))
        /\ code'[g] # code[g] /\ code[g] = "unused" => g \in flows'
        /\ g \in flows \ flows' => Ended(g)' \/ code'[g] \in {"spent", "unused"}
  BY <1>1, <1>2, <1>3, <1>4
<1> HIDE DEF r, f
<1> QED BY <1>1, <1>2, <1>3, <1>5, <1>6, <1>7, ServerKeepsInv, ZenonT(60)

LEMMA NamedKeeps ==
  ASSUME CopilotInv, NEW a \in Polls, Named(a)
  PROVE  CopilotInv'
<1> DEFINE f == asks[a].flow
<1>1. /\ asks[a].at = "user" /\ asks[a].answer = "none" /\ f \in Flows /\ code[f] = "spent"
      /\ flows' = flows \ {f}
      /\ UNCHANGED <<code, astray>> /\ UNCHANGED <<dialog, due, putting, grants>>
      /\ code \in [Flows -> CodeAt] /\ flows \subseteq Flows
  BY AnAsk, FlowOf DEF Named, ServerKeeps, HasToken
<1>2. PICK answer \in {"complete", "nameless"} : AnswersPoll(a, answer)
  BY DEF Named
<1>3. PICK r \in Ask :
         /\ asks' = [asks EXCEPT ![a] = r] /\ r.heard = asks[a].heard
         /\ r.heard => r.at = "answered" /\ r.flow = f /\ r.answer = answer
         /\ ~r.heard => r.at = "idle" /\ r.flow = NoFlow /\ r.answer = "none"
  BY <1>1, <1>2, AnswerIsAsk DEF AnswersPoll, Answer
<1> QED BY <1>1, <1>2, <1>3, ServerKeepsInv

LEMMA GithubFailsKeeps ==
  ASSUME CopilotInv, NEW a \in Polls, GithubFails(a)
  PROVE  CopilotInv'
<1> DEFINE f == asks[a].flow
<1>1. /\ asks[a].at = "github" /\ asks[a].answer = "none" /\ ~HasToken(a) /\ f \in Flows
      /\ UNCHANGED <<dialog, flows, due, putting, grants>>
      /\ code \in [Flows -> CodeAt] /\ flows \subseteq Flows
  BY AnAsk, FlowOf DEF GithubFails, HasToken
<1>2. PICK answer \in {"pending", "failed"} : AnswersPoll(a, answer)
  BY DEF GithubFails
<1>3. PICK r \in Ask :
         /\ asks' = [asks EXCEPT ![a] = r] /\ r.heard = asks[a].heard
         /\ r.heard => r.at = "answered" /\ r.flow = f /\ r.answer = answer
         /\ ~r.heard => r.at = "idle" /\ r.flow = NoFlow /\ r.answer = "none"
  BY <1>1, <1>2, AnswerIsAsk DEF AnswersPoll, Answer
<1>4. CASE UNCHANGED <<code, astray>>
  BY <1>1, <1>2, <1>3, <1>4, ServerKeepsInv
<1>5. CASE code[f] = "accepted" /\ code' = [code EXCEPT ![f] = "spent"] /\ astray' = astray \union {f}
  <2>1. /\ code' \in [Flows -> CodeAt] /\ code'[f] = "spent" /\ \A g \in Flows : code'[g] # code[g] => g = f
    BY <1>1, <1>5 DEF CodeAt
  <2> QED BY <1>1, <1>2, <1>3, <1>5, <2>1, ServerKeepsInv
<1> QED BY <1>4, <1>5 DEF GithubFails

-----------------------------------------------------------------------------
\* A step after which the dialog listens to nothing, or to an answer that says nothing
LEMMA CutKeepsInv ==
  ASSUME CopilotInv, dialog' \in [at : DialogAt, flow : Flows \union {NoFlow}, named : BOOLEAN],
         asks' \in [Polls -> Ask], UNCHANGED <<due, code, grants>>, flows' \subseteq flows, flows \ flows' \subseteq astray',
         astray \subseteq astray', putting' \in Seq(Flows), ToSet(putting) \subseteq ToSet(putting'),
         Gone \subseteq astray' \union ToSet(putting'),
         \A f \in ToSet(putting') : f \in ToSet(putting) \/ (code[f] = "spent" /\ dialog'.at \notin {"waiting", "polling"}),
         \A b \in Polls :
           /\ IF asks'[b].at = "answered" THEN asks'[b].heard /\ asks'[b].answer # "none" ELSE asks'[b].answer = "none"
           /\ asks'[b].answer \in {"none", "dropped"} /\ asks'[b].flow \in {asks[b].flow, NoFlow}
           /\ asks'[b].heard => asks'[b].flow = NoFlow /\ dialog'.at \in {"starting", "polling"}
           /\ asks'[b].at = "user" => asks[b].at = "user" /\ asks'[b].flow = asks[b].flow,
         \A b, c \in Polls : asks'[b].heard /\ asks'[c].heard => b = c,
         dialog'.flow # NoFlow => code[dialog'.flow] # "unused" /\ dialog'.at # "starting",
         dialog'.at = "error" /\ dialog'.flow # NoFlow => Ended(dialog'.flow),
         dialog'.at \in {"waiting", "polling"} /\ dialog'.flow # NoFlow => Awaited(dialog'.flow)
  PROVE  CopilotInv'
<1>1. /\ code \in [Flows -> CodeAt] /\ putting \in Seq(Flows) /\ grants \subseteq Flows /\ flows \subseteq Flows
      /\ \A b \in Polls : asks[b].flow \in Flows \union {NoFlow} /\ asks'[b] \in Ask
      /\ ToSet(putting') \subseteq Flows /\ grants' = grants /\ code' = code /\ due' = due
      /\ ToSet(putting)  \subseteq Flows
  BY AnAsk DEF CopilotInv, CopilotTypes, ToSet
<1>2. CopilotTypes'
  BY <1>1 DEF CopilotTypes
<1>3. Listening'
  BY DEF Listening
<1>4. \A b \in Polls : HasToken(b)' => HasToken(b) /\ asks'[b].flow = asks[b].flow
  BY DEF HasToken
<1>5. AsksAreSound'
  BY <1>1, <1>4 DEF CopilotInv, AsksAreSound
<1>6. DialogIsSound'
  BY <1>1 DEF DialogIsSound
<1>7. \A f \in Flows : Ended(f) => Ended(f)'
  BY <1>1 DEF Ended
<1>8. AnswersAreTrue'
  BY DEF AnswersAreTrue
<1>9. FlowsAreKept'
  BY <1>1, <1>7 DEF FlowsAreKept, CopilotInv, Ended
<1>10. TokensAreSpent'
  BY <1>1 DEF CopilotInv, TokensAreSpent
<1>11. AwaitedHaveNoToken'
  BY <1>1, CopilotAssumption DEF CopilotInv, AwaitedHaveNoToken, Awaited
<1>12. TokensAreKept'
  <2> SUFFICES ASSUME NEW f \in Flows, code[f] = "spent" PROVE f \in astray' \union grants \union ToSet(putting')
    BY <1>1 DEF TokensAreKept
  <2>1. f \in astray \union grants \union ToSet(putting) \/ f \in Gone
    BY DEF CopilotInv, TokensAreKept, Gone
  <2> QED BY <2>1
<1>13. ErrorsAreTrue'
  BY <1>7 DEF ErrorsAreTrue
<1> QED BY <1>2, <1>3, <1>5, <1>6, <1>8, <1>9, <1>10, <1>11, <1>12, <1>13 DEF CopilotInv

\* A step that touches no request
LEMMA StayKeepsInv ==
  ASSUME CopilotInv, UNCHANGED <<asks, flows>>, code' \in [Flows -> CodeAt], putting' \in Seq(Flows), grants' \subseteq Flows,
         dialog' \in [at : DialogAt, flow : Flows \union {NoFlow}, named : BOOLEAN],
         \/ dialog' = dialog
         \/ /\ dialog.at \notin {"starting", "polling"} /\ dialog'.flow \in {dialog.flow, NoFlow}
            /\ dialog'.at \notin {"starting", "waiting", "polling", "error"},
         \A f \in Flows : code'[f] # code[f] =>
           code[f] \in {"waiting", "accepted"} /\ code'[f] \in {"accepted", "denied", "expired"},
         due \subseteq due', astray \subseteq astray',
         grants' \union ToSet(putting') \subseteq grants \union ToSet(putting),
         grants \union ToSet(putting) \subseteq astray' \union grants' \union ToSet(putting')
  PROVE  CopilotInv'
<1>1. /\ code \in [Flows -> CodeAt] /\ grants \subseteq Flows /\ asks' = asks /\ flows' = flows
      /\ \A b \in Polls : asks[b].flow \in Flows \union {NoFlow}
      /\ ToSet(putting) \subseteq Flows /\ dialog.flow \in Flows \union {NoFlow}
  BY AnAsk DEF CopilotInv, CopilotTypes, ToSet
<1>2. CopilotTypes'
  BY <1>1 DEF CopilotInv, CopilotTypes
<1>3. Listening'
  BY <1>1 DEF CopilotInv, Listening
<1>4. \A f \in Flows : /\ code'[f] = "spent" <=> code[f] = "spent"
                       /\ code'[f] = "unused" <=> code[f] = "unused"
                       /\ code[f] \in {"denied", "expired"} => code'[f] = code[f]
  OBVIOUS
<1>14. \A b \in Polls : HasToken(b)' <=> HasToken(b)
  BY <1>1 DEF HasToken
<1>5. AsksAreSound'
  <2>1. ASSUME NEW b \in Polls, asks[b].heard PROVE dialog' = dialog
    BY <2>1 DEF CopilotInv, Listening
  <2> QED BY <1>1, <1>4, <1>14, <2>1 DEF CopilotInv, AsksAreSound
<1>6. DialogIsSound'
  BY <1>1, <1>4 DEF CopilotInv, DialogIsSound
<1>7. AnswersAreTrue'
  BY <1>1, <1>4, CopilotAssumption DEF CopilotInv, AnswersAreTrue, Ended
<1>8. FlowsAreKept'
  BY <1>1, <1>4 DEF CopilotInv, FlowsAreKept, Ended
<1>9. TokensAreSpent'
  BY <1>1, <1>4 DEF CopilotInv, TokensAreSpent
<1>10. AwaitedHaveNoToken'
  BY <1>1 DEF CopilotInv, AwaitedHaveNoToken, Awaited
<1>11. TokensAreKept'
  BY <1>1, <1>4, <1>14 DEF CopilotInv, TokensAreKept
<1>12. ErrorsAreTrue'
  BY <1>1, <1>4 DEF CopilotInv, ErrorsAreTrue, Ended
<1> QED BY <1>2, <1>3, <1>5, <1>6, <1>7, <1>8, <1>9, <1>10, <1>11, <1>12 DEF CopilotInv

-----------------------------------------------------------------------------
\* What every step may rest on.
LEMMA Resting ==
  ASSUME CopilotInv
  PROVE  /\ dialog \in [at : DialogAt, flow : Flows \union {NoFlow}, named : BOOLEAN]
         /\ dialog.at \in DialogAt /\ dialog.flow \in Flows \union {NoFlow} /\ dialog.named \in BOOLEAN
         /\ asks \in [Polls -> Ask] /\ code \in [Flows -> CodeAt] /\ putting \in Seq(Flows) /\ grants \subseteq Flows
         /\ flows \subseteq Flows
         /\ Shut \in [at : DialogAt, flow : Flows \union {NoFlow}, named : BOOLEAN]
         /\ Shut.at = "shut" /\ Shut.flow = NoFlow
         /\ dialog.flow # NoFlow => code[dialog.flow] # "unused" /\ dialog.at # "starting"
BY DEF CopilotInv, CopilotTypes, DialogIsSound, Shut, DialogAt

\* Where nothing is listened to, nothing is under way.
LEMMA NoneIsGone ==
  ASSUME CopilotInv, dialog.at \notin {"starting", "polling"}
  PROVE  Gone = {} /\ \A b \in Polls : ~asks[b].heard
BY DEF CopilotInv, Listening, Gone

LEMMA UnheardAre ==
  ASSUME CopilotInv
  PROVE  /\ Unheard \in [Polls -> Ask]
         /\ \A b \in Polls :
              /\ ~Unheard[b].heard /\ Unheard[b].answer = "none" /\ Unheard[b].at # "answered"
              /\ Unheard[b].flow \in {asks[b].flow, NoFlow}
              /\ Unheard[b].at = "user" => asks[b].at = "user" /\ Unheard[b].flow = asks[b].flow
<1>1. ASSUME NEW b \in Polls
      PROVE  /\ Unheard[b] \in Ask
             /\ ~Unheard[b].heard /\ Unheard[b].answer = "none" /\ Unheard[b].at # "answered"
             /\ Unheard[b].flow \in {asks[b].flow, NoFlow}
             /\ Unheard[b].at = "user" => asks[b].at = "user" /\ Unheard[b].flow = asks[b].flow
  <2>1. CASE asks[b].at = "answered"
    BY <2>1, NoAskIsAsk DEF Unheard
  <2>2. CASE asks[b].at # "answered"
    <3>1. Unheard[b] = [asks[b] EXCEPT !.heard = FALSE]
      BY <2>2 DEF Unheard
    <3>2. asks[b] \in Ask /\ asks[b].answer = "none"
      BY <2>2, AnAsk
    <3> QED BY <2>2, <3>1, <3>2 DEF Ask
  <2> QED BY <2>1, <2>2
<1> QED BY <1>1 DEF Unheard

LEMMA StartFlowKeeps ==
  ASSUME CopilotInv, dialog.at \in {"shut", "error"}, StartFlow
  PROVE  CopilotInv'
<1> DEFINE r == [NoAsk EXCEPT !.at = "sent", !.heard = TRUE]
<1>1. PICK a \in Polls : asks[a].at = "idle" /\ asks' = [Unheard EXCEPT ![a] = r]
  BY DEF StartFlow
<1>2. /\ dialog' = [Shut EXCEPT !.at = "starting"] /\ UNCHANGED <<flows, due, code, putting, grants, astray>>
  BY DEF StartFlow
<1>3. r \in Ask /\ r.at = "sent" /\ r.heard /\ r.flow = NoFlow /\ r.answer = "none"
  BY DEF NoAsk, Ask, AskAt, Answer
<1>4. /\ dialog' \in [at : DialogAt, flow : Flows \union {NoFlow}, named : BOOLEAN]
      /\ dialog'.at = "starting" /\ dialog'.flow = NoFlow
  BY <1>2, Resting DEF Shut, DialogAt
<1>5. asks' \in [Polls -> Ask] /\ asks'[a] = r /\ \A b \in Polls \ {a} : asks'[b] = Unheard[b]
  BY <1>1, <1>3, UnheardAre
<1>6. Gone = {}
  BY NoneIsGone
<1>7. \A b \in Polls :
        /\ asks'[b].at # "answered" /\ asks'[b].answer = "none" /\ asks'[b].flow \in {asks[b].flow, NoFlow}
        /\ asks'[b].heard => asks'[b].flow = NoFlow /\ b = a
        /\ asks'[b].at = "user" => asks[b].at = "user" /\ asks'[b].flow = asks[b].flow
  <2>1. asks'[a].at = "sent" /\ asks'[a].flow = NoFlow /\ asks'[a].answer = "none"
    BY <1>3, <1>5
  <2>2. ASSUME NEW b \in Polls \ {a}
        PROVE  /\ asks'[b].at # "answered" /\ asks'[b].answer = "none" /\ asks'[b].flow \in {asks[b].flow, NoFlow}
               /\ ~asks'[b].heard
               /\ asks'[b].at = "user" => asks[b].at = "user" /\ asks'[b].flow = asks[b].flow
    <3>1. asks'[b] = Unheard[b]
      BY <1>5
    <3> QED BY <3>1, UnheardAre
  <2> QED BY <2>1, <2>2
<1>8. UNCHANGED <<due, code, grants>> /\ flows' = flows /\ astray' = astray /\ putting' = putting /\ putting \in Seq(Flows)
  BY <1>2, Resting
<1> QED BY <1>4, <1>5, <1>6, <1>7, <1>8, CutKeepsInv

LEMMA CloseDialogKeeps ==
  ASSUME CopilotInv, CloseDialog
  PROVE  CopilotInv'
<1>1. /\ dialog' = Shut /\ asks' = Unheard /\ astray' = astray \union Gone
      /\ UNCHANGED <<flows, due, code, putting, grants>>
  BY DEF CloseDialog
<1>2. asks' \in [Polls -> Ask] /\ \A b \in Polls : asks'[b] = Unheard[b]
  BY <1>1, UnheardAre
<1> QED BY <1>1, <1>2, UnheardAre, Resting, CutKeepsInv

LEMMA ClosesItselfKeeps ==
  ASSUME CopilotInv, ClosesItself
  PROVE  CopilotInv'
BY Resting, StayKeepsInv DEF ClosesItself

LEMMA LoseKeeps ==
  ASSUME CopilotInv, NEW a \in Polls, Lose(a)
  PROVE  CopilotInv'
<1>1. /\ dialog' = [dialog EXCEPT !.at = AfterFailure] /\ asks' = Unheard /\ astray' = astray \union Gone
      /\ UNCHANGED <<flows, due, code, putting, grants>> /\ asks[a].heard
  BY DEF Lose
<1>2. asks' \in [Polls -> Ask] /\ \A b \in Polls : asks'[b] = Unheard[b]
  BY <1>1, UnheardAre
<1>3. dialog.at \in {"starting", "polling"}
  BY <1>1 DEF CopilotInv, Listening
<1>4. /\ dialog' \in [at : DialogAt, flow : Flows \union {NoFlow}, named : BOOLEAN]
      /\ dialog'.at = AfterFailure /\ dialog'.flow = dialog.flow
  BY <1>1, Resting DEF AfterFailure, DialogAt
<1>5. /\ dialog'.at = "error" => dialog'.flow = NoFlow
      /\ dialog'.at # "error" => dialog'.at = "waiting" /\ dialog.at = "polling"
  BY <1>3, <1>4, Resting DEF AfterFailure
<1>6. dialog.at = "polling" => Awaited(dialog.flow)
  BY DEF Awaited
<1>7. ~\E f \in ToSet(putting') : f \notin ToSet(putting)
  BY <1>1
<1> QED BY <1>1, <1>2, <1>4, <1>5, <1>6, <1>7, UnheardAre, Resting, CutKeepsInv

LEMMA ServerRestartsKeeps ==
  ASSUME CopilotInv, ServerRestarts
  PROVE  CopilotInv'
<1> DEFINE r == [NoAsk EXCEPT !.at = "answered", !.heard = TRUE, !.answer = "dropped"]
<1>1. /\ flows' = {} /\ astray' = astray \union flows \union Gone
      /\ asks' = [a \in Polls |-> IF asks[a].heard THEN r ELSE NoAsk]
      /\ UNCHANGED <<dialog, due, code, putting, grants>>
  BY DEF ServerRestarts
<1>2. r \in Ask /\ r.at = "answered" /\ r.heard /\ r.flow = NoFlow /\ r.answer = "dropped"
  BY DEF NoAsk, Ask, AskAt, Answer
<1>3. asks' \in [Polls -> Ask] /\ \A b \in Polls : asks'[b] = IF asks[b].heard THEN r ELSE NoAsk
  BY <1>1, <1>2, NoAskIsAsk
<1>4. \A b \in Polls : asks'[b].heard => asks[b].heard
  BY <1>3, NoAskIsAsk
<1>5. /\ \A b \in Polls : asks[b].heard => dialog.at \in {"starting", "polling"}
      /\ \A b, c \in Polls : asks[b].heard /\ asks[c].heard => b = c
      /\ dialog.at = "error" /\ dialog.flow # NoFlow => Ended(dialog.flow)
      /\ dialog.at \in {"waiting", "polling"} => Awaited(dialog.flow)
  BY DEF CopilotInv, Listening, ErrorsAreTrue, Awaited
<1> QED BY <1>1, <1>2, <1>3, <1>4, <1>5, NoAskIsAsk, Resting, CutKeepsInv

LEMMA StoredKeeps ==
  ASSUME CopilotInv, Stored \/ NotStored
  PROVE  CopilotInv'
<1>1. /\ putting # <<>> /\ putting' = Tail(putting) /\ UNCHANGED <<flows, due, code, asks>>
      /\ \/ grants' = grants \union {Head(putting)} /\ UNCHANGED astray
         \/ astray' = astray \union {Head(putting)} /\ UNCHANGED grants
  BY DEF Stored, NotStored
<1>2. /\ Tail(putting) \in Seq(Flows) /\ Head(putting) \in Flows
      /\ ToSet(putting) = {Head(putting)} \union ToSet(Tail(putting))
  <2>1. putting \in Seq(Flows)
    BY Resting
  <2> QED BY <1>1, <2>1, TailIs
<1>3. \/ dialog' = dialog
      \/ dialog.at = "storing" /\ \E to \in {"connected", "unclosed", "stuck"} : dialog' = [dialog EXCEPT !.at = to]
  BY DEF Stored, NotStored
<1>4. /\ dialog' \in [at : DialogAt, flow : Flows \union {NoFlow}, named : BOOLEAN]
      /\ \/ dialog' = dialog
         \/ /\ dialog.at \notin {"starting", "polling"} /\ dialog'.flow \in {dialog.flow, NoFlow}
            /\ dialog'.at \notin {"starting", "waiting", "polling", "error"}
  BY <1>3, Resting DEF DialogAt
<1> QED BY <1>1, <1>2, <1>4, Resting, StayKeepsInv

LEMMA GithubKeeps ==
  ASSUME CopilotInv, NEW f \in Flows, Decide(f) \/ CodeExpires(f) \/ FlowIsOver(f)
  PROVE  CopilotInv'
<1>1. UNCHANGED <<asks, flows, dialog, putting, grants, astray>> /\ due \subseteq due'
  BY DEF Decide, CodeExpires, FlowIsOver
<1>2. /\ code' \in [Flows -> CodeAt]
      /\ \A g \in Flows : code'[g] # code[g] =>
           code[g] \in {"waiting", "accepted"} /\ code'[g] \in {"accepted", "denied", "expired"}
  BY Resting DEF Decide, CodeExpires, FlowIsOver, CodeAt
<1> QED BY <1>1, <1>2, Resting, StayKeepsInv

LEMMA PollKeeps ==
  ASSUME CopilotInv, Poll
  PROVE  CopilotInv'
<1>1. PICK a \in Polls :
        asks[a].at = "idle" /\ asks' = [asks EXCEPT ![a] = [NoAsk EXCEPT !.at = "sent", !.heard = TRUE, !.flow = dialog.flow]]
  BY DEF Poll
<1> DEFINE r == [NoAsk EXCEPT !.at = "sent", !.heard = TRUE, !.flow = dialog.flow]
<1>2. /\ dialog.at = "waiting" /\ dialog' = [dialog EXCEPT !.at = "polling"]
      /\ UNCHANGED <<flows, due, code, putting, grants, astray>>
      /\ asks \in [Polls -> Ask] /\ code \in [Flows -> CodeAt]
  BY Resting DEF Poll
<1>3. /\ dialog' \in [at : DialogAt, flow : Flows \union {NoFlow}, named : BOOLEAN]
      /\ dialog'.at = "polling" /\ dialog'.flow = dialog.flow
  BY <1>2, Resting DEF DialogAt
<1>4. r \in Ask /\ r.at = "sent" /\ r.heard /\ r.flow = dialog.flow /\ r.answer = "none"
  BY Resting DEF NoAsk, Ask, AskAt, Answer
<1>5. asks' \in [Polls -> Ask] /\ asks'[a] = r /\ \A b \in Polls \ {a} : asks'[b] = asks[b]
  BY <1>1, <1>2, <1>4
<1>6. \A b \in Polls : ~asks[b].heard
  BY <1>2, NoneIsGone
<1>7. CopilotTypes'
  BY <1>2, <1>3, <1>5 DEF CopilotInv, CopilotTypes
<1>8. Listening'
  BY <1>3, <1>5, <1>6 DEF Listening
<1>9. AsksAreSound'
  <2>1. ASSUME NEW b \in Polls \ {a}
        PROVE  /\ asks'[b].at = "answered" => asks'[b].heard
               /\ IF asks'[b].at = "answered" THEN asks'[b].answer # "none" ELSE asks'[b].answer = "none"
               /\ HasToken(b)' => asks'[b].flow # NoFlow /\ code'[asks'[b].flow] = "spent"
               /\ asks'[b].flow # NoFlow => code'[asks'[b].flow] # "unused"
               /\ ~asks'[b].heard
    <3>1. HasToken(b)' = HasToken(b)
      BY <1>5 DEF HasToken
    <3> QED BY <1>2, <1>5, <1>6, <3>1 DEF CopilotInv, AsksAreSound
  <2>2. ~HasToken(a)'
    BY <1>4, <1>5 DEF HasToken
  <2>3. r.flow # NoFlow => code'[r.flow] # "unused"
    BY <1>2, <1>4, Resting
  <2>4. asks'[a] = r /\ r.at # "answered" /\ r.answer = "none" /\ (r.flow = NoFlow \/ r.flow = dialog'.flow)
    BY <1>3, <1>4, <1>5
  <2> HIDE DEF r
  <2> QED BY <2>1, <2>2, <2>3, <2>4 DEF AsksAreSound
<1>10. DialogIsSound'
  BY <1>2, <1>3, Resting DEF DialogIsSound
<1>11. AnswersAreTrue'
  BY <1>2, <1>4, <1>5 DEF CopilotInv, AnswersAreTrue, Ended
<1>12. FlowsAreKept'
  BY <1>2 DEF CopilotInv, FlowsAreKept, Ended
<1>13. TokensAreSpent'
  BY <1>2 DEF CopilotInv, TokensAreSpent
<1>14. AwaitedHaveNoToken'
  <2>1. \A b \in Polls : asks'[b].answer = "code" => asks[b].answer = "code" /\ asks'[b].flow = asks[b].flow
    BY <1>4, <1>5
  <2> QED BY <1>2, <1>3, <2>1 DEF CopilotInv, AwaitedHaveNoToken, Awaited
<1>15. TokensAreKept'
  BY <1>2, <1>6 DEF CopilotInv, TokensAreKept
<1>16. ErrorsAreTrue'
  BY <1>3 DEF ErrorsAreTrue
<1> QED BY <1>7, <1>8, <1>9, <1>10, <1>11, <1>12, <1>13, <1>14, <1>15, <1>16 DEF CopilotInv

\* The one request that was listened to is over.
LEMMA AnsweredIsOver ==
  ASSUME CopilotInv, NEW a \in Polls, asks[a].at = "answered", asks' = [asks EXCEPT ![a] = NoAsk]
  PROVE  /\ asks' \in [Polls -> Ask]
         /\ \A b \in Polls :
              /\ ~asks'[b].heard /\ asks'[b].answer = "none" /\ asks'[b].at # "answered"
              /\ asks'[b].flow \in {asks[b].flow, NoFlow}
              /\ asks'[b].at = "user" => asks[b].at = "user" /\ asks'[b].flow = asks[b].flow
         /\ dialog.at \in {"starting", "polling"}
         /\ Gone = IF HasToken(a) THEN {asks[a].flow} ELSE {}
<1>1. /\ asks \in [Polls -> Ask] /\ asks[a].heard /\ dialog.at \in {"starting", "polling"}
      /\ \A b \in Polls : asks[b].heard => b = a
  BY AnAsk DEF CopilotInv, AsksAreSound, Listening
<1>2. asks' \in [Polls -> Ask] /\ asks'[a] = NoAsk /\ \A b \in Polls \ {a} : asks'[b] = asks[b]
  BY <1>1, NoAskIsAsk
<1>3. \A b \in Polls \ {a} : ~asks[b].heard /\ asks[b].at # "answered" /\ asks[b].answer = "none"
  BY <1>1 DEF CopilotInv, AsksAreSound
<1>4. Gone = IF HasToken(a) THEN {asks[a].flow} ELSE {}
  BY <1>1 DEF Gone
<1> QED BY <1>1, <1>2, <1>3, <1>4, NoAskIsAsk

LEMMA UnreadableKeeps ==
  ASSUME CopilotInv, NEW a \in Polls, Unreadable(a)
  PROVE  CopilotInv'
<1>1. /\ asks[a].at = "answered" /\ asks' = [asks EXCEPT ![a] = NoAsk] /\ dialog' = [dialog EXCEPT !.at = "stuck"]
      /\ astray' = astray \union Gone /\ UNCHANGED <<due, code, grants>> /\ flows' = flows /\ putting' = putting
  BY DEF Unreadable
<1>2. /\ dialog' \in [at : DialogAt, flow : Flows \union {NoFlow}, named : BOOLEAN]
      /\ dialog'.at = "stuck" /\ dialog'.flow = dialog.flow
  BY <1>1, Resting DEF DialogAt
<1> QED BY <1>1, <1>2, AnsweredIsOver, Resting, CutKeepsInv

LEMMA HeardKeeps ==
  ASSUME CopilotInv, NEW a \in Polls, Heard(a)
  PROVE  CopilotInv'
<1> DEFINE answer == asks[a].answer
           f == asks[a].flow
<1>1. /\ asks[a].at = "answered" /\ asks[a].heard /\ asks' = [asks EXCEPT ![a] = NoAsk]
      /\ putting' = IF HasToken(a) THEN Append(putting, f) ELSE putting
      /\ UNCHANGED <<due, code, grants>> /\ flows' = flows /\ astray' = astray
      /\ answer \in Answer /\ f \in Flows \union {NoFlow}
      /\ HasToken(a) <=> answer \in {"complete", "nameless"}
  BY AnAsk DEF Heard, CopilotInv, AsksAreSound, HasToken
<1>2. /\ answer # "code" /\ f # NoFlow => f = dialog.flow
      /\ f # NoFlow => code[f] # "unused"
      /\ answer \in {"unknown", "denied", "expired"} => f # NoFlow /\ Ended(f)
  BY <1>1 DEF CopilotInv, AsksAreSound, AnswersAreTrue
<1>3. dialog.at \in {"starting", "polling"} /\ (dialog.at = "polling" => Awaited(dialog.flow))
  BY <1>1 DEF CopilotInv, Listening, Awaited
<1>4. CASE ~HasToken(a)
  <2>1. putting' = putting /\ putting \in Seq(Flows) /\ Gone = {} /\ flows \ flows' = {}
        /\ ~\E g \in ToSet(putting') : g \notin ToSet(putting)
    BY <1>1, <1>4, AnsweredIsOver, Resting
  <2>2. \/ dialog' = [dialog EXCEPT !.at = AfterFailure]
        \/ answer = "code" /\ dialog' = [dialog EXCEPT !.at = "waiting", !.flow = f]
        \/ answer = "pending" /\ dialog' = [dialog EXCEPT !.at = "waiting"]
        \/ answer \in {"unknown", "denied", "expired"} /\ dialog' = [dialog EXCEPT !.at = "error"]
    <3>1. answer \in Refusals \union {"code", "pending", "unknown", "denied", "expired"}
      BY <1>1, <1>4, AnAsk DEF Answer, Refusals, CopilotInv, AsksAreSound
    <3>2. CASE answer \in Refusals
      BY <3>2 DEF Heard, Refusals
    <3>3. CASE answer = "code"
      BY <3>3 DEF Heard, Refusals
    <3>4. CASE answer = "pending"
      BY <3>4 DEF Heard, Refusals
    <3>5. CASE answer \in {"unknown", "denied", "expired"}
      BY <3>5 DEF Heard, Refusals
    <3> QED BY <3>1, <3>2, <3>3, <3>4, <3>5
  <2>3. ASSUME NEW to \in {"waiting", "error"}, dialog' = [dialog EXCEPT !.at = to]
        PROVE  /\ dialog' \in [at : DialogAt, flow : Flows \union {NoFlow}, named : BOOLEAN]
               /\ dialog'.at = to /\ dialog'.flow = dialog.flow
    BY <2>3, Resting DEF DialogAt
  <2>4. /\ dialog' \in [at : DialogAt, flow : Flows \union {NoFlow}, named : BOOLEAN]
        /\ dialog'.at \in {"waiting", "error"}
        /\ dialog'.flow # NoFlow => code[dialog'.flow] # "unused"
        /\ dialog'.at = "error" /\ dialog'.flow # NoFlow => Ended(dialog'.flow)
        /\ dialog'.at = "waiting" /\ dialog'.flow # NoFlow => Awaited(dialog'.flow)
    <3>1. CASE dialog' = [dialog EXCEPT !.at = AfterFailure]
      <4>1. dialog'.at = AfterFailure /\ dialog'.flow = dialog.flow
            /\ dialog' \in [at : DialogAt, flow : Flows \union {NoFlow}, named : BOOLEAN]
        BY <2>3, <3>1 DEF AfterFailure
      <4> QED BY <1>3, <4>1, Resting DEF AfterFailure
    <3>2. CASE answer = "code" /\ dialog' = [dialog EXCEPT !.at = "waiting", !.flow = f]
      <4>1. dialog'.at = "waiting" /\ dialog'.flow = f
            /\ dialog' \in [at : DialogAt, flow : Flows \union {NoFlow}, named : BOOLEAN]
        BY <1>1, <3>2, Resting DEF DialogAt
      <4>2. Awaited(f)
        BY <3>2 DEF Awaited
      <4> QED BY <1>2, <4>1, <4>2
    <3>3. CASE answer = "pending" /\ dialog' = [dialog EXCEPT !.at = "waiting"]
      <4>1. dialog'.at = "waiting" /\ dialog'.flow = dialog.flow
            /\ dialog' \in [at : DialogAt, flow : Flows \union {NoFlow}, named : BOOLEAN]
        BY <2>3, <3>3
      <4> QED BY <1>3, <4>1, Resting
    <3>4. CASE answer \in {"unknown", "denied", "expired"} /\ dialog' = [dialog EXCEPT !.at = "error"]
      <4>1. dialog'.at = "error" /\ dialog'.flow = dialog.flow
            /\ dialog' \in [at : DialogAt, flow : Flows \union {NoFlow}, named : BOOLEAN]
        BY <2>3, <3>4
      <4>2. f = dialog.flow /\ Ended(f)
        BY <1>2, <3>4
      <4> QED BY <4>1, <4>2, Resting
    <3> QED BY <2>2, <3>1, <3>2, <3>3, <3>4
  <2>5. \A b \in Polls : ~asks'[b].heard
    BY <1>1, AnsweredIsOver
  <2> QED BY <1>1, <2>1, <2>4, <2>5, AnsweredIsOver, CutKeepsInv
<1>5. CASE HasToken(a)
  <2>1. /\ dialog' = [dialog EXCEPT !.at = "storing", !.named = (answer = "complete")]
        /\ f \in Flows /\ code[f] = "spent"
    BY <1>1, <1>5, AnAsk DEF Heard, Refusals
  <2>2. /\ putting' = Append(putting, f) /\ putting' \in Seq(Flows) /\ ToSet(putting') = ToSet(putting) \union {f}
    BY <1>1, <1>5, <2>1, Resting, AppendIs
  <2>3. /\ dialog' \in [at : DialogAt, flow : Flows \union {NoFlow}, named : BOOLEAN]
        /\ dialog'.at = "storing" /\ dialog'.flow = dialog.flow
    BY <2>1, Resting DEF DialogAt
  <2>4. Gone = {f}
    BY <1>1, <1>5, AnsweredIsOver
  <2> QED BY <1>1, <2>1, <2>2, <2>3, <2>4, AnsweredIsOver, Resting, CutKeepsInv
<1> QED BY <1>4, <1>5

-----------------------------------------------------------------------------

LEMMA CopilotInvHolds == CopilotSpec => []CopilotInv
<1>1. CopilotInit => CopilotInv
  <2> SUFFICES ASSUME CopilotInit PROVE CopilotInv
    OBVIOUS
  <2>1. /\ dialog = Shut /\ flows = {} /\ due = {} /\ code \in [Flows -> CodeAt] /\ \A f \in Flows : code[f] = "unused"
        /\ asks \in [Polls -> Ask] /\ \A a \in Polls : asks[a] = NoAsk
        /\ putting = <<>> /\ grants = {} /\ astray = {}
    BY NoAskIsAsk DEF CopilotInit, CodeAt
  <2>2. ToSet(putting) = {} /\ putting \in Seq(Flows)
    BY <2>1 DEF ToSet
  <2>3. /\ Shut \in [at : DialogAt, flow : Flows \union {NoFlow}, named : BOOLEAN]
        /\ Shut.at = "shut" /\ Shut.flow = NoFlow
    BY DEF Shut, DialogAt
  <2>4. CopilotTypes /\ Listening /\ DialogIsSound /\ ErrorsAreTrue
    BY <2>1, <2>2, <2>3, NoAskIsAsk DEF CopilotTypes, Listening, DialogIsSound, ErrorsAreTrue
  <2>5. AsksAreSound
    BY <2>1, NoAskIsAsk DEF AsksAreSound, HasToken
  <2>6. AnswersAreTrue /\ FlowsAreKept
    BY <2>1, NoAskIsAsk DEF AnswersAreTrue, FlowsAreKept
  <2>7. TokensAreSpent /\ AwaitedHaveNoToken /\ TokensAreKept
    BY <2>1, <2>2 DEF TokensAreSpent, AwaitedHaveNoToken, TokensAreKept
  <2> QED BY <2>4, <2>5, <2>6, <2>7 DEF CopilotInv
<1>2. CopilotInv /\ [CopilotNext]_copilotVars => CopilotInv'
  <2> SUFFICES ASSUME CopilotInv, [CopilotNext]_copilotVars PROVE CopilotInv'
    OBVIOUS
  <2>1. CASE OpenDialog \/ StartAgain
    BY <2>1, StartFlowKeeps DEF OpenDialog, StartAgain
  <2>2. CASE CloseDialog \/ DialogGoesOn
    BY <2>2, CloseDialogKeeps, PollKeeps, ClosesItselfKeeps DEF DialogGoesOn
  <2>3. CASE Stored \/ NotStored \/ ServerRestarts
    BY <2>3, StoredKeeps, ServerRestartsKeeps
  <2>4. ASSUME NEW a \in Polls, AskGoesOn(a) \/ Unreadable(a) \/ Lose(a) \/ GithubFails(a) PROVE CopilotInv'
    BY <2>4, ArriveKeeps, NoTokenKeeps, TokenKeeps, NamedKeeps, HeardKeeps, StartRefusedKeeps, CodeGivenKeeps, UnreadableKeeps,
       LoseKeeps, GithubFailsKeeps DEF AskGoesOn
  <2>5. ASSUME NEW f \in Flows, Decide(f) \/ CodeExpires(f) \/ FlowIsOver(f) PROVE CopilotInv'
    BY <2>5, GithubKeeps
  <2>6. CASE UNCHANGED copilotVars
    BY <2>6 DEF copilotVars, CopilotInv, CopilotTypes, Listening, AsksAreSound, DialogIsSound, AnswersAreTrue, FlowsAreKept,
       TokensAreSpent, AwaitedHaveNoToken, TokensAreKept, ErrorsAreTrue, HasToken, Ended, Awaited
  <2> QED BY <2>1, <2>2, <2>3, <2>4, <2>5, <2>6 DEF CopilotNext
<1> QED BY <1>1, <1>2, PTL DEF CopilotSpec

\* AuthorizationIsKept.
THEOREM TokensAreNotLost == CopilotSpec => []AuthorizationIsKept
<1>1. CopilotInv => AuthorizationIsKept
  BY DEF CopilotInv, AuthorizationIsKept, TokensAreKept, ErrorsAreTrue, Ended
<1> QED BY <1>1, CopilotInvHolds, PTL
=============================================================================
