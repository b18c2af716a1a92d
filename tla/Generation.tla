----------------------------- MODULE Generation -----------------------------
(***************************************************************************)
(* The generate methods of the stores of labs and quizzes, with the        *)
(* reading of their prompts and the retries of lib/ai/generate.  A step    *)
(* runs from one await to the next.                                        *)
(***************************************************************************)
EXTENDS Integers, Sequences

CONSTANTS MAX_CORRECTIVE_RETRIES,
          Parts,          \* questions of a quiz
          MaxMade         \* bound on what is generated

Kinds == {"lab", "quiz"}

VARIABLES
  gen,           \* a generation: [at, tries]
  made,          \* what it saved so far: the questions of each quiz or lab
  list,          \* what the store lists of it
  offer, error,  \* the text offered to be saved as it is, and the error shown
  instructions, legacy, \* the two rows of settings for each kind of prompt
  had            \* there was an old prompt in the beginning

prompts == <<instructions, legacy, had>>
generationVars == <<gen, made, list, offer, error, prompts>>

Off == [at |-> "off", tries |-> 0]

GenerationInit ==
  /\ gen = [k \in Kinds |-> Off] /\ made = [k \in Kinds |-> <<>>]
  /\ list = [k \in Kinds |-> {}] /\ offer = FALSE /\ error = [k \in Kinds |-> FALSE]
  /\ instructions = [k \in Kinds |-> "absent"]
  /\ legacy \in [Kinds -> {"absent", "text"}]
  /\ had = [k \in Kinds |-> legacy[k] = "text"]

-----------------------------------------------------------------------------
(* Generation.                                                             *)

Reaches(k, place) == gen' = [gen EXCEPT ![k].at = place]
GenerationEnds(k) == gen' = [gen EXCEPT ![k] = Off]

Generate(k) ==
  /\ gen[k].at = "off" /\ Len(made[k]) < MaxMade
  /\ Reaches(k, "context")
  /\ error' = [error EXCEPT ![k] = FALSE]
  /\ offer' = (offer /\ k = "quiz")
  /\ UNCHANGED <<made, list, prompts>>

\* assembleContext, the provider and its settings: no model is asked if one fails.
ContextRead(k) ==
  /\ gen[k].at = "context"
  /\ \/ Reaches(k, "instructions") /\ UNCHANGED error
     \/ GenerationEnds(k) /\ error' = [error EXCEPT ![k] = TRUE]
  /\ UNCHANGED <<made, list, offer, prompts>>

\* readCustomInstructions: the own instructions; where the row is absent, the
\* whole prompt of earlier versions is moved there, written first, deleted then.
InstructionsRead(k) ==
  /\ gen[k].at = "instructions"
  /\ Reaches(k, IF instructions[k] = "absent" THEN "legacy" ELSE "ask")
  /\ UNCHANGED <<made, list, offer, error, prompts>>

LegacyRead(k) ==
  /\ gen[k].at = "legacy"
  /\ Reaches(k, IF legacy[k] = "absent" THEN "ask" ELSE "move")
  /\ UNCHANGED <<made, list, offer, error, prompts>>

\* Mutant: deleted first.
LegacyMovedMutant(k) ==
  /\ gen[k].at = "move"
  /\ legacy' = [legacy EXCEPT ![k] = "absent"]
  /\ Reaches(k, "delete")
  /\ UNCHANGED <<made, list, offer, error, instructions, had>>

LegacyMoved(k) ==
  /\ gen[k].at = "move"
  /\ instructions' = [instructions EXCEPT ![k] = "text"]
  /\ Reaches(k, "delete")
  /\ UNCHANGED <<made, list, offer, error, legacy, had>>

LegacyDeleted(k) ==
  /\ gen[k].at = "delete"
  /\ legacy' = [legacy EXCEPT ![k] = "absent"]
  /\ Reaches(k, "ask")
  /\ UNCHANGED <<made, list, offer, error, instructions, had>>

\* generateObjectViaTool gave an object that fits the schema.
Generated(k) ==
  /\ gen[k].at = "ask"
  /\ Reaches(k, "save")
  /\ UNCHANGED <<made, list, offer, error, prompts>>

\* One that does not: a quiz is asked for again, with what was wrong.
Mismatch(k) ==
  /\ gen[k].at = "ask" /\ k = "quiz" /\ gen[k].tries < MAX_CORRECTIVE_RETRIES
  /\ gen' = [gen EXCEPT ![k].tries = @ + 1]
  /\ UNCHANGED <<made, list, offer, error, prompts>>

\* No result, a failed request, or one mismatch too many: an error for a quiz,
\* for a lab the text that came.
NotGenerated(k) ==
  /\ gen[k].at = "ask"
  /\ GenerationEnds(k)
  /\ IF k = "lab" THEN offer' = TRUE /\ UNCHANGED error
                  ELSE error' = [error EXCEPT ![k] = TRUE] /\ UNCHANGED offer
  /\ UNCHANGED <<made, list, prompts>>

Whole(k) == IF k = "lab" THEN 0 ELSE Parts

Created(k) ==
  /\ gen[k].at = "save"
  /\ made' = [made EXCEPT ![k] = Append(@, 0)]
  /\ IF k = "lab" THEN GenerationEnds(k) /\ list' = [list EXCEPT ![k] = @ \union {Len(made'[k])}]
                  ELSE Reaches(k, "add") /\ UNCHANGED list
  /\ UNCHANGED <<offer, error, prompts>>

\* The questions one by one; the quiz is listed after the last.
QuestionAdded(k) ==
  LET n == Len(made[k]) IN
  /\ gen[k].at = "add"
  /\ made' = [made EXCEPT ![k][n] = @ + 1]
  /\ IF made'[k][n] = Whole(k)
     THEN GenerationEnds(k) /\ list' = [list EXCEPT ![k] = @ \union {n}]
     ELSE UNCHANGED <<gen, list>>
  /\ UNCHANGED <<offer, error, prompts>>

SaveFails(k) ==
  /\ gen[k].at \in {"move", "delete", "save", "add"}
  /\ GenerationEnds(k)
  /\ error' = [error EXCEPT ![k] = TRUE]
  /\ UNCHANGED <<made, list, offer, prompts>>

\* saveRaw and dismissRawOffer.
SaveRaw ==
  /\ offer /\ Len(made["lab"]) < MaxMade
  /\ made' = [made EXCEPT !["lab"] = Append(@, 0)]
  /\ list' = [list EXCEPT !["lab"] = @ \union {Len(made'["lab"])}]
  /\ offer' = FALSE
  /\ UNCHANGED <<gen, error, prompts>>

DismissRawOffer == offer /\ offer' = FALSE /\ UNCHANGED <<gen, made, list, error, prompts>>

\* The page of the list.
LoadList(k) ==
  /\ list' = [list EXCEPT ![k] = DOMAIN made[k]]
  /\ UNCHANGED <<gen, made, offer, error, prompts>>

\* The settings page: instructions typed by the user.
SaveInstructions(k) ==
  /\ instructions' = [instructions EXCEPT ![k] = "own"]
  /\ UNCHANGED <<gen, made, list, offer, error, legacy, had>>

\* The page is closed; the database stays.
Leave ==
  /\ gen' = [k \in Kinds |-> Off]
  /\ list' = [k \in Kinds |-> {}] /\ offer' = FALSE /\ error' = [k \in Kinds |-> FALSE]
  /\ UNCHANGED <<made, prompts>>

-----------------------------------------------------------------------------
Generating(k) ==
  \/ Generate(k) \/ ContextRead(k)
  \/ InstructionsRead(k) \/ LegacyRead(k) \/ LegacyMoved(k) \/ LegacyDeleted(k)
  \/ Generated(k) \/ Mismatch(k) \/ NotGenerated(k)
  \/ Created(k) \/ QuestionAdded(k) \/ SaveFails(k)
  \/ LoadList(k) \/ SaveInstructions(k)

GenerationNext ==
  \/ \E k \in Kinds : Generating(k)
  \/ SaveRaw \/ DismissRawOffer \/ Leave

GenerationSpec == GenerationInit /\ [][GenerationNext]_generationVars

-----------------------------------------------------------------------------
(* Properties.                                                             *)

\* A prompt of an earlier version is in one of the two rows, wherever the page is
\* closed or a write fails, unless the user's own instructions have come.
LegacyIsKept ==
  \A k \in Kinds : had[k] => legacy[k] = "text" \/ instructions[k] # "absent"

=============================================================================
