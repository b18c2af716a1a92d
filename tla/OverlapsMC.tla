----------------------------- MODULE OverlapsMC -----------------------------
(***************************************************************************)
(* What overlapping operations of the page share: the store of the chat    *)
(* (ChatStore), the registry of tools with the sessions of MCP servers     *)
(* (McpMount), the open attempt of a quiz (Quizzes), the list of providers *)
(* (ProviderForm).  They share no state; in a behaviour one of them moves, *)
(* so that a run explores their sum and not their product.                 *)
(***************************************************************************)
EXTENDS McpMount, ChatStore, Quizzes, ProviderForm, TLC

VARIABLE part

OverlapsInit ==
  /\ part \in {"store", "mounts", "quizzes", "form"}
  /\ Init /\ StoreInit /\ QuizInit /\ FormInit
  /\ part # "mounts" => offers = [s \in Hosts |-> {}]  \* what varies varies for the part that moves
  /\ part # "form" => wanted = {}

StoreStep == part = "store" /\ StoreNext /\ UNCHANGED <<part, vars, quizVars, formVars>>
MountStep == part = "mounts" /\ Next /\ UNCHANGED <<part, chatVars, quizVars, formVars>>
QuizStep == part = "quizzes" /\ QuizNext /\ UNCHANGED <<part, vars, chatVars, formVars>>
FormStep == part = "form" /\ FormNext /\ UNCHANGED <<part, vars, chatVars, quizVars>>

OverlapsNext == StoreStep \/ MountStep \/ QuizStep \/ FormStep
OverlapsSpec == OverlapsInit /\ [][OverlapsNext]_<<part, vars, chatVars, quizVars, formVars>>

-----------------------------------------------------------------------------
\* The server of the instance.
OneServer == <<"s1">>

\* What may be exchanged: turns with the sends, and providers with the chats, whose values they
\* share.
Swaps == Permutations(Turns) \union Permutations(Chats)

\* The rows, stored or on screen, decide nothing a send or a load does: states that
\* differ in nothing else are one for properties of the rest.
View ==
  <<part, vars, chatId, streaming, controller, buffer, cards, sendAt, home, signal, aborted,
    [l \in Loads |-> <<loads[l].at, loads[l].chat>>],
    quizVars, formVars>>

\* After operations of several steps met, the property of the providers speaks of their list
\* alone: keys and a pointer that was lost are left out of the run then.  What comes after an
\* attempt was exchanged is beyond the properties of quizzes.
Straight ==
  /\ tangled => keyed = {} /\ screen.flags = {} /\ "active" \notin unsaved
  /\ ~crossed
=============================================================================
