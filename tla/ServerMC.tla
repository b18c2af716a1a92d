------------------------------ MODULE ServerMC ------------------------------
(***************************************************************************)
(* Requests that meet on the server: those of the security gate (Auth) and *)
(* those that exchange the database (PgRestore).  In a behaviour one of    *)
(* the two moves, so that a run explores their sum and not their product.  *)
(***************************************************************************)
EXTENDS Auth, PgRestore, TLC

VARIABLE part

serverVars == <<part, vars, restoreVars>>

ServerInit ==
  /\ part \in {"gate", "database"} /\ Init /\ RestoreInit
  \* what varies in the beginning varies only for the part that moves
  /\ part = "gate" => db = {"old", "stamp"}

GateStep == part = "gate" /\ Next /\ UNCHANGED <<part, restoreVars>>
DatabaseStep == part = "database" /\ RestoreNext /\ UNCHANGED <<part, vars>>

ServerSpec == ServerInit /\ [][GateStep \/ DatabaseStep]_serverVars

-----------------------------------------------------------------------------
\* Requests and labels of the gate are interchangeable, and so are restores, which share
\* their values with the requests.
Swaps == Permutations(Reqs) \union Permutations(Labels)

\* What codes of a forgotten secret opened decides nothing, and no property asks for it.
\* Neither does it matter how a request ended, what it was given, or whether a download is over.
View ==
  <<part, tables, memory, minted, forgotten, req, cli,
    [c \in Secrets \X Steps |-> IF c[1] \in forgotten THEN 0 ELSE spent[c]],
    db, restoring, safety, crashes, kept,
    [q \in Requests \ Backups |-> IF at[q] \in Ended THEN "over" ELSE at[q]],
    [r \in Restores |-> IF at[r] \in Ended THEN {} ELSE dump[r]]>>
=============================================================================
