----------------------------- MODULE PgRestore -----------------------------
(***************************************************************************)
(* The application's database as the server serves it: queries (pg.ts),    *)
(* backup and restore (pg-backup.ts), import of old backups (pg-import.ts).*)
(*                                                                         *)
(* The handlers of one Node process interleave at their awaits; pg_dump    *)
(* and pg_restore are processes they wait for.  The database is the set of *)
(* the keys that are in it, which is all that decides whether a restore of *)
(* data succeeds: pg_restore --data-only --single-transaction fails on a   *)
(* key that is already there.  Rows come in lots that travel together:     *)
(*   "old"    the chats and all there was before                           *)
(*   "stamp"  the row schemaVersion of the settings                        *)
(*   "auth"   the identities of the security gate, once it is set up       *)
(*   j, w     the chats that restore or import j brings, the row of write w*)
(***************************************************************************)
EXTENDS Naturals, FiniteSets

CONSTANTS
  Restores,     \* PUT /api/backup/db
  Imports,      \* PUT /api/import/sqlite
  Backups,      \* GET /api/backup/db
  Queries,      \* POST /api/db/query, one statement
  FaultyTools,  \* BOOLEAN: tools and statements fail for reasons of their own
  MaxCrashes    \* bound: crashes of the server

Jobs     == Restores \union Imports
Requests == Jobs \union Backups \union Queries

ASSUME RestoreAssumption ==
  /\ Restores \intersect Imports = {}
  /\ Jobs \intersect Backups = {}
  /\ Jobs \intersect Queries = {}
  /\ Backups \intersect Queries = {}
  /\ "old" \notin Jobs \union Queries  \* the rows there were are nobody's new rows
  /\ FaultyTools \in BOOLEAN
  /\ MaxCrashes \in Nat

VARIABLES
  db,         \* the keys in the database
  restoring,  \* the module-level flag of pg.ts
  at,         \* the await each request is suspended at, or how it ended
  dump,       \* the keys in the file each restore at work was given
  safety,     \* the keys in the dump each job made before it began
  crashes,
  kept        \* history: what was in the database while no job was at work

restoreVars == <<db, restoring, at, dump, safety, crashes, kept>>

Lots == {"old", "stamp", "auth"} \union Jobs \union Queries

Ended == {"ok", "refused", "failed", "rolledBack"}

RestoreTypeOK ==
  /\ db \subseteq Lots
  /\ restoring \in BOOLEAN
  /\ at \in [Requests -> {"new", "dumping", "truncating", "loading",
                          "migrating", "rolling", "importing", "running"}
                         \union Ended]
  /\ dump \in [Restores -> SUBSET Lots]
  /\ safety \in [Jobs -> SUBSET Lots]
  /\ \A j \in Jobs : at[j] \in {"new", "dumping"} => safety[j] = {}
  /\ crashes \in 0..MaxCrashes
  /\ kept \subseteq Lots

\* The jobs at work.  What a restore does before it raises the flag looks at
\* the file it was given and at nothing else.
AtWork == {j \in Jobs : at[j] \notin {"new"} \union Ended}

\* TABLES, which TRUNCATE empties, does not list the tables of the gate.
Untouched == {"auth"}

RestoreInit ==
  /\ db \in {{"old", "stamp"}, {"old", "stamp", "auth"}}
  /\ restoring = FALSE
  /\ at = [q \in Requests |-> "new"]
  /\ dump = [r \in Restores |-> {}]
  /\ safety = [j \in Jobs |-> {}]
  /\ crashes = 0
  /\ kept = db

-----------------------------------------------------------------------------
Turns(q, from, to) == at[q] = from /\ at' = [at EXCEPT ![q] = to]

\* What the database is left with, and what of it counts as kept.
Leaves(keys) ==
  /\ db' = keys
  /\ kept' = kept \union (IF AtWork' = {} THEN keys ELSE {})

\* A file is loaded if none of its keys is there already.
Loads(keys) == db \intersect keys = {} /\ Leaves(db \union keys)

MayFail == FaultyTools

\* The finally block of a restore: the temporary file is deleted.
Unlinks(r) == dump' = [dump EXCEPT ![r] = {}]

-----------------------------------------------------------------------------
\* Queries: refused while the flag is up, which is read once.
AdmitQuery(w) ==
  /\ ~restoring
  /\ Turns(w, "new", "running")
  /\ Leaves(db)
  /\ UNCHANGED <<restoring, dump, safety, crashes>>

Refuse503(w) ==
  /\ restoring
  /\ Turns(w, "new", "refused")
  /\ Leaves(db)
  /\ UNCHANGED <<restoring, dump, safety, crashes>>

Write(w) ==
  /\ Turns(w, "running", "ok")
  /\ Leaves(db \union {w})
  /\ UNCHANGED <<restoring, dump, safety, crashes>>

WriteFails(w) ==
  /\ MayFail
  /\ Turns(w, "running", "failed")
  /\ Leaves(db)
  /\ UNCHANGED <<restoring, dump, safety, crashes>>

\* A download stamps the schema version, whatever else is going on, and dumps;
\* a stamp that fails does not stop it.
Backup(b) ==
  /\ Turns(b, "new", "ok")
  /\ \E stamp \in SUBSET {"stamp"} : Leaves(db \union stamp)
  /\ UNCHANGED <<restoring, dump, safety, crashes>>

-----------------------------------------------------------------------------
\* What a backup can hold, of this database or of another: backups without a
\* stamp are older than the gate.
CommonLots == {{}, {"stamp"}, {"stamp", "auth"}}

\* Not a dump, no table of contents, or a version that cannot be migrated.
Refuse(r) ==
  /\ Turns(r, "new", "refused")
  /\ Leaves(db)
  /\ UNCHANGED <<restoring, dump, safety, crashes>>

\* The file is in order: the flag is raised.
Put(r) ==
  /\ Turns(r, "new", "dumping")
  /\ \E common \in CommonLots : dump' = [dump EXCEPT ![r] = {r} \union common]
  /\ restoring' = TRUE
  /\ Leaves(db)
  /\ UNCHANGED <<safety, crashes>>

Dumped(r) ==
  /\ Turns(r, "dumping", "truncating")
  /\ safety' = [safety EXCEPT ![r] = db]
  /\ Leaves(db)
  /\ UNCHANGED <<restoring, dump, crashes>>

\* The safety dump fails: the outer catch answers, the flag stays up.
DumpFails(r) ==
  /\ MayFail
  /\ Turns(r, "dumping", "refused")
  /\ Unlinks(r)
  /\ Leaves(db)
  /\ UNCHANGED <<restoring, safety, crashes>>

Truncated(r) ==
  /\ Turns(r, "truncating", "loading")
  /\ Leaves(db \intersect Untouched)
  /\ UNCHANGED <<restoring, dump, safety, crashes>>

\* Mutant: the exit code of pg_restore is not looked at.
LoadedMutant(r) ==
  /\ Turns(r, "loading", "migrating")
  /\ Loads(dump[r]) \/ (db \intersect dump[r] # {} /\ Leaves(db))
  /\ UNCHANGED <<restoring, dump, safety, crashes>>

Loaded(r) ==
  /\ Turns(r, "loading", "migrating")
  /\ Loads(dump[r])
  /\ UNCHANGED <<restoring, dump, safety, crashes>>

\* Mutant: the flag is lowered before the rollback instead of after it.
LoadFailsMutant(r) ==
  /\ MayFail \/ db \intersect dump[r] # {}
  /\ Turns(r, "loading", "rolling")
  /\ restoring' = FALSE
  /\ Leaves(db)
  /\ UNCHANGED <<dump, safety, crashes>>

LoadFails(r) ==
  /\ MayFail \/ db \intersect dump[r] # {}
  /\ Turns(r, "loading", "rolling")
  /\ Leaves(db)
  /\ UNCHANGED <<restoring, dump, safety, crashes>>

\* Migrations change rows and no keys; after them the schema version is stamped.
Stamped(r) ==
  /\ Turns(r, "migrating", "ok")
  /\ restoring' = FALSE
  /\ Unlinks(r)
  /\ Leaves(db \union {"stamp"})
  /\ UNCHANGED <<safety, crashes>>

\* The other steps of the inner try that can throw.
StepFails(r) ==
  /\ MayFail
  /\ \E step \in {"truncating", "migrating"} : Turns(r, step, "rolling")
  /\ Leaves(db)
  /\ UNCHANGED <<restoring, dump, safety, crashes>>

\* The inner catch: the safety dump is loaded, or not; the answer is the same.
RolledBack(r) ==
  /\ Turns(r, "rolling", "rolledBack")
  /\ restoring' = FALSE
  /\ \/ Loads(safety[r])
     \/ (MayFail \/ db \intersect safety[r] # {}) /\ Leaves(db)
  /\ Unlinks(r)
  /\ UNCHANGED <<safety, crashes>>

-----------------------------------------------------------------------------
\* An import does not look at the flag nor raise it.  It dumps, and replaces
\* all in one transaction.
Import(i) ==
  /\ Turns(i, "new", "dumping")
  /\ Leaves(db)
  /\ UNCHANGED <<restoring, dump, safety, crashes>>

\* Mutant: the import goes on without its dump.
ImportDumpedMutant(i) ==
  /\ Turns(i, "dumping", "importing")
  /\ Leaves(db)
  /\ UNCHANGED <<restoring, dump, safety, crashes>>

ImportDumped(i) ==
  /\ Turns(i, "dumping", "importing")
  /\ safety' = [safety EXCEPT ![i] = db]
  /\ Leaves(db)
  /\ UNCHANGED <<restoring, dump, crashes>>

Imported(i) ==
  /\ Turns(i, "importing", "ok")
  /\ \E stamp \in SUBSET {"stamp"} : Leaves((db \intersect Untouched) \union {i} \union stamp)
  /\ UNCHANGED <<restoring, dump, safety, crashes>>

ImportFails(i) ==
  /\ MayFail
  /\ \E step \in {"dumping", "importing"} : Turns(i, step, "failed")
  /\ Leaves(db)
  /\ UNCHANGED <<restoring, dump, safety, crashes>>

-----------------------------------------------------------------------------
\* The server crashes and boots: whatever was under way is gone (a temporary
\* file left behind is read by nobody), the flag is down, the schema version
\* is stamped.
Crash ==
  /\ crashes < MaxCrashes
  /\ crashes' = crashes + 1
  /\ restoring' = FALSE
  /\ at' = [q \in Requests |-> IF at[q] \in {"new"} \union Ended THEN at[q] ELSE "failed"]
  /\ dump' = [r \in Restores |-> {}]
  /\ Leaves(db \union {"stamp"})
  /\ UNCHANGED safety

Querying(w) == AdmitQuery(w) \/ Refuse503(w) \/ Write(w) \/ WriteFails(w)

Restoring(r) ==
  \/ Refuse(r) \/ Put(r) \/ Dumped(r) \/ DumpFails(r) \/ Truncated(r)
  \/ Loaded(r) \/ LoadFails(r) \/ Stamped(r) \/ StepFails(r) \/ RolledBack(r)

Importing(i) == Import(i) \/ ImportDumped(i) \/ Imported(i) \/ ImportFails(i)

RestoreNext ==
  \/ \E w \in Queries : Querying(w)
  \/ \E b \in Backups : Backup(b)
  \/ \E r \in Restores : Restoring(r)
  \/ \E i \in Imports : Importing(i)
  \/ Crash

RestoreSpec == RestoreInit /\ [][RestoreNext]_restoreVars

-----------------------------------------------------------------------------
\* Nothing is destroyed that cannot be had back: what was in the database at
\* a time when no restore and no import was at work is in it still, or in a
\* safety dump, whatever overlaps, fails or crashes afterwards.
KeptRowsAreSafe == kept \subseteq db \union UNION {safety[j] : j \in Jobs}

Alone(r) == \A j \in Jobs \ {r} : at[j] = "new"

\* A restore that answers 200, with no other job beside it, has put what it
\* was given in the place of what was there.
RestoredIsWhatWasGiven ==
  [][\A r \in Restores :
       at[r] # "ok" /\ at'[r] = "ok" /\ Alone(r) =>
         dump[r] \subseteq db' /\ "old" \notin db']_restoreVars

\* No other restore has come to its end: the first of two to do so lowers the
\* flag for both.
NoneEndedBeside(r) == \A s \in Restores \ {r} : at[s] \notin Ended

\* The flag covers the work of a restore, from before its safety dump to the end
\* of its rollback, beside imports and restores that go on: no query is admitted
\* while the tables may be empty.  (One that was admitted before may still run.)
RestoresKeepQueriesOut ==
  [][\A r \in Restores, w \in Queries :
       r \in AtWork /\ NoneEndedBeside(r) => ~(at[w] = "new" /\ at'[w] = "running")]_restoreVars

-----------------------------------------------------------------------------
\* What the program says of itself and the code does not do.

\* "triggers a rollback that re-applies the safety dump ... with
\* `rolledBack: true`" (docs/dev-notes/postgres-migration.qmd:82): a restore
\* that answers so, with no other job beside it, has left what was there.
RolledBackIsBack ==
  \A r \in Restores : at[r] = "rolledBack" /\ Alone(r) => "old" \in db
=============================================================================
