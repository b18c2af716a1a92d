------------------------------- MODULE PgPool -------------------------------
(***************************************************************************)
(* POST /api/db/query (server/src/pg.ts) over the pool of connections: a   *)
(* statement at a time, each on the connection the pool gives it, those of *)
(* a batch between BEGIN and COMMIT too.  The pool is that of the pg       *)
(* package, as pg.ts uses it: the connection released last is taken first, *)
(* who finds none waits in a queue, and a statement that is refused closes *)
(* its connection.  Statements of different requests write different rows; *)
(* a transaction keeps nobody waiting.                                     *)
(***************************************************************************)
EXTENDS Naturals, Sequences, SequencesExt

CONSTANTS Batches, Singles,  \* requests: op batch; op query and op exec
          Length,            \* statements of a batch
          Conns,             \* connections the pool may have
          NoConn,
          MaxRefusals        \* bound: statements the database refuses, restores that fail

ASSUME PoolAssumption ==
  Length \in Nat \ {0} /\ MaxRefusals \in Nat /\ NoConn \notin Conns /\ Batches \intersect Singles = {}

VARIABLES
  conn,      \* each connection: [tx, held], held by its transaction
  idle,      \* the connections nobody has, the one released last at the end
  waiting,   \* requests whose pool.query has no connection yet
  poolAt,    \* each request: [pc, n], n statements of it done
  on,        \* the connection that runs its statement
  stored,    \* the rows that are in the database: [of, n]
  mixed,     \* a batch was under way with anything else
  refusals

poolVars == <<conn, idle, waiting, poolAt, on, stored, mixed, refusals>>

DbRequests == Batches \union Singles
Closed == [tx |-> "closed", held |-> {}]
Ready == [tx |-> "none", held |-> {}]

PoolInit ==
  /\ conn = [c \in Conns |-> Closed] /\ idle = <<>> /\ waiting = <<>>
  /\ poolAt = [r \in DbRequests |-> [pc |-> "new", n |-> 0]]
  /\ on = [r \in DbRequests |-> NoConn]
  /\ stored = {} /\ mixed = FALSE /\ refusals = 0

UnderWay(r) == poolAt[r].pc \notin {"new", "ok", "failed"}

-----------------------------------------------------------------------------
(* The pool.                                                               *)

DatabaseRefuses == refusals < MaxRefusals /\ refusals' = refusals + 1

\* A connection for who is first: an idle one, or a new one.
Dispatch ==
  LET r == Head(waiting) IN
  /\ waiting # <<>> /\ waiting' = Tail(waiting)
  /\ \/ /\ idle # <<>> /\ idle' = Front(idle)
        /\ on' = [on EXCEPT ![r] = Last(idle)] /\ UNCHANGED conn
     \/ /\ idle = <<>> /\ UNCHANGED idle
        /\ \E c \in Conns : /\ conn[c].tx = "closed"
                            /\ conn' = [conn EXCEPT ![c] = Ready] /\ on' = [on EXCEPT ![r] = c]
  /\ UNCHANGED <<poolAt, stored, mixed, refusals>>

\* An idle connection is closed after ten seconds; who asks for one is served at once.
IdleTimeout ==
  /\ waiting = <<>>
  /\ \E i \in DOMAIN idle : idle' = RemoveAt(idle, i) /\ conn' = [conn EXCEPT ![idle[i]] = Closed]
  /\ UNCHANGED <<waiting, poolAt, on, stored, mixed, refusals>>

\* A restore whose TRUNCATE is refused releases its connection as it is.
TruncateRefused ==
  /\ DatabaseRefuses
  /\ \/ idle # <<>> /\ conn' = [conn EXCEPT ![Last(idle)] = [tx |-> "failed", held |-> {}]] /\ UNCHANGED idle
     \/ /\ idle = <<>>
        /\ \E c \in Conns : /\ conn[c].tx = "closed" /\ idle' = <<c>>
                            /\ conn' = [conn EXCEPT ![c] = [tx |-> "failed", held |-> {}]]
  /\ mixed' = (mixed \/ \E b \in Batches : UnderWay(b))
  /\ UNCHANGED <<waiting, poolAt, on, stored>>

-----------------------------------------------------------------------------
(* pgQueryHandler.                                                         *)

\* pool.query: from wherever the request is to where it awaits the next statement.
Asks(r, pc, n) == poolAt' = [poolAt EXCEPT ![r] = [pc |-> pc, n |-> n]] /\ waiting' = Append(waiting, r)
Responds(r, pc) == poolAt' = [poolAt EXCEPT ![r].pc = pc] /\ UNCHANGED waiting

\* Mutant: the statements of a batch, and no transaction.
FirstMutant(r) == "statement"

\* What a request asks for first.
First(r) == IF r \in Batches THEN "begin" ELSE "statement"

Start(r) ==
  /\ poolAt[r].pc = "new"
  /\ Asks(r, First(r), 0)
  /\ LET others == {q \in DbRequests \ {r} : UnderWay(q)} IN
     mixed' = (mixed \/ (others # {} /\ (r \in Batches \/ others \intersect Batches # {})))
  /\ UNCHANGED <<conn, idle, on, stored, refusals>>

\* What a statement of r does on its connection: to the transaction and the database.
Executes(r) ==
  LET c == on[r]  s == conn[c]  row == [of |-> r, n |-> poolAt[r].n + 1] IN
  \/ poolAt[r].pc = "begin" /\ s.tx # "failed"
     /\ conn' = [conn EXCEPT ![c].tx = "open"] /\ UNCHANGED stored
  \/ poolAt[r].pc = "statement" /\ s.tx = "open"
     /\ conn' = [conn EXCEPT ![c].held = @ \union {row}] /\ UNCHANGED stored
  \/ poolAt[r].pc = "statement" /\ s.tx = "none"
     /\ stored' = stored \union {row} /\ UNCHANGED conn
  \/ poolAt[r].pc = "commit"
     /\ conn' = [conn EXCEPT ![c] = Ready] /\ stored' = stored \union s.held
  \/ poolAt[r].pc = "rollback"
     /\ conn' = [conn EXCEPT ![c] = Ready] /\ UNCHANGED stored

\* The connection goes back before the handler goes on.
Done(r) ==
  LET n == poolAt[r].n + 1 IN
  /\ on[r] # NoConn /\ Executes(r)
  /\ idle' = Append(idle, on[r]) /\ on' = [on EXCEPT ![r] = NoConn]
  /\ CASE poolAt[r].pc = "begin" -> Asks(r, "statement", 0)
       [] poolAt[r].pc = "statement" /\ r \in Singles -> Responds(r, "ok")
       [] poolAt[r].pc = "statement" /\ r \in Batches -> Asks(r, IF n = Length THEN "commit" ELSE "statement", n)
       [] poolAt[r].pc = "commit" -> Responds(r, "ok")
       [] poolAt[r].pc = "rollback" -> Responds(r, "failed")
  /\ UNCHANGED <<mixed, refusals>>

\* The database refuses what it pleases, and all of a transaction that has failed but
\* its end.  What the connection held is gone with it.
StatementRefused(r) ==
  LET c == on[r] IN
  /\ c # NoConn
  /\ \/ conn[c].tx = "failed" /\ poolAt[r].pc \in {"begin", "statement"} /\ UNCHANGED refusals
     \/ poolAt[r].pc \in {"statement", "commit"} /\ DatabaseRefuses
  /\ conn' = [conn EXCEPT ![c] = Closed] /\ on' = [on EXCEPT ![r] = NoConn]
  /\ IF r \in Batches /\ poolAt[r].pc \in {"statement", "commit"}
     THEN Asks(r, "rollback", poolAt[r].n)
     ELSE Responds(r, "failed")
  /\ UNCHANGED <<idle, stored, mixed>>

-----------------------------------------------------------------------------
PoolNext ==
  \/ Dispatch \/ IdleTimeout \/ TruncateRefused
  \/ \E r \in DbRequests : Start(r) \/ Done(r) \/ StatementRefused(r)

PoolSpec == PoolInit /\ [][PoolNext]_poolVars

-----------------------------------------------------------------------------
(* Properties.                                                             *)

RowsOf(r) == {row \in stored : row.of = r}
AllOf(r) == {[of |-> r, n |-> n] : n \in 1 .. IF r \in Batches THEN Length ELSE 1}

\* While no batch ran beside anything else, what was answered with 200 is in the
\* database, what was answered with 400 is not, and no transaction stays open behind.
AloneIsAtomic ==
  ~mixed =>
    /\ \A r \in DbRequests : /\ poolAt[r].pc = "ok" => RowsOf(r) = AllOf(r)
                           /\ poolAt[r].pc = "failed" => RowsOf(r) = {}
    /\ (\A b \in Batches : ~UnderWay(b)) => \A c \in Conns : conn[c].tx # "open"

\* server/src/pg.test.ts:91: a batch "rolls back and rethrows when a mid-batch
\* statement fails": nothing of one that failed is in the database.
FailedBatchIsGone ==
  \A b \in Batches : poolAt[b].pc = "failed" => RowsOf(b) = {}

\* A write that was answered with 200 is in the database.
AnsweredIsStored ==
  \A r \in DbRequests : poolAt[r].pc = "ok" => RowsOf(r) = AllOf(r)
=============================================================================
