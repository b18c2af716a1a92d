----------------------------- MODULE Projection -----------------------------
(***************************************************************************)
(* projectEntries of src/lib/chat/projection.ts: the rows of a chat become *)
(* the messages of a provider request.  A row is its kind and tool call    *)
(* id (NoId if it has none); text, images and tool payloads are left out,  *)
(* as are system rows.                                                     *)
(***************************************************************************)
EXTENDS Naturals, SequencesExt

ExcludedKinds == {"reasoning", "approval", "sampling", "elicitation", "self_corrected"}

\* The rows a reply of the assistant can consist of, and the user's own.
EntryKinds == ExcludedKinds \union
  {"user_message", "assistant_message", "branch_artifact",
   "tool_call", "choices", "tool_result"}

NoId == <<>>

Call(id)   == [kind |-> "tool-call", id |-> id]
Result(id) == [kind |-> "tool-result", id |-> id]
Text       == [kind |-> "text", id |-> NoId]

Says(role, part) == [role |-> role, parts |-> <<part>>]

\* turnResultScopes: for each row, the ids that have a result in its turn, the
\* rows from one user message up to the next: those with the same ones before them.
ResultScopes(rows) ==
  LET users == {k \in DOMAIN rows : rows[k].kind = "user_message"}
      turn == [i \in DOMAIN rows |-> {k \in users : k <= i}]
      results == {k \in DOMAIN rows : rows[k].kind = "tool_result"}
  IN [i \in DOMAIN rows |-> {rows[j].id : j \in {k \in results : turn[k] = turn[i]}}]

\* Whether the call of a row has its result among those of its turn; choices without
\* an id never have.
HasResult(row, scope) ==
  row.id \in scope /\ ~(row.kind = "choices" /\ row.id = NoId)

\* Mutant: choices are taken to be answered.
RawMessagesMutant(row, scope) ==
  CASE row.kind \in ExcludedKinds -> <<>>
    [] row.kind = "choices" \/ (row.kind = "tool_call" /\ HasResult(row, scope)) ->
         << Says("assistant", Call(row.id)) >>
    [] row.kind = "tool_call" /\ ~HasResult(row, scope) ->
         << Says("assistant", Call(row.id)), Says("tool", Result(row.id)) >>
    [] row.kind = "tool_result" -> << Says("tool", Result(row.id)) >>
    [] row.kind \in {"user_message", "branch_artifact"} -> << Says("user", Text) >>
    [] row.kind = "assistant_message" -> << Says("assistant", Text) >>

\* The messages of one row.  A call without a result in its turn, and choices,
\* get a placeholder result on the spot.
RawMessages(row, scope) ==
  CASE row.kind \in ExcludedKinds -> <<>>
    [] row.kind \in {"tool_call", "choices"} /\ HasResult(row, scope) ->
         << Says("assistant", Call(row.id)) >>
    [] row.kind \in {"tool_call", "choices"} /\ ~HasResult(row, scope) ->
         << Says("assistant", Call(row.id)), Says("tool", Result(row.id)) >>
    [] row.kind = "tool_result" -> << Says("tool", Result(row.id)) >>
    [] row.kind \in {"user_message", "branch_artifact"} -> << Says("user", Text) >>
    [] row.kind = "assistant_message" -> << Says("assistant", Text) >>

\* Neighbours of the same role become one message.
Merge(merged, msg) ==
  IF merged # <<>> /\ Last(merged).role = msg.role
  THEN [merged EXCEPT ![Len(merged)].parts = @ \o msg.parts]
  ELSE Append(merged, msg)

ProjectEntries(rows) ==
  LET scopes == ResultScopes(rows)
      raw == [i \in 1..Len(rows) |-> RawMessages(rows[i], scopes[i])]
  IN FoldLeft(Merge, <<>>, FlattenSeq(raw))

-----------------------------------------------------------------------------
\* What providers require of a request.
Ids(msg, kind) == {msg.parts[p].id : p \in {q \in DOMAIN msg.parts : msg.parts[q].kind = kind}}

\* Every call is answered before the user speaks again, as the SDK checks it:
\* walking the messages, calls are collected and results cross them out.
Owing(walk, msg) ==
  [owed |-> (walk.owed \union Ids(msg, "tool-call")) \ Ids(msg, "tool-result"),
   rejected |-> walk.rejected \/ (msg.role = "user" /\ walk.owed # {})]

OwesNothing == [owed |-> {}, rejected |-> FALSE]

NoDanglingCall(msgs) == FoldLeft(Owing, OwesNothing, msgs) = OwesNothing

\* Every result has its call, earlier in the request.
NoStrayResult(msgs) ==
  \A n \in DOMAIN msgs : \A id \in Ids(msgs[n], "tool-result") :
    \E m \in 1..(n - 1) : id \in Ids(msgs[m], "tool-call")
=============================================================================
