---------------------------- MODULE TurnHistory ----------------------------
(***************************************************************************)
(* AgentTurn and Projection together: what the next request looks like     *)
(* whenever the turn is cut short, by Stop, by a failure or by a page that *)
(* is closed between any two writes.                                       *)
(***************************************************************************)
EXTENDS AgentTurn

CONSTANT RestartIds  \* the provider numbers its calls afresh in each response

ASSUME HistoryAssumption == RestartIds \in BOOLEAN

P == INSTANCE Projection

\* kindOf: the kind column, or else what role and toolCallId say.
KindOf(row) ==
  CASE row.kind \in {"text", "interrupted"} -> "assistant_message"
    [] row.kind = "corrected" -> "self_corrected"
    [] row.kind = "call" -> "tool_call"
    [] row.kind = "result" -> "tool_result"
    [] OTHER -> row.kind

ToolCallId(row) ==
  IF RestartIds THEN <<row.slot>> ELSE <<row.iter, row.slot>>

Prompt == [kind |-> "user_message", id |-> P!NoId]

\* The chat as it is stored: the user's message and the rows of the turn.
Stored ==
  <<Prompt>> \o
  [i \in 1..Len(rows) |-> [kind |-> KindOf(rows[i]), id |-> ToolCallId(rows[i])]]

\* ... and the user's next message.
NextRequest == P!ProjectEntries(Append(Stored, Prompt))

\* However the turn was cut short, the next request can be sent: no call in it
\* lacks its result and no result lacks its call.  This supposes ids that do not
\* repeat: with RestartIds a result of one response hides the missing result of
\* another, and the property fails.
NextRequestIsAccepted == P!NoDanglingCall(NextRequest) /\ P!NoStrayResult(NextRequest)
=============================================================================
