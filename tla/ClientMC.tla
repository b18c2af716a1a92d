------------------------------- MODULE ClientMC -------------------------------
(***************************************************************************)
(* Three parts of a page in the browser that share no state: its MCP       *)
(* sessions over the stdio bridge, the pacer of a streamed reply, and the  *)
(* page of a chat with its draft and its staged prompt.  In a behaviour    *)
(* one of them moves.                                                      *)
(***************************************************************************)
EXTENDS McpSession, Pacer, ChatPage

VARIABLE part

\* What the MCP server can print.
MCLines == {"response", "request"} \X Ids

\* Two words and a gap longer than the lookback of the pacer lie between the chunks.
Reply == <<TRUE, TRUE, FALSE, TRUE, TRUE, TRUE, TRUE, TRUE, FALSE, TRUE>>

clientPartVars == <<part, sessionVars, pacerVars, pageVars>>

ClientInit ==
  /\ part \in {"sessions", "pacer", "page"} /\ SessionInit /\ PacerInit /\ PageInit
  \* what varies in the beginning varies only for the part that moves
  /\ part # "pacer" => ~paced /\ ~seen
  /\ part # "page" => \A c \in Chats : drafts[c] = NoText

SessionStep == part = "sessions" /\ SessionNext /\ UNCHANGED <<part, pacerVars, pageVars>>
PacerStep == part = "pacer" /\ PacerNext /\ UNCHANGED <<part, sessionVars, pageVars>>
PageStep == part = "page" /\ PageNext /\ UNCHANGED <<part, sessionVars, pacerVars>>

\* The fairness is that of the sessions: the other two have no liveness property here.
ClientSpec ==
  /\ ClientInit /\ [][SessionStep \/ PacerStep \/ PageStep]_clientPartVars
  /\ SessionFairness
=============================================================================
