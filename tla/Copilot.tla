------------------------------ MODULE Copilot -------------------------------
(***************************************************************************)
(* Connecting a GitHub account: the dialog of the settings page            *)
(* (lib/components/ai/copilot-auth-dialog.svelte), the flows that the      *)
(* server keeps in memory (server/src/copilot-auth.ts), and GitHub, which  *)
(* gives the token of a code once.  One request of the dialog is under way *)
(* at a time, but the server goes on with those that it no longer listens  *)
(* to.                                                                     *)
(***************************************************************************)
EXTENDS Naturals, Sequences, SequencesExt

CONSTANTS Flows,       \* codes that GitHub may give
          Polls,       \* requests that may be at the server at once
          MaxOutages,  \* requests, bodies and writes that may fail
          NoFlow       \* not one of the flows

ASSUME CopilotAssumption == NoFlow \notin Flows /\ MaxOutages \in Nat

VARIABLES
  dialog,   \* [at, flow, named]: named is whether the answer had a user
  flows,    \* the map of the server
  due,      \* flows whose time is over for the server
  code,     \* at GitHub: "unused", "waiting", "accepted", "spent", "denied", "expired"
  asks,     \* [at, flow, heard, answer] of each request
  putting,  \* tokens on their way into the key store, in order
  grants,   \* flows whose token was stored
  astray,   \* flows whose token, or whose place in the map, an outage or a close took
  outages

copilotVars == <<dialog, flows, due, code, asks, putting, grants, astray, outages>>

Shut == [at |-> "shut", flow |-> NoFlow, named |-> FALSE]
NoAsk == [at |-> "idle", flow |-> NoFlow, heard |-> FALSE, answer |-> "none"]

CopilotInit ==
  /\ dialog = Shut
  /\ flows = {} /\ due = {}
  /\ code = [f \in Flows |-> "unused"]
  /\ asks = [a \in Polls |-> NoAsk]
  /\ putting = <<>> /\ grants = {} /\ astray = {} /\ outages = 0

Outage == outages < MaxOutages /\ outages' = outages + 1

\* The request has the token of its flow, or will have it.
HasToken(a) == asks[a].at = "user" \/ asks[a].answer \in {"complete", "nameless"}

\* No request is listened to any longer; an answer under way, and its token, are gone.
Unheard == [a \in Polls |-> IF asks[a].at = "answered" THEN NoAsk ELSE [asks[a] EXCEPT !.heard = FALSE]]
Gone == {asks[a].flow : a \in {b \in Polls : asks[b].heard /\ HasToken(b)}}

-----------------------------------------------------------------------------
(* The dialog.                                                             *)

\* startFlow: what ran before is aborted, a flow is asked for.
StartFlow ==
  \E a \in Polls :
    /\ asks[a].at = "idle"
    /\ asks' = [Unheard EXCEPT ![a] = [NoAsk EXCEPT !.at = "sent", !.heard = TRUE]]
    /\ dialog' = [Shut EXCEPT !.at = "starting"]
    /\ UNCHANGED <<flows, due, code, putting, grants, astray, outages>>

OpenDialog == dialog.at = "shut" /\ StartFlow
StartAgain == dialog.at = "error" /\ StartFlow

\* Cancel, or a click beside the dialog.  A write into the key store goes on.
CloseDialog ==
  /\ dialog.at # "shut"
  /\ dialog' = Shut /\ asks' = Unheard /\ astray' = astray \union Gone
  /\ UNCHANGED <<flows, due, code, putting, grants, outages>>

\* 1200 ms after it succeeded; an answer without a user throws before this is scheduled.
ClosesItself ==
  /\ dialog.at = "connected"
  /\ dialog' = Shut
  /\ UNCHANGED <<flows, due, code, asks, putting, grants, astray, outages>>

Poll ==
  /\ dialog.at = "waiting"
  /\ \E a \in Polls :
       /\ asks[a].at = "idle"
       /\ asks' = [asks EXCEPT ![a] = [NoAsk EXCEPT !.at = "sent", !.heard = TRUE, !.flow = dialog.flow]]
  /\ dialog' = [dialog EXCEPT !.at = "polling"]
  /\ UNCHANGED <<flows, due, code, putting, grants, astray, outages>>

AfterFailureMutant == IF dialog.at = "starting" THEN "error" ELSE "unscheduled"

\* An answer that cannot be read, a dropped connection and a refusal differ only in the start.
AfterFailure == IF dialog.at = "starting" THEN "error" ELSE "waiting"

Refusals == {"refused", "failed", "dropped"}

\* The headers and the body of an answer that the dialog listens to.
Heard(a) ==
  LET answer == asks[a].answer
      f == asks[a].flow
  IN /\ asks[a].at = "answered"
     /\ asks' = [asks EXCEPT ![a] = NoAsk]
     /\ dialog' =
          CASE answer \in Refusals -> [dialog EXCEPT !.at = AfterFailure]
            [] answer = "code" -> [dialog EXCEPT !.at = "waiting", !.flow = f]
            [] answer = "pending" -> [dialog EXCEPT !.at = "waiting"]
            [] answer \in {"unknown", "denied", "expired"} -> [dialog EXCEPT !.at = "error"]
            [] OTHER -> [dialog EXCEPT !.at = "storing", !.named = (answer = "complete")]
     /\ putting' = IF HasToken(a) THEN Append(putting, f) ELSE putting
     /\ UNCHANGED <<flows, due, code, grants, astray, outages>>

\* readJson gives null for a body that breaks off: the dialog returns, and has no timer.
Unreadable(a) ==
  /\ asks[a].at = "answered" /\ asks[a].answer \notin Refusals \union {"unknown"}
  /\ Outage
  /\ asks' = [asks EXCEPT ![a] = NoAsk]
  /\ dialog' = [dialog EXCEPT !.at = "stuck"]
  /\ astray' = astray \union Gone
  /\ UNCHANGED <<flows, due, code, putting, grants>>

\* The connection fails while the server goes on.
Lose(a) ==
  /\ asks[a].at # "idle" /\ asks[a].heard
  /\ Outage
  /\ asks' = Unheard /\ astray' = astray \union Gone
  /\ dialog' = [dialog EXCEPT !.at = AfterFailure]
  /\ UNCHANGED <<flows, due, code, putting, grants>>

\* setProviderKey, which is awaited before the dialog looks whether it is still meant.
Stored ==
  /\ putting # <<>>
  /\ putting' = Tail(putting) /\ grants' = grants \union {Head(putting)}
  /\ dialog' = IF dialog.at = "storing" /\ dialog.flow = Head(putting)
               THEN [dialog EXCEPT !.at = IF dialog.named THEN "connected" ELSE "unclosed"]
               ELSE dialog
  /\ UNCHANGED <<flows, due, code, asks, astray, outages>>

\* poll is called without a catch.
NotStored ==
  /\ putting # <<>> /\ Outage
  /\ putting' = Tail(putting) /\ astray' = astray \union {Head(putting)}
  /\ dialog' = IF dialog.at = "storing" /\ dialog.flow = Head(putting)
               THEN [dialog EXCEPT !.at = "stuck"] ELSE dialog
  /\ UNCHANGED <<flows, due, code, asks, grants>>

-----------------------------------------------------------------------------
(* The server.                                                             *)

ServerKeeps == UNCHANGED <<dialog, due, putting, grants, outages>>

\* Nobody hears the answer to a request that was aborted or lost.
Replies(a, f, answer) ==
  asks' = [asks EXCEPT ![a] = IF @.heard THEN [@ EXCEPT !.at = "answered", !.flow = f, !.answer = answer]
                                         ELSE NoAsk]
AnswersPoll(a, answer) == Replies(a, asks[a].flow, answer)

\* A start throws away what is over; a poll needs a flow that is not.
Arrive(a) ==
  LET f == asks[a].flow
      asksGithub == asks' = [asks EXCEPT ![a].at = "github"]
  IN /\ asks[a].at = "sent"
     /\ \/ f = NoFlow /\ flows' = flows \ due /\ asksGithub
        \/ f # NoFlow /\ f \notin flows /\ AnswersPoll(a, "unknown") /\ UNCHANGED flows
        \/ f \in flows \intersect due /\ flows' = flows \ {f} /\ AnswersPoll(a, "expired")
        \/ f \in flows \ due /\ asksGithub /\ UNCHANGED flows
     /\ UNCHANGED <<code, astray>> /\ ServerKeeps

Refused(a) ==
  /\ asks[a].at = "github" /\ asks[a].flow = NoFlow
  /\ AnswersPoll(a, "refused")
  /\ UNCHANGED <<flows, code, astray>> /\ ServerKeeps

CodeGiven(a, f) ==
  /\ asks[a].at = "github" /\ asks[a].flow = NoFlow /\ code[f] = "unused"
  /\ code' = [code EXCEPT ![f] = "waiting"] /\ flows' = flows \union {f}
  /\ Replies(a, f, "code")
  /\ UNCHANGED astray /\ ServerKeeps

\* A code whose token was given has no more: an error that the route does not know is "pending".
NoToken(a) ==
  LET f == asks[a].flow
  IN /\ asks[a].at = "github" /\ f # NoFlow
     /\ \/ code[f] \in {"waiting", "spent"} /\ AnswersPoll(a, "pending") /\ UNCHANGED flows
        \/ code[f] \in {"denied", "expired"} /\ AnswersPoll(a, code[f]) /\ flows' = flows \ {f}
     /\ UNCHANGED <<code, astray>> /\ ServerKeeps

\* The token, which is answered after the name of the user was asked for.
Token(a) ==
  LET f == asks[a].flow
  IN /\ asks[a].at = "github" /\ f # NoFlow /\ code[f] = "accepted"
     /\ code' = [code EXCEPT ![f] = "spent"]
     /\ asks' = [asks EXCEPT ![a].at = "user"]
     /\ astray' = IF asks[a].heard THEN astray ELSE astray \union {f}
     /\ UNCHANGED flows /\ ServerKeeps

NamedMutant(a) ==
  /\ asks[a].at = "user"
  /\ flows' = flows \ {asks[a].flow}
  /\ \E answer \in {"complete", "failed"} : AnswersPoll(a, answer)
  /\ UNCHANGED <<code, astray>> /\ ServerKeeps

\* Without a name the token is answered all the same.
Named(a) ==
  /\ asks[a].at = "user"
  /\ flows' = flows \ {asks[a].flow}
  /\ \E answer \in {"complete", "nameless"} : AnswersPoll(a, answer)
  /\ UNCHANGED <<code, astray>> /\ ServerKeeps

\* GitHub is not reached (null, which is "pending"), or answers a poll with no JSON (500).
\* A token that it had given by then is gone.
GithubFails(a) ==
  LET f == asks[a].flow
  IN /\ asks[a].at = "github" /\ f # NoFlow /\ Outage
     /\ \E answer \in {"pending", "failed"} : AnswersPoll(a, answer)
     /\ \/ UNCHANGED <<code, astray>>
        \/ /\ code[f] = "accepted" /\ code' = [code EXCEPT ![f] = "spent"]
           /\ astray' = astray \union {f}
     /\ UNCHANGED <<dialog, flows, due, putting, grants>>

\* The map is in memory.
ServerRestarts ==
  /\ Outage
  /\ flows' = {} /\ astray' = astray \union flows \union Gone
  /\ asks' = [a \in Polls |-> IF asks[a].heard
                             THEN [NoAsk EXCEPT !.at = "answered", !.heard = TRUE, !.answer = "dropped"]
                             ELSE NoAsk]
  /\ UNCHANGED <<dialog, due, code, putting, grants>>

-----------------------------------------------------------------------------
(* GitHub, its user, and time.                                             *)

Decide(f) ==
  /\ code[f] = "waiting"
  /\ \E to \in {"accepted", "denied"} : code' = [code EXCEPT ![f] = to]
  /\ UNCHANGED <<dialog, flows, due, asks, putting, grants, astray, outages>>

CodeExpires(f) ==
  /\ code[f] \in {"waiting", "accepted"}
  /\ code' = [code EXCEPT ![f] = "expired"]
  /\ UNCHANGED <<dialog, flows, due, asks, putting, grants, astray, outages>>

FlowIsOver(f) ==
  /\ f \in flows \ due
  /\ due' = due \union {f}
  /\ UNCHANGED <<dialog, flows, code, asks, putting, grants, astray, outages>>

-----------------------------------------------------------------------------

\* What goes on by itself: timers of the dialog, requests, writes, the clock.
AskGoesOn(a) ==
  \/ Arrive(a) \/ NoToken(a) \/ Token(a) \/ Named(a) \/ Heard(a)
  \/ Refused(a) \/ \E f \in Flows : CodeGiven(a, f)
DialogGoesOn == Poll \/ ClosesItself

CopilotNext ==
  \/ OpenDialog \/ StartAgain \/ CloseDialog \/ DialogGoesOn \/ Stored \/ NotStored \/ ServerRestarts
  \/ \E a \in Polls : AskGoesOn(a) \/ Unreadable(a) \/ Lose(a) \/ GithubFails(a)
  \/ \E f \in Flows : Decide(f) \/ CodeExpires(f) \/ FlowIsOver(f)

CopilotFairness ==
  /\ WF_copilotVars(DialogGoesOn) /\ WF_copilotVars(Stored)
  /\ \A a \in Polls : WF_copilotVars(AskGoesOn(a))
  /\ \A f \in Flows : WF_copilotVars(FlowIsOver(f))

CopilotSpec == CopilotInit /\ [][CopilotNext]_copilotVars /\ CopilotFairness

-----------------------------------------------------------------------------

CopilotTypeOK ==
  /\ dialog \in [at : {"shut", "starting", "waiting", "polling", "storing", "connected", "unclosed", "error", "stuck"},
                 flow : Flows \union {NoFlow}, named : BOOLEAN]
  /\ flows \union due \union grants \union astray \subseteq Flows
  /\ code \in [Flows -> {"unused", "waiting", "accepted", "spent", "denied", "expired"}]
  /\ outages \in 0..MaxOutages

\* A token that GitHub gave out, once, is stored or on its way to the store, unless a
\* connection, a write or the server failed, or the user left, while a request had it; and
\* the dialog says that a code is over or declined only when it is, or when the server or a
\* token was lost.  About the routes of server/src/copilot-auth.ts and the polls of the dialog.
AuthorizationIsKept ==
  /\ \A f \in Flows : code[f] = "spent" =>
       \/ f \in astray \union grants \union ToSet(putting)
       \/ \E a \in Polls : asks[a].heard /\ asks[a].flow = f /\ HasToken(a)
  /\ dialog.at = "error" /\ dialog.flow # NoFlow =>
       dialog.flow \in due \union astray \/ code[dialog.flow] \in {"denied", "expired"}

\* A dialog that is open comes to an end, whatever the user does at GitHub and although
\* requests fail: it succeeds, shows an error or is closed, and stays as it is only after an
\* answer that could not be read or a token that could not be stored (copilot-auth-dialog.svelte).
DialogSettles ==
  dialog.at # "shut" ~> dialog.at \in {"shut", "error", "connected", "unclosed", "stuck"}

\* What protocol.ts promises of a complete answer, { login: string }: success closes the
\* dialog.  The route leaves the user out when GitHub does not name it.
SuccessCloses == dialog.at # "unclosed"
=============================================================================
