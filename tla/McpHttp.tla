------------------------------ MODULE McpHttp ------------------------------
(***************************************************************************)
(* The HTTP transport of MCP (lib/mcp/http.ts) under its client            *)
(* (lib/mcp/client.ts): calls of one turn that run side by side over one   *)
(* session, which the server may forget.  The client has initialized once. *)
(***************************************************************************)
EXTENDS Integers, FiniteSets

CONSTANTS Calls,                   \* requests of the client, each made once
          MaxSessions, MaxFailures   \* bounds on the server's sessions and on failures

None == 0

VARIABLES
  live, minted,        \* the server: the sessions it knows, and how many it made
  session,             \* the transport's session, or None
  state, reinit,       \* the client's state, and its flag #reinitializing
  call,                \* where each request is: [at, what, sid, status, given]
  runs,                \* how often the server ran each
  failures               \* failures so far

mcpServer == <<live, minted>>
httpVars == <<mcpServer, session, state, reinit, call, runs, failures>>

Fresh == [at |-> "new", what |-> "first", sid |-> None, status |-> 0, given |-> None]

HttpInit ==
  /\ live = {1} /\ minted = 1 /\ session = 1
  /\ state = "connected" /\ reinit = FALSE
  /\ call = [c \in Calls |-> Fresh] /\ runs = [c \in Calls |-> 0] /\ failures = 0

Fault == failures < MaxFailures /\ failures' = failures + 1

\* A request leaves with the session of that moment in its headers.
Sent(c, what, sid) ==
  call' = [call EXCEPT ![c] = [Fresh EXCEPT !.at = "sent", !.what = what, !.sid = sid]]
Over(c) == call' = [call EXCEPT ![c].at = "over"]
Answers(c, status, given) ==
  call' = [call EXCEPT ![c].at = "answered", ![c].status = status, ![c].given = given]

Request(c) ==
  /\ call[c].at = "new" /\ state # "closed"
  /\ Sent(c, "first", session)
  /\ UNCHANGED <<mcpServer, session, state, reinit, runs, failures>>

-----------------------------------------------------------------------------
(* The server.                                                             *)

Serve(c) ==
  /\ call[c].at = "sent" /\ call[c].what # "init" /\ call[c].sid \in live
  /\ runs' = [runs EXCEPT ![c] = @ + 1]
  /\ \E given \in {None, call[c].sid} : Answers(c, 200, given)
  /\ UNCHANGED <<mcpServer, session, state, reinit, failures>>

\* 404 for a session it does not know, 400 where there is none.
Reject(c) ==
  /\ call[c].at = "sent" /\ call[c].what # "init" /\ call[c].sid \notin live
  /\ Answers(c, IF call[c].sid = None THEN 400 ELSE 404, None)
  /\ UNCHANGED <<mcpServer, session, state, reinit, runs, failures>>

Initialize(c) ==
  /\ call[c].at = "sent" /\ call[c].what = "init"
  /\ \/ /\ call[c].sid = None /\ minted < MaxSessions
        /\ minted' = minted + 1 /\ live' = live \union {minted'}
        /\ Answers(c, 200, minted')
     \/ call[c].sid # None /\ Answers(c, 400, None) /\ UNCHANGED mcpServer
  /\ UNCHANGED <<session, state, reinit, runs, failures>>

Forget ==
  /\ live # {} /\ Fault /\ live' = {}
  /\ UNCHANGED <<minted, session, state, reinit, call, runs>>

-----------------------------------------------------------------------------
(* HttpMcpTransport.request and McpClient.#request.                        *)

Fails(c) ==
  /\ Over(c)
  /\ reinit' = (reinit /\ call[c].what # "init")

\* Mutant: a request without an answer is made again, like one after a 404.
LostMutant(c) ==
  /\ call[c].at \in {"sent", "answered"} /\ Fault
  /\ IF call[c].what = "first"
     THEN Sent(c, "retry", session) /\ UNCHANGED reinit
     ELSE Fails(c)
  /\ UNCHANGED <<mcpServer, session, state, runs>>

\* fetch rejects: the network, or callTimeoutMs.
Lost(c) ==
  /\ call[c].at \in {"sent", "answered"} /\ Fault
  /\ Fails(c)
  /\ UNCHANGED <<mcpServer, session, state, runs>>

\* The headers of the answer.  A 404 ends the session of the transport, whichever
\* the request was sent under.
Headers(c) ==
  LET known == IF session = None THEN call[c].given ELSE session IN
  /\ call[c].at = "answered"
  /\ session' = IF call[c].status = 404 THEN None ELSE known
  /\ call' = [call EXCEPT ![c].at = IF call[c].status = 200 THEN "body" ELSE "error"]
  /\ UNCHANGED <<mcpServer, state, reinit, runs, failures>>

Body(c) ==
  /\ call[c].at = "body"
  /\ IF call[c].what = "init"
     THEN /\ state' = "connected" /\ reinit' = FALSE
          /\ Sent(c, "retry", session)
     ELSE Over(c) /\ UNCHANGED <<state, reinit>>
  /\ UNCHANGED <<mcpServer, session, runs, failures>>

\* The body breaks off, or is an error of JSON-RPC.
BodyFails(c) ==
  /\ call[c].at = "body" /\ Fault
  /\ Fails(c)
  /\ UNCHANGED <<mcpServer, session, state, runs>>

\* Only a first request that found no session initializes again, one at a time.
Error(c) ==
  /\ call[c].at = "error"
  /\ IF call[c].what = "first" /\ call[c].status = 404 /\ ~reinit
     THEN reinit' = TRUE /\ state' = "idle" /\ Sent(c, "init", session)
     ELSE Fails(c) /\ UNCHANGED state
  /\ UNCHANGED <<mcpServer, session, runs, failures>>

\* Requests that wait are aborted, and the server is told, if that arrives.
Close ==
  /\ state # "closed" /\ state' = "closed"
  /\ live' \in {live, live \ {session}}
  /\ call' = [c \in Calls |->
                IF call[c].at \in {"sent", "answered"} THEN [call[c] EXCEPT !.at = "aborted"] ELSE call[c]]
  /\ UNCHANGED <<minted, session, reinit, runs, failures>>

Aborted(c) ==
  /\ call[c].at = "aborted"
  /\ Fails(c)
  /\ UNCHANGED <<mcpServer, session, state, runs, failures>>

-----------------------------------------------------------------------------
CallStep(c) ==
  \/ Request(c)
  \/ Serve(c) \/ Reject(c) \/ Initialize(c)
  \/ Lost(c) \/ Headers(c) \/ Body(c) \/ BodyFails(c) \/ Error(c) \/ Aborted(c)

HttpNext == (\E c \in Calls : CallStep(c)) \/ Forget \/ Close

HttpSpec == HttpInit /\ [][HttpNext]_httpVars

-----------------------------------------------------------------------------
(* Properties.                                                             *)

\* A tool call that is repeated after its session was forgotten runs at most once.
CallsRunOnce == \A c \in Calls : runs[c] <= 1

\* At rest the transport has a session to ask under.  Without one the server answers
\* 400, which initializes nothing.
RestHasASession ==
  (\A c \in Calls : call[c].at \in {"new", "over"}) /\ state # "closed" => session # None

=============================================================================
