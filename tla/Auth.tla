-------------------------------- MODULE Auth --------------------------------
(***************************************************************************)
(* Who may use the server: server/src/auth and the security mode kept in   *)
(* server/src/server.ts.  An owner sets the server up and locks it, owners *)
(* invite others, everyone signs in with a password and a time-based code, *)
(* and an operator has a command line of his own on the same tables.       *)
(*                                                                         *)
(* Every handler awaits the database between its checks and its writes, so *)
(* two requests, or a request and the command line, interleave at each.    *)
(* Passwords are right or wrong; a code is the secret it comes from and    *)
(* the time step it is for; labels stand for the rows they are unique in.  *)
(*                                                                         *)
(* getSecurityMode answers from a cache that may be five seconds old, and  *)
(* the command line does not know of it, so a request may have seen either *)
(* mode: no guard below depends on which, and the properties hold for both.*)
(***************************************************************************)
EXTENDS Naturals, Sequences, FiniteSets, Functions, SequencesExt

CONSTANTS
  Labels,      \* names of identities
  Reqs,        \* requests the server can have under way
  MaxSecrets,  \* bound: secrets generated
  MaxSessions, \* bound: live sessions of an identity
  MaxStep,     \* bound: the time steps codes are for; the clock's tolerance of
               \* a step on either side keeps neighbouring ones good at once
  LOCKOUT,     \* LOCKOUT_FAILURES
  ENROLL_MAX_FAILS,
  NoLabel

ASSUME AuthAssumption ==
  /\ NoLabel \notin Labels
  /\ IsFiniteSet(Reqs)
  /\ {MaxSecrets, MaxSessions, MaxStep, LOCKOUT, ENROLL_MAX_FAILS} \subseteq Nat \ {0}

VARIABLES
  mode,      \* the row security.mode
  ident,     \* auth_identities, by label
  sessions,  \* auth_sessions: how many of each identity are neither revoked nor over
  failures,  \* failed attempts in the limiter's window
  pending,   \* the set-up waiting for its code (its secret), 0 for none
  enrolls,   \* enrollPending, by the secret made for it
  minted,    \* secrets generated so far
  spent,     \* how many logins each code opened
  forgotten, \* secrets whose last step was lowered or wiped
  req,       \* each request
  cli        \* the command line

tables == <<mode, ident, sessions, failures>>
memory == <<pending, enrolls>>
ghosts == <<minted, spent, forgotten>>
vars == <<tables, memory, ghosts, req, cli>>

Secrets == 1 .. MaxSecrets
Steps == 1 .. MaxStep
Mode == {"open", "locked"}
Status == {"invited", "active", "revoked"}
None == [role |-> "none", status |-> "none", secret |-> 0, last |-> 0]
Row == [role : {"owner", "invitee"}, status : Status,
        secret : 0 .. MaxSecrets, last : 0 .. MaxStep]
With(where, l, secret, step) ==
  [at |-> where, label |-> l, saw |-> "none", secret |-> secret, step |-> step]
Fresh(where, l) == With(where, l, 0, 0)
Idle == Fresh("idle", NoLabel)
Free == [at |-> "idle", arg |-> NoLabel]

At == {"idle", "hashing", "claiming", "verifying", "creating", "locking", "setup-session",
       "reading", "checking", "advancing", "login-session", "failing",
       "enroll-verifying", "enrolling", "activating", "enroll-session",
       "authed", "deleting", "mode-authed", "signing-out"}

AuthTypeOK ==
  /\ mode \in Mode
  /\ ident \in [Labels -> Row \union {None}]
  /\ sessions \in [Labels -> 0 .. MaxSessions]
  /\ failures \in Nat
  /\ pending \in 0 .. MaxSecrets
  /\ DOMAIN enrolls \subseteq Secrets
  /\ \A s \in DOMAIN enrolls :
       enrolls[s] \in [label : Labels, fails : 0 .. ENROLL_MAX_FAILS - 1]
  /\ minted \in 0 .. MaxSecrets
  /\ spent \in [Secrets \X Steps -> Nat]
  /\ forgotten \subseteq Secrets
  /\ req \in [Reqs -> [at : At, label : Labels \union {NoLabel},
                       saw : Status \union {"none"},
                       secret : 0 .. MaxSecrets, step : 0 .. MaxStep]]
  /\ cli \in [at : {"idle", "reenrolling", "revoking", "setting", "wiping"},
              arg : Labels \union Mode \union {NoLabel}]

Init ==
  /\ mode = "open"
  /\ ident = [l \in Labels |-> None]
  /\ sessions = [l \in Labels |-> 0]
  /\ failures = 0
  /\ pending = 0
  /\ enrolls = <<>>
  /\ minted = 0
  /\ spent = [c \in Secrets \X Steps |-> 0]
  /\ forgotten = {}
  /\ req = [r \in Reqs |-> Idle]
  /\ cli = Free

-----------------------------------------------------------------------------
(* What the handlers share.                                                *)

Becomes(r, q) == req' = [req EXCEPT ![r] = q]
Goes(r, where) == Becomes(r, [req[r] EXCEPT !.at = where])
Waits(r, where) == Becomes(r, Fresh(where, req[r].label))
Fails(r) == Becomes(r, Fresh("failing", NoLabel))
Ends(r) == Becomes(r, Idle)

Writes(l, row) == ident' = [ident EXCEPT ![l] = row]

\* store.findActiveOwner
HasOwner == \E l \in Labels : ident[l].role = "owner" /\ ident[l].status = "active"

\* store.findValidSessionByTokenHash
Valid(l) == sessions[l] > 0 /\ ident[l].status = "active"

\* store.createSession
Opens(l) == sessions[l] < MaxSessions /\ sessions' = [sessions EXCEPT ![l] = @ + 1]

\* revokeAllSessions; deleteSessionsByIdentity and revokeSessionsByIdentity
Revoke(S) == sessions' = [l \in Labels |-> IF l \in S THEN 0 ELSE sessions[l]]

\* store.setIdentityMfa: writes the secret and the last step whatever they were.
SetMfa(l, secret, last) ==
  /\ Writes(l, [role |-> ident[l].role, status |-> ident[l].status,
                secret |-> secret, last |-> last])
  /\ forgotten' = IF ident[l].secret # 0 /\ (ident[l].secret # secret \/ last < ident[l].last)
                    THEN forgotten \union {ident[l].secret} ELSE forgotten

Mint == minted < MaxSecrets /\ minted' = minted + 1

-----------------------------------------------------------------------------
(* /api/auth/setup and /api/auth/setup/confirm.                            *)

Setup(r) ==
  /\ req[r].at = "idle" /\ ~HasOwner
  /\ Goes(r, "hashing")
  /\ UNCHANGED <<tables, memory, ghosts, cli>>

SetupWaits(r) ==
  /\ req[r].at = "hashing"
  /\ Mint
  /\ pending' = minted + 1
  /\ Ends(r)
  /\ UNCHANGED <<tables, enrolls, spent, forgotten, cli>>

Confirm(r) ==
  /\ req[r].at = "idle" /\ ~HasOwner
  /\ Goes(r, "claiming")
  /\ UNCHANGED <<tables, memory, ghosts, cli>>

\* Mutant: what is confirmed is left waiting.
ClaimMutant(r) ==
  /\ req[r].at = "claiming"
  /\ IF pending = 0 THEN Ends(r)
     ELSE Becomes(r, With("verifying", NoLabel, pending, 0))
  /\ UNCHANGED <<tables, pending, enrolls, ghosts, cli>>

\* 'pending' is taken and cleared in one go; with nothing to take, 409.
Claim(r) ==
  /\ req[r].at = "claiming"
  /\ pending' = 0
  /\ IF pending = 0 THEN Ends(r)
     ELSE Becomes(r, With("verifying", NoLabel, pending, 0))
  /\ UNCHANGED <<tables, enrolls, ghosts, cli>>

\* A wrong code, or a key that cannot be had: the claim is put back.
Unclaim(r) ==
  /\ req[r].at = "verifying"
  /\ pending' = IF pending = 0 THEN req[r].secret ELSE pending
  /\ Ends(r)
  /\ UNCHANGED <<tables, enrolls, ghosts, cli>>

\* The code is right; its step is kept for the row.  A label taken throws.
CreateOwner(r, l) ==
  /\ req[r].at = "verifying"
  /\ IF ident[l] # None
       THEN Ends(r) /\ UNCHANGED ident
       ELSE /\ Writes(l, [role |-> "owner", status |-> "active",
                          secret |-> req[r].secret, last |-> 0])
            /\ \E s \in Steps : Becomes(r, With("creating", l, req[r].secret, s))
  /\ UNCHANGED <<mode, sessions, failures, memory, ghosts, cli>>

EnrollOwner(r) ==
  /\ req[r].at = "creating"
  /\ SetMfa(req[r].label, req[r].secret, req[r].step)
  /\ Waits(r, "locking")
  /\ UNCHANGED <<mode, sessions, failures, memory, minted, spent, cli>>

SetMode(r, from, m, to) ==
  /\ req[r].at = from
  /\ mode' = m
  /\ Goes(r, to)
  /\ UNCHANGED <<ident, sessions, failures, memory, ghosts, cli>>

OwnerSession(r) ==
  /\ req[r].at = "setup-session"
  /\ Opens(req[r].label)
  /\ Ends(r)
  /\ UNCHANGED <<mode, ident, failures, memory, ghosts, cli>>

SetupStep(r) ==
  \/ Setup(r) \/ SetupWaits(r)
  \/ Confirm(r) \/ Claim(r) \/ Unclaim(r)
  \/ \E l \in Labels : CreateOwner(r, l)
  \/ EnrollOwner(r)
  \/ SetMode(r, "locking", "locked", "setup-session")
  \/ OwnerSession(r)

-----------------------------------------------------------------------------
(* /api/auth/login.                                                        *)

\* loginLimiter.check: this attempt would be one more than those recorded.
Login(r) ==
  /\ req[r].at = "idle"
  /\ failures + 1 < LOCKOUT
  /\ Goes(r, "reading")
  /\ UNCHANGED <<tables, memory, ghosts, cli>>

\* The identity as it is now, which the password and the code are checked
\* against: revoked or unknown, a wrong password or a code not beyond the last
\* step fail.
Find(r, l) ==
  /\ req[r].at = "reading"
  /\ \/ Fails(r)
     \/ /\ ident[l].status = "invited"
        /\ Becomes(r, Fresh("checking", l))
     \/ /\ ident[l].status = "active"
        /\ \E s \in Steps :
             /\ s > ident[l].last
             /\ Becomes(r, With("advancing", l, ident[l].secret, s))
  /\ UNCHANGED <<tables, memory, ghosts, cli>>

\* The password of an invited identity opens an enrolment.
Invited(r) ==
  /\ req[r].at = "checking"
  /\ Mint
  /\ enrolls' = [s \in DOMAIN enrolls \union {minted + 1} |->
                  IF s = minted + 1 THEN [label |-> req[r].label, fails |-> 0]
                                    ELSE enrolls[s]]
  /\ Ends(r)
  /\ UNCHANGED <<tables, pending, spent, forgotten, cli>>

\* Mutant: the step is written without being compared in the same statement.
AdvanceMutant(r) ==
  /\ req[r].at = "advancing"
  /\ Writes(req[r].label, [ident[req[r].label] EXCEPT !.last = req[r].step])
  /\ Goes(r, "login-session")
  /\ UNCHANGED <<mode, sessions, failures, memory, ghosts, cli>>

\* store.advanceTotpStep: only forward, and only for one of those who try.
Advance(r) ==
  /\ req[r].at = "advancing"
  /\ IF ident[req[r].label].last < req[r].step
       THEN /\ Writes(req[r].label, [ident[req[r].label] EXCEPT !.last = req[r].step])
            /\ Goes(r, "login-session")
       ELSE /\ Fails(r)
            /\ UNCHANGED ident
  /\ UNCHANGED <<mode, sessions, failures, memory, ghosts, cli>>

SignIn(r) ==
  /\ req[r].at = "login-session"
  /\ Opens(req[r].label)
  /\ spent' = [spent EXCEPT ![<<req[r].secret, req[r].step>>] = @ + 1]
  /\ Ends(r)
  /\ UNCHANGED <<mode, ident, failures, memory, minted, forgotten, cli>>

RecordFailure(r) ==
  /\ req[r].at = "failing"
  /\ failures' = failures + 1
  /\ Ends(r)
  /\ UNCHANGED <<mode, ident, sessions, memory, ghosts, cli>>

LoginStep(r) ==
  \/ Login(r)
  \/ \E l \in Labels : Find(r, l)
  \/ Invited(r) \/ Advance(r) \/ SignIn(r)
  \/ RecordFailure(r)

-----------------------------------------------------------------------------
(* /api/auth/enroll.  The entry is found once; the map may lose it since.  *)

Without(s) == Restrict(enrolls, DOMAIN enrolls \ {s})

\* sweepEnrollPending, and the check of expiresAt
Expire(s) ==
  /\ s \in DOMAIN enrolls
  /\ enrolls' = Without(s)
  /\ UNCHANGED <<tables, pending, ghosts, req, cli>>

Enroll(r, s) ==
  /\ req[r].at = "idle"
  /\ s \in DOMAIN enrolls
  /\ Becomes(r, With("enroll-verifying", enrolls[s].label, s, 0))
  /\ UNCHANGED <<tables, memory, ghosts, cli>>

\* registerEnrollFailure
EnrollFails(r) ==
  /\ req[r].at = "enroll-verifying"
  /\ LET s == req[r].secret IN
     enrolls' = IF s \notin DOMAIN enrolls THEN enrolls
                ELSE IF enrolls[s].fails + 1 >= ENROLL_MAX_FAILS THEN Without(s)
                ELSE [enrolls EXCEPT ![s].fails = @ + 1]
  /\ Ends(r)
  /\ UNCHANGED <<tables, pending, ghosts, cli>>

\* Mutant: any identity that is there will do.
EnrollFindMutant(r) ==
  /\ req[r].at = "enroll-verifying"
  /\ \E s \in Steps :
       Becomes(r, [With("enrolling", req[r].label, req[r].secret, s)
                     EXCEPT !.saw = ident[req[r].label].status])
  /\ UNCHANGED <<tables, memory, ghosts, cli>>

\* The code is right, and the identity is still invited.
EnrollFind(r) ==
  /\ req[r].at = "enroll-verifying"
  /\ IF ident[req[r].label].status = "invited"
       THEN /\ \E s \in Steps :
                 Becomes(r, [With("enrolling", req[r].label, req[r].secret, s)
                               EXCEPT !.saw = ident[req[r].label].status])
            /\ UNCHANGED enrolls
       ELSE /\ enrolls' = Without(req[r].secret)
            /\ Ends(r)
  /\ UNCHANGED <<tables, pending, ghosts, cli>>

EnrollMfa(r) ==
  /\ req[r].at = "enrolling"
  /\ SetMfa(req[r].label, req[r].secret, req[r].step)
  /\ Goes(r, "activating")
  /\ UNCHANGED <<mode, sessions, failures, memory, minted, spent, cli>>

\* store.setIdentityStatus, whatever the status is by now
Activate(r) ==
  /\ req[r].at = "activating"
  /\ Writes(req[r].label, [ident[req[r].label] EXCEPT !.status = "active"])
  /\ Goes(r, "enroll-session")
  /\ UNCHANGED <<mode, sessions, failures, memory, ghosts, cli>>

EnrollSession(r) ==
  /\ req[r].at = "enroll-session"
  /\ Opens(req[r].label)
  /\ enrolls' = Without(req[r].secret)
  /\ Ends(r)
  /\ UNCHANGED <<mode, ident, failures, pending, ghosts, cli>>

EnrollStep(r) ==
  \/ \E s \in Secrets : Enroll(r, s)
  \/ EnrollFails(r) \/ EnrollFind(r) \/ EnrollMfa(r)
  \/ Activate(r) \/ EnrollSession(r)

-----------------------------------------------------------------------------
(* Behind the gate: request.auth is what the gate found, kept by the       *)
(* handler while others go on.                                             *)

Admit(r, l) ==
  /\ req[r].at = "idle" /\ Valid(l)
  /\ Becomes(r, Fresh("authed", l))
  /\ UNCHANGED <<tables, memory, ghosts, cli>>

Owner(r) == ident[req[r].label].role = "owner"

\* The label must be free among those not revoked, and is unique in the table.
Invite(r, l) ==
  /\ req[r].at = "authed" /\ Owner(r)
  /\ ident[l] = None
  /\ Writes(l, [role |-> "invitee", status |-> "invited", secret |-> 0, last |-> 0])
  /\ Ends(r)
  /\ UNCHANGED <<mode, sessions, failures, memory, ghosts, cli>>

RevokeInvite(r, l) ==
  /\ req[r].at = "authed" /\ Owner(r)
  /\ ident[l].role = "invitee"
  /\ Writes(l, [ident[l] EXCEPT !.status = "revoked"])
  /\ Becomes(r, Fresh("deleting", l))
  /\ UNCHANGED <<mode, sessions, failures, memory, ghosts, cli>>

DeleteSessions(r) ==
  /\ req[r].at = "deleting"
  /\ Revoke({req[r].label})
  /\ Ends(r)
  /\ UNCHANGED <<mode, ident, failures, memory, ghosts, cli>>

RevokeAll(r) ==
  /\ req[r].at = "authed" /\ Owner(r)
  /\ Revoke(Labels)
  /\ Ends(r)
  /\ UNCHANGED <<mode, ident, failures, memory, ghosts, cli>>

\* One session, by an owner or by whose it is; also /api/auth/logout.
RevokeSession(r, l) ==
  /\ req[r].at = "authed"
  /\ Owner(r) \/ l = req[r].label
  /\ sessions[l] > 0
  /\ sessions' = [sessions EXCEPT ![l] = @ - 1]
  /\ Ends(r)
  /\ UNCHANGED <<mode, ident, failures, memory, ghosts, cli>>

\* /api/auth/mode looks the session up itself, open or locked.
AskMode(r, l) ==
  /\ req[r].at = "idle"
  /\ Valid(l) /\ ident[l].role = "owner"
  /\ Becomes(r, Fresh("mode-authed", l))
  /\ UNCHANGED <<tables, memory, ghosts, cli>>

\* Nobody is signed in once the server is open.
SignOut(r) ==
  /\ req[r].at = "signing-out"
  /\ Revoke(Labels)
  /\ Ends(r)
  /\ UNCHANGED <<mode, ident, failures, memory, ghosts, cli>>

\* Locking needs an owner; nobody is signed out by it.
Relock(r) ==
  /\ req[r].at = "mode-authed" /\ HasOwner
  /\ mode' = "locked"
  /\ Ends(r)
  /\ UNCHANGED <<ident, sessions, failures, memory, ghosts, cli>>

GuardedStep(r) ==
  \/ \E l \in Labels : \/ Admit(r, l) \/ RevokeSession(r, l) \/ AskMode(r, l)
                      \/ Invite(r, l) \/ RevokeInvite(r, l)
  \/ DeleteSessions(r) \/ RevokeAll(r)
  \/ SetMode(r, "mode-authed", "open", "signing-out")
  \/ SignOut(r)
  \/ Relock(r)

-----------------------------------------------------------------------------
(* auth/cli.ts, in a process of its own: it knows nothing of the caches.   *)

CliIs(where, arg) == cli' = [at |-> where, arg |-> arg]

\* requireMutableIdentity; a new password, or a new secret, is then written.
Mutable(l) == ident[l].status \in {"invited", "active"}

ResetPassword(l) ==
  /\ cli.at = "idle" /\ Mutable(l)
  /\ CliIs("revoking", l)
  /\ UNCHANGED <<tables, memory, ghosts, req>>

ReenrollMfa(l) ==
  /\ cli.at = "idle" /\ Mutable(l)
  /\ CliIs("reenrolling", l)
  /\ UNCHANGED <<tables, memory, ghosts, req>>

WriteMfa ==
  /\ cli.at = "reenrolling"
  /\ Mint
  /\ SetMfa(cli.arg, minted + 1, 0)
  /\ CliIs("revoking", cli.arg)
  /\ UNCHANGED <<mode, sessions, failures, memory, spent, req>>

RevokeByIdentity ==
  /\ cli.at = "revoking"
  /\ Revoke({cli.arg})
  /\ cli' = Free
  /\ UNCHANGED <<mode, ident, failures, memory, ghosts, req>>

\* Mutant: the command line locks whoever is there.
CliModeMutant(m) ==
  /\ cli.at = "idle" /\ mode # m
  /\ CliIs("setting", m)
  /\ UNCHANGED <<tables, memory, ghosts, req>>

\* cmdSetMode without --force: to lock needs an owner who is active.
CliMode(m) ==
  /\ cli.at = "idle" /\ mode # m
  /\ m = "locked" => HasOwner
  /\ CliIs("setting", m)
  /\ UNCHANGED <<tables, memory, ghosts, req>>

WriteMode ==
  /\ cli.at = "setting"
  /\ mode' = cli.arg
  /\ cli' = IF cli.arg = "open" THEN [cli EXCEPT !.at = "wiping"] ELSE Free
  /\ UNCHANGED <<ident, sessions, failures, memory, ghosts, req>>

WipeSessions ==
  /\ cli.at \in {"idle", "wiping"}
  /\ Revoke(Labels)
  /\ cli' = Free
  /\ UNCHANGED <<mode, ident, failures, memory, ghosts, req>>

CliStep ==
  \/ \E l \in Labels : ResetPassword(l) \/ ReenrollMfa(l)
  \/ WriteMfa \/ RevokeByIdentity
  \/ \E m \in Mode : CliMode(m)
  \/ WriteMode \/ WipeSessions

-----------------------------------------------------------------------------
(* Time, and the server stopping: what it keeps in memory is gone.         *)

\* The sessions' midnight.
Midnight ==
  /\ \E l \in Labels : sessions[l] > 0
  /\ Revoke(Labels)
  /\ UNCHANGED <<mode, ident, failures, memory, ghosts, req, cli>>

\* The oldest failure leaves the limiter's window.
Forgive ==
  /\ failures > 0
  /\ failures' = failures - 1
  /\ UNCHANGED <<mode, ident, sessions, memory, ghosts, req, cli>>

Restart ==
  /\ pending' = 0
  /\ enrolls' = <<>>
  /\ req' = [r \in Reqs |-> Idle]
  /\ UNCHANGED <<tables, ghosts, cli>>

ReqStep(r) == SetupStep(r) \/ LoginStep(r) \/ EnrollStep(r) \/ GuardedStep(r)

Next ==
  \/ \E r \in Reqs : ReqStep(r)
  \/ \E s \in Secrets : Expire(s)
  \/ CliStep
  \/ Midnight \/ Forgive \/ Restart

Spec == Init /\ [][Next]_vars

-----------------------------------------------------------------------------
(* Properties.                                                             *)

\* A set-up being confirmed is in one request's hands and waits for no other:
\* however many confirm at once, it makes one owner.
Claimed == {"verifying", "creating"}
ClaimIsExclusive ==
  \A r \in Reqs : req[r].at \in Claimed =>
    /\ req[r].secret # pending
    /\ \A q \in Reqs \ {r} : req[q].at \in Claimed => req[q].secret # req[r].secret

\* One code signs in once, however many logins bring it together and whatever
\* each had read, unless an enrolment meanwhile wiped what was spent.
CodeSpentOnce ==
  \A c \in Secrets \X Steps : spent[c] > 1 => c[1] \in forgotten

\* A locked server has an owner who can sign in: no way of locking it, and no
\* stop half way through the set-up, shuts everyone out.
SomebodyCanEnter ==
  mode = "locked" =>
    \E l \in Labels : /\ ident[l].role = "owner"
                      /\ ident[l].status = "active"
                      /\ ident[l].secret # 0

\* A revoked identity comes back only through an enrolment that had found it
\* invited before it was revoked.
RevokedComesBackLate ==
  [][\A l \in Labels :
       ident[l].status = "revoked" /\ ident'[l].status # "revoked" =>
         \E r \in Reqs : /\ req[r].at = "activating"
                         /\ req[r].label = l
                         /\ req[r].saw = "invited"]_vars

=============================================================================
