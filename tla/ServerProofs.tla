---------------------------- MODULE ServerProofs ----------------------------
(***************************************************************************)
(* Theorems about the server.  The gate (Auth), for any number of requests,*)
(* identities, secrets and steps, with the command line and restarts       *)
(* between any two of its steps; the exchange of the database (PgRestore), *)
(* for any number of restores, imports, downloads and queries.             *)
(***************************************************************************)
EXTENDS Auth, PgRestore, TLAPS

-----------------------------------------------------------------------------
(* The gate.                                                               *)

\* What a request is about, where it goes on to write it.
Shape == [at : At, label : Labels \union {NoLabel}, saw : Status \union {"none"},
          secret : 0 .. MaxSecrets, step : 0 .. MaxStep]

Named == {"creating", "checking", "enroll-verifying", "enrolling", "activating",
          "enroll-session", "advancing", "login-session", "locking"}
Keyed == {"verifying", "creating", "enroll-verifying", "enrolling", "activating",
          "enroll-session"}
Timed == {"creating", "enrolling", "advancing", "login-session"}

Well(q) ==
  /\ q \in Shape
  /\ q.at \in Named => q.label \in Labels
  /\ q.at \in Keyed => q.secret \in Secrets
  /\ q.at \in Timed => q.step \in Steps

ReqsWell == req \in [Reqs -> Shape] /\ \A r \in Reqs : Well(req[r])

CliWell ==
  /\ cli.at = "reenrolling" => cli.arg \in Labels
  /\ cli.at = "setting" => cli.arg \in Mode

\* Rows are never deleted: who is named is there.
Known ==
  /\ \A r \in Reqs : req[r].at \in Named => ident[req[r].label] # None
  /\ \A s \in DOMAIN enrolls : ident[enrolls[s].label] # None
  /\ cli.at = "reenrolling" => ident[cli.arg] # None

TypeInv == AuthTypeOK /\ ReqsWell /\ CliWell /\ Known

-----------------------------------------------------------------------------
Plain == At \ (Named \union Keyed \union Timed)

LEMMA WellFresh ==
  ASSUME NEW w \in Plain, NEW l \in Labels \union {NoLabel}
  PROVE  Fresh(w, l) \in Shape /\ Well(Fresh(w, l))
<1>1. Fresh(w, l) \in Shape
  BY AuthAssumption DEF Shape, Fresh, With, Plain
<1>2. Fresh(w, l).at = w
  BY DEF Fresh, With
<1> QED
  BY <1>1, <1>2 DEF Well, Plain

\* One request becomes another.
LEMMA WellOne ==
  ASSUME ReqsWell, NEW r \in Reqs, NEW q \in Shape, Well(q), Becomes(r, q)
  PROVE  ReqsWell' /\ req'[r] = q /\ \A p \in Reqs \ {r} : req'[p] = req[p]
<1>1. req' \in [Reqs -> Shape] /\ req'[r] = q /\ \A p \in Reqs \ {r} : req'[p] = req[p]
  BY DEF ReqsWell, Becomes
<1> QED
  BY <1>1 DEF ReqsWell, Well

\* The moves that most handlers make: to where nothing is kept that a statement
\* still writes.
PlainMove(r) == \E q \in Shape : q.at \in Plain /\ Becomes(r, q)

LEMMA PlainMoves ==
  ASSUME ReqsWell, NEW r \in Reqs,
         \/ Ends(r) \/ Fails(r)
         \/ \E w \in Plain : \/ Goes(r, w) \/ Waits(r, w)
                           \/ \E l \in Labels : Becomes(r, Fresh(w, l))
  PROVE  PlainMove(r)
<1>1. req[r] \in Shape /\ req[r].label \in Labels \union {NoLabel}
  BY DEF Shape, ReqsWell
<1>2. "idle" \in Plain /\ "failing" \in Plain
  BY DEF Plain, At, Named, Keyed, Timed
<1>3. ASSUME NEW w \in Plain, NEW l \in Labels \union {NoLabel}, Becomes(r, Fresh(w, l))
      PROVE  PlainMove(r)
  <2>1. Fresh(w, l) \in Shape /\ Fresh(w, l).at = w
    BY AuthAssumption DEF Fresh, With, Shape, Plain
  <2> QED
    BY <1>3, <2>1 DEF PlainMove
<1>4. CASE Ends(r)
  BY <1>2, <1>3, <1>4 DEF Ends, Idle
<1>5. CASE Fails(r)
  BY <1>2, <1>3, <1>5 DEF Fails
<1>6. ASSUME NEW w \in Plain, Waits(r, w) PROVE PlainMove(r)
  BY <1>1, <1>3, <1>6 DEF Waits
<1>7. ASSUME NEW w \in Plain, Goes(r, w) PROVE PlainMove(r)
  <2>1. [req[r] EXCEPT !.at = w] \in Shape /\ [req[r] EXCEPT !.at = w].at = w
    BY <1>1 DEF Shape, Plain
  <2> QED
    BY <1>7, <2>1 DEF Goes, PlainMove
<1> QED
  BY <1>3, <1>4, <1>5, <1>6, <1>7

LEMMA WellPlain ==
  ASSUME ReqsWell, NEW r \in Reqs, PlainMove(r)
  PROVE  ReqsWell'
<1>1. PICK q \in Shape : q.at \in Plain /\ Becomes(r, q)
  BY DEF PlainMove
<1>2. Well(q)
  BY <1>1 DEF Well, Plain
<1> QED
  BY <1>1, <1>2, WellOne

LEMMA TypeInit == Init => TypeInv
<1> SUFFICES ASSUME Init PROVE TypeInv
  OBVIOUS
<1> USE AuthAssumption
<1>1. /\ mode \in Mode /\ ident \in [Labels -> Row \union {None}]
      /\ sessions \in [Labels -> 0 .. MaxSessions] /\ failures \in Nat
      /\ pending \in 0 .. MaxSecrets /\ minted \in 0 .. MaxSecrets
      /\ spent \in [Secrets \X Steps -> Nat] /\ forgotten \subseteq Secrets
  BY DEF Init, Mode
<1>2. DOMAIN enrolls = {}
  BY DEF Init
<1>3. ReqsWell
  <2>1. "idle" \in Plain
    BY DEF Plain, At, Named, Keyed, Timed
  <2>2. Idle \in Shape /\ Well(Idle)
    BY <2>1, WellFresh DEF Idle
  <2>3. req = [r \in Reqs |-> Idle]
    BY DEF Init
  <2> QED
    BY <2>2, <2>3 DEF ReqsWell
<1>4. /\ cli \in [at : {"idle", "reenrolling", "revoking", "setting", "wiping"},
                  arg : Labels \union Mode \union {NoLabel}]
      /\ cli.at = "idle"
  BY DEF Init, Free
<1>5. Known
  BY <1>2, <1>4 DEF Init, Known, Idle, Fresh, With, Named
<1> QED
  BY <1>1, <1>2, <1>3, <1>4, <1>5 DEF TypeInv, AuthTypeOK, CliWell, ReqsWell, Shape

-----------------------------------------------------------------------------
(* What the statements write.                                              *)

LEMMA IdentTypes ==
  ASSUME TypeInv, NEW l \in Labels
  PROVE  /\ ident[l] \in Row \union {None}
         /\ ident[l].status \in Status => ident[l] \in Row
         /\ ident[l].role \in {"owner", "invitee"} => ident[l] \in Row
         /\ ident[l].secret \in 0 .. MaxSecrets /\ ident[l].last \in 0 .. MaxStep
BY AuthAssumption DEF TypeInv, AuthTypeOK, Row, None, Status

LEMMA NoneIsNoRow ==
  None \notin Row /\ None.secret = 0 /\ None.last = 0 /\ None.role = "none" /\ None.status = "none"
BY DEF None, Row, Status

\* A row written: its label alone changes.
LEMMA RowWritten ==
  ASSUME TypeInv, NEW l \in Labels, NEW v \in Row, Writes(l, v)
  PROVE  /\ ident' \in [Labels -> Row \union {None}]
         /\ ident'[l] = v
         /\ \A m \in Labels \ {l} : ident'[m] = ident[m]
BY DEF TypeInv, AuthTypeOK, Writes

\* The statements that write a row of auth_identities.
LEMMA WhoWritesRows ==
  ASSUME [Next]_vars
  PROVE  \/ UNCHANGED ident
         \/ \E r \in Reqs : \/ \E l \in Labels : CreateOwner(r, l) \/ Invite(r, l) \/ RevokeInvite(r, l)
                            \/ EnrollOwner(r) \/ Advance(r) \/ EnrollMfa(r) \/ Activate(r)
         \/ WriteMfa
<1> USE DEF tables
<1>1. ASSUME NEW r \in Reqs, SetupStep(r)
      PROVE  UNCHANGED ident \/ (\E l \in Labels : CreateOwner(r, l)) \/ EnrollOwner(r)
  BY <1>1 DEF SetupStep, Setup, SetupWaits, Confirm, Claim, Unclaim, SetMode, OwnerSession
<1>2. ASSUME NEW r \in Reqs, LoginStep(r)
      PROVE  UNCHANGED ident \/ Advance(r)
  <2>1. ASSUME NEW l \in Labels, Find(r, l) PROVE UNCHANGED ident
    BY <2>1, Zenon DEF Find
  <2>2. CASE Login(r) \/ Invited(r) \/ SignIn(r) \/ RecordFailure(r)
    BY <2>2, Zenon DEF Login, Invited, SignIn, RecordFailure
  <2> QED
    BY <1>2, <2>1, <2>2, Zenon DEF LoginStep
<1>3. ASSUME NEW r \in Reqs, EnrollStep(r)
      PROVE  UNCHANGED ident \/ EnrollMfa(r) \/ Activate(r)
  <2>1. CASE (\E s \in Secrets : Enroll(r, s)) \/ EnrollFails(r) \/ EnrollFind(r) \/ EnrollSession(r)
    BY <2>1, Zenon DEF Enroll, EnrollFails, EnrollFind, EnrollSession
  <2> QED
    BY <1>3, <2>1, Zenon DEF EnrollStep
<1>4. ASSUME NEW r \in Reqs, GuardedStep(r)
      PROVE  UNCHANGED ident \/ \E l \in Labels : Invite(r, l) \/ RevokeInvite(r, l)
  BY <1>4 DEF GuardedStep, Admit, RevokeSession, AskMode, DeleteSessions, RevokeAll, SetMode, SignOut, Relock
<1>5. ASSUME CliStep PROVE UNCHANGED ident \/ WriteMfa
  BY <1>5 DEF CliStep, ResetPassword, ReenrollMfa, RevokeByIdentity, CliMode, WriteMode, WipeSessions
<1>6. ASSUME (\E s \in Secrets : Expire(s)) \/ Midnight \/ Forgive \/ Restart \/ UNCHANGED vars
      PROVE  UNCHANGED ident
  BY <1>6 DEF Expire, Midnight, Forgive, Restart, vars
<1> QED
  BY <1>1, <1>2, <1>3, <1>4, <1>5, <1>6, Zenon DEF Next, ReqStep

\* A row with one of its columns written.
LEMMA LastSet ==
  ASSUME NEW q \in Row, NEW t \in 0 .. MaxStep
  PROVE  [q EXCEPT !.last = t] \in Row
BY DEF Row

LEMMA StatusSet ==
  ASSUME NEW q \in Row, NEW u \in Status
  PROVE  [q EXCEPT !.status = u] \in Row
BY DEF Row

\* A request with what it goes on with.
LEMMA ShapeWith ==
  ASSUME NEW w \in At, NEW l \in Labels \union {NoLabel},
         NEW x \in 0 .. MaxSecrets, NEW t \in 0 .. MaxStep
  PROVE  /\ With(w, l, x, t) \in Shape
         /\ With(w, l, x, t).at = w /\ With(w, l, x, t).label = l
         /\ With(w, l, x, t).secret = x /\ With(w, l, x, t).step = t
BY DEF With, Shape

\* A new secret and its last step, in a row that is there.
LEMMA MfaWritten ==
  ASSUME TypeInv, NEW l \in Labels, ident[l] # None,
         NEW x \in Secrets, NEW t \in 0 .. MaxStep, SetMfa(l, x, t)
  PROVE  /\ ident' \in [Labels -> Row \union {None}]
         /\ ident'[l] \in Row
         /\ ident'[l].secret = x /\ ident'[l].last = t
         /\ ident'[l].role = ident[l].role /\ ident'[l].status = ident[l].status
         /\ \A m \in Labels \ {l} : ident'[m] = ident[m]
         /\ ident[l] \in Row
<1> DEFINE v == [role |-> ident[l].role, status |-> ident[l].status, secret |-> x, last |-> t]
<1>1. ident[l] \in Row
  BY DEF TypeInv, AuthTypeOK
<1>2. v \in Row
  BY <1>1, AuthAssumption DEF Row, Secrets
<1>3. Writes(l, v)
  BY DEF SetMfa
<1> QED
  BY <1>1, <1>2, <1>3, RowWritten

\* What a request about somebody knows.
LEMMA OfReq ==
  ASSUME TypeInv, NEW r \in Reqs
  PROVE  /\ req[r] \in Shape
         /\ req[r].at \in Named => req[r].label \in Labels /\ ident[req[r].label] \in Row
         /\ req[r].at \in Keyed => req[r].secret \in Secrets
         /\ req[r].at \in Timed => req[r].step \in Steps /\ req[r].step \in 0 .. MaxStep
<1>1. /\ req[r] \in Shape
      /\ req[r].at \in Named => req[r].label \in Labels
      /\ req[r].at \in Keyed => req[r].secret \in Secrets
      /\ req[r].at \in Timed => req[r].step \in Steps
  BY DEF TypeInv, ReqsWell, Well
<1>2. req[r].at \in Named => ident[req[r].label] \in Row
  BY <1>1 DEF TypeInv, Known, AuthTypeOK
<1>3. req[r].at \in Timed => req[r].step \in 0 .. MaxStep
  BY <1>1, AuthAssumption DEF Steps
<1> QED
  BY <1>1, <1>2, <1>3

\* Every statement leaves rows, and takes none away.
LEMMA RowsStep ==
  ASSUME TypeInv, [Next]_vars
  PROVE  /\ ident' \in [Labels -> Row \union {None}]
         /\ \A l \in Labels : ident[l] # None => ident'[l] # None
<1> DEFINE Good == /\ ident' \in [Labels -> Row \union {None}]
                   /\ \A l \in Labels : ident[l] # None => ident'[l] # None
<1>1. CASE UNCHANGED ident
  BY <1>1 DEF TypeInv, AuthTypeOK
<1>2. ASSUME NEW l \in Labels, NEW v \in Row, Writes(l, v) PROVE Good
  BY <1>2, RowWritten, NoneIsNoRow
<1>3. ASSUME NEW r \in Reqs, NEW l \in Labels, CreateOwner(r, l) PROVE Good
  <2>1. req[r].secret \in 0 .. MaxSecrets /\ 0 \in 0 .. MaxStep
    BY OfReq, AuthAssumption DEF Shape
  <2>2. [role |-> "owner", status |-> "active", secret |-> req[r].secret, last |-> 0] \in Row
    BY <2>1 DEF Row, Status
  <2>3. UNCHANGED ident \/ Writes(l, [role |-> "owner", status |-> "active",
                                     secret |-> req[r].secret, last |-> 0])
    BY <1>3, Zenon DEF CreateOwner
  <2> QED
    BY <1>1, <1>2, <2>2, <2>3
<1>4. ASSUME NEW r \in Reqs, NEW l \in Labels, Invite(r, l) PROVE Good
  <2>1. [role |-> "invitee", status |-> "invited", secret |-> 0, last |-> 0] \in Row
    BY AuthAssumption DEF Row, Status
  <2> QED
    BY <1>2, <1>4, <2>1 DEF Invite
<1>5. ASSUME NEW r \in Reqs, NEW l \in Labels, RevokeInvite(r, l) PROVE Good
  <2>1. ident[l] \in Row /\ "revoked" \in Status
    BY <1>5, IdentTypes DEF RevokeInvite, Status
  <2>2. [ident[l] EXCEPT !.status = "revoked"] \in Row
    BY <2>1, StatusSet, Zenon
  <2> QED
    BY <1>2, <1>5, <2>2 DEF RevokeInvite
<1>6. ASSUME NEW r \in Reqs, Advance(r) PROVE Good
  <2> DEFINE l == req[r].label
  <2>1. req[r].at \in Named /\ req[r].at \in Timed
    BY <1>6 DEF Advance, Named, Timed
  <2>2. l \in Labels /\ ident[l] \in Row /\ req[r].step \in 0 .. MaxStep
    BY <2>1, OfReq
  <2>3. [ident[l] EXCEPT !.last = req[r].step] \in Row
    BY <2>2, LastSet, Zenon
  <2>4. UNCHANGED ident \/ Writes(l, [ident[l] EXCEPT !.last = req[r].step])
    BY <1>6, Zenon DEF Advance
  <2> QED
    BY <1>1, <1>2, <2>2, <2>3, <2>4
<1>7. ASSUME NEW r \in Reqs, Activate(r) PROVE Good
  <2> DEFINE l == req[r].label
  <2>1. req[r].at \in Named /\ "active" \in Status
    BY <1>7 DEF Activate, Named, Status
  <2>2. l \in Labels /\ ident[l] \in Row
    BY <2>1, OfReq
  <2>3. [ident[l] EXCEPT !.status = "active"] \in Row
    BY <2>1, <2>2, StatusSet, Zenon
  <2> QED
    BY <1>2, <1>7, <2>2, <2>3 DEF Activate
<1>8. ASSUME NEW l \in Labels, ident[l] # None, NEW x \in Secrets, NEW t \in 0 .. MaxStep, SetMfa(l, x, t)
      PROVE  Good
  BY <1>8, MfaWritten, NoneIsNoRow
<1>9. ASSUME NEW r \in Reqs, EnrollOwner(r) \/ EnrollMfa(r) PROVE Good
  <2>1. req[r].at \in Named /\ req[r].at \in Timed /\ req[r].at \in Keyed
    BY <1>9 DEF EnrollOwner, EnrollMfa, Named, Timed, Keyed
  <2> QED
    BY <1>8, <1>9, <2>1, OfReq, NoneIsNoRow DEF EnrollOwner, EnrollMfa
<1>10. CASE WriteMfa
  <2>1. cli.arg \in Labels /\ ident[cli.arg] # None
    BY <1>10 DEF WriteMfa, TypeInv, CliWell, Known
  <2>2. minted + 1 \in Secrets /\ 0 \in 0 .. MaxStep
    BY <1>10, AuthAssumption DEF WriteMfa, Mint, Secrets, TypeInv, AuthTypeOK
  <2> QED
    BY <1>8, <1>10, <2>1, <2>2 DEF WriteMfa
<1> QED
  BY <1>1, <1>3, <1>4, <1>5, <1>6, <1>7, <1>9, <1>10, WhoWritesRows

\* What a request moves by.
LEMMA WhoMoves ==
  ASSUME ReqsWell, NEW r \in Reqs, ReqStep(r)
  PROVE  \/ PlainMove(r)
         \/ Claim(r) /\ pending # 0 /\ Becomes(r, With("verifying", NoLabel, pending, 0))
         \/ \E l \in Labels : CreateOwner(r, l) \/ Find(r, l)
         \/ \E x \in Secrets : Enroll(r, x)
         \/ EnrollFind(r) \/ EnrollMfa(r) \/ Activate(r) \/ Advance(r) \/ EnrollOwner(r)
<1> DEFINE Plainly == \/ Ends(r) \/ Fails(r)
                      \/ \E w \in Plain : \/ Goes(r, w) \/ Waits(r, w)
                                        \/ \E l \in Labels : Becomes(r, Fresh(w, l))
<1>1. {"hashing", "claiming", "setup-session", "reading", "failing", "authed", "deleting",
       "mode-authed", "signing-out", "idle"} \subseteq Plain
  BY DEF Plain, At, Named, Keyed, Timed
<1>2. ASSUME SetupStep(r)
      PROVE  \/ Plainly \/ EnrollOwner(r) \/ \E l \in Labels : CreateOwner(r, l)
             \/ Claim(r) /\ pending # 0 /\ Becomes(r, With("verifying", NoLabel, pending, 0))
  BY <1>1, <1>2, Zenon DEF SetupStep, Setup, SetupWaits, Confirm, Claim, Unclaim, SetMode, OwnerSession
<1>3. ASSUME LoginStep(r)
      PROVE  Plainly \/ Advance(r) \/ \E l \in Labels : Find(r, l)
  BY <1>1, <1>3, Zenon DEF LoginStep, Login, Invited, SignIn, RecordFailure
<1>4. ASSUME EnrollStep(r)
      PROVE  Plainly \/ (\E x \in Secrets : Enroll(r, x)) \/ EnrollFind(r) \/ EnrollMfa(r) \/ Activate(r)
  BY <1>1, <1>4, Zenon DEF EnrollStep, EnrollFails, EnrollSession
<1>5. ASSUME GuardedStep(r) PROVE Plainly
  BY <1>1, <1>5, Zenon DEF GuardedStep, Admit, RevokeSession, AskMode, Invite, RevokeInvite,
                          DeleteSessions, RevokeAll, SetMode, SignOut, Relock
<1>6. Plainly => PlainMove(r)
  BY PlainMoves
<1> HIDE DEF Plainly
<1> QED
  BY <1>2, <1>3, <1>4, <1>5, <1>6, Zenon DEF ReqStep

LEMMA ReqsStep ==
  ASSUME TypeInv, [Next]_vars
  PROVE  ReqsWell'
<1> USE AuthAssumption
<1>0. ReqsWell
  BY DEF TypeInv
<1>1. CASE UNCHANGED req
  BY <1>0, <1>1 DEF ReqsWell, Well
<1>2. ASSUME NEW r \in Reqs, NEW w \in At, NEW l \in Labels \union {NoLabel},
             NEW x \in 0 .. MaxSecrets, NEW t \in 0 .. MaxStep,
             w \in Named => l \in Labels, w \in Keyed => x \in Secrets, w \in Timed => t \in Steps,
             Becomes(r, With(w, l, x, t))
      PROVE  ReqsWell'
  <2>1. With(w, l, x, t) \in Shape /\ Well(With(w, l, x, t))
    BY <1>2, ShapeWith DEF Well
  <2> QED
    BY <1>0, <1>2, <2>1, WellOne
<1>3. ASSUME NEW r \in Reqs, ReqStep(r) PROVE ReqsWell'
  <2> DEFINE l == req[r].label
             x == req[r].secret
             t == req[r].step
  <2>0. /\ req[r] \in Shape /\ l \in Labels \union {NoLabel} /\ x \in 0 .. MaxSecrets /\ t \in 0 .. MaxStep
        /\ 0 \in 0 .. MaxSecrets /\ 0 \in 0 .. MaxStep
        /\ \A y \in Secrets : y \in 0 .. MaxSecrets
        /\ \A s \in Steps : s \in 0 .. MaxStep
    BY OfReq DEF Shape, Secrets, Steps
  <2>1. CASE PlainMove(r)
    BY <1>0, <2>1, WellPlain
  <2>2. CASE pending # 0 /\ Becomes(r, With("verifying", NoLabel, pending, 0))
    <3>1. pending \in Secrets /\ "verifying" \in At /\ "verifying" \notin Named \union Timed
      BY <2>2 DEF TypeInv, AuthTypeOK, Secrets, At, Named, Timed
    <3> QED
      BY <1>2, <2>0, <2>2, <3>1
  <2>3. ASSUME NEW m \in Labels, CreateOwner(r, m) PROVE ReqsWell'
    <3>1. req[r].at \in Keyed /\ "creating" \in At
      BY <2>3 DEF CreateOwner, Keyed, At
    <3>2. \/ Ends(r)
          \/ \E s \in Steps : Becomes(r, With("creating", m, x, s))
      BY <2>3, Zenon DEF CreateOwner
    <3> QED
      BY <1>0, <1>2, <2>0, <3>1, <3>2, OfReq, PlainMoves, WellPlain
  <2>4. ASSUME NEW m \in Labels, Find(r, m) PROVE ReqsWell'
    <3>1. {"checking", "advancing"} \subseteq At /\ {"checking", "advancing"} \subseteq Named
          /\ "checking" \notin Keyed \union Timed /\ "advancing" \notin Keyed
      BY DEF At, Named, Keyed, Timed
    <3>2. ident[m].secret \in 0 .. MaxSecrets
      BY IdentTypes
    <3>3. \/ Fails(r)
          \/ Becomes(r, With("checking", m, 0, 0))
          \/ \E s \in Steps : Becomes(r, With("advancing", m, ident[m].secret, s))
      BY <2>4, Zenon DEF Find, Fresh
    <3> QED
      BY <1>0, <1>2, <2>0, <3>1, <3>2, <3>3, PlainMoves, WellPlain
  <2>5. ASSUME NEW y \in Secrets, Enroll(r, y) PROVE ReqsWell'
    <3>1. enrolls[y].label \in Labels
      BY <2>5 DEF Enroll, TypeInv, AuthTypeOK
    <3>2. "enroll-verifying" \in At /\ "enroll-verifying" \notin Timed
      BY DEF At, Timed
    <3> QED
      BY <1>2, <2>0, <2>5, <3>1, <3>2 DEF Enroll
  <2>6. CASE EnrollFind(r)
    <3>1. req[r].at \in Named /\ req[r].at \in Keyed /\ "enrolling" \in At
      BY <2>6 DEF EnrollFind, Named, Keyed, At
    <3>2. l \in Labels /\ x \in Secrets /\ ident[l].status \in Status
      BY <3>1, OfReq DEF Row
    <3>3. ASSUME NEW s \in Steps,
                 Becomes(r, [With("enrolling", l, x, s) EXCEPT !.saw = ident[l].status])
          PROVE  ReqsWell'
      <4> DEFINE q == [With("enrolling", l, x, s) EXCEPT !.saw = ident[l].status]
      <4>1. q \in Shape /\ q.at = "enrolling" /\ q.label = l /\ q.secret = x /\ q.step = s
        BY <2>0, <3>1, <3>2 DEF With, Shape
      <4>2. Well(q)
        BY <3>2, <4>1 DEF Well
      <4>3. Becomes(r, q)
        BY <3>3
      <4> HIDE DEF q
      <4> QED
        BY <1>0, <4>1, <4>2, <4>3, WellOne
    <3>4. \/ Ends(r)
          \/ \E s \in Steps : Becomes(r, [With("enrolling", l, x, s) EXCEPT !.saw = ident[l].status])
      BY <2>6, Zenon DEF EnrollFind
    <3> QED
      BY <1>0, <3>3, <3>4, PlainMoves, WellPlain
  <2>7. ASSUME NEW w \in {"activating", "enroll-session", "login-session"}, Goes(r, w),
               req[r].at \in Named, w \in Keyed => req[r].at \in Keyed, w \in Timed => req[r].at \in Timed
        PROVE  ReqsWell'
    <3> DEFINE q == [req[r] EXCEPT !.at = w]
    <3>1. q \in Shape /\ q.at = w /\ q.label = l /\ q.secret = x /\ q.step = t
      BY <2>0 DEF Shape, At
    <3>2. Well(q)
      BY <2>7, <3>1, OfReq DEF Well
    <3>3. Becomes(r, q)
      BY <2>7 DEF Goes
    <3> HIDE DEF q
    <3> QED
      BY <1>0, <3>1, <3>2, <3>3, WellOne
  <2>8. CASE EnrollMfa(r) \/ Activate(r)
    BY <2>7, <2>8 DEF EnrollMfa, Activate, Named, Keyed, Timed
  <2>9. CASE Advance(r)
    <3>1. Fails(r) \/ Goes(r, "login-session")
      BY <2>9, Zenon DEF Advance
    <3>2. req[r].at \in Named /\ req[r].at \in Timed /\ "login-session" \notin Keyed
      BY <2>9 DEF Advance, Named, Timed, Keyed
    <3> QED
      BY <1>0, <2>7, <3>1, <3>2, PlainMoves, WellPlain
  <2>10. CASE EnrollOwner(r)
    <3>1. l \in Labels /\ "locking" \in At /\ "locking" \notin Keyed \union Timed
      BY <2>10, OfReq DEF EnrollOwner, Named, At, Keyed, Timed
    <3>2. Becomes(r, With("locking", l, 0, 0))
      BY <2>10 DEF EnrollOwner, Waits, Fresh
    <3> QED
      BY <1>2, <2>0, <3>1, <3>2
  <2> QED
    BY <1>0, <1>3, <2>1, <2>2, <2>3, <2>4, <2>5, <2>6, <2>8, <2>9, <2>10, WhoMoves, Zenon
<1>4. CASE Restart
  <2>1. "idle" \in Plain /\ Well(Idle) /\ Idle \in Shape
    BY WellFresh DEF Idle, Plain, At, Named, Keyed, Timed
  <2> QED
    BY <1>4, <2>1 DEF Restart, ReqsWell
<1>5. CASE CliStep \/ (\E s \in Secrets : Expire(s)) \/ Midnight \/ Forgive \/ UNCHANGED vars
  BY <1>1, <1>5, Zenon DEF CliStep, ResetPassword, ReenrollMfa, WriteMfa, RevokeByIdentity, CliMode,
                          WriteMode, WipeSessions, Expire, Midnight, Forgive, vars
<1> QED
  BY <1>3, <1>4, <1>5, Zenon DEF Next

\* The other tables, the memory of the server and what the run has seen.
Rest ==
  /\ mode \in Mode
  /\ sessions \in [Labels -> 0 .. MaxSessions]
  /\ failures \in Nat
  /\ pending \in 0 .. MaxSecrets
  /\ minted \in 0 .. MaxSecrets
  /\ spent \in [Secrets \X Steps -> Nat]
  /\ forgotten \subseteq Secrets

\* One more, for one of those counted or for none.
LEMMA Counted ==
  ASSUME NEW D, NEW f \in [D -> Nat], NEW i
  PROVE  [f EXCEPT ![i] = f[i] + 1] \in [D -> Nat]
<1>1. CASE i \in D
  BY <1>1
<1>2. CASE i \notin D
  <2>1. [f EXCEPT ![i] = f[i] + 1] = f
    BY <1>2
  <2> QED
    BY <2>1
<1> QED
  BY <1>1, <1>2

LEMMA SessionsWritten ==
  ASSUME TypeInv, \/ \E l \in Labels \union {NoLabel} : Opens(l)
                  \/ \E S \in SUBSET Labels : Revoke(S)
                  \/ \E l \in Labels : sessions[l] > 0 /\ sessions' = [sessions EXCEPT ![l] = @ - 1]
                  \/ UNCHANGED sessions
  PROVE  sessions' \in [Labels -> 0 .. MaxSessions]
<1>0. sessions \in [Labels -> 0 .. MaxSessions] /\ MaxSessions \in Nat
  BY AuthAssumption DEF TypeInv, AuthTypeOK
<1>1. ASSUME NEW l \in Labels \union {NoLabel}, Opens(l) PROVE sessions' \in [Labels -> 0 .. MaxSessions]
  <2>1. CASE l \in Labels
    BY <1>0, <1>1, <2>1 DEF Opens
  <2>2. CASE l \notin Labels
    <3>1. [sessions EXCEPT ![l] = sessions[l] + 1] = sessions
      BY <1>0, <2>2
    <3> QED
      BY <1>0, <1>1, <3>1 DEF Opens
  <2> QED
    BY <2>1, <2>2
<1>2. ASSUME NEW S \in SUBSET Labels, Revoke(S) PROVE sessions' \in [Labels -> 0 .. MaxSessions]
  BY <1>0, <1>2 DEF Revoke
<1>3. ASSUME NEW l \in Labels, sessions[l] > 0, sessions' = [sessions EXCEPT ![l] = @ - 1]
      PROVE  sessions' \in [Labels -> 0 .. MaxSessions]
  BY <1>0, <1>3
<1> QED
  BY <1>0, <1>1, <1>2, <1>3

LEMMA MfaForgets ==
  ASSUME TypeInv, NEW l \in Labels, NEW x, NEW t, SetMfa(l, x, t)
  PROVE  forgotten' \subseteq Secrets
<1>1. ident[l].secret \in 0 .. MaxSecrets /\ forgotten \subseteq Secrets
  BY IdentTypes DEF TypeInv, AuthTypeOK
<1>2. ident[l].secret # 0 => ident[l].secret \in Secrets
  BY <1>1, AuthAssumption DEF Secrets
<1>3. forgotten' = forgotten \/ (ident[l].secret # 0 /\ forgotten' = forgotten \union {ident[l].secret})
  BY DEF SetMfa
<1> QED
  BY <1>1, <1>2, <1>3

LEMMA RestStep ==
  ASSUME TypeInv, [Next]_vars
  PROVE  Rest'
<1> USE AuthAssumption DEF Rest, tables, memory, ghosts
<1>1. Rest
  BY DEF TypeInv, AuthTypeOK
<1>2. ASSUME UNCHANGED <<mode, sessions, failures, pending, ghosts>> PROVE Rest'
  BY <1>1, <1>2
<1>3. ASSUME UNCHANGED <<mode, failures, pending, ghosts>>,
             sessions' \in [Labels -> 0 .. MaxSessions]
      PROVE  Rest'
  BY <1>1, <1>3
<1>4. ASSUME NEW r \in Reqs, SetupStep(r) PROVE Rest'
  <2>1. CASE Setup(r) \/ Confirm(r) \/ \E l \in Labels : CreateOwner(r, l)
    BY <1>2, <2>1, Zenon DEF Setup, Confirm, CreateOwner
  <2>2. CASE SetupWaits(r)
    BY <1>1, <2>2 DEF SetupWaits, Mint
  <2>3. CASE Claim(r)
    BY <1>1, <2>3 DEF Claim
  <2>4. CASE Unclaim(r)
    <3>1. req[r].secret \in 0 .. MaxSecrets
      BY OfReq DEF Shape
    <3> QED
      BY <1>1, <2>4, <3>1 DEF Unclaim
  <2>5. CASE EnrollOwner(r)
    <3>1. req[r].label \in Labels
      BY <2>5, OfReq DEF EnrollOwner, Named
    <3>2. forgotten' \subseteq Secrets
      BY <2>5, <3>1, MfaForgets DEF EnrollOwner
    <3> QED
      BY <1>1, <2>5, <3>2 DEF EnrollOwner
  <2>6. CASE SetMode(r, "locking", "locked", "setup-session")
    BY <1>1, <2>6 DEF SetMode, Mode
  <2>7. CASE OwnerSession(r)
    <3>1. req[r].label \in Labels \union {NoLabel}
      BY OfReq DEF Shape
    <3> QED
      BY <1>3, <2>7, <3>1, SessionsWritten DEF OwnerSession
  <2> QED
    BY <1>4, <2>1, <2>2, <2>3, <2>4, <2>5, <2>6, <2>7, Zenon DEF SetupStep
<1>5. ASSUME NEW r \in Reqs, LoginStep(r) PROVE Rest'
  <2>1. CASE Login(r) \/ Advance(r) \/ \E l \in Labels : Find(r, l)
    BY <1>2, <2>1, Zenon DEF Login, Advance, Find
  <2>2. CASE Invited(r)
    BY <1>1, <2>2 DEF Invited, Mint
  <2>3. CASE SignIn(r)
    <3>1. sessions' \in [Labels -> 0 .. MaxSessions]
      BY <2>3, OfReq, SessionsWritten DEF SignIn, Named
    <3>2. spent' \in [Secrets \X Steps -> Nat]
      BY <1>1, <2>3, Counted, Zenon DEF SignIn
    <3> QED
      BY <1>1, <2>3, <3>1, <3>2 DEF SignIn
  <2>4. CASE RecordFailure(r)
    BY <1>1, <2>4 DEF RecordFailure
  <2> QED
    BY <1>5, <2>1, <2>2, <2>3, <2>4, Zenon DEF LoginStep
<1>6. ASSUME NEW r \in Reqs, EnrollStep(r) PROVE Rest'
  <2>1. CASE (\E x \in Secrets : Enroll(r, x)) \/ EnrollFails(r) \/ EnrollFind(r) \/ Activate(r)
    BY <1>2, <2>1, Zenon DEF Enroll, EnrollFails, EnrollFind, Activate
  <2>2. CASE EnrollMfa(r)
    <3>1. req[r].label \in Labels
      BY <2>2, OfReq DEF EnrollMfa, Named
    <3>2. forgotten' \subseteq Secrets
      BY <2>2, <3>1, MfaForgets DEF EnrollMfa
    <3> QED
      BY <1>1, <2>2, <3>2 DEF EnrollMfa
  <2>3. CASE EnrollSession(r)
    BY <1>3, <2>3, SessionsWritten, OfReq DEF EnrollSession, Named
  <2> QED
    BY <1>6, <2>1, <2>2, <2>3, Zenon DEF EnrollStep
<1>7. ASSUME NEW r \in Reqs, GuardedStep(r) PROVE Rest'
  <2>1. CASE \E l \in Labels : Admit(r, l) \/ AskMode(r, l) \/ Invite(r, l) \/ RevokeInvite(r, l)
    BY <1>2, <2>1, Zenon DEF Admit, AskMode, Invite, RevokeInvite
  <2>2. ASSUME NEW l \in Labels, RevokeSession(r, l) PROVE Rest'
    BY <1>3, <2>2, SessionsWritten DEF RevokeSession
  <2>3. CASE RevokeAll(r) \/ SignOut(r)
    BY <1>3, <2>3, SessionsWritten DEF RevokeAll, SignOut
  <2>4. CASE DeleteSessions(r)
    BY <1>1, <2>4 DEF DeleteSessions, Revoke
  <2>5. CASE SetMode(r, "mode-authed", "open", "signing-out") \/ Relock(r)
    BY <1>1, <2>5 DEF SetMode, Relock, Mode
  <2> QED
    BY <1>7, <2>1, <2>2, <2>3, <2>4, <2>5, Zenon DEF GuardedStep
<1>8. ASSUME CliStep PROVE Rest'
  <2>1. CASE (\E l \in Labels : ResetPassword(l) \/ ReenrollMfa(l)) \/ \E m \in Mode : CliMode(m)
    BY <1>2, <2>1, Zenon DEF ResetPassword, ReenrollMfa, CliMode
  <2>2. CASE WriteMfa
    <3>1. cli.arg \in Labels
      BY <2>2 DEF WriteMfa, TypeInv, CliWell
    <3>2. forgotten' \subseteq Secrets
      BY <2>2, <3>1, MfaForgets DEF WriteMfa
    <3> QED
      BY <1>1, <2>2, <3>2 DEF WriteMfa, Mint
  <2>3. CASE RevokeByIdentity
    BY <1>1, <2>3 DEF RevokeByIdentity, Revoke
  <2>4. CASE WriteMode
    BY <1>1, <2>4 DEF WriteMode, TypeInv, CliWell
  <2>5. CASE WipeSessions
    BY <1>3, <2>5, SessionsWritten DEF WipeSessions
  <2> QED
    BY <1>8, <2>1, <2>2, <2>3, <2>4, <2>5, Zenon DEF CliStep
<1>9. CASE \E s \in Secrets : Expire(s)
  BY <1>2, <1>9, Zenon DEF Expire
<1>10. CASE Midnight
  BY <1>3, <1>10, SessionsWritten DEF Midnight
<1>11. CASE Forgive
  BY <1>1, <1>11 DEF Forgive
<1>12. CASE Restart
  BY <1>1, <1>12 DEF Restart
<1>13. CASE UNCHANGED vars
  BY <1>2, <1>13 DEF vars
<1> QED
  BY <1>4, <1>5, <1>6, <1>7, <1>8, <1>9, <1>10, <1>11, <1>12, <1>13, Zenon DEF Next, ReqStep

\* The map of enrolments: it loses entries, counts failures, and gets an entry of
\* a new secret from who was asked for a code.
Entry == [label : Labels, fails : 0 .. ENROLL_MAX_FAILS - 1]

Shrinks ==
  /\ DOMAIN enrolls' \subseteq DOMAIN enrolls
  /\ \A s \in DOMAIN enrolls' : enrolls'[s] \in Entry /\ enrolls'[s].label = enrolls[s].label

Grows(l) ==
  /\ DOMAIN enrolls' = DOMAIN enrolls \union {minted + 1}
  /\ \A s \in DOMAIN enrolls' \ {minted + 1} : enrolls'[s] = enrolls[s]
  /\ enrolls'[minted + 1] = [label |-> l, fails |-> 0]

LEMMA Lost ==
  ASSUME TypeInv, \E s : enrolls' = Without(s)
  PROVE  Shrinks
BY DEF Shrinks, Without, Restrict, Entry, TypeInv, AuthTypeOK

LEMMA EnrollsStep ==
  ASSUME TypeInv, [Next]_vars
  PROVE  Shrinks \/ \E r \in Reqs : Invited(r) /\ Grows(req[r].label)
<1> USE DEF memory
<1>0. /\ DOMAIN enrolls \subseteq Secrets /\ \A s \in DOMAIN enrolls : enrolls[s] \in Entry
  BY DEF TypeInv, AuthTypeOK, Entry
<1>1. ASSUME UNCHANGED enrolls PROVE Shrinks
  BY <1>0, <1>1 DEF Shrinks
<1>2. ASSUME NEW r \in Reqs, SetupStep(r) PROVE UNCHANGED enrolls
  BY <1>2, Zenon DEF SetupStep, Setup, SetupWaits, Confirm, Claim, Unclaim, CreateOwner, EnrollOwner, SetMode, OwnerSession
<1>3. ASSUME NEW r \in Reqs, LoginStep(r) PROVE UNCHANGED enrolls \/ Invited(r)
  BY <1>3, Zenon DEF LoginStep, Login, Find, Advance, SignIn, RecordFailure
<1>4. ASSUME NEW r \in Reqs, EnrollStep(r)
      PROVE  UNCHANGED enrolls \/ EnrollFails(r) \/ \E s : enrolls' = Without(s)
  BY <1>4, Zenon DEF EnrollStep, Enroll, EnrollFind, EnrollMfa, Activate, EnrollSession
<1>5. ASSUME NEW r \in Reqs, GuardedStep(r) PROVE UNCHANGED enrolls
  BY <1>5, Zenon DEF GuardedStep, Admit, RevokeSession, AskMode, Invite, RevokeInvite,
                     DeleteSessions, RevokeAll, SetMode, SignOut, Relock
<1>6. ASSUME CliStep \/ (\E s \in Secrets : Expire(s)) \/ Midnight \/ Forgive \/ UNCHANGED vars
      PROVE  UNCHANGED enrolls \/ \E s : enrolls' = Without(s)
  BY <1>6, Zenon DEF CliStep, ResetPassword, ReenrollMfa, WriteMfa, RevokeByIdentity, CliMode,
                     WriteMode, WipeSessions, Expire, Midnight, Forgive, vars
<1>7. ASSUME NEW r \in Reqs, Invited(r) PROVE Grows(req[r].label)
  BY <1>7 DEF Invited, Grows
<1>8. ASSUME NEW r \in Reqs, EnrollFails(r) PROVE Shrinks
  <2> DEFINE s == req[r].secret
  <2>1. CASE s \notin DOMAIN enrolls
    BY <1>1, <1>8, <2>1 DEF EnrollFails
  <2>2. CASE s \in DOMAIN enrolls /\ enrolls[s].fails + 1 >= ENROLL_MAX_FAILS
    BY <1>8, <2>2, Lost DEF EnrollFails
  <2>3. CASE s \in DOMAIN enrolls /\ ~(enrolls[s].fails + 1 >= ENROLL_MAX_FAILS)
    <3>1. enrolls' = [enrolls EXCEPT ![s].fails = @ + 1]
      BY <1>8, <2>3 DEF EnrollFails
    <3>2. DOMAIN enrolls' = DOMAIN enrolls /\ enrolls'[s] = [enrolls[s] EXCEPT !.fails = @ + 1]
          /\ \A x \in DOMAIN enrolls \ {s} : enrolls'[x] = enrolls[x]
      BY <2>3, <3>1
    <3>3. enrolls'[s] \in Entry /\ enrolls'[s].label = enrolls[s].label
      BY <1>0, <2>3, <3>2, AuthAssumption DEF Entry
    <3> QED
      BY <1>0, <3>2, <3>3 DEF Shrinks
  <2> QED
    BY <2>1, <2>2, <2>3
<1>9. CASE Restart
  BY <1>9 DEF Restart, Shrinks
<1> QED
  BY <1>1, <1>2, <1>3, <1>4, <1>5, <1>6, <1>7, <1>8, <1>9, Lost, Zenon DEF Next, ReqStep

\* The command line moves by itself.
LEMMA CliOnly ==
  ASSUME [Next]_vars
  PROVE  CliStep \/ UNCHANGED cli
<1>1. ASSUME NEW r \in Reqs, ReqStep(r) PROVE UNCHANGED cli
  <2>1. ASSUME SetupStep(r) PROVE UNCHANGED cli
    BY <2>1, Zenon DEF SetupStep, Setup, SetupWaits, Confirm, Claim, Unclaim, CreateOwner, EnrollOwner, SetMode, OwnerSession
  <2>2. ASSUME LoginStep(r) PROVE UNCHANGED cli
    BY <2>2, Zenon DEF LoginStep, Login, Find, Invited, Advance, SignIn, RecordFailure
  <2>3. ASSUME EnrollStep(r) PROVE UNCHANGED cli
    BY <2>3, Zenon DEF EnrollStep, Enroll, EnrollFails, EnrollFind, EnrollMfa, Activate, EnrollSession
  <2>4. ASSUME GuardedStep(r) PROVE UNCHANGED cli
    BY <2>4, Zenon DEF GuardedStep, Admit, RevokeSession, AskMode, Invite, RevokeInvite,
                       DeleteSessions, RevokeAll, SetMode, SignOut, Relock
  <2> QED
    BY <1>1, <2>1, <2>2, <2>3, <2>4, Zenon DEF ReqStep
<1>2. CASE (\E s \in Secrets : Expire(s)) \/ Midnight \/ Forgive \/ Restart \/ UNCHANGED vars
  BY <1>2, Zenon DEF Expire, Midnight, Forgive, Restart, vars
<1> QED
  BY <1>1, <1>2, Zenon DEF Next

LEMMA CliTypes ==
  ASSUME TypeInv, [Next]_vars
  PROVE  /\ cli' \in [at : {"idle", "reenrolling", "revoking", "setting", "wiping"},
                      arg : Labels \union Mode \union {NoLabel}]
         /\ CliWell'
         /\ cli'.at = "reenrolling" => cli' = cli \/ (cli'.arg \in Labels /\ ident[cli'.arg] # None)
<1> DEFINE Good == /\ cli' \in [at : {"idle", "reenrolling", "revoking", "setting", "wiping"},
                                arg : Labels \union Mode \union {NoLabel}]
                   /\ CliWell'
                   /\ cli'.at = "reenrolling" => cli' = cli \/ (cli'.arg \in Labels /\ ident[cli'.arg] # None)
<1>0. /\ cli \in [at : {"idle", "reenrolling", "revoking", "setting", "wiping"},
                  arg : Labels \union Mode \union {NoLabel}]
      /\ CliWell
  BY DEF TypeInv, AuthTypeOK
<1>1. ASSUME UNCHANGED cli PROVE Good
  BY <1>0, <1>1 DEF CliWell
<1>2. ASSUME NEW l \in Labels, ResetPassword(l) \/ ReenrollMfa(l) PROVE Good
  <2>1. ident[l] # None
    BY <1>2 DEF ResetPassword, ReenrollMfa, Mutable, None
  <2> QED
    BY <1>2, <2>1 DEF ResetPassword, ReenrollMfa, CliIs, CliWell
<1>3. CASE WriteMfa
  BY <1>0, <1>3 DEF WriteMfa, CliIs, CliWell
<1>4. ASSUME cli' = Free PROVE Good
  BY <1>4 DEF Free, CliWell
<1>5. ASSUME NEW m \in Mode, CliMode(m) PROVE Good
  BY <1>5 DEF CliMode, CliIs, CliWell
<1>6. CASE WriteMode
  <2>1. cli' = Free \/ cli' = [cli EXCEPT !.at = "wiping"]
    BY <1>6 DEF WriteMode
  <2>2. CASE cli' = [cli EXCEPT !.at = "wiping"]
    BY <1>0, <2>2 DEF CliWell
  <2> QED
    BY <1>4, <2>1, <2>2
<1>7. CASE CliStep
  BY <1>2, <1>3, <1>4, <1>5, <1>6, <1>7, Zenon DEF CliStep, RevokeByIdentity, WipeSessions
<1> QED
  BY <1>1, <1>7, CliOnly

\* Where a request may be after a step of its own, with what it then keeps.
Keeps(r, w) ==
  /\ req'[r].at = w /\ req'[r].label = req[r].label
  /\ req'[r].secret = req[r].secret /\ req'[r].step = req[r].step /\ req'[r].saw = req[r].saw

IsNow(r, w, l, x, s) ==
  req'[r].at = w /\ req'[r].label = l /\ req'[r].secret = x /\ req'[r].step = s

LEMMA Moved ==
  ASSUME TypeInv, NEW r \in Reqs, ReqStep(r)
  PROVE  /\ \A p \in Reqs \ {r} : req'[p] = req[p]
         /\ \/ req'[r].at \in Plain
            \/ Claim(r) /\ pending # 0 /\ IsNow(r, "verifying", NoLabel, pending, 0)
            \/ \E l \in Labels, s \in Steps :
                 CreateOwner(r, l) /\ ident[l] = None /\ IsNow(r, "creating", l, req[r].secret, s)
            \/ \E l \in Labels : Find(r, l) /\ ident[l].status = "invited" /\ IsNow(r, "checking", l, 0, 0)
            \/ \E l \in Labels, s \in Steps :
                 /\ Find(r, l) /\ ident[l].status = "active" /\ s > ident[l].last
                 /\ IsNow(r, "advancing", l, ident[l].secret, s)
            \/ \E x \in DOMAIN enrolls : Enroll(r, x) /\ IsNow(r, "enroll-verifying", enrolls[x].label, x, 0)
            \/ /\ EnrollFind(r) /\ ident[req[r].label].status = "invited"
               /\ \E s \in Steps : IsNow(r, "enrolling", req[r].label, req[r].secret, s)
               /\ req'[r].saw = "invited"
            \/ EnrollOwner(r) /\ IsNow(r, "locking", req[r].label, 0, 0)
            \/ EnrollMfa(r) /\ Keeps(r, "activating")
            \/ Activate(r) /\ Keeps(r, "enroll-session")
            \/ Advance(r) /\ ident[req[r].label].last < req[r].step /\ Keeps(r, "login-session")
<1> DEFINE Sole == \A p \in Reqs \ {r} : req'[p] = req[p]
<1>0. req \in [Reqs -> Shape] /\ req[r] \in Shape /\ ReqsWell
  BY OfReq DEF TypeInv, ReqsWell
<1>1. ASSUME NEW q, Becomes(r, q) PROVE Sole /\ req'[r] = q
  BY <1>0, <1>1 DEF Becomes
<1>2. ASSUME PlainMove(r) PROVE Sole /\ req'[r].at \in Plain
  BY <1>1, <1>2 DEF PlainMove
<1>3. ASSUME NEW w, NEW l, NEW x, NEW s, Becomes(r, With(w, l, x, s))
      PROVE  Sole /\ IsNow(r, w, l, x, s)
  BY <1>1, <1>3 DEF With, IsNow
<1>4. ASSUME NEW w, Goes(r, w) PROVE Sole /\ Keeps(r, w)
  BY <1>0, <1>1, <1>4 DEF Goes, Keeps, Shape
<1>5. Ends(r) \/ Fails(r) => Sole /\ req'[r].at \in Plain
  BY <1>0, <1>2, PlainMoves
<1>6. ASSUME NEW l \in Labels, CreateOwner(r, l)
      PROVE  /\ Sole
             /\ \/ req'[r].at \in Plain
                \/ \E s \in Steps : ident[l] = None /\ IsNow(r, "creating", l, req[r].secret, s)
  <2>1. \/ Ends(r)
        \/ ident[l] = None /\ \E s \in Steps : Becomes(r, With("creating", l, req[r].secret, s))
    BY <1>6, Zenon DEF CreateOwner
  <2> QED
    BY <1>3, <1>5, <2>1
<1>7. ASSUME NEW l \in Labels, Find(r, l)
      PROVE  /\ Sole
             /\ \/ req'[r].at \in Plain
                \/ ident[l].status = "invited" /\ IsNow(r, "checking", l, 0, 0)
                \/ \E s \in Steps : /\ ident[l].status = "active" /\ s > ident[l].last
                                    /\ IsNow(r, "advancing", l, ident[l].secret, s)
  <2>1. \/ Fails(r)
        \/ ident[l].status = "invited" /\ Becomes(r, With("checking", l, 0, 0))
        \/ /\ ident[l].status = "active"
           /\ \E s \in Steps : s > ident[l].last /\ Becomes(r, With("advancing", l, ident[l].secret, s))
    BY <1>7, Zenon DEF Find, Fresh
  <2> QED
    BY <1>3, <1>5, <2>1
<1>8. ASSUME NEW x \in Secrets, Enroll(r, x)
      PROVE  Sole /\ x \in DOMAIN enrolls /\ IsNow(r, "enroll-verifying", enrolls[x].label, x, 0)
  BY <1>3, <1>8 DEF Enroll
<1>9. ASSUME EnrollFind(r)
      PROVE  /\ Sole
             /\ \/ req'[r].at \in Plain
                \/ /\ ident[req[r].label].status = "invited" /\ req'[r].saw = "invited"
                   /\ \E s \in Steps : IsNow(r, "enrolling", req[r].label, req[r].secret, s)
  <2>1. \/ Ends(r)
        \/ /\ ident[req[r].label].status = "invited"
           /\ \E s \in Steps : Becomes(r, [With("enrolling", req[r].label, req[r].secret, s)
                                             EXCEPT !.saw = ident[req[r].label].status])
    BY <1>9, Zenon DEF EnrollFind
  <2>2. ASSUME NEW s \in Steps, NEW u,
               Becomes(r, [With("enrolling", req[r].label, req[r].secret, s) EXCEPT !.saw = u])
        PROVE  Sole /\ IsNow(r, "enrolling", req[r].label, req[r].secret, s) /\ req'[r].saw = u
    BY <1>1, <2>2 DEF With, IsNow
  <2> QED
    BY <1>5, <2>1, <2>2
<1>10. EnrollMfa(r) => Sole /\ Keeps(r, "activating")
  BY <1>4 DEF EnrollMfa
<1>11. Activate(r) => Sole /\ Keeps(r, "enroll-session")
  BY <1>4 DEF Activate
<1>12. ASSUME Advance(r)
       PROVE  /\ Sole
              /\ \/ req'[r].at \in Plain
                 \/ ident[req[r].label].last < req[r].step /\ Keeps(r, "login-session")
  <2>1. \/ Fails(r)
        \/ ident[req[r].label].last < req[r].step /\ Goes(r, "login-session")
    BY <1>12, Zenon DEF Advance
  <2> QED
    BY <1>4, <1>5, <2>1
<1>13. Becomes(r, With("verifying", NoLabel, pending, 0)) => Sole /\ IsNow(r, "verifying", NoLabel, pending, 0)
  BY <1>3
<1>14. EnrollOwner(r) => Sole /\ IsNow(r, "locking", req[r].label, 0, 0)
  BY <1>3 DEF EnrollOwner, Waits, Fresh
<1> HIDE DEF Sole
<1>15. Sole
  BY <1>0, <1>2, <1>6, <1>7, <1>8, <1>9, <1>10, <1>11, <1>12, <1>13, <1>14, WhoMoves, Zenon
<1> QED
  BY <1>0, <1>2, <1>6, <1>7, <1>8, <1>9, <1>10, <1>11, <1>12, <1>13, <1>14, <1>15, WhoMoves, Zenon DEF Sole

LEMMA KnownStep ==
  ASSUME TypeInv, [Next]_vars
  PROVE  Known'
<1>0. /\ \A l \in Labels : ident[l] # None => ident'[l] # None
      /\ Known /\ ReqsWell /\ CliWell
  BY RowsStep DEF TypeInv
<1>1. \A p \in Reqs : req'[p] = req[p] /\ req'[p].at \in Named => ident'[req'[p].label] # None
  BY <1>0 DEF Known, ReqsWell, Well
<1>2. ASSUME NEW r \in Reqs, ReqStep(r), req'[r].at \in Named
      PROVE  ident'[req'[r].label] # None
  <2>1. req'[r].at \notin Plain
    BY <1>2 DEF Plain
  <2>2. ASSUME req[r].at \in Named, req'[r].label = req[r].label PROVE ident'[req'[r].label] # None
    BY <1>0, <2>2, OfReq DEF Known
  <2>3. ASSUME NEW l \in Labels, ident[l].status \in Status, req'[r].label = l PROVE ident'[req'[r].label] # None
    BY <1>0, <2>3 DEF None, Status
  <2>4. ASSUME NEW x \in DOMAIN enrolls, req'[r].label = enrolls[x].label PROVE ident'[req'[r].label] # None
    BY <1>0, <2>4 DEF Known, TypeInv, AuthTypeOK
  <2>5. ASSUME NEW l \in Labels, CreateOwner(r, l), ident[l] = None, req'[r].label = l, req'[r].at = "creating"
        PROVE  ident'[req'[r].label] # None
    <3>1. Writes(l, [role |-> "owner", status |-> "active", secret |-> req[r].secret, last |-> 0])
      BY <2>5, Zenon DEF CreateOwner
    <3>2. ident'[l] = [role |-> "owner", status |-> "active", secret |-> req[r].secret, last |-> 0]
      BY <3>1 DEF Writes, TypeInv, AuthTypeOK
    <3> QED
      BY <2>5, <3>2 DEF None
  <2>6. "verifying" \notin Named /\ {"invited", "active"} \subseteq Status
    BY DEF Named, Status
  <2>7. EnrollFind(r) \/ EnrollMfa(r) \/ Activate(r) \/ Advance(r) \/ EnrollOwner(r) => req[r].at \in Named
    BY DEF EnrollFind, EnrollMfa, Activate, Advance, EnrollOwner, Named
  <2> QED
    BY <1>2, <2>1, <2>2, <2>3, <2>4, <2>5, <2>6, <2>7, Moved DEF IsNow, Keeps
<1>3. \A r \in Reqs : req'[r].at \in Named => ident'[req'[r].label] # None
  <2>1. ASSUME NEW r \in Reqs, ReqStep(r) PROVE \A p \in Reqs \ {r} : req'[p] = req[p]
    BY <2>1, Moved
  <2>2. CASE UNCHANGED req
    BY <1>1, <2>2
  <2>3. CASE Restart
    BY <2>3 DEF Restart, Idle, Fresh, With, Named
  <2>4. ASSUME CliStep \/ (\E s \in Secrets : Expire(s)) \/ Midnight \/ Forgive \/ UNCHANGED vars
        PROVE  UNCHANGED req
    BY <2>4, Zenon DEF CliStep, ResetPassword, ReenrollMfa, WriteMfa, RevokeByIdentity, CliMode,
                       WriteMode, WipeSessions, Expire, Midnight, Forgive, vars
  <2> QED
    BY <1>1, <1>2, <2>1, <2>2, <2>3, <2>4, Zenon DEF Next
<1>4. \A s \in DOMAIN enrolls' : ident'[enrolls'[s].label] # None
  <2>1. ASSUME Shrinks PROVE \A s \in DOMAIN enrolls' : ident'[enrolls'[s].label] # None
    BY <1>0, <2>1 DEF Shrinks, Known, Entry
  <2>2. ASSUME NEW r \in Reqs, Invited(r), Grows(req[r].label)
        PROVE  \A s \in DOMAIN enrolls' : ident'[enrolls'[s].label] # None
    <3>1. req[r].at \in Named
      BY <2>2 DEF Invited, Named
    <3>2. ident'[req[r].label] # None
      BY <1>0, <3>1, OfReq DEF Known
    <3>3. \A s \in DOMAIN enrolls : enrolls[s].label \in Labels
      BY DEF TypeInv, AuthTypeOK
    <3> QED
      BY <1>0, <2>2, <3>2, <3>3 DEF Grows, Known
  <2> QED
    BY <2>1, <2>2, EnrollsStep
<1>5. cli'.at = "reenrolling" => ident'[cli'.arg] # None
  BY <1>0, CliTypes DEF CliWell, Known
<1> QED
  BY <1>3, <1>4, <1>5 DEF Known

LEMMA TypeStep ==
  ASSUME TypeInv, [Next]_vars
  PROVE  TypeInv'
<1>1. Rest' /\ ident' \in [Labels -> Row \union {None}] /\ ReqsWell' /\ Known'
  BY RestStep, RowsStep, ReqsStep, KnownStep
<1>2. DOMAIN enrolls' \subseteq Secrets /\ \A s \in DOMAIN enrolls' : enrolls'[s] \in Entry
  <2>1. DOMAIN enrolls \subseteq Secrets /\ \A s \in DOMAIN enrolls : enrolls[s] \in Entry
    BY DEF TypeInv, AuthTypeOK, Entry
  <2>2. CASE Shrinks
    BY <2>1, <2>2 DEF Shrinks
  <2>3. ASSUME NEW r \in Reqs, Invited(r), Grows(req[r].label)
        PROVE  DOMAIN enrolls' \subseteq Secrets /\ \A s \in DOMAIN enrolls' : enrolls'[s] \in Entry
    <3>1. minted + 1 \in Secrets
      BY <2>3, AuthAssumption DEF Invited, Mint, Secrets, TypeInv, AuthTypeOK
    <3>2. [label |-> req[r].label, fails |-> 0] \in Entry
      BY <2>3, OfReq, AuthAssumption DEF Invited, Named, Entry
    <3> QED
      BY <2>1, <2>3, <3>1, <3>2 DEF Grows
  <2> QED
    BY <2>2, <2>3, EnrollsStep
<1>3. req' \in [Reqs -> Shape]
  BY <1>1 DEF ReqsWell
<1> QED
  BY <1>1, <1>2, <1>3, CliTypes DEF TypeInv, AuthTypeOK, Rest, Entry, Shape

\* Every value has its type, and every request and command names rows that are there.
THEOREM TypesHold == Spec => []TypeInv
<1>1. TypeInv /\ [Next]_vars => TypeInv'
  BY TypeStep
<1> QED
  BY <1>1, TypeInit, PTL DEF Spec

-----------------------------------------------------------------------------
(* A set-up is confirmed once.                                             *)

LEMMA WhoSteps ==
  ASSUME [Next]_vars
  PROVE  (\E r \in Reqs : ReqStep(r)) \/ Restart \/ UNCHANGED <<req, pending, spent>>
<1>1. ASSUME CliStep \/ (\E s \in Secrets : Expire(s)) \/ Midnight \/ Forgive \/ UNCHANGED vars
      PROVE  UNCHANGED <<req, pending, spent>>
  BY <1>1, Zenon DEF CliStep, ResetPassword, ReenrollMfa, WriteMfa, RevokeByIdentity, CliMode,
                     WriteMode, WipeSessions, Expire, Midnight, Forgive, vars, memory, ghosts
<1> QED
  BY <1>1, Zenon DEF Next

\* Secrets are made one by one.
LEMMA MintedGrows ==
  ASSUME TypeInv, [Next]_vars
  PROVE  minted' = minted \/ minted' = minted + 1
<1>1. ASSUME NEW r \in Reqs, ReqStep(r)
      PROVE  minted' = minted \/ Mint
  <2>1. ASSUME SetupStep(r) PROVE minted' = minted \/ Mint
    BY <2>1, Zenon DEF SetupStep, Setup, SetupWaits, Confirm, Claim, Unclaim, CreateOwner, EnrollOwner,
                       SetMode, OwnerSession, ghosts
  <2>2. ASSUME LoginStep(r) PROVE minted' = minted \/ Mint
    BY <2>2, Zenon DEF LoginStep, Login, Find, Invited, Advance, SignIn, RecordFailure, ghosts
  <2>3. ASSUME EnrollStep(r) PROVE minted' = minted \/ Mint
    BY <2>3, Zenon DEF EnrollStep, Enroll, EnrollFails, EnrollFind, EnrollMfa, Activate, EnrollSession, ghosts
  <2>4. ASSUME GuardedStep(r) PROVE minted' = minted \/ Mint
    BY <2>4, Zenon DEF GuardedStep, Admit, RevokeSession, AskMode, Invite, RevokeInvite,
                       DeleteSessions, RevokeAll, SetMode, SignOut, Relock, ghosts
  <2> QED
    BY <1>1, <2>1, <2>2, <2>3, <2>4, Zenon DEF ReqStep
<1>2. ASSUME CliStep \/ (\E s \in Secrets : Expire(s)) \/ Midnight \/ Forgive \/ Restart \/ UNCHANGED vars
      PROVE  minted' = minted \/ Mint
  BY <1>2, Zenon DEF CliStep, ResetPassword, ReenrollMfa, WriteMfa, RevokeByIdentity, CliMode,
                     WriteMode, WipeSessions, Expire, Midnight, Forgive, Restart, vars, ghosts
<1>3. minted' = minted \/ Mint
  BY <1>1, <1>2, Zenon DEF Next
<1> QED
  BY <1>3 DEF Mint

\* What becomes of the set-up that waits.
LEMMA PendingMoves ==
  ASSUME NEW r \in Reqs, ReqStep(r)
  PROVE  \/ UNCHANGED pending
         \/ Claim(r) /\ pending' = 0
         \/ SetupWaits(r) /\ Ends(r) /\ pending' = minted + 1 /\ minted' = minted + 1
         \/ Unclaim(r) /\ Ends(r) /\ pending = 0 /\ pending' = req[r].secret /\ req[r].at = "verifying"
<1>1. ASSUME SetupStep(r)
      PROVE  UNCHANGED pending \/ Claim(r) \/ SetupWaits(r) \/ Unclaim(r)
  BY <1>1, Zenon DEF SetupStep, Setup, Confirm, CreateOwner, EnrollOwner, SetMode, OwnerSession, memory
<1>2. ASSUME LoginStep(r) PROVE UNCHANGED pending
  BY <1>2, Zenon DEF LoginStep, Login, Find, Invited, Advance, SignIn, RecordFailure, memory
<1>3. ASSUME EnrollStep(r) PROVE UNCHANGED pending
  BY <1>3, Zenon DEF EnrollStep, Enroll, EnrollFails, EnrollFind, EnrollMfa, Activate, EnrollSession, memory
<1>4. ASSUME GuardedStep(r) PROVE UNCHANGED pending
  BY <1>4, Zenon DEF GuardedStep, Admit, RevokeSession, AskMode, Invite, RevokeInvite,
                     DeleteSessions, RevokeAll, SetMode, SignOut, Relock, memory
<1>5. Claim(r) => pending' = 0
  BY DEF Claim
<1>6. SetupWaits(r) => Ends(r) /\ pending' = minted + 1 /\ minted' = minted + 1
  BY DEF SetupWaits, Mint
<1>7. Unclaim(r) => Ends(r) /\ (UNCHANGED pending \/ (pending = 0 /\ pending' = req[r].secret)) /\ req[r].at = "verifying"
  BY DEF Unclaim
<1> QED
  BY <1>1, <1>2, <1>3, <1>4, <1>5, <1>6, <1>7, Zenon DEF ReqStep

\* The secret of a set-up is one that was made before.
Made ==
  /\ pending <= minted
  /\ \A r \in Reqs : req[r].at \in Claimed => req[r].secret <= minted

ClaimInv == TypeInv /\ ClaimIsExclusive /\ Made

LEMMA ClaimInit == Init => ClaimInv
<1> SUFFICES ASSUME Init PROVE ClaimInv
  OBVIOUS
<1>1. \A r \in Reqs : req[r].at \notin Claimed
  BY DEF Init, Idle, Fresh, With, Claimed
<1>2. pending <= minted
  BY DEF Init
<1> QED
  BY <1>1, <1>2, TypeInit DEF ClaimInv, ClaimIsExclusive, Made

LEMMA ClaimStep ==
  ASSUME ClaimInv, [Next]_vars
  PROVE  ClaimInv'
<1>1. TypeInv /\ TypeInv' /\ ClaimIsExclusive /\ Made
  BY TypeStep DEF ClaimInv
<1>2. /\ minted \in Nat /\ minted' \in Nat /\ minted <= minted'
      /\ pending \in Nat /\ pending' \in Nat
      /\ \A r \in Reqs : req[r].secret \in Nat /\ req'[r].secret \in Nat
  <2>1. /\ minted \in 0 .. MaxSecrets /\ minted' \in 0 .. MaxSecrets
        /\ pending \in 0 .. MaxSecrets /\ pending' \in 0 .. MaxSecrets
        /\ \A r \in Reqs : req[r].secret \in 0 .. MaxSecrets /\ req'[r].secret \in 0 .. MaxSecrets
    BY <1>1 DEF TypeInv, AuthTypeOK
  <2> QED
    BY <1>1, <2>1, MintedGrows
<1>3. \A r \in Reqs : req[r].at \in Claimed => req[r].secret \in Secrets
  BY <1>1, OfReq DEF Claimed, Keyed
<1> DEFINE Good == ClaimIsExclusive' /\ Made'
<1>4. ASSUME UNCHANGED <<req, pending>> PROVE Good
  BY <1>1, <1>2, <1>4 DEF ClaimIsExclusive, Made
<1>5. ASSUME Restart PROVE Good
  <2>1. \A r \in Reqs : req'[r].at \notin Claimed
    BY <1>5 DEF Restart, Idle, Fresh, With, Claimed
  <2>2. pending' = 0
    BY <1>5 DEF Restart
  <2> QED
    BY <1>2, <2>1, <2>2 DEF ClaimIsExclusive, Made
<1>6. ASSUME NEW r \in Reqs, ReqStep(r) PROVE Good
  <2>1. \A p \in Reqs \ {r} : req'[p] = req[p]
    BY <1>1, <1>6, Moved
  <2>2. ASSUME Ends(r) PROVE req'[r].at \notin Claimed
    BY <1>1, <2>2 DEF Ends, Becomes, Idle, Fresh, With, Claimed, TypeInv, AuthTypeOK
  <2>3. \/ req'[r].at \notin Claimed
        \/ Claim(r) /\ pending # 0 /\ IsNow(r, "verifying", NoLabel, pending, 0)
        \/ req[r].at = "verifying" /\ req'[r].at = "creating" /\ req'[r].secret = req[r].secret
    BY <1>1, <1>6, Moved DEF IsNow, Keeps, Claimed, Plain, Keyed, CreateOwner
  <2>4. \/ UNCHANGED pending
        \/ pending' = 0
        \/ req'[r].at \notin Claimed /\ pending' = minted + 1 /\ minted' = minted + 1
        \/ /\ req'[r].at \notin Claimed /\ req[r].at = "verifying"
           /\ pending = 0 /\ pending' = req[r].secret
    BY <1>6, <2>2, PendingMoves
  <2>5. CASE req'[r].at \notin Claimed
    <3>1. /\ \A p \in Reqs : req'[p].at \in Claimed => p # r /\ req'[p] = req[p]
      BY <2>1, <2>5
    <3>2. \A p \in Reqs : req'[p].at \in Claimed => req'[p].secret # pending'
      BY <1>1, <1>2, <1>3, <2>4, <3>1 DEF ClaimIsExclusive, Made, Claimed, Secrets
    <3>3. Made'
      BY <1>1, <1>2, <2>4, <3>1 DEF Made, Claimed
    <3> QED
      BY <1>1, <3>1, <3>2, <3>3 DEF ClaimIsExclusive
  <2>6. CASE Claim(r) /\ pending # 0 /\ IsNow(r, "verifying", NoLabel, pending, 0)
    <3>1. pending' = 0 /\ req'[r].secret = pending
      BY <2>6 DEF Claim, IsNow
    <3> QED
      BY <1>1, <1>2, <1>3, <2>1, <2>6, <3>1 DEF ClaimIsExclusive, Made, Secrets
  <2>7. CASE req[r].at = "verifying" /\ req'[r].at = "creating" /\ req'[r].secret = req[r].secret
    <3>1. \A p \in Reqs : req'[p].at \in Claimed => req[p].at \in Claimed /\ req'[p].secret = req[p].secret
      BY <2>1, <2>7 DEF Claimed
    <3>2. UNCHANGED pending \/ pending' = 0
      BY <2>4, <2>7 DEF Claimed
    <3> QED
      BY <1>1, <1>2, <1>3, <3>1, <3>2 DEF ClaimIsExclusive, Made, Secrets
  <2> QED
    BY <2>3, <2>5, <2>6, <2>7
<1> HIDE DEF Good
<1>7. Good
  BY <1>4, <1>5, <1>6, WhoSteps
<1> QED
  BY <1>1, <1>7 DEF ClaimInv, Good

\* A set-up being confirmed is in one request's hands and waits for no other:
\* however many confirm at once, it makes one owner.
THEOREM OneConfirms == Spec => []ClaimIsExclusive
<1>1. ClaimInv /\ [Next]_vars => ClaimInv'
  BY ClaimStep
<1>2. ClaimInv => ClaimIsExclusive
  BY DEF ClaimInv
<1> QED
  BY <1>1, <1>2, ClaimInit, PTL DEF Spec

-----------------------------------------------------------------------------
(* What a step does to the row of a label.                                 *)

Born(l, role, status, x) ==
  /\ ident[l] = None
  /\ ident'[l].role = role /\ ident'[l].status = status /\ ident'[l].secret = x /\ ident'[l].last = 0

\* A secret and a last step, whoever writes them.
Enrolled(l, x, t) ==
  /\ ident'[l].role = ident[l].role /\ ident'[l].status = ident[l].status
  /\ ident'[l].secret = x /\ ident'[l].last = t
  /\ \A m \in Labels \ {l} : ident'[m] = ident[m]

SameSecret(l) ==
  ident'[l].role = ident[l].role /\ ident'[l].secret = ident[l].secret

LEMMA RowMoves ==
  ASSUME TypeInv, [Next]_vars, NEW l \in Labels
  PROVE  \/ ident'[l] = ident[l]
         \/ \E r \in Reqs : CreateOwner(r, l) /\ Born(l, "owner", "active", req[r].secret) /\ req[r].secret \in Secrets
         \/ Born(l, "invitee", "invited", 0)
         \/ \E r \in Reqs : /\ EnrollOwner(r) \/ EnrollMfa(r)
                            /\ l = req[r].label /\ Enrolled(l, req[r].secret, req[r].step)
                            /\ req[r].secret \in Secrets /\ SetMfa(l, req[r].secret, req[r].step)
         \/ WriteMfa /\ l = cli.arg /\ Enrolled(l, minted + 1, 0) /\ minted + 1 \in Secrets /\ SetMfa(l, minted + 1, 0)
         \/ /\ ident[l].role = "invitee" /\ SameSecret(l) /\ ident'[l].last = ident[l].last
            /\ ident'[l].status = "revoked"
         \/ \E r \in Reqs : /\ Activate(r) /\ l = req[r].label
                            /\ SameSecret(l) /\ ident'[l].last = ident[l].last /\ ident'[l].status = "active"
         \/ \E r \in Reqs : /\ Advance(r) /\ l = req[r].label
                            /\ SameSecret(l) /\ ident'[l].status = ident[l].status
                            /\ ident'[l].last = req[r].step /\ ident[l].last < req[r].step
<1>0. ident \in [Labels -> Row \union {None}] /\ \A m \in Labels : ident[m] # None => ident[m] \in Row
  BY DEF TypeInv, AuthTypeOK
<1>1. ASSUME NEW m \in Labels, NEW v, Writes(m, v), m # l PROVE ident'[l] = ident[l]
  BY <1>0, <1>1 DEF Writes
<1>2. ASSUME NEW v, Writes(l, v) PROVE ident'[l] = v
  BY <1>0, <1>2 DEF Writes
<1>3. CASE UNCHANGED ident
  BY <1>3
<1>4. ASSUME NEW r \in Reqs, NEW m \in Labels, CreateOwner(r, m)
      PROVE  \/ ident'[l] = ident[l]
             \/ CreateOwner(r, l) /\ Born(l, "owner", "active", req[r].secret) /\ req[r].secret \in Secrets
  <2> DEFINE v == [role |-> "owner", status |-> "active", secret |-> req[r].secret, last |-> 0]
  <2>1. UNCHANGED ident \/ (ident[m] = None /\ Writes(m, v))
    BY <1>4, Zenon DEF CreateOwner
  <2>2. req[r].secret \in Secrets
    BY <1>4, OfReq DEF CreateOwner, Keyed
  <2>3. CASE m = l /\ ident[l] = None /\ ident'[l] = v
    BY <1>4, <2>2, <2>3 DEF Born
  <2> QED
    BY <1>1, <1>2, <2>1, <2>3
<1>5. ASSUME NEW r \in Reqs, NEW m \in Labels, Invite(r, m)
      PROVE  ident'[l] = ident[l] \/ Born(l, "invitee", "invited", 0)
  <2> DEFINE v == [role |-> "invitee", status |-> "invited", secret |-> 0, last |-> 0]
  <2>1. ident[m] = None /\ Writes(m, v)
    BY <1>5, Zenon DEF Invite
  <2>2. CASE m = l /\ ident[l] = None /\ ident'[l] = v
    BY <2>2 DEF Born
  <2> QED
    BY <1>1, <1>2, <2>1, <2>2
<1>6. ASSUME NEW r \in Reqs, NEW m \in Labels, RevokeInvite(r, m)
      PROVE  \/ ident'[l] = ident[l]
             \/ /\ ident[l].role = "invitee" /\ SameSecret(l) /\ ident'[l].last = ident[l].last
                /\ ident'[l].status = "revoked"
  <2> DEFINE v == [ident[m] EXCEPT !.status = "revoked"]
  <2>1. ident[m].role = "invitee" /\ Writes(m, v)
    BY <1>6, Zenon DEF RevokeInvite
  <2>2. CASE m = l
    <3>1. ident[l] \in Row /\ ident'[l] = [ident[l] EXCEPT !.status = "revoked"]
      BY <1>0, <1>2, <2>1, <2>2 DEF None
    <3> QED
      BY <2>1, <2>2, <3>1 DEF Row, SameSecret
  <2> QED
    BY <1>1, <2>1, <2>2
<1>7. ASSUME NEW r \in Reqs, Advance(r)
      PROVE  \/ ident'[l] = ident[l]
             \/ /\ l = req[r].label /\ SameSecret(l) /\ ident'[l].status = ident[l].status
                /\ ident'[l].last = req[r].step /\ ident[l].last < req[r].step
  <2> DEFINE m == req[r].label
             v == [ident[m] EXCEPT !.last = req[r].step]
  <2>1. UNCHANGED ident \/ (ident[m].last < req[r].step /\ Writes(m, v))
    BY <1>7, Zenon DEF Advance
  <2>2. m \in Labels /\ ident[m] \in Row
    BY <1>7, OfReq DEF Advance, Named
  <2>3. CASE m = l /\ ident[m].last < req[r].step /\ Writes(m, v)
    <3>1. ident[l] \in Row /\ ident'[l] = [ident[l] EXCEPT !.last = req[r].step]
      BY <1>2, <2>2, <2>3
    <3> QED
      BY <2>3, <3>1 DEF Row, SameSecret
  <2> QED
    BY <1>1, <2>1, <2>2, <2>3
<1>8. ASSUME NEW r \in Reqs, Activate(r)
      PROVE  \/ ident'[l] = ident[l]
             \/ /\ l = req[r].label /\ SameSecret(l) /\ ident'[l].last = ident[l].last
                /\ ident'[l].status = "active"
  <2> DEFINE m == req[r].label
             v == [ident[m] EXCEPT !.status = "active"]
  <2>1. Writes(m, v)
    BY <1>8, Zenon DEF Activate
  <2>2. m \in Labels /\ ident[m] \in Row
    BY <1>8, OfReq DEF Activate, Named
  <2>3. CASE m = l
    <3>1. ident[l] \in Row /\ ident'[l] = [ident[l] EXCEPT !.status = "active"]
      BY <1>2, <2>1, <2>2, <2>3
    <3> QED
      BY <2>3, <3>1 DEF Row, SameSecret
  <2> QED
    BY <1>1, <2>1, <2>2, <2>3
<1>9. ASSUME NEW m \in Labels, ident[m] # None, NEW x \in Secrets, NEW t \in 0 .. MaxStep, SetMfa(m, x, t)
      PROVE  ident'[l] = ident[l] \/ (l = m /\ Enrolled(l, x, t))
  BY <1>9, MfaWritten DEF Enrolled
<1>10. ASSUME NEW r \in Reqs, EnrollOwner(r) \/ EnrollMfa(r)
       PROVE  \/ ident'[l] = ident[l]
              \/ /\ l = req[r].label /\ Enrolled(l, req[r].secret, req[r].step)
                 /\ req[r].secret \in Secrets /\ SetMfa(l, req[r].secret, req[r].step)
  <2>1. req[r].at \in Named /\ req[r].at \in Keyed /\ req[r].at \in Timed
        /\ SetMfa(req[r].label, req[r].secret, req[r].step)
    BY <1>10 DEF EnrollOwner, EnrollMfa, Named, Timed, Keyed
  <2>2. /\ req[r].label \in Labels /\ ident[req[r].label] # None
        /\ req[r].secret \in Secrets /\ req[r].step \in 0 .. MaxStep
    BY <2>1, OfReq, NoneIsNoRow
  <2> QED
    BY <1>9, <2>1, <2>2
<1>11. ASSUME WriteMfa
       PROVE  \/ ident'[l] = ident[l]
              \/ /\ l = cli.arg /\ Enrolled(l, minted + 1, 0) /\ minted + 1 \in Secrets
                 /\ SetMfa(l, minted + 1, 0)
  <2>1. cli.arg \in Labels /\ ident[cli.arg] # None /\ SetMfa(cli.arg, minted + 1, 0)
    BY <1>11 DEF WriteMfa, TypeInv, CliWell, Known
  <2>2. minted + 1 \in Secrets /\ 0 \in 0 .. MaxStep
    BY <1>11, AuthAssumption DEF WriteMfa, Mint, Secrets, TypeInv, AuthTypeOK
  <2> QED
    BY <1>9, <2>1, <2>2
<1> QED
  BY <1>3, <1>4, <1>5, <1>6, <1>7, <1>8, <1>10, <1>11, WhoWritesRows, Zenon

-----------------------------------------------------------------------------
(* Nobody comes back, and nobody is shut out.                              *)

SawInvited == \A r \in Reqs : req[r].at \in {"enrolling", "activating"} => req[r].saw = "invited"

LEMMA SawStep ==
  ASSUME TypeInv, SawInvited, [Next]_vars
  PROVE  SawInvited'
<1>1. CASE UNCHANGED req
  BY <1>1 DEF SawInvited
<1>2. CASE Restart
  BY <1>2 DEF Restart, SawInvited, Idle, Fresh, With
<1>3. ASSUME NEW r \in Reqs, ReqStep(r) PROVE SawInvited'
  <2>1. req'[r].at \in {"enrolling", "activating"} => req'[r].saw = "invited"
    BY <1>3, Moved DEF IsNow, Keeps, EnrollMfa, SawInvited, Plain, Named
  <2> QED
    BY <1>3, <2>1, Moved DEF SawInvited
<1> QED
  BY <1>1, <1>2, <1>3, WhoSteps

\* A revoked identity comes back only through an enrolment that had found it
\* invited before it was revoked.
THEOREM NobodyComesBack == Spec => RevokedComesBackLate
<1> DEFINE Inv == TypeInv /\ SawInvited
           Back == \A l \in Labels :
                     ident[l].status = "revoked" /\ ident'[l].status # "revoked" =>
                       \E r \in Reqs : /\ req[r].at = "activating"
                                       /\ req[r].label = l
                                       /\ req[r].saw = "invited"
<1>1. Init => Inv
  BY TypeInit DEF Init, SawInvited, Idle, Fresh, With
<1>2. Inv /\ [Next]_vars => Inv'
  BY TypeStep, SawStep
<1>3. Inv /\ [Next]_vars => [Back]_vars
  <2> SUFFICES ASSUME Inv, [Next]_vars, NEW l \in Labels,
                      ident[l].status = "revoked", ident'[l].status # "revoked"
               PROVE  \E r \in Reqs : req[r].at = "activating" /\ req[r].label = l /\ req[r].saw = "invited"
    OBVIOUS
  <2>1. ident[l] # None
    BY DEF None
  <2>2. \E r \in Reqs : Activate(r) /\ l = req[r].label
    BY <2>1, RowMoves DEF Born, Enrolled
  <2> QED
    BY <2>2 DEF Activate, SawInvited
<1> QED
  BY <1>1, <1>2, <1>3, PTL DEF Spec, RevokedComesBackLate

\* Whoever is an owner can sign in, and whoever locks has seen one.
Locked ==
  \/ mode = "locked"
  \/ cli.at = "setting" /\ cli.arg = "locked"
  \/ \E r \in Reqs : req[r].at = "locking"

OwnersEnter ==
  /\ \A l \in Labels : ident[l].role = "owner" => ident[l].status = "active" /\ ident[l].secret # 0
  /\ \A r \in Reqs : req[r].at = "creating" => ident[req[r].label].role = "owner"
  /\ Locked => \E l \in Labels : ident[l].role = "owner"

\* An owner stays one, and new ones have a secret.
LEMMA OwnersStay ==
  ASSUME TypeInv, OwnersEnter, [Next]_vars, NEW l \in Labels
  PROVE  /\ ident[l].role = "owner" => ident'[l].role = "owner"
         /\ ident'[l].role = "owner" => ident'[l].status = "active" /\ ident'[l].secret # 0
<1>1. ident[l] = None => ident[l].role # "owner"
  BY DEF None
<1>2. \A x \in Secrets : x # 0
  BY AuthAssumption DEF Secrets
<1> QED
  BY <1>1, <1>2, RowMoves DEF Born, Enrolled, SameSecret, OwnersEnter

LEMMA WhoLocks ==
  ASSUME [Next]_vars
  PROVE  \/ UNCHANGED mode \/ WriteMode
         \/ \E r \in Reqs : \/ SetMode(r, "locking", "locked", "setup-session")
                            \/ SetMode(r, "mode-authed", "open", "signing-out")
                            \/ Relock(r)
<1> USE DEF tables
<1>1. ASSUME NEW r \in Reqs, ReqStep(r)
      PROVE  \/ UNCHANGED mode \/ Relock(r)
             \/ SetMode(r, "locking", "locked", "setup-session")
             \/ SetMode(r, "mode-authed", "open", "signing-out")
  <2>1. ASSUME SetupStep(r) PROVE UNCHANGED mode \/ SetMode(r, "locking", "locked", "setup-session")
    BY <2>1, Zenon DEF SetupStep, Setup, SetupWaits, Confirm, Claim, Unclaim, CreateOwner, EnrollOwner, OwnerSession
  <2>2. ASSUME LoginStep(r) PROVE UNCHANGED mode
    BY <2>2, Zenon DEF LoginStep, Login, Find, Invited, Advance, SignIn, RecordFailure
  <2>3. ASSUME EnrollStep(r) PROVE UNCHANGED mode
    BY <2>3, Zenon DEF EnrollStep, Enroll, EnrollFails, EnrollFind, EnrollMfa, Activate, EnrollSession
  <2>4. ASSUME GuardedStep(r) PROVE UNCHANGED mode \/ Relock(r) \/ SetMode(r, "mode-authed", "open", "signing-out")
    BY <2>4, Zenon DEF GuardedStep, Admit, RevokeSession, AskMode, Invite, RevokeInvite,
                       DeleteSessions, RevokeAll, SignOut
  <2> QED
    BY <1>1, <2>1, <2>2, <2>3, <2>4, Zenon DEF ReqStep
<1>2. ASSUME CliStep \/ (\E s \in Secrets : Expire(s)) \/ Midnight \/ Forgive \/ Restart \/ UNCHANGED vars
      PROVE  UNCHANGED mode \/ WriteMode
  BY <1>2, Zenon DEF CliStep, ResetPassword, ReenrollMfa, WriteMfa, RevokeByIdentity, CliMode,
                     WipeSessions, Expire, Midnight, Forgive, Restart, vars
<1> QED
  BY <1>1, <1>2, Zenon DEF Next

\* How the server comes to be locked, or about to be.
LEMMA Lockers ==
  ASSUME TypeInv, OwnersEnter, [Next]_vars, Locked'
  PROVE  \/ Locked
         \/ HasOwner
         \/ \E r \in Reqs : req[r].at = "creating"
<1>1. ASSUME NEW r \in Reqs, req'[r].at = "locking", req[r].at # "locking"
      PROVE  \E p \in Reqs : req[p].at = "creating"
  <2>1. CASE Restart
    BY <1>1, <2>1 DEF Restart, Idle, Fresh, With
  <2>2. CASE UNCHANGED req
    BY <1>1, <2>2
  <2>3. ASSUME NEW p \in Reqs, ReqStep(p) PROVE req[p].at = "creating"
    <3>1. p = r
      BY <1>1, <2>3, Moved
    <3> QED
      BY <1>1, <2>3, <3>1, Moved DEF IsNow, Keeps, EnrollOwner, Plain, Named
  <2> QED
    BY <2>1, <2>2, <2>3, WhoSteps
<1>2. ASSUME cli'.at = "setting", cli'.arg = "locked"
      PROVE  cli' = cli \/ HasOwner
  <2>1. ASSUME NEW l \in Labels, ResetPassword(l) \/ ReenrollMfa(l) PROVE FALSE
    BY <1>2, <2>1 DEF ResetPassword, ReenrollMfa, CliIs
  <2>2. ASSUME WriteMfa PROVE FALSE
    BY <1>2, <2>2 DEF WriteMfa, CliIs
  <2>3. ASSUME RevokeByIdentity \/ WipeSessions PROVE FALSE
    BY <1>2, <2>3 DEF RevokeByIdentity, WipeSessions, Free
  <2>4. ASSUME NEW m \in Mode, CliMode(m) PROVE HasOwner
    BY <1>2, <2>4 DEF CliMode, CliIs
  <2>5. ASSUME WriteMode PROVE FALSE
    BY <1>2, <2>5 DEF WriteMode, Free, TypeInv, AuthTypeOK
  <2>6. CliStep \/ cli' = cli
    BY CliOnly
  <2> QED
    BY <2>1, <2>2, <2>3, <2>4, <2>5, <2>6, Zenon DEF CliStep
<1>3. ASSUME mode' = "locked", mode # "locked"
      PROVE  Locked \/ HasOwner
  BY <1>3, WhoLocks DEF SetMode, Relock, WriteMode, Locked
<1> QED
  BY <1>1, <1>2, <1>3 DEF Locked

LEMMA OwnersStep ==
  ASSUME TypeInv, OwnersEnter, [Next]_vars
  PROVE  OwnersEnter'
<1>1. \A l \in Labels : ident'[l].role = "owner" => ident'[l].status = "active" /\ ident'[l].secret # 0
  BY OwnersStay
<1>2. \A l \in Labels : ident[l].role = "owner" => ident'[l].role = "owner"
  BY OwnersStay
<1>3. ASSUME NEW r \in Reqs, req'[r].at = "creating" PROVE ident'[req'[r].label].role = "owner"
  <2>1. CASE req'[r] = req[r]
    BY <1>2, <1>3, <2>1, OfReq DEF OwnersEnter, Named
  <2>2. CASE Restart
    BY <1>3, <2>2 DEF Restart, Idle, Fresh, With
  <2>3. ASSUME NEW p \in Reqs, ReqStep(p) PROVE ident'[req'[r].label].role = "owner"
    <3>1. CASE p # r
      BY <2>1, <2>3, <3>1, Moved
    <3>2. CASE p = r
      <4>1. \E l \in Labels : CreateOwner(r, l) /\ ident[l] = None /\ req'[r].label = l
        BY <1>3, <2>3, <3>2, Moved DEF IsNow, Keeps, Plain, Named
      <4>2. PICK l \in Labels : CreateOwner(r, l) /\ ident[l] = None /\ req'[r].label = l
        BY <4>1
      <4>3. Writes(l, [role |-> "owner", status |-> "active", secret |-> req[r].secret, last |-> 0]) \/ Ends(r)
        BY <4>2, Zenon DEF CreateOwner
      <4>4. ~Ends(r)
        BY <1>3 DEF Ends, Becomes, Idle, Fresh, With, TypeInv, AuthTypeOK
      <4>5. ident'[l] = [role |-> "owner", status |-> "active", secret |-> req[r].secret, last |-> 0]
        BY <4>3, <4>4 DEF Writes, TypeInv, AuthTypeOK
      <4> QED
        BY <4>2, <4>5
    <3> QED
      BY <3>1, <3>2
  <2> QED
    BY <2>1, <2>2, <2>3, WhoSteps
<1>4. ASSUME Locked' PROVE \E l \in Labels : ident'[l].role = "owner"
  <2>1. \E l \in Labels : ident[l].role = "owner"
    BY <1>4, Lockers, OfReq DEF HasOwner, OwnersEnter, Named
  <2> QED
    BY <1>2, <2>1
<1> QED
  BY <1>1, <1>3, <1>4 DEF OwnersEnter

\* A locked server has an owner who can sign in: no way of locking it, and no
\* stop half way through the set-up, shuts everyone out.
THEOREM NobodyIsShutOut == Spec => []SomebodyCanEnter
<1> DEFINE Inv == TypeInv /\ OwnersEnter
<1>1. Init => Inv
  <2> SUFFICES ASSUME Init PROVE OwnersEnter
    BY TypeInit
  <2>1. \A l \in Labels : ident[l].role # "owner"
    BY DEF Init, None
  <2>2. ~Locked /\ \A r \in Reqs : req[r].at # "creating"
    BY DEF Init, Locked, Free, Idle, Fresh, With
  <2> QED
    BY <2>1, <2>2 DEF OwnersEnter
<1>2. Inv /\ [Next]_vars => Inv'
  BY TypeStep, OwnersStep
<1>3. Inv => SomebodyCanEnter
  BY DEF SomebodyCanEnter, OwnersEnter, Locked
<1> QED
  BY <1>1, <1>2, <1>3, PTL DEF Spec

-----------------------------------------------------------------------------
(* One label for each secret.                                              *)

Coding == {"advancing", "login-session"}
Tied == {"creating", "enroll-verifying", "enrolling", "activating", "enroll-session"} \union Coding

\* The label a secret is for, wherever it is kept or under way ...
Holds(x, l) ==
  \/ ident[l].secret = x
  \/ x \in DOMAIN enrolls /\ enrolls[x].label = l
  \/ \E r \in Reqs : req[r].at \in Tied /\ req[r].secret = x /\ req[r].label = l

\* ... and a secret of a set-up, which no label has yet.
Loose(x) == pending = x \/ \E r \in Reqs : req[r].at = "verifying" /\ req[r].secret = x

OneHome ==
  \A x \in Secrets :
    /\ \A l, m \in Labels : Holds(x, l) /\ Holds(x, m) => l = m
    /\ \A l \in Labels : Holds(x, l) => x <= minted /\ ~Loose(x)

\* A step that gives at most one secret a label, and one that had none.
LEMMA HomeKept ==
  ASSUME TypeInv, TypeInv', OneHome, minted <= minted', NEW z, NEW k \in Labels,
         \A x \in Secrets, m \in Labels : Holds(x, m)' => Holds(x, m) \/ (x = z /\ m = k),
         \A x \in Secrets : Loose(x)' => Loose(x) \/ (x > minted /\ x # z),
         z \in Secrets => /\ \A m \in Labels : ~Holds(z, m)
                          /\ ~Loose(z)' /\ z <= minted'
  PROVE  OneHome'
<1>1. minted \in Nat /\ minted' \in Nat /\ \A x \in Secrets : x \in Nat
  BY AuthAssumption DEF TypeInv, AuthTypeOK, Secrets
<1> HIDE DEF Holds, Loose
<1>2. ASSUME NEW x \in Secrets, NEW l \in Labels, Holds(x, l)' PROVE x <= minted' /\ ~Loose(x)'
  BY <1>1, <1>2 DEF OneHome
<1>3. ASSUME NEW x \in Secrets, NEW l \in Labels, NEW m \in Labels, Holds(x, l)', Holds(x, m)'
      PROVE  l = m
  BY <1>3 DEF OneHome
<1> QED
  BY <1>2, <1>3 DEF OneHome

\* Of a set-up, only SetupWaits makes the secret.
LEMMA LooseStep ==
  ASSUME ClaimInv, [Next]_vars, NEW x \in Secrets, Loose(x)'
  PROVE  Loose(x) \/ (x = minted + 1 /\ \E r \in Reqs : SetupWaits(r))
<1>1. x # 0 /\ TypeInv
  BY AuthAssumption DEF Secrets, ClaimInv
<1>2. CASE UNCHANGED <<req, pending>>
  BY <1>2 DEF Loose
<1>3. CASE Restart
  BY <1>1, <1>3 DEF Restart, Loose, Idle, Fresh, With
<1>4. ASSUME NEW r \in Reqs, ReqStep(r)
      PROVE  Loose(x) \/ (x = minted + 1 /\ SetupWaits(r))
  <2>1. ASSUME pending' = x PROVE Loose(x) \/ (x = minted + 1 /\ SetupWaits(r))
    BY <1>1, <1>4, <2>1, PendingMoves DEF Loose
  <2>2. ASSUME NEW p \in Reqs, req'[p].at = "verifying", req'[p].secret = x PROVE Loose(x)
    <3>1. req'[p] = req[p] \/ (p = r /\ pending = x)
      BY <1>1, <1>4, <2>2, Moved DEF IsNow, Keeps, Plain, Keyed
    <3> QED
      BY <2>2, <3>1 DEF Loose
  <2> QED
    BY <2>1, <2>2 DEF Loose
<1> QED
  BY <1>2, <1>3, <1>4, WhoSteps

\* Everything but these three leaves a secret with the label it has.
NewOwner(r, l) == CreateOwner(r, l) /\ ident[l] = None

LEMMA HoldsStep ==
  ASSUME TypeInv, [Next]_vars, NEW x \in Secrets, NEW m \in Labels, Holds(x, m)',
         ~\E r \in Reqs, l \in Labels : NewOwner(r, l),
         ~\E r \in Reqs : Invited(r), ~WriteMfa
  PROVE  Holds(x, m)
<1>1. x # 0
  BY AuthAssumption DEF Secrets
<1>2. ASSUME ident'[m].secret = x PROVE Holds(x, m)
  <2>1. ~\E r \in Reqs : CreateOwner(r, m) /\ Born(m, "owner", "active", req[r].secret) /\ req[r].secret \in Secrets
    BY DEF NewOwner, Born
  <2>2. ~Born(m, "invitee", "invited", 0)
    BY <1>1, <1>2 DEF Born
  <2>3. \/ ident[m].secret = x
        \/ \E r \in Reqs : (EnrollOwner(r) \/ EnrollMfa(r)) /\ m = req[r].label /\ req[r].secret = x
    BY <1>2, <2>1, <2>2, RowMoves DEF Enrolled, SameSecret
  <2> QED
    BY <2>3 DEF Holds, EnrollOwner, EnrollMfa, Tied
<1>3. ASSUME x \in DOMAIN enrolls', enrolls'[x].label = m PROVE Holds(x, m)
  BY <1>3, EnrollsStep DEF Shrinks, Holds
<1>4. ASSUME NEW r \in Reqs, req'[r].at \in Tied, req'[r].secret = x, req'[r].label = m PROVE Holds(x, m)
  <2>1. CASE req'[r] = req[r]
    BY <1>4, <2>1 DEF Holds
  <2>2. CASE Restart
    BY <1>4, <2>2 DEF Restart, Idle, Fresh, With, Tied, Coding
  <2>3. CASE ReqStep(r)
    <3>1. /\ req'[r].at \notin Plain
          /\ {"verifying", "checking", "locking"} \intersect Tied = {}
      BY <1>4 DEF Plain, Tied, Coding, Named
    <3>2. ASSUME NEW l \in Labels, ident[l].secret = req'[r].secret, l = req'[r].label PROVE Holds(x, m)
      BY <1>4, <3>2 DEF Holds
    <3>3. ASSUME NEW y \in DOMAIN enrolls, enrolls[y].label = req'[r].label, y = req'[r].secret PROVE Holds(x, m)
      BY <1>4, <3>3 DEF Holds
    <3>4. ASSUME req[r].at \in Tied, req[r].secret = req'[r].secret, req[r].label = req'[r].label PROVE Holds(x, m)
      BY <1>4, <3>4 DEF Holds
    <3>5. EnrollFind(r) \/ EnrollMfa(r) \/ Activate(r) \/ Advance(r) => req[r].at \in Tied
      BY DEF EnrollFind, EnrollMfa, Activate, Advance, Tied, Coding
    <3> QED
      BY <1>4, <2>3, <3>1, <3>2, <3>3, <3>4, <3>5, Moved DEF IsNow, Keeps, NewOwner
  <2>4. ASSUME NEW p \in Reqs \ {r}, ReqStep(p) PROVE req'[r] = req[r]
    BY <2>4, Moved
  <2> QED
    BY <2>1, <2>2, <2>3, <2>4, WhoSteps
<1> QED
  BY <1>2, <1>3, <1>4 DEF Holds

\* A secret that is made now was nobody's.
LEMMA FreshIsFree ==
  ASSUME ClaimInv, OneHome, NEW x \in Secrets, x > minted
  PROVE  ~Loose(x) /\ \A m \in Labels : ~Holds(x, m)
<1>1. x \in Nat /\ minted \in Nat
  BY AuthAssumption DEF Secrets, ClaimInv, TypeInv, AuthTypeOK
<1>2. ~Loose(x)
  BY <1>1 DEF Loose, ClaimInv, Made, Claimed
<1>3. \A m \in Labels : ~Holds(x, m)
  BY <1>1 DEF OneHome
<1> QED
  BY <1>2, <1>3

LEMMA HomeStep ==
  ASSUME ClaimInv, OneHome, [Next]_vars
  PROVE  OneHome'
<1>0. /\ TypeInv /\ TypeInv' /\ minted \in Nat /\ minted' \in Nat /\ minted <= minted'
      /\ \A x \in Secrets : x \in Nat
  <2>1. TypeInv /\ TypeInv'
    BY TypeStep DEF ClaimInv
  <2> QED
    BY <2>1, MintedGrows, AuthAssumption DEF TypeInv, AuthTypeOK, Secrets
<1>1. ASSUME NEW r \in Reqs, NEW l \in Labels, NEW z \in Secrets, z = req[r].secret, NewOwner(r, l)
      PROVE  OneHome'
  <2>1. /\ req[r].at = "verifying" /\ req[r].secret = z
        /\ UNCHANGED <<enrolls, pending, minted>>
        /\ Writes(l, [role |-> "owner", status |-> "active", secret |-> z, last |-> 0])
        /\ \E s \in Steps : Becomes(r, With("creating", l, z, s))
    <3>1. req[r].at = "verifying" /\ UNCHANGED <<memory, ghosts>>
      BY <1>1, Zenon DEF NewOwner, CreateOwner
    <3>2. Writes(l, [role |-> "owner", status |-> "active", secret |-> z, last |-> 0])
          /\ \E s \in Steps : Becomes(r, With("creating", l, z, s))
      BY <1>1, Zenon DEF NewOwner, CreateOwner
    <3> QED
      BY <1>1, <3>1, <3>2 DEF memory, ghosts
  <2>2. PICK s \in Steps : Becomes(r, With("creating", l, z, s))
    BY <2>1
  <2>3. /\ req'[r].at = "creating" /\ req'[r].label = l /\ req'[r].secret = z
        /\ \A p \in Reqs \ {r} : req'[p] = req[p]
    BY <1>0, <2>2 DEF Becomes, With, TypeInv, AuthTypeOK
  <2>4. ident'[l].secret = z /\ \A m \in Labels \ {l} : ident'[m] = ident[m]
    BY <1>0, <2>1 DEF Writes, TypeInv, AuthTypeOK
  <2>5. Loose(z) /\ z <= minted
    BY <2>1 DEF Loose, ClaimInv, Made, Claimed
  <2>6. ~Loose(z)'
    BY <2>1, <2>3 DEF Loose, ClaimInv, ClaimIsExclusive, Claimed
  <2>7. \A x \in Secrets : Loose(x)' => Loose(x)
    BY <2>1, <2>3 DEF Loose
  <2>8. \A x \in Secrets, m \in Labels : Holds(x, m)' => Holds(x, m) \/ (x = z /\ m = l)
    BY <2>1, <2>3, <2>4 DEF Holds
  <2>9. \A m \in Labels : ~Holds(z, m)
    BY <2>5 DEF OneHome
  <2> QED
    BY <1>0, <2>1, <2>5, <2>6, <2>7, <2>8, <2>9, HomeKept
<1>2. ASSUME NEW l \in Labels, NEW z \in Secrets, z = minted + 1, minted' = minted + 1,
             \A x \in Secrets, m \in Labels : Holds(x, m)' => Holds(x, m) \/ (x = z /\ m = l),
             \A x \in Secrets : Loose(x)' => Loose(x)
      PROVE  OneHome'
  <2>1. z > minted /\ z <= minted'
    BY <1>0, <1>2
  <2>2. ~Loose(z) /\ \A m \in Labels : ~Holds(z, m)
    BY <1>2, <2>1, FreshIsFree
  <2>3. ~Loose(z)'
    BY <1>2, <2>2
  <2> QED
    BY <1>0, <1>2, <2>1, <2>2, <2>3, HomeKept
<1>3. ASSUME NEW r \in Reqs, Invited(r) PROVE OneHome'
  <2> DEFINE l == req[r].label
  <2>1. /\ Mint /\ Ends(r) /\ Grows(l) /\ UNCHANGED <<ident, pending>> /\ l \in Labels
    BY <1>0, <1>3, OfReq DEF Invited, Grows, tables, Named
  <2>2. req'[r] = Idle /\ \A p \in Reqs \ {r} : req'[p] = req[p]
    BY <1>0, <2>1 DEF Ends, Becomes, TypeInv, AuthTypeOK
  <2>3. Idle.at \notin Tied /\ Idle.at # "verifying"
    BY DEF Idle, Fresh, With, Tied, Coding
  <2>4. \A x \in Secrets : Loose(x)' => Loose(x)
    BY <2>1, <2>2, <2>3 DEF Loose
  <2>5. minted' = minted + 1 /\ minted + 1 \in Secrets
    BY <1>0, <2>1, AuthAssumption DEF Mint, Secrets, TypeInv, AuthTypeOK
  <2>6. \A x \in Secrets, m \in Labels : Holds(x, m)' => Holds(x, m) \/ (x = minted + 1 /\ m = l)
    BY <2>1, <2>2, <2>3 DEF Holds, Grows
  <2> QED
    BY <1>2, <2>1, <2>4, <2>5, <2>6
<1>4. ASSUME WriteMfa PROVE OneHome'
  <2> DEFINE l == cli.arg
  <2>1. /\ Mint /\ UNCHANGED <<enrolls, pending, req>> /\ l \in Labels /\ ident[l] # None
        /\ SetMfa(l, minted + 1, 0)
    BY <1>0, <1>4 DEF WriteMfa, memory, TypeInv, CliWell, Known
  <2>2. minted' = minted + 1 /\ minted + 1 \in Secrets /\ 0 \in 0 .. MaxStep
    BY <1>0, <2>1, AuthAssumption DEF Mint, Secrets, TypeInv, AuthTypeOK
  <2>3. ident'[l].secret = minted + 1 /\ \A m \in Labels \ {l} : ident'[m] = ident[m]
    BY <1>0, <2>1, <2>2, MfaWritten
  <2>4. \A x \in Secrets : Loose(x)' => Loose(x)
    BY <2>1 DEF Loose
  <2>5. \A x \in Secrets, m \in Labels : Holds(x, m)' => Holds(x, m) \/ (x = minted + 1 /\ m = l)
    BY <2>1, <2>3 DEF Holds
  <2> QED
    BY <1>2, <2>1, <2>2, <2>4, <2>5
<1>5. ASSUME NEW k \in Labels,
             ~\E r \in Reqs, l \in Labels : NewOwner(r, l), ~\E r \in Reqs : Invited(r), ~WriteMfa
      PROVE  OneHome'
  <2>1. \A x \in Secrets, m \in Labels : Holds(x, m)' => Holds(x, m) \/ (x = 0 /\ m = k)
    BY <1>0, <1>5, HoldsStep
  <2>2. 0 \notin Secrets
    BY AuthAssumption DEF Secrets
  <2>3. \A x \in Secrets : Loose(x)' => Loose(x) \/ (x > minted /\ x # 0)
    BY <1>0, <2>2, LooseStep
  <2> QED
    BY <1>0, <2>1, <2>2, <2>3, HomeKept
<1>6. CASE Labels = {}
  BY <1>6 DEF OneHome
<1>7. ASSUME NEW r \in Reqs, NEW l \in Labels, NewOwner(r, l) PROVE OneHome'
  <2>1. req[r].secret \in Secrets
    BY <1>0, <1>7, OfReq DEF NewOwner, CreateOwner, Keyed
  <2> QED
    BY <1>1, <1>7, <2>1
<1> QED
  BY <1>3, <1>4, <1>5, <1>6, <1>7

-----------------------------------------------------------------------------
(* A code signs in once.                                                   *)

LEMMA SpentMoves ==
  ASSUME NEW r \in Reqs, ReqStep(r)
  PROVE  UNCHANGED spent \/ SignIn(r)
<1> USE DEF ghosts
<1>1. ASSUME SetupStep(r) PROVE UNCHANGED spent
  BY <1>1, Zenon DEF SetupStep, Setup, SetupWaits, Confirm, Claim, Unclaim, CreateOwner, EnrollOwner,
                     SetMode, OwnerSession
<1>2. ASSUME LoginStep(r) PROVE UNCHANGED spent \/ SignIn(r)
  BY <1>2, Zenon DEF LoginStep, Login, Find, Invited, Advance, RecordFailure
<1>3. ASSUME EnrollStep(r) PROVE UNCHANGED spent
  BY <1>3, Zenon DEF EnrollStep, Enroll, EnrollFails, EnrollFind, EnrollMfa, Activate, EnrollSession
<1>4. ASSUME GuardedStep(r) PROVE UNCHANGED spent
  BY <1>4, Zenon DEF GuardedStep, Admit, RevokeSession, AskMode, Invite, RevokeInvite,
                     DeleteSessions, RevokeAll, SetMode, SignOut, Relock
<1> QED
  BY <1>1, <1>2, <1>3, <1>4, Zenon DEF ReqStep

\* What is forgotten stays so.
LEMMA ForgottenGrows ==
  ASSUME [Next]_vars
  PROVE  forgotten \subseteq forgotten'
<1> USE DEF ghosts
<1>1. ASSUME NEW l, NEW x, NEW t, SetMfa(l, x, t) PROVE forgotten \subseteq forgotten'
  BY <1>1 DEF SetMfa
<1>2. ASSUME NEW r \in Reqs, ReqStep(r)
      PROVE  UNCHANGED forgotten \/ \E l, x, t : SetMfa(l, x, t)
  <2>1. ASSUME SetupStep(r) PROVE UNCHANGED forgotten \/ \E l, x, t : SetMfa(l, x, t)
    BY <2>1, Zenon DEF SetupStep, Setup, SetupWaits, Confirm, Claim, Unclaim, CreateOwner, EnrollOwner,
                       SetMode, OwnerSession
  <2>2. ASSUME LoginStep(r) PROVE UNCHANGED forgotten
    BY <2>2, Zenon DEF LoginStep, Login, Find, Invited, Advance, SignIn, RecordFailure
  <2>3. ASSUME EnrollStep(r) PROVE UNCHANGED forgotten \/ \E l, x, t : SetMfa(l, x, t)
    BY <2>3, Zenon DEF EnrollStep, Enroll, EnrollFails, EnrollFind, EnrollMfa, Activate, EnrollSession
  <2>4. ASSUME GuardedStep(r) PROVE UNCHANGED forgotten
    BY <2>4, Zenon DEF GuardedStep, Admit, RevokeSession, AskMode, Invite, RevokeInvite,
                       DeleteSessions, RevokeAll, SetMode, SignOut, Relock
  <2> QED
    BY <1>2, <2>1, <2>2, <2>3, <2>4, Zenon DEF ReqStep
<1>3. ASSUME CliStep \/ (\E s \in Secrets : Expire(s)) \/ Midnight \/ Forgive \/ Restart \/ UNCHANGED vars
      PROVE  UNCHANGED forgotten \/ \E l, x, t : SetMfa(l, x, t)
  BY <1>3, Zenon DEF CliStep, ResetPassword, ReenrollMfa, WriteMfa, RevokeByIdentity, CliMode,
                     WriteMode, WipeSessions, Expire, Midnight, Forgive, Restart, vars
<1>4. UNCHANGED forgotten \/ \E l, x, t : SetMfa(l, x, t)
  BY <1>2, <1>3, Zenon DEF Next
<1> QED
  BY <1>1, <1>4

\* Of a secret that is not forgotten the row stays, and its last step only rises.
LEMMA RowStays ==
  ASSUME TypeInv, [Next]_vars, NEW l \in Labels, NEW x \in Secrets \ forgotten', ident[l].secret = x
  PROVE  ident'[l].secret = x /\ ident[l].last <= ident'[l].last
<1>1. x # 0 /\ ident[l] # None /\ ident[l].last \in Nat /\ ident'[l].last \in Nat
  <2>1. ident[l].last \in 0 .. MaxStep /\ x # 0 /\ ident[l] # None
    BY IdentTypes, AuthAssumption DEF Secrets, None
  <2>2. ident'[l].last \in 0 .. MaxStep
    BY TypeStep, AuthAssumption DEF TypeInv, AuthTypeOK, Row, None
  <2> QED
    BY <2>1, <2>2
<1>2. ASSUME NEW y, NEW t, SetMfa(l, y, t), Enrolled(l, y, t)
      PROVE  ident'[l].secret = x /\ ~(t < ident[l].last) /\ ident'[l].last = t
  BY <1>1, <1>2 DEF SetMfa, Enrolled
<1>3. \A t : ~(t < ident[l].last) /\ ident'[l].last = t => ident[l].last <= ident'[l].last
  BY <1>1
<1>4. CASE ident'[l] = ident[l]
  BY <1>1, <1>4
<1>5. CASE SameSecret(l) /\ (ident'[l].last = ident[l].last \/ ident[l].last < ident'[l].last)
  BY <1>1, <1>5 DEF SameSecret
<1> QED
  BY <1>1, <1>2, <1>3, <1>4, <1>5, RowMoves DEF Born

\* Of a secret that was never forgotten: a code that opens a session is the
\* identity's, is not beyond its last step, and opens one only.
Bound ==
  \A r \in Reqs : req[r].at \in Coding /\ req[r].secret \in Secrets \ forgotten =>
    ident[req[r].label].secret = req[r].secret

Signing(r, x, t) == req[r].at = "login-session" /\ req[r].secret = x /\ req[r].step = t

\* The code was taken by an identity whose it is.
TakenBy(l, x, t) == ident[l].secret = x /\ t <= ident[l].last

SpentOf(x, t) ==
  /\ spent[<<x, t>>] \in {0, 1}
  /\ spent[<<x, t>>] = 1 => \E l \in Labels : TakenBy(l, x, t)
  /\ \A r \in Reqs : Signing(r, x, t) =>
       /\ t <= ident[req[r].label].last
       /\ spent[<<x, t>>] = 0
       /\ \A q \in Reqs : Signing(q, x, t) => q = r

SpentUp == \A x \in Secrets \ forgotten, t \in Steps : SpentOf(x, t)

CodesInv == ClaimInv /\ OneHome /\ Bound /\ SpentUp

LEMMA BoundStep ==
  ASSUME TypeInv, Bound, [Next]_vars
  PROVE  Bound'
<1> SUFFICES ASSUME NEW r \in Reqs, NEW x \in Secrets \ forgotten', req'[r].at \in Coding, req'[r].secret = x
             PROVE  ident'[req'[r].label].secret = x
  BY DEF Bound
<1>1. x \notin forgotten
  BY ForgottenGrows
<1>2. ASSUME req[r].at \in Coding, req[r].secret = x, req'[r].label = req[r].label
      PROVE  ident'[req'[r].label].secret = x
  BY <1>1, <1>2, OfReq, RowStays DEF Bound, Coding, Named
<1>3. CASE Restart
  BY <1>3 DEF Restart, Idle, Fresh, With, Coding
<1>4. CASE req'[r] = req[r]
  BY <1>2, <1>4
<1>5. CASE ReqStep(r)
  <2>1. /\ req'[r].at \notin Plain
        /\ {"verifying", "creating", "checking", "enroll-verifying", "enrolling", "locking",
            "activating", "enroll-session"} \intersect Coding = {}
    BY DEF Plain, Coding, Named
  <2>2. ASSUME NEW l \in Labels, ident[l].secret = x, req'[r].label = l PROVE ident'[req'[r].label].secret = x
    BY <2>2, RowStays
  <2>3. Advance(r) => req[r].at \in Coding
    BY DEF Advance, Coding
  <2> QED
    BY <1>2, <1>5, <2>1, <2>2, <2>3, Moved DEF IsNow, Keeps
<1>6. ASSUME NEW p \in Reqs \ {r}, ReqStep(p) PROVE req'[r] = req[r]
  BY <1>6, Moved
<1> QED
  BY <1>3, <1>4, <1>5, <1>6, WhoSteps

\* Who signs in with a code did before, or has just advanced to it.
LEMMA SignersStep ==
  ASSUME TypeInv, [Next]_vars, NEW x \in Secrets, NEW t \in Steps, NEW r \in Reqs, Signing(r, x, t)'
  PROVE  \/ Signing(r, x, t) /\ req'[r] = req[r]
         \/ /\ Advance(r) /\ ReqStep(r) /\ ident[req[r].label].last < t
            /\ req[r].at = "advancing" /\ req[r].secret = x /\ req[r].step = t
            /\ req'[r].label = req[r].label
<1>1. CASE req'[r] = req[r]
  BY <1>1 DEF Signing
<1>2. CASE Restart
  BY <1>2 DEF Restart, Signing, Idle, Fresh, With
<1>3. CASE ReqStep(r)
  <2>1. req'[r].at = "login-session" /\ req'[r].at \notin Plain
    BY DEF Signing, Plain, Named
  <2>2. Advance(r) /\ ident[req[r].label].last < req[r].step /\ Keeps(r, "login-session")
    BY <1>3, <2>1, Moved DEF IsNow, Keeps
  <2> QED
    BY <1>3, <2>2 DEF Keeps, Signing, Advance
<1>4. ASSUME NEW p \in Reqs \ {r}, ReqStep(p) PROVE req'[r] = req[r]
  BY <1>4, Moved
<1> QED
  BY <1>1, <1>2, <1>3, <1>4, WhoSteps

LEMMA TakenStays ==
  ASSUME TypeInv, [Next]_vars, NEW l \in Labels, NEW x \in Secrets \ forgotten', NEW t \in Steps,
         TakenBy(l, x, t)
  PROVE  TakenBy(l, x, t)'
<1>1. ident'[l].secret = x /\ ident[l].last <= ident'[l].last /\ t <= ident[l].last
  BY RowStays DEF TakenBy
<1>2. t \in Nat /\ ident[l].last \in 0 .. MaxStep /\ ident'[l].last \in 0 .. MaxStep
  <2>1. ident'[l].last \in 0 .. MaxStep
    BY TypeStep, AuthAssumption DEF TypeInv, AuthTypeOK, Row, None
  <2> QED
    BY <2>1, IdentTypes, AuthAssumption DEF Steps
<1> QED
  BY <1>1, <1>2 DEF TakenBy

\* Who advances to a code finds it unspent, and nobody else signing in with it.
LEMMA AdvanceIsFirst ==
  ASSUME CodesInv, NEW x \in Secrets \ forgotten, NEW t \in Steps, NEW r \in Reqs,
         req[r].at = "advancing", req[r].secret = x, ident[req[r].label].last < t
  PROVE  spent[<<x, t>>] = 0 /\ \A q \in Reqs : ~Signing(q, x, t)
<1> DEFINE l == req[r].label
<1>1. TypeInv /\ l \in Labels /\ ident[l].secret = x
  BY OfReq DEF CodesInv, ClaimInv, Bound, Coding, Named
<1>2. ASSUME NEW m \in Labels, ident[m].secret = x PROVE m = l
  BY <1>1, <1>2 DEF CodesInv, OneHome, Holds
<1>3. ident[l].last \in Nat /\ t \in Nat
  <2>1. ident[l].last \in 0 .. MaxStep
    BY <1>1, IdentTypes
  <2> QED
    BY <2>1, AuthAssumption DEF Steps
<1>4. ~(t <= ident[l].last)
  BY <1>3
<1> HIDE DEF l
<1>5. spent[<<x, t>>] = 0
  BY <1>2, <1>4 DEF CodesInv, SpentUp, SpentOf, TakenBy
<1>6. ASSUME NEW q \in Reqs, Signing(q, x, t) PROVE FALSE
  <2>1. req[q].label \in Labels /\ ident[req[q].label].secret = x
    BY <1>1, <1>6, OfReq DEF Signing, CodesInv, Bound, Coding, Named
  <2>2. t <= ident[req[q].label].last
    BY <1>6 DEF CodesInv, SpentUp, SpentOf
  <2> QED
    BY <1>2, <1>4, <2>1, <2>2
<1> QED
  BY <1>5, <1>6

LEMMA SpentStep ==
  ASSUME CodesInv, [Next]_vars
  PROVE  SpentUp'
<1> SUFFICES ASSUME NEW x \in Secrets \ forgotten', NEW t \in Steps PROVE SpentOf(x, t)'
  BY DEF SpentUp
<1>0. /\ TypeInv /\ TypeInv' /\ Bound /\ Bound' /\ x \in Secrets \ forgotten
      /\ spent \in [Secrets \X Steps -> Nat] /\ SpentOf(x, t)
  <2>1. TypeInv /\ Bound
    BY DEF CodesInv, ClaimInv
  <2> QED
    BY <2>1, TypeStep, BoundStep, ForgottenGrows DEF TypeInv, AuthTypeOK, CodesInv, SpentUp
<1>1. ASSUME NEW l \in Labels, TakenBy(l, x, t) PROVE TakenBy(l, x, t)'
  BY <1>0, <1>1, TakenStays
<1>2. ASSUME NEW p \in Reqs, Signing(p, x, t) PROVE req[p].label \in Labels /\ TakenBy(req[p].label, x, t)
  BY <1>0, <1>2, OfReq DEF Signing, Bound, Coding, Named, TakenBy, SpentOf
<1>3. ASSUME NEW p \in Reqs, Signing(p, x, t), req'[p] = req[p] PROVE (t <= ident[req[p].label].last)'
  BY <1>1, <1>2, <1>3 DEF TakenBy
<1>4. CASE UNCHANGED spent /\ \A p \in Reqs : Signing(p, x, t)' => Signing(p, x, t) /\ req'[p] = req[p]
  BY <1>0, <1>1, <1>3, <1>4 DEF SpentOf
<1>5. ASSUME NEW r \in Reqs, SignIn(r) PROVE SpentOf(x, t)'
  <2>1. req[r].at = "login-session" /\ req'[r] = Idle /\ \A p \in Reqs \ {r} : req'[p] = req[p]
    BY <1>0, <1>5 DEF SignIn, Ends, Becomes, TypeInv, AuthTypeOK
  <2>2. ASSUME NEW p \in Reqs, Signing(p, x, t)'
        PROVE  p # r /\ Signing(p, x, t) /\ req'[p] = req[p]
    BY <2>1, <2>2 DEF Signing, Idle, Fresh, With
  <2>3. spent' = [spent EXCEPT ![<<req[r].secret, req[r].step>>] = @ + 1]
    BY <1>5 DEF SignIn
  <2>4. CASE Signing(r, x, t)
    <3>1. spent[<<x, t>>] = 0 /\ \A q \in Reqs : Signing(q, x, t) => q = r
      BY <1>0, <2>4 DEF SpentOf
    <3>2. spent'[<<x, t>>] = 1
      BY <1>0, <2>3, <2>4, <3>1 DEF Signing
    <3>3. \A p \in Reqs : ~Signing(p, x, t)'
      BY <2>2, <3>1
    <3>4. \E l \in Labels : TakenBy(l, x, t)'
      BY <1>1, <1>2, <2>4
    <3> QED
      BY <3>2, <3>3, <3>4 DEF SpentOf
  <2>5. CASE ~Signing(r, x, t)
    <3>1. <<x, t>> # <<req[r].secret, req[r].step>>
      BY <2>1, <2>5 DEF Signing
    <3>2. spent'[<<x, t>>] = spent[<<x, t>>]
      BY <1>0, <2>3, <3>1
    <3> QED
      BY <1>0, <1>1, <1>3, <2>2, <3>2 DEF SpentOf
  <2> QED
    BY <2>4, <2>5
<1>6. ASSUME NEW r \in Reqs, Signing(r, x, t)', ~(Signing(r, x, t) /\ req'[r] = req[r])
      PROVE  SpentOf(x, t)'
  <2>1. /\ Advance(r) /\ ReqStep(r) /\ ident[req[r].label].last < t
        /\ req[r].at = "advancing" /\ req[r].secret = x /\ req[r].step = t
        /\ req'[r].label = req[r].label
    BY <1>0, <1>6, SignersStep
  <2>2. spent[<<x, t>>] = 0 /\ \A q \in Reqs : ~Signing(q, x, t)
    BY <1>0, <2>1, AdvanceIsFirst
  <2>3. \A q \in Reqs \ {r} : req'[q] = req[q]
    BY <1>0, <2>1, Moved
  <2>4. \A q \in Reqs : Signing(q, x, t)' => q = r
    BY <2>2, <2>3 DEF Signing
  <2>5. UNCHANGED spent
    BY <2>1, Zenon DEF Advance, ghosts
  <2>6. (t <= ident[req[r].label].last)'
    <3>1. ident'[req[r].label].last = t
      <4>1. Writes(req[r].label, [ident[req[r].label] EXCEPT !.last = t])
        BY <2>1, Zenon DEF Advance
      <4> QED
        BY <1>0, <2>1, <4>1, OfReq DEF Writes, TypeInv, AuthTypeOK, Named, Row
    <3> QED
      BY <2>1, <3>1 DEF Steps
  <2> QED
    BY <2>2, <2>4, <2>5, <2>6 DEF SpentOf
<1>7. CASE UNCHANGED spent
  BY <1>4, <1>6, <1>7
<1>8. UNCHANGED spent \/ \E r \in Reqs : SignIn(r)
  <2>1. Restart => UNCHANGED spent
    BY DEF Restart, ghosts
  <2> QED
    BY <2>1, WhoSteps, SpentMoves
<1> QED
  BY <1>5, <1>7, <1>8

LEMMA CodesInit == Init => CodesInv
<1> SUFFICES ASSUME Init PROVE CodesInv
  OBVIOUS
<1>1. ClaimInv
  BY ClaimInit
<1>2. /\ \A r \in Reqs : req[r].at = "idle"
      /\ \A l \in Labels : ident[l].secret = 0
      /\ DOMAIN enrolls = {} /\ pending = 0 /\ 0 \notin Secrets
  BY AuthAssumption DEF Init, Idle, Fresh, With, None, Secrets
<1>3. \A x \in Secrets, l \in Labels : ~Holds(x, l)
  BY <1>2 DEF Holds, Tied, Coding
<1>4. Bound
  BY <1>2 DEF Bound, Coding
<1>5. SpentUp
  <2>1. \A x \in Secrets, t \in Steps : spent[<<x, t>>] = 0
    BY DEF Init
  <2>2. \A x \in Secrets, t \in Steps, r \in Reqs : ~Signing(r, x, t)
    BY <1>2 DEF Signing
  <2>3. ASSUME NEW x \in Secrets, NEW t \in Steps PROVE SpentOf(x, t)
    BY <2>1, <2>2 DEF SpentOf
  <2> QED
    BY <2>3 DEF SpentUp
<1> QED
  BY <1>1, <1>3, <1>4, <1>5 DEF CodesInv, OneHome

\* One code signs in once, however many logins bring it together and whatever
\* each had read, unless an enrolment meanwhile wiped what was spent.
THEOREM CodesOpenOnce == Spec => []CodeSpentOnce
<1>1. ASSUME CodesInv, [Next]_vars PROVE CodesInv'
  BY <1>1, ClaimStep, HomeStep, BoundStep, SpentStep DEF CodesInv, ClaimInv
<1>2. CodesInv => CodeSpentOnce
  <2> SUFFICES ASSUME CodesInv, NEW x \in Secrets, NEW t \in Steps, spent[<<x, t>>] > 1, x \notin forgotten
               PROVE  FALSE
    BY DEF CodeSpentOnce
  <2> QED
    BY DEF CodesInv, SpentUp, SpentOf
<1> QED
  BY <1>1, <1>2, CodesInit, PTL DEF Spec

-----------------------------------------------------------------------------
(* The exchange of the database.                                           *)

\* The contents of all the safety dumps.
Saved == UNION {safety[j] : j \in Jobs}

\* The jobs whose dump is made and whose TRUNCATE is still to come.
Armed == {j \in Jobs : at[j] \in {"truncating", "importing"}}

\* When a job is about to empty the tables, all that was kept is in a dump:
\* its own has what the database had then, and nothing became kept since.
Covered == Armed # {} => kept \subseteq Saved

RestoreInv == RestoreTypeOK /\ KeptRowsAreSafe /\ Covered

-----------------------------------------------------------------------------
\* Only what is kept while nothing is at work is added to what was kept.
LEMMA LeavesKept ==
  ASSUME NEW keys, Leaves(keys)
  PROVE  /\ db' = keys
         /\ kept' \subseteq kept \union keys
         /\ AtWork' # {} => kept' = kept
BY DEF Leaves

\* A job that has dumped and not truncated is at work.
LEMMA ArmedIsAtWork ==
  Armed \subseteq AtWork
BY DEF Armed, AtWork, Ended

\* A step that leaves the dumps and the armed jobs alone, and takes nothing
\* out of the database, keeps what is kept safe.
LEMMA QuietStep ==
  ASSUME RestoreInv, NEW keys, Leaves(keys), db \subseteq keys,
         safety' = safety, Armed' \subseteq Armed
  PROVE  KeptRowsAreSafe' /\ Covered'
<1>1. kept' \subseteq kept \union keys /\ db' = keys
  BY LeavesKept
<1>2. Saved' = Saved
  BY DEF Saved
<1>3. KeptRowsAreSafe'
  BY <1>1, <1>2 DEF RestoreInv, KeptRowsAreSafe, Saved
<1>4. Covered'
  <2> SUFFICES ASSUME Armed' # {} PROVE kept' \subseteq Saved'
    BY DEF Covered
  <2>1. AtWork' # {}
    BY ArmedIsAtWork DEF Armed, AtWork, Ended
  <2>2. kept' = kept
    BY <2>1, LeavesKept
  <2> QED
    BY <2>2, <1>2 DEF RestoreInv, Covered
<1> QED
  BY <1>3, <1>4

\* A job that dumps makes what is kept part of the dumps.
LEMMA DumpingStep ==
  ASSUME RestoreInv, NEW j \in Jobs, at[j] = "dumping", AtWork' # {},
         safety' = [safety EXCEPT ![j] = db], Leaves(db)
  PROVE  KeptRowsAreSafe' /\ Covered'
<1>1. kept' = kept /\ db' = db
  BY LeavesKept
<1>2. safety[j] = {} /\ safety \in [Jobs -> SUBSET Lots]
  BY DEF RestoreInv, RestoreTypeOK
<1>3. Saved \union db \subseteq Saved'
  <2>1. safety'[j] = db /\ \A k \in Jobs : safety[k] \subseteq safety'[k]
    BY <1>2
  <2> QED
    BY <2>1 DEF Saved
<1>4. kept \subseteq db \union Saved
  BY DEF RestoreInv, KeptRowsAreSafe, Saved
<1> QED
  BY <1>1, <1>3, <1>4 DEF KeptRowsAreSafe, Covered, Saved

\* A job that empties the tables had what was kept in the dumps.
LEMMA TruncatingStep ==
  ASSUME RestoreInv, NEW j \in Jobs, at[j] \in {"truncating", "importing"},
         NEW keys, Leaves(keys), safety' = safety
  PROVE  KeptRowsAreSafe' /\ Covered'
<1>1. kept \subseteq Saved /\ Saved' = Saved
  BY DEF RestoreInv, Covered, Armed, Saved
<1>2. db' = keys /\ kept' \subseteq kept \union keys /\ (AtWork' # {} => kept' = kept)
  BY LeavesKept
<1>3. KeptRowsAreSafe'
  BY <1>1, <1>2 DEF KeptRowsAreSafe, Saved
<1>4. Armed' # {} => AtWork' # {}
  BY DEF Armed, AtWork, Ended
<1> QED
  BY <1>1, <1>2, <1>3, <1>4 DEF Covered

-----------------------------------------------------------------------------
\* Every type but that of the dumps comes from where a request goes and what
\* the database is left with.
LEMMA GoingTypes ==
  ASSUME RestoreTypeOK, NEW q \in Requests, NEW from, NEW to, Turns(q, from, to),
         NEW keys \in SUBSET Lots, Leaves(keys),
         to \in {"truncating", "loading", "migrating", "rolling", "importing", "running"}
                \union Ended,
         dump' \in [Restores -> SUBSET Lots], restoring' \in BOOLEAN,
         UNCHANGED <<safety, crashes>>
  PROVE  RestoreTypeOK'
<1>1. db' \subseteq Lots /\ kept' \subseteq Lots
  BY LeavesKept DEF RestoreTypeOK
<1>2. at' = [at EXCEPT ![q] = to] /\ q \in Requests
  BY DEF Turns
<1>3. at' \in [Requests -> {"new", "dumping", "truncating", "loading", "migrating",
                           "rolling", "importing", "running"} \union Ended]
  BY <1>2 DEF RestoreTypeOK, Ended
<1>4. \A j \in Jobs : at'[j] \in {"new", "dumping"} => safety'[j] = {}
  BY <1>2 DEF RestoreTypeOK, Ended, Requests
<1> QED
  BY <1>1, <1>3, <1>4 DEF RestoreTypeOK

\* A request that goes to where no dump is pending arms nobody.
LEMMA GoingArmsNobody ==
  ASSUME RestoreTypeOK, NEW q \in Requests, NEW from, NEW to, Turns(q, from, to),
         to \notin {"truncating", "importing"}
  PROVE  Armed' \subseteq Armed
BY DEF RestoreTypeOK, Turns, Armed, Requests, Jobs

\* A step of a request that only adds to the database, or leaves it alone.
LEMMA GoingStep ==
  ASSUME RestoreInv, NEW q \in Requests, NEW from, NEW to, Turns(q, from, to),
         NEW keys \in SUBSET Lots, Leaves(keys), db \subseteq keys,
         to \in {"loading", "migrating", "rolling", "running"} \union Ended,
         dump' \in [Restores -> SUBSET Lots], restoring' \in BOOLEAN,
         UNCHANGED <<safety, crashes>>
  PROVE  RestoreInv'
<1>1. RestoreTypeOK'
  BY GoingTypes DEF RestoreInv, Ended
<1>2. Armed' \subseteq Armed
  BY GoingArmsNobody DEF RestoreInv, Ended
<1> QED
  BY <1>1, <1>2, QuietStep DEF RestoreInv

LEMMA QueryingKeeps ==
  ASSUME RestoreInv, NEW w \in Queries, Querying(w)
  PROVE  RestoreInv'
<1> w \in Requests /\ db \in SUBSET Lots /\ db \union {w} \in SUBSET Lots /\ restoring \in BOOLEAN
  BY DEF RestoreInv, RestoreTypeOK, Requests, Lots
<1>a. dump \in [Restores -> SUBSET Lots]
  BY DEF RestoreInv, RestoreTypeOK
<1>1. CASE AdmitQuery(w)
  BY <1>1, <1>a, GoingStep DEF AdmitQuery
<1>2. CASE Refuse503(w)
  BY <1>2, <1>a, GoingStep DEF Refuse503, Ended
<1>3. CASE Write(w)
  BY <1>3, <1>a, GoingStep DEF Write, Ended
<1>4. CASE WriteFails(w)
  BY <1>4, <1>a, GoingStep DEF WriteFails, Ended
<1> QED
  BY <1>1, <1>2, <1>3, <1>4 DEF Querying

LEMMA BackupKeeps ==
  ASSUME RestoreInv, NEW b \in Backups, Backup(b)
  PROVE  RestoreInv'
<1>1. PICK stamp \in SUBSET {"stamp"} : Leaves(db \union stamp)
  BY DEF Backup
<1>2. b \in Requests /\ db \union stamp \in SUBSET Lots /\ restoring \in BOOLEAN
  BY DEF RestoreInv, RestoreTypeOK, Requests, Lots
<1>3. dump \in [Restores -> SUBSET Lots]
  BY DEF RestoreInv, RestoreTypeOK
<1> QED
  BY <1>1, <1>2, <1>3, GoingStep DEF Backup, Ended

\* A job begins: it goes to make its dump.
LEMMA BeginningKeeps ==
  ASSUME RestoreInv, NEW j \in Jobs, Turns(j, "new", "dumping"), Leaves(db),
         restoring' \in BOOLEAN, dump' \in [Restores -> SUBSET Lots],
         UNCHANGED <<safety, crashes>>
  PROVE  RestoreInv'
<1>1. j \in Requests /\ at' = [at EXCEPT ![j] = "dumping"] /\ at[j] = "new"
  BY DEF Turns, Requests
<1>2. db' \subseteq Lots /\ kept' \subseteq Lots
  BY LeavesKept DEF RestoreInv, RestoreTypeOK
<1>3. \A k \in Jobs : at'[k] \in {"new", "dumping"} => safety'[k] = {}
  BY <1>1 DEF RestoreInv, RestoreTypeOK, Requests
<1>4. RestoreTypeOK'
  BY <1>1, <1>2, <1>3 DEF RestoreInv, RestoreTypeOK, Ended
<1>5. Armed' \subseteq Armed
  BY <1>1, GoingArmsNobody DEF RestoreInv
<1> QED
  BY <1>4, <1>5, QuietStep DEF RestoreInv

\* A job makes its dump.
LEMMA DumpingKeeps ==
  ASSUME RestoreInv, NEW j \in Jobs, NEW to \in {"truncating", "importing"},
         Turns(j, "dumping", to), safety' = [safety EXCEPT ![j] = db], Leaves(db),
         UNCHANGED <<restoring, dump, crashes>>
  PROVE  RestoreInv'
<1>1. j \in Requests /\ at' = [at EXCEPT ![j] = to] /\ at[j] = "dumping"
  BY DEF Turns, Requests
<1>2. db' \subseteq Lots /\ kept' \subseteq Lots
  BY LeavesKept DEF RestoreInv, RestoreTypeOK
<1>3. at'[j] = to
  BY <1>1 DEF RestoreInv, RestoreTypeOK
<1>4. \A k \in Jobs : at'[k] \in {"new", "dumping"} => safety'[k] = {}
  BY <1>1, <1>3 DEF RestoreInv, RestoreTypeOK, Requests
<1>5. RestoreTypeOK'
  BY <1>1, <1>2, <1>4 DEF RestoreInv, RestoreTypeOK, Ended
<1>6. AtWork' # {}
  BY <1>3 DEF AtWork, Ended
<1> QED
  BY <1>1, <1>5, <1>6, DumpingStep DEF RestoreInv

\* A job empties the tables, and puts something in their place.
LEMMA TruncatingKeeps ==
  ASSUME RestoreInv, NEW j \in Jobs, NEW from \in {"truncating", "importing"},
         NEW to \in {"loading", "ok"}, Turns(j, from, to),
         NEW keys \in SUBSET Lots, Leaves(keys),
         UNCHANGED <<restoring, dump, safety, crashes>>
  PROVE  RestoreInv'
<1>1. j \in Requests /\ at[j] = from
  BY DEF Turns, Requests
<1>2. RestoreTypeOK'
  BY <1>1, GoingTypes DEF RestoreInv, RestoreTypeOK, Ended
<1> QED
  BY <1>1, <1>2, TruncatingStep DEF RestoreInv

LEMMA RestoringKeeps ==
  ASSUME RestoreInv, NEW r \in Restores, Restoring(r)
  PROVE  RestoreInv'
<1> USE DEF Ended
<1>a. r \in Requests /\ r \in Jobs
  BY DEF Requests, Jobs
<1>b. /\ db \in SUBSET Lots /\ db \union {"stamp"} \in SUBSET Lots
      /\ db \intersect Untouched \in SUBSET Lots
      /\ restoring \in BOOLEAN
      /\ db \union dump[r] \in SUBSET Lots
      /\ db \union safety[r] \in SUBSET Lots
      /\ dump \in [Restores -> SUBSET Lots]
  BY <1>a DEF RestoreInv, RestoreTypeOK, Lots
<1>c. [dump EXCEPT ![r] = {}] \in [Restores -> SUBSET Lots]
  BY <1>b
<1>1. CASE Refuse(r)
  BY <1>1, <1>a, <1>b, GoingStep DEF Refuse
<1>2. CASE Put(r)
  <2>1. dump' \in [Restores -> SUBSET Lots]
    BY <1>2, <1>a DEF Put, CommonLots, RestoreInv, RestoreTypeOK, Lots
  <2> QED
    BY <1>2, <1>a, <2>1, BeginningKeeps DEF Put
<1>3. CASE Dumped(r)
  BY <1>3, <1>a, DumpingKeeps DEF Dumped
<1>4. CASE DumpFails(r)
  BY <1>4, <1>a, <1>b, <1>c, GoingStep DEF DumpFails, Unlinks
<1>5. CASE Truncated(r)
  BY <1>5, <1>a, <1>b, TruncatingKeeps DEF Truncated
<1>6. CASE Loaded(r)
  BY <1>6, <1>a, <1>b, GoingStep DEF Loaded, Loads
<1>7. CASE LoadFails(r)
  BY <1>7, <1>a, <1>b, GoingStep DEF LoadFails
<1>8. CASE Stamped(r)
  BY <1>8, <1>a, <1>b, <1>c, GoingStep DEF Stamped, Unlinks
<1>9. CASE StepFails(r)
  BY <1>9, <1>a, <1>b, GoingStep DEF StepFails
<1>10. CASE RolledBack(r)
  BY <1>10, <1>a, <1>b, <1>c, GoingStep DEF RolledBack, Loads, Unlinks
<1> QED
  BY <1>1, <1>2, <1>3, <1>4, <1>5, <1>6, <1>7, <1>8, <1>9, <1>10 DEF Restoring

LEMMA ImportingKeeps ==
  ASSUME RestoreInv, NEW i \in Imports, Importing(i)
  PROVE  RestoreInv'
<1> USE DEF Ended
<1>a. i \in Requests /\ i \in Jobs
  BY DEF Requests, Jobs
<1>b. db \in SUBSET Lots /\ restoring \in BOOLEAN /\ dump \in [Restores -> SUBSET Lots]
  BY DEF RestoreInv, RestoreTypeOK
<1>1. CASE Import(i)
  BY <1>1, <1>a, <1>b, BeginningKeeps DEF Import
<1>2. CASE ImportDumped(i)
  BY <1>2, <1>a, DumpingKeeps DEF ImportDumped
<1>3. CASE Imported(i)
  <2>1. PICK stamp \in SUBSET {"stamp"} :
          Leaves((db \intersect Untouched) \union {i} \union stamp)
    BY <1>3 DEF Imported
  <2>2. (db \intersect Untouched) \union {i} \union stamp \in SUBSET Lots
    BY <1>a, <1>b DEF Lots
  <2> QED
    BY <1>3, <1>a, <2>1, <2>2, TruncatingKeeps DEF Imported
<1>4. CASE ImportFails(i)
  BY <1>4, <1>a, <1>b, GoingStep DEF ImportFails
<1> QED
  BY <1>1, <1>2, <1>3, <1>4 DEF Importing

LEMMA CrashKeeps ==
  ASSUME RestoreInv, Crash
  PROVE  RestoreInv'
<1>1. db' = db \union {"stamp"} /\ kept' \subseteq kept \union db'
  BY LeavesKept DEF Crash
<1>2. db' \subseteq Lots /\ kept' \subseteq Lots
  BY <1>1 DEF RestoreInv, RestoreTypeOK, Lots
<1>3. \A j \in Jobs : at'[j] \in {"new"} \union Ended /\ (at'[j] = "new" => at[j] = "new")
  BY DEF Crash, RestoreInv, RestoreTypeOK, Requests, Ended
<1>4. RestoreTypeOK'
  <2>1. at' \in [Requests -> {"new", "dumping", "truncating", "loading", "migrating",
                             "rolling", "importing", "running"} \union Ended]
    BY DEF Crash, RestoreInv, RestoreTypeOK, Ended
  <2>2. \A j \in Jobs : at'[j] \in {"new", "dumping"} => safety'[j] = {}
    BY <1>3 DEF Crash, RestoreInv, RestoreTypeOK, Ended
  <2>3. crashes' \in 0..MaxCrashes
    BY RestoreAssumption DEF RestoreAssumption, Crash, RestoreInv, RestoreTypeOK
  <2> QED
    BY <1>2, <2>1, <2>2, <2>3 DEF Crash, RestoreInv, RestoreTypeOK
<1>5. Armed' = {}
  BY <1>3 DEF Armed, Ended
<1> QED
  BY <1>4, <1>5, QuietStep DEF RestoreInv, Crash

\* Every step keeps the invariant.
LEMMA NextKeeps ==
  ASSUME RestoreInv, [RestoreNext]_restoreVars
  PROVE  RestoreInv'
<1>1. CASE UNCHANGED restoreVars
  BY <1>1 DEF restoreVars, RestoreInv, RestoreTypeOK, KeptRowsAreSafe, Covered, Armed, Saved
<1>2. CASE RestoreNext
  BY <1>2, QueryingKeeps, BackupKeeps, RestoringKeeps, ImportingKeeps, CrashKeeps DEF RestoreNext
<1> QED
  BY <1>1, <1>2

LEMMA InitKeeps ==
  ASSUME RestoreInit
  PROVE  RestoreInv
<1>1. RestoreTypeOK
  <2>1. db \subseteq Lots /\ kept \subseteq Lots
    BY DEF RestoreInit, Lots
  <2>2. at \in [Requests -> {"new", "dumping", "truncating", "loading", "migrating",
                            "rolling", "importing", "running"} \union Ended]
    BY DEF RestoreInit
  <2>3. safety \in [Jobs -> SUBSET Lots] /\ \A j \in Jobs : safety[j] = {}
    BY DEF RestoreInit
  <2>4. crashes \in 0..MaxCrashes
    BY RestoreAssumption DEF RestoreInit, RestoreAssumption
  <2>5. dump \in [Restores -> SUBSET Lots] /\ restoring \in BOOLEAN
    BY DEF RestoreInit
  <2> QED
    BY <2>1, <2>2, <2>3, <2>4, <2>5 DEF RestoreTypeOK
<1>2. Armed = {}
  BY DEF RestoreInit, Armed, Requests
<1> QED
  BY <1>1, <1>2 DEF RestoreInit, RestoreInv, KeptRowsAreSafe, Covered

\* The types of the server's endpoints, and that no job has a safety dump
\* before it has made one: pg-backup.ts and pg-import.ts.
THEOREM RestoreTypeCorrect == RestoreSpec => []RestoreTypeOK
<1>1. RestoreInit => RestoreInv
  BY InitKeeps
<1>2. RestoreInv /\ [RestoreNext]_restoreVars => RestoreInv'
  BY NextKeeps
<1>3. RestoreInv => RestoreTypeOK
  BY DEF RestoreInv
<1> QED
  BY <1>1, <1>2, <1>3, PTL DEF RestoreSpec

\* Whatever was in the database while no restore or import was at work is in
\* it still or in a safety dump, for any number of restores, imports, queries
\* and crashes (pg-backup.ts dumps before it truncates).
THEOREM KeptIsSafe == RestoreSpec => []KeptRowsAreSafe
<1>1. RestoreInit => RestoreInv
  BY InitKeeps
<1>2. RestoreInv /\ [RestoreNext]_restoreVars => RestoreInv'
  BY NextKeeps
<1>3. RestoreInv => KeptRowsAreSafe
  BY DEF RestoreInv
<1> QED
  BY <1>1, <1>2, <1>3, PTL DEF RestoreSpec

-----------------------------------------------------------------------------
(* A restore that nothing else is beside.                                  *)

\* It has been left alone so far as well, since no job is new again.  From the
\* TRUNCATE on what was there is gone, and from the load on what it was given
\* is there.
Exchanged(r) ==
  /\ at[r] \in {"loading", "migrating"} => "old" \notin db
  /\ at[r] = "migrating" => dump[r] \subseteq db

DumpsAreNew == \A r \in Restores : "old" \notin dump[r]

LoneExchange == \A r \in Restores : Alone(r) => Exchanged(r)

LoneInv == RestoreTypeOK /\ DumpsAreNew /\ LoneExchange

\* A step of no job: it adds rows, none of them old, or takes jobs to an end.
LEMMA OtherStepExchanges ==
  ASSUME LoneInv, NEW added, Leaves(db \union added), "old" \notin added, dump' = dump,
         \A j \in Jobs : at'[j] = at[j]
  PROVE  DumpsAreNew' /\ LoneExchange'
<1>1. db' = db \union added
  BY DEF Leaves
<1>2. DumpsAreNew'
  BY DEF LoneInv, DumpsAreNew
<1>3. ASSUME NEW r \in Restores, Alone(r)' PROVE Exchanged(r)'
  <2>1. r \in Jobs /\ at'[r] = at[r] /\ dump'[r] = dump[r]
    BY DEF Jobs
  <2>2. Alone(r)
    BY <1>3 DEF Alone
  <2>3. Exchanged(r)
    BY <2>2 DEF LoneInv, LoneExchange
  <2> QED
    BY <1>1, <2>1, <2>3 DEF Exchanged
<1> QED
  BY <1>2, <1>3 DEF LoneExchange

\* A step of a job ends the solitude of every other restore.
LEMMA JobStepExchanges ==
  ASSUME LoneInv, NEW j \in Jobs, NEW from, NEW to, Turns(j, from, to), to # "new",
         j \in Restores => (Alone(j) => Exchanged(j)')
  PROVE  LoneExchange'
<1>1. j \in Requests /\ at' = [at EXCEPT ![j] = to]
  BY DEF Turns, Requests
<1>2. at'[j] = to /\ \A k \in Jobs : k # j => at'[k] = at[k]
  BY <1>1 DEF LoneInv, RestoreTypeOK, Requests
<1>3. ASSUME NEW r \in Restores, Alone(r)' PROVE Exchanged(r)'
  <2>1. r = j
    BY <1>2, <1>3 DEF Alone
  <2>2. Alone(j)
    BY <1>2, <1>3, <2>1 DEF Alone
  <2> QED
    BY <2>1, <2>2, <1>3
<1> QED
  BY <1>3 DEF LoneExchange

LEMMA QueriesExchange ==
  ASSUME LoneInv, NEW w \in Queries, Querying(w)
  PROVE  DumpsAreNew' /\ LoneExchange'
<1>0. db \union {} = db /\ "old" # w /\ w \notin Jobs /\ w \in Requests
  BY RestoreAssumption DEF RestoreAssumption, Requests
<1>1. dump' = dump /\ \E from, to : Turns(w, from, to)
  BY DEF Querying, AdmitQuery, Refuse503, Write, WriteFails
<1>2. \A j \in Jobs : at'[j] = at[j]
  BY <1>0, <1>1 DEF Turns, LoneInv, RestoreTypeOK, Requests
<1>3. Leaves(db \union {}) \/ Leaves(db \union {w})
  BY <1>0 DEF Querying, AdmitQuery, Refuse503, Write, WriteFails
<1>4. "old" \notin {} /\ "old" \notin {w}
  BY <1>0
<1> QED
  BY <1>1, <1>2, <1>3, <1>4, OtherStepExchanges

LEMMA BackupsExchange ==
  ASSUME LoneInv, NEW b \in Backups, Backup(b)
  PROVE  DumpsAreNew' /\ LoneExchange'
<1>1. PICK stamp \in SUBSET {"stamp"} : Leaves(db \union stamp)
  BY DEF Backup
<1>2. b \notin Jobs /\ b \in Requests /\ "old" \notin stamp
  BY RestoreAssumption DEF RestoreAssumption, Requests
<1>3. \A j \in Jobs : at'[j] = at[j]
  BY <1>2 DEF Backup, Turns, LoneInv, RestoreTypeOK, Requests
<1> QED
  BY <1>1, <1>2, <1>3, OtherStepExchanges DEF Backup

LEMMA RestoresExchange ==
  ASSUME LoneInv, NEW r \in Restores, Restoring(r)
  PROVE  DumpsAreNew' /\ LoneExchange'
<1>0. r \in Jobs /\ r \in Requests /\ "old" # r
  BY RestoreAssumption DEF RestoreAssumption, Jobs, Requests
<1>a. dump \in [Restores -> SUBSET Lots] /\ at \in [Requests -> {"new", "dumping", "truncating",
        "loading", "migrating", "rolling", "importing", "running"} \union Ended]
  BY DEF LoneInv, RestoreTypeOK
<1>b. Alone(r) => Exchanged(r)
  BY DEF LoneInv, LoneExchange
<1>c. "old" \notin dump[r]
  BY DEF LoneInv, DumpsAreNew
<1>1. DumpsAreNew'
  <2>1. CASE dump' = dump
    BY <2>1 DEF LoneInv, DumpsAreNew
  <2>2. CASE Unlinks(r)
    BY <2>2, <1>a DEF LoneInv, DumpsAreNew, Unlinks
  <2>3. CASE \E common \in CommonLots : dump' = [dump EXCEPT ![r] = {r} \union common]
    <3>1. PICK common \in CommonLots : dump' = [dump EXCEPT ![r] = {r} \union common]
      BY <2>3
    <3>2. "old" \notin {r} \union common
      BY <1>0 DEF CommonLots
    <3> QED
      BY <3>1, <3>2, <1>a DEF LoneInv, DumpsAreNew
  <2> QED
    BY <2>1, <2>2, <2>3 DEF Restoring, Refuse, Put, Dumped, DumpFails, Truncated, Loaded,
      LoadFails, Stamped, StepFails, RolledBack
<1>2. CASE Truncated(r)
  <2>1. Turns(r, "truncating", "loading") /\ at'[r] = "loading"
    BY <1>2, <1>0, <1>a DEF Truncated, Turns
  <2>2. "old" \notin db'
    BY <1>2 DEF Truncated, Leaves, Untouched
  <2>3. Exchanged(r)'
    BY <2>1, <2>2 DEF Exchanged
  <2> QED
    BY <1>0, <1>1, <2>1, <2>3, JobStepExchanges
<1>3. CASE Loaded(r)
  <2>1. Turns(r, "loading", "migrating") /\ at'[r] = "migrating" /\ at[r] = "loading"
    BY <1>3, <1>0, <1>a DEF Loaded, Turns
  <2>2. db' = db \union dump[r] /\ dump' = dump
    BY <1>3 DEF Loaded, Loads, Leaves
  <2>3. Alone(r) => Exchanged(r)'
    BY <2>1, <2>2, <1>b, <1>c DEF Exchanged
  <2> QED
    BY <1>0, <1>1, <2>1, <2>3, JobStepExchanges
<1>4. CASE \E from, to : to \in {"dumping", "truncating", "rolling"} \union Ended /\ Turns(r, from, to)
  <2>1. PICK from, to : to \in {"dumping", "truncating", "rolling"} \union Ended /\ Turns(r, from, to)
    BY <1>4
  <2>2. at'[r] = to
    BY <2>1, <1>0, <1>a DEF Turns
  <2>3. to # "new" /\ to # "loading" /\ to # "migrating"
    BY <2>1 DEF Ended
  <2>4. Exchanged(r)'
    BY <2>2, <2>3 DEF Exchanged
  <2> QED
    BY <1>0, <1>1, <2>1, <2>3, <2>4, JobStepExchanges
<1> QED
  BY <1>2, <1>3, <1>4 DEF Restoring, Refuse, Put, Dumped, DumpFails,
      LoadFails, Stamped, StepFails, RolledBack, Ended

LEMMA ImportsExchange ==
  ASSUME LoneInv, NEW i \in Imports, Importing(i)
  PROVE  DumpsAreNew' /\ LoneExchange'
<1>1. i \in Jobs /\ i \notin Restores
  BY RestoreAssumption DEF RestoreAssumption, Jobs
<1>2. \E from, to : Turns(i, from, to) /\ to # "new"
  BY DEF Importing, Import, ImportDumped, Imported, ImportFails
<1>3. dump' = dump
  BY DEF Importing, Import, ImportDumped, Imported, ImportFails
<1>4. DumpsAreNew'
  BY <1>3 DEF LoneInv, DumpsAreNew
<1> QED
  BY <1>1, <1>2, <1>4, JobStepExchanges

LEMMA CrashExchanges ==
  ASSUME LoneInv, Crash
  PROVE  DumpsAreNew' /\ LoneExchange'
<1>1. \A r \in Restores : dump'[r] = {} /\ at'[r] \in {"new"} \union Ended
  BY DEF Crash, Requests, Jobs, Ended
<1> QED
  BY <1>1 DEF DumpsAreNew, LoneExchange, Exchanged, Ended

LEMMA NextExchanges ==
  ASSUME LoneInv, [RestoreNext]_restoreVars, RestoreTypeOK'
  PROVE  LoneInv'
<1>1. CASE UNCHANGED restoreVars
  BY <1>1 DEF restoreVars, LoneInv, DumpsAreNew, LoneExchange, Alone, Exchanged
<1>2. CASE RestoreNext
  BY <1>2, QueriesExchange, BackupsExchange, RestoresExchange, ImportsExchange, CrashExchanges
  DEF RestoreNext, LoneInv
<1> QED
  BY <1>1, <1>2

\* A restore answers 200 from where it has migrated, and the stamp takes
\* nothing away.
LEMMA StampingEnds ==
  ASSUME LoneInv, RestoreNext, NEW r \in Restores, at[r] # "ok", at'[r] = "ok", Alone(r)
  PROVE  dump[r] \subseteq db' /\ "old" \notin db'
<1>0. r \in Jobs /\ r \in Requests /\ r \notin Queries /\ r \notin Backups /\ r \notin Imports
  BY RestoreAssumption DEF RestoreAssumption, Jobs, Requests
<1>a. at \in [Requests -> {"new", "dumping", "truncating",
        "loading", "migrating", "rolling", "importing", "running"} \union Ended]
  BY DEF LoneInv, RestoreTypeOK
<1>1. ASSUME NEW q \in Requests, NEW from, NEW to, Turns(q, from, to)
      PROVE  q = r /\ to = "ok"
  BY <1>1, <1>0, <1>a DEF Turns
<1>2. Stamped(r)
  <2>1. ~Crash
    BY <1>0 DEF Crash
  <2>2. \A w \in Queries : ~Querying(w)
    BY <1>0, <1>1 DEF Querying, AdmitQuery, Refuse503, Write, WriteFails, Requests
  <2>3. \A b \in Backups : ~Backup(b)
    BY <1>0, <1>1 DEF Backup, Requests
  <2>4. \A i \in Imports : ~Importing(i)
    BY <1>0, <1>1 DEF Importing, Import, ImportDumped, Imported, ImportFails, Requests, Jobs
  <2>5. PICK s \in Restores : Restoring(s)
    BY <2>1, <2>2, <2>3, <2>4 DEF RestoreNext
  <2>6. s \in Requests
    BY DEF Requests, Jobs
  <2>7. \E from, to : Turns(s, from, to)
    BY <2>5 DEF Restoring, Refuse, Put, Dumped, DumpFails, Truncated, Loaded,
      LoadFails, Stamped, StepFails, RolledBack
  <2>8. s = r
    BY <2>6, <2>7, <1>1
  <2>9. \A from, to : Turns(r, from, to) => to = "ok"
    BY <1>0, <1>1
  <2> QED
    BY <2>5, <2>8, <2>9 DEF Restoring, Refuse, Put, Dumped, DumpFails, Truncated, Loaded,
      LoadFails, StepFails, RolledBack
<1>3. db' = db \union {"stamp"} /\ at[r] = "migrating"
  BY <1>2 DEF Stamped, Turns, Leaves
<1>4. Exchanged(r)
  BY DEF LoneInv, LoneExchange
<1> QED
  BY <1>3, <1>4 DEF Exchanged

\* A restore that answers 200, with no other restore or import ever beside it,
\* has put what it was given in the place of what was there, whatever queries
\* write meanwhile, for any number of requests (pg-backup.ts, pg.ts).
THEOREM RestoreExchanges == RestoreSpec => RestoredIsWhatWasGiven
<1> DEFINE A == [\A r \in Restores :
       at[r] # "ok" /\ at'[r] = "ok" /\ Alone(r) =>
         dump[r] \subseteq db' /\ "old" \notin db']_restoreVars
           I == RestoreInv /\ LoneInv
<1>1. RestoreInit => I
  <2> SUFFICES ASSUME RestoreInit PROVE I
    OBVIOUS
  <2>1. RestoreInv /\ RestoreTypeOK
    BY InitKeeps DEF RestoreInv
  <2>2. \A r \in Restores : dump[r] = {} /\ at[r] = "new"
    BY DEF RestoreInit, Requests, Jobs
  <2> QED
    BY <2>1, <2>2 DEF LoneInv, DumpsAreNew, LoneExchange, Exchanged
<1>2. I /\ [RestoreNext]_restoreVars => I'
  BY NextKeeps, NextExchanges DEF RestoreInv
<1>3. I /\ [RestoreNext]_restoreVars => A
  BY StampingEnds DEF restoreVars
<1> HIDE DEF I, A
<1>4. RestoreSpec => [][A]_restoreVars
  BY <1>1, <1>2, <1>3, PTL DEF RestoreSpec
<1> QED
  BY <1>1, <1>2, <1>3, PTL DEF RestoreSpec, RestoredIsWhatWasGiven, A

-----------------------------------------------------------------------------
(* The flag.                                                               *)

FlagIsUp == \A r \in Restores : r \in AtWork /\ NoneEndedBeside(r) => restoring

\* A step that leaves the flag alone and begins no restore, or raises it.
LEMMA FlagStays ==
  ASSUME FlagIsUp, \A r \in Restores : at[r] \in Ended => at'[r] \in Ended,
         \/ restoring'
         \/ /\ restoring' = restoring
            /\ \A r \in Restores : at[r] = "new" => at'[r] \in {"new"} \union Ended
  PROVE  FlagIsUp'
<1> SUFFICES ASSUME NEW r \in Restores, (r \in AtWork /\ NoneEndedBeside(r))', ~restoring'
             PROVE  FALSE
  BY DEF FlagIsUp
<1>1. at[r] # "new" /\ at[r] \notin Ended /\ r \in Jobs
  BY DEF AtWork, Jobs
<1>2. r \in AtWork /\ NoneEndedBeside(r)
  BY <1>1 DEF AtWork, NoneEndedBeside
<1> QED
  BY <1>2 DEF FlagIsUp

\* A restore that lowers the flag has come to its end.
LEMMA FlagLowered ==
  ASSUME RestoreTypeOK, NEW r \in Restores, Stamped(r) \/ RolledBack(r)
  PROVE  FlagIsUp'
<1>1. at'[r] \in Ended
  BY DEF Stamped, RolledBack, Turns, RestoreTypeOK, Requests, Jobs, Ended
<1>2. \A s \in Restores : s # r => ~NoneEndedBeside(s)'
  BY <1>1 DEF NoneEndedBeside
<1>3. r \notin AtWork'
  BY <1>1 DEF AtWork
<1> QED
  BY <1>2, <1>3 DEF FlagIsUp

LEMMA FlagStep ==
  ASSUME RestoreTypeOK, FlagIsUp, [RestoreNext]_restoreVars
  PROVE  FlagIsUp'
<1> DEFINE Turning(q) == \E from, to : Turns(q, from, to) /\ from \notin Ended
<1>1. ASSUME NEW q \in Requests, Turning(q)
      PROVE  /\ \A r \in Restores : at[r] \in Ended => at'[r] \in Ended
             /\ \A r \in Restores : r # q => at'[r] = at[r]
  BY <1>1 DEF Turns, RestoreTypeOK, Requests, Jobs
<1>2. CASE UNCHANGED restoreVars
  BY <1>2, FlagStays DEF restoreVars
<1>3. CASE \E w \in Queries : Querying(w)
  <2>1. PICK w \in Queries : Querying(w)
    BY <1>3
  <2>2. w \in Requests /\ w \notin Restores /\ restoring' = restoring /\ Turning(w)
    BY <2>1, RestoreAssumption DEF RestoreAssumption, Requests, Jobs, Ended, Querying, AdmitQuery,
      Refuse503, Write, WriteFails
  <2> QED
    BY <2>2, <1>1, FlagStays
<1>4. CASE \E b \in Backups : Backup(b)
  <2>1. PICK b \in Backups : Backup(b)
    BY <1>4
  <2>2. b \in Requests /\ b \notin Restores /\ restoring' = restoring /\ Turning(b)
    BY <2>1, RestoreAssumption DEF RestoreAssumption, Requests, Jobs, Ended, Backup
  <2> QED
    BY <2>2, <1>1, FlagStays
<1>5. CASE \E i \in Imports : Importing(i)
  <2>1. PICK i \in Imports : Importing(i)
    BY <1>5
  <2>2. i \in Requests /\ i \notin Restores /\ restoring' = restoring /\ Turning(i)
    BY <2>1, RestoreAssumption DEF RestoreAssumption, Requests, Jobs, Ended, Importing, Import,
      ImportDumped, Imported, ImportFails
  <2> QED
    BY <2>2, <1>1, FlagStays
<1>6. CASE Crash
  <2>1. \A r \in Restores : at'[r] \in {"new"} \union Ended
    BY <1>6 DEF Crash, Requests, Jobs, Ended
  <2> QED
    BY <2>1 DEF FlagIsUp, AtWork
<1>7. CASE \E r \in Restores : Restoring(r)
  <2>1. PICK r \in Restores : Restoring(r)
    BY <1>7
  <2>2. r \in Requests
    BY DEF Requests, Jobs
  <2>3. CASE Stamped(r) \/ RolledBack(r)
    BY <2>3, FlagLowered
  <2>4. CASE Put(r)
    <3>1. restoring' /\ Turning(r)
      BY <2>4 DEF Put, Ended
    <3> QED
      BY <3>1, <2>2, <1>1, FlagStays
  <2>5. CASE Refuse(r) \/ Dumped(r) \/ DumpFails(r) \/ Truncated(r) \/ Loaded(r) \/ LoadFails(r)
             \/ StepFails(r)
    <3>1. restoring' = restoring /\ Turning(r)
      BY <2>5 DEF Ended, Refuse, Dumped, DumpFails, Truncated, Loaded, LoadFails, StepFails
    <3>2. at[r] = "new" => at'[r] = "refused"
      BY <2>5, <2>2 DEF Turns, RestoreTypeOK, Refuse, Dumped, DumpFails, Truncated, Loaded, LoadFails,
        StepFails
    <3>3. \A s \in Restores : at[s] = "new" => at'[s] \in {"new"} \union Ended
      BY <3>1, <3>2, <2>2, <1>1 DEF Ended
    <3> QED
      BY <3>1, <3>3, <2>2, <1>1, FlagStays
  <2> QED
    BY <2>1, <2>3, <2>4, <2>5 DEF Restoring
<1> QED
  BY <1>2, <1>3, <1>4, <1>5, <1>6, <1>7 DEF RestoreNext

\* Only AdmitQuery lets a query in, and it reads the flag.
LEMMA AdmittedByFlag ==
  ASSUME RestoreTypeOK, RestoreNext, NEW w \in Queries, at[w] = "new", at'[w] = "running"
  PROVE  ~restoring
<1>1. w \in Requests /\ w \notin Jobs /\ w \notin Backups
  BY RestoreAssumption DEF RestoreAssumption, Requests
<1>2. ASSUME NEW q \in Requests, NEW from, NEW to, Turns(q, from, to) PROVE q = w /\ to = "running"
  BY <1>1, <1>2 DEF Turns, RestoreTypeOK
<1>3. ~Crash
  BY <1>1 DEF Crash, Ended
<1>4. \A b \in Backups : ~Backup(b)
  BY <1>1, <1>2 DEF Backup, Requests
<1>5. \A i \in Imports : ~Importing(i)
  BY <1>1, <1>2 DEF Importing, Import, ImportDumped, Imported, ImportFails, Requests, Jobs
<1>6. \A r \in Restores : ~Restoring(r)
  BY <1>1, <1>2 DEF Restoring, Refuse, Put, Dumped, DumpFails, Truncated, Loaded,
    LoadFails, Stamped, StepFails, RolledBack, Requests, Jobs
<1>7. PICK q \in Queries : Querying(q)
  BY <1>3, <1>4, <1>5, <1>6 DEF RestoreNext
<1>8. \A from, to : Turns(q, from, to) => q = w /\ to = "running"
  BY <1>2 DEF Requests
<1> QED
  BY <1>7, <1>8 DEF Querying, AdmitQuery, Refuse503, Write, WriteFails

\* While a restore is at work and no other restore has come to its end, no query is let in,
\* for any number of requests, whatever imports, failures and crashes do (pg.ts:143-147,
\* pg-backup.ts:272-363).
THEOREM QueriesStayOut == RestoreSpec => RestoresKeepQueriesOut
<1> DEFINE A == [\A r \in Restores, w \in Queries :
       r \in AtWork /\ NoneEndedBeside(r) => ~(at[w] = "new" /\ at'[w] = "running")]_restoreVars
<1>1. RestoreInit => FlagIsUp
  BY DEF RestoreInit, FlagIsUp, AtWork, Requests
<1>2. RestoreTypeOK /\ FlagIsUp /\ [RestoreNext]_restoreVars => FlagIsUp'
  BY FlagStep
<1>3. RestoreTypeOK /\ FlagIsUp /\ [RestoreNext]_restoreVars => A
  <2> SUFFICES ASSUME RestoreTypeOK, FlagIsUp, RestoreNext, NEW r \in Restores, NEW w \in Queries,
                      r \in AtWork, NoneEndedBeside(r), at[w] = "new", at'[w] = "running"
               PROVE  FALSE
    BY DEF restoreVars
  <2> QED
    BY AdmittedByFlag DEF FlagIsUp
<1> HIDE DEF A
<1> QED
  BY <1>1, <1>2, <1>3, RestoreTypeCorrect, PTL DEF RestoreSpec, RestoresKeepQueriesOut, A
=============================================================================
