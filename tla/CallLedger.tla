----------------------------- MODULE CallLedger -----------------------------
(***************************************************************************)
(* What a turn promises about tool calls, whatever the order of its rows,  *)
(* lanes and awaits: a call of high risk runs only once the user granted   *)
(* it, no call starts once the turn is halted, a call that is settled never *)
(* starts again, at most one generative call starts in a turn, and calls   *)
(* are forgotten only when none of them is running or about to.            *)
(***************************************************************************)
EXTENDS Naturals

CONSTANTS Kinds, Slots

VARIABLES kind, status, halted, generated

ledgerVars == <<kind, status, halted, generated>>

Risky(s) == kind[s] \in {"high", "generative"}

Init ==
  /\ kind = [s \in Slots |-> "none"]
  /\ status = [s \in Slots |-> "none"]
  /\ halted = FALSE
  /\ generated = 0

Call(s, k) ==
  /\ status[s] = "none"
  /\ kind' = [kind EXCEPT ![s] = k]
  /\ status' = [status EXCEPT ![s] = "called"]
  /\ UNCHANGED <<halted, generated>>

\* The user grants a call.
Grant(s) ==
  /\ status[s] = "called" /\ Risky(s)
  /\ status' = [status EXCEPT ![s] = "granted"]
  /\ UNCHANGED <<kind, halted, generated>>

Start(s) ==
  /\ ~halted
  /\ status[s] = IF Risky(s) THEN "granted" ELSE "called"
  /\ status' = [status EXCEPT ![s] = "running"]
  /\ IF kind[s] = "generative"
     THEN generated = 0 /\ generated' = 1
     ELSE UNCHANGED generated
  /\ UNCHANGED <<kind, halted>>

\* A call ends: it ran, or it never will.
Settle(s) ==
  /\ status[s] \in {"called", "granted", "running"}
  /\ status' = [status EXCEPT ![s] = "settled"]
  /\ UNCHANGED <<kind, halted, generated>>

\* The next batch begins.
Forget ==
  /\ \A s \in Slots : status[s] \in {"none", "settled"}
  /\ kind' = [s \in Slots |-> "none"]
  /\ status' = [s \in Slots |-> "none"]
  /\ UNCHANGED <<halted, generated>>

Halt ==
  /\ halted' = TRUE
  /\ UNCHANGED <<kind, status, generated>>

Next ==
  \/ Halt \/ Forget
  \/ \E s \in Slots :
       \/ \E k \in Kinds : Call(s, k)
       \/ Grant(s) \/ Start(s) \/ Settle(s)

Spec == Init /\ [][Next]_ledgerVars
=============================================================================
