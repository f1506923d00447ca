------------------------------ MODULE Commitments ------------------------------
(***************************************************************************)
(* What the machine-admission store promises about a task key, without     *)
(* files, locks or processes: it is tried a bounded number of times, one   *)
(* attempt becomes its result, and nothing is tried or committed again.    *)
(***************************************************************************)
EXTENDS Integers

CONSTANTS Keys, Deps, RetryCap

VARIABLES
  tries,    \* attempts made for each key
  value,    \* the attempt whose result each key stands for, 0 for none
  withdrawn \* the dependencies that were revoked

vars == <<tries, value, withdrawn>>

Init ==
  /\ tries = [k \in Keys |-> 0]
  /\ value = [k \in Keys |-> 0]
  /\ withdrawn = {}

Try(k) ==
  /\ value[k] = 0
  /\ tries[k] < RetryCap
  /\ tries' = [tries EXCEPT ![k] = @ + 1]
  /\ UNCHANGED <<value, withdrawn>>

(* The latest attempt, and no other, becomes the result. *)
Commit(k) ==
  /\ value[k] = 0
  /\ tries[k] > 0
  /\ value' = [value EXCEPT ![k] = tries[k]]
  /\ UNCHANGED <<tries, withdrawn>>

Withdraw(d) ==
  /\ withdrawn' = withdrawn \cup {d}
  /\ UNCHANGED <<tries, value>>

Next ==
  \/ \E k \in Keys : Try(k) \/ Commit(k)
  \/ \E d \in Deps : Withdraw(d)

Spec == Init /\ [][Next]_vars
=============================================================================
