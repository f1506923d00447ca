---------------------------- MODULE AttemptAccount ----------------------------
(***************************************************************************)
(* What the runtime promises about the attempts of a job, without leases,  *)
(* statements, handlers or time: attempts of one job follow one another,   *)
(* each is paid for at most once and only after it was granted, none is    *)
(* granted beyond the limits or after the job was halted.                  *)
(***************************************************************************)
EXTENDS Integers

CONSTANTS Jobs, MaxAttempts, MaxRequests

VARIABLES
  granted,  \* attempts granted so far
  open,     \* the jobs with an attempt under way
  spent,    \* requests paid for
  halted    \* the jobs that get no further attempt

vars == <<granted, open, spent, halted>>

Init ==
  /\ granted = [j \in Jobs |-> 0]
  /\ open = {}
  /\ spent = [j \in Jobs |-> 0]
  /\ halted = {}

Grant(j) ==
  /\ j \notin open \cup halted
  /\ granted[j] < MaxAttempts
  /\ spent[j] < MaxRequests
  /\ granted' = [granted EXCEPT ![j] = @ + 1]
  /\ open' = open \cup {j}
  /\ UNCHANGED <<spent, halted>>

(* The attempt ends with an outcome, known or unknown, and is paid for. *)
Pay(j) ==
  /\ j \in open
  /\ open' = open \ {j}
  /\ spent' = [spent EXCEPT ![j] = @ + 1]
  /\ UNCHANGED <<granted, halted>>

(* The attempt ends unheard of, and is not paid for. *)
Lapse(j) ==
  /\ j \in open
  /\ open' = open \ {j}
  /\ UNCHANGED <<granted, spent, halted>>

Halt(j) ==
  /\ halted' = halted \cup {j}
  /\ UNCHANGED <<granted, open, spent>>

Next == \E j \in Jobs : Grant(j) \/ Pay(j) \/ Lapse(j) \/ Halt(j)

Spec == Init /\ [][Next]_vars
=============================================================================
