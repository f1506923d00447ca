---------------------------- MODULE RuntimeProofs ----------------------------
(***************************************************************************)
(* Theorems about Runtime, for any jobs, cancel threads, attempt and       *)
(* request limits and any number of restarts.                              *)
(***************************************************************************)
EXTENDS Runtime, FiniteSetTheorems, TLAPS

USE DEF jobVars, leaseVars, budgetVars, loopVars

(* The handler's locals, between two handlers and during one. *)
LEMMA NoCallType == NoCall \in Call
BY MaxAttemptsAssumption DEF NoCall, Call, Attempts, JobStates

LEMMA CallFields ==
  ASSUME LedgerTypeOK
  PROVE  /\ call.job \in Jobs \cup {NoJob}
         /\ call.k \in Attempts
         /\ call.write \in JobStates
         /\ stmt \notin {"idle", "expire"} => <<call.job, call.k>> \in Leases
BY DEF LedgerTypeOK, Call, Leases

(* A statement `to` about lease <<j, k>> is well typed. *)
LEMMA GotoType ==
  ASSUME NEW j \in Jobs, NEW k \in Attempts, NEW s \in JobStates, NEW to,
         Goto(to, j, k, s)
  PROVE  call' \in Call /\ call'.job \in Jobs
BY DEF Goto, Call

(* Every reachable state of the ledger is well typed. *)
THEOREM TypeCorrect == LedgerSpec => []LedgerTypeOK
<1> USE MaxAttemptsAssumption, MaxCrashesAssumption, NoJobAssumption
    DEF Attempts, Leases, JobStates, LeaseStates, Steps, Terminal
<1>1. LedgerInit => LedgerTypeOK
  BY NoCallType DEF LedgerInit, LedgerTypeOK
<1>2. LedgerTypeOK /\ [LedgerNext]_ledgerVars => LedgerTypeOK'
  <2> SUFFICES ASSUME LedgerTypeOK, [LedgerNext]_ledgerVars PROVE LedgerTypeOK'
    OBVIOUS
  <2> USE NoCallType, CallFields DEF LedgerTypeOK
  <2>1. ASSUME NEW j \in Jobs, Submit(j) PROVE LedgerTypeOK'
    <3>1. Cardinality({i \in Jobs : status[i] # "ABSENT"}) \in Nat
      BY JobsFinite, FS_Subset, FS_CardinalityType
    <3>2. QED BY <2>1, <3>1 DEF Submit
  <2>2. ASSUME NEW j \in Jobs, ReserveBudget(j) PROVE LedgerTypeOK'
    BY <2>2 DEF ReserveBudget
  <2>3. ASSUME NEW c \in Cancellers, NEW j \in Jobs, CancelRead(c, j) PROVE LedgerTypeOK'
    BY <2>3 DEF CancelRead
  <2>4. ASSUME NEW c \in Cancellers, CancelWrite(c) PROVE LedgerTypeOK'
    BY <2>4 DEF CancelWrite
  <2>5. CASE ClaimBegin
    BY <2>5 DEF ClaimBegin
  <2>6. ASSUME NEW j \in Jobs, NEW k \in Attempts, HeartbeatRead(j, k) PROVE LedgerTypeOK'
    BY <2>6, GotoType DEF HeartbeatRead, Goto
  <2>7. ASSUME NEW j \in Jobs, NEW k \in Attempts, CompleteBegin(j, k) PROVE LedgerTypeOK'
    <3>1. PICK result \in {"success", "retry", "failure"} :
               Goto("doneJob", j, k, NextStatus(j, result))
      BY <2>7 DEF CompleteBegin
    <3>2. NextStatus(j, result) \in JobStates
      BY DEF NextStatus
    <3>3. call' \in Call /\ call'.job \in Jobs /\ stmt' = "doneJob"
      BY <3>1, <3>2, GotoType DEF Goto
    <3>4. UNCHANGED <<jobVars, leaseVars, budgetVars, unknown, receipt, todo,
                      cancelling, crashes>>
      BY <2>7 DEF CompleteBegin
    <3>5. QED BY <3>3, <3>4
  <2>8. ASSUME NEW j \in Jobs, NEW k \in Attempts, UnknownBegin(j, k) PROVE LedgerTypeOK'
    BY <2>8, GotoType DEF UnknownBegin, Goto
  <2>9. ASSUME NEW j \in Jobs, ReconcileBegin(j) PROVE LedgerTypeOK'
    <3>1. todo' \subseteq unknown
      BY <2>9, Zenon DEF ReconcileBegin
    <3>2. Goto("recRow", j, 1, status[j])
      BY <2>9, Zenon DEF ReconcileBegin
    <3>3. call' \in Call /\ call'.job \in Jobs /\ stmt' = "recRow"
      <4>1. 1 \in Attempts /\ status[j] \in JobStates
        OBVIOUS
      <4>2. QED BY <3>2, <4>1, GotoType DEF Goto
    <3>4. UNCHANGED <<jobVars, leaseVars, budgetVars, unknown, receipt,
                      cancelling, crashes>>
      BY <2>9, Zenon DEF ReconcileBegin
    <3>5. QED BY <3>1, <3>3, <3>4
  <2>10. ASSUME NEW l \in Leases, Tick(l) PROVE LedgerTypeOK'
    BY <2>10 DEF Tick
  <2>11. CASE Crash
    BY <2>11 DEF Crash, Done
  <2>12. CASE LoopStep
    <3>1. ASSUME NEW j \in Jobs, NEW k \in Attempts, ExpireLease(j, k) PROVE LedgerTypeOK'
      BY <3>1, GotoType DEF ExpireLease, Goto
    <3>2. CASE ExpireJob
      BY <3>2 DEF ExpireJob
    <3>3. CASE ExpireBudget
      BY <3>3 DEF ExpireBudget, Released
    <3>4. CASE ClaimNone
      BY <3>4 DEF ClaimNone, Done
    <3>5. ASSUME NEW j \in Jobs, ClaimExhausted(j) PROVE LedgerTypeOK'
      BY <3>5 DEF ClaimExhausted, Done
    <3>6. ASSUME NEW j \in Jobs, ClaimGrant(j) PROVE LedgerTypeOK'
      BY <3>6 DEF ClaimGrant, Exhausted, Done
    <3>7. CASE HeartbeatWrite
      BY <3>7 DEF HeartbeatWrite, Done
    <3>8. CASE CompleteJob
      BY <3>8 DEF CompleteJob
    <3>9. CASE CompleteLease
      BY <3>9 DEF CompleteLease
    <3>10. CASE CompleteBudget
      BY <3>10 DEF CompleteBudget, Charge, Released
    <3>11. CASE CompleteReceipt
      BY <3>11 DEF CompleteReceipt, Projected, Done
    <3>12. CASE UnknownRow
      BY <3>12 DEF UnknownRow
    <3>13. CASE UnknownBudget
      BY <3>13 DEF UnknownBudget, Charge, Released
    <3>14. CASE UnknownLease
      BY <3>14 DEF UnknownLease, Done
    <3>15. ASSUME NEW l \in Leases, ReconcileRow(l) PROVE LedgerTypeOK'
      BY <3>15 DEF ReconcileRow
    <3>16. CASE ReconcileJob
      BY <3>16 DEF ReconcileJob
    <3>17. CASE ReconcileReceipt
      BY <3>17 DEF ReconcileReceipt, Projected
    <3>18. CASE ReconcileEnd
      BY <3>18 DEF ReconcileEnd, Done
    <3>19. QED
      BY <2>12, <3>1, <3>2, <3>3, <3>4, <3>5, <3>6, <3>7, <3>8, <3>9, <3>10,
         <3>11, <3>12, <3>13, <3>14, <3>15, <3>16, <3>17, <3>18 DEF LoopStep
  <2>13. CASE UNCHANGED ledgerVars
    BY <2>13 DEF ledgerVars
  <2>14. QED
    BY <2>1, <2>2, <2>3, <2>4, <2>5, <2>6, <2>7, <2>8, <2>9, <2>10, <2>11,
       <2>12, <2>13 DEF LedgerNext, Serve
<1>3. QED
  BY <1>1, <1>2, PTL DEF LedgerSpec
-----------------------------------------------------------------------------
(* Of all actions only a grant moves a job's attempt, and a grant takes a job
   from the queue that is not cancelled. *)
THEOREM CancelledNotGrantedHolds == LedgerSpec => CancelledNotGranted
<1>1. LedgerTypeOK /\ [LedgerNext]_ledgerVars => [\A j \in cancelled : attempt'[j] = attempt[j]]_ledgerVars
  <2> SUFFICES ASSUME LedgerTypeOK, [LedgerNext]_ledgerVars, NEW i \in cancelled
               PROVE  attempt'[i] = attempt[i]
    OBVIOUS
  <2>1. ASSUME NEW j \in Jobs, ClaimGrant(j) PROVE attempt'[i] = attempt[i]
    BY <2>1 DEF ClaimGrant, Oldest, Waiting, LedgerTypeOK
  <2>2. CASE \E j \in Jobs : ClaimGrant(j)
    BY <2>1, <2>2
  <2>3. CASE ~ \E j \in Jobs : ClaimGrant(j)
    <3>1. attempt' = attempt
      BY <2>3 DEF LedgerNext, Serve, ledgerVars, LoopStep, Submit, ReserveBudget, CancelRead,
         CancelWrite, ClaimBegin, HeartbeatRead, CompleteBegin, UnknownBegin,
         ReconcileBegin, Tick, Crash, ExpireLease, ExpireJob, ExpireBudget,
         ClaimNone, ClaimExhausted, HeartbeatWrite, CompleteJob, CompleteLease,
         CompleteBudget, CompleteReceipt, UnknownRow, UnknownBudget,
         UnknownLease, ReconcileRow, ReconcileJob, ReconcileReceipt, ReconcileEnd
    <3>2. QED BY <3>1
  <2>4. QED BY <2>2, <2>3
<1>2. QED
  BY <1>1, TypeCorrect, PTL DEF LedgerSpec, CancelledNotGranted
-----------------------------------------------------------------------------
(* BudgetBound is not inductive: that a charge is covered depends on the lease
   being charged, and a restart may separate the two.  Backing counts the
   reservations a job ought to hold, one per ACTIVE lease, corrected while a
   handler stands between the statement on the lease and the one on the
   budget.  A restart can lose that correction, hence `crashes`. *)
Offset(j) ==
  IF call.job # j THEN 0
  ELSE IF stmt \in {"expireJob", "expireBudget", "doneBudget"} THEN 1
  ELSE IF stmt = "unkLease" THEN -1 ELSE 0

Backing(j) == Cardinality(ActiveOf(j)) + Offset(j)

Covered(j) ==
  /\ Backing(j) - reserved[j] <= crashes
  /\ consumed[j] + reserved[j] <= MaxRequests + crashes
  /\ consumed[j] + Backing(j) <= MaxRequests + crashes

(* The lease a handler is about to close is ACTIVE: no other handler runs. *)
Handling ==
  /\ stmt \in {"doneJob", "doneLease", "unkRow", "unkBudget", "unkLease"} =>
       lease[<<call.job, call.k>>] = "ACTIVE"
  /\ stmt \in {"expire", "expireJob", "expireBudget"} =>
       \A l \in todo : lease[l] = "ACTIVE"

(* Leases beyond the current attempt do not exist yet. *)
Fresh == \A j \in Jobs, k \in Attempts : k > attempt[j] => lease[<<j, k>>] = "NONE"

IInv == LedgerTypeOK /\ Handling /\ Fresh /\ \A j \in Jobs : Covered(j)

LEMMA AttemptsFinite ==
  ASSUME NEW S \in SUBSET Attempts
  PROVE  IsFiniteSet(S) /\ Cardinality(S) \in Nat
<1>1. IsFiniteSet(Attempts)
  BY MaxAttemptsAssumption, FS_Interval DEF Attempts
<1>2. QED BY <1>1, FS_Subset, FS_CardinalityType

LEMMA ActiveFinite ==
  ASSUME NEW j
  PROVE  IsFiniteSet(ActiveOf(j)) /\ Cardinality(ActiveOf(j)) \in Nat
<1>1. ActiveOf(j) \in SUBSET Attempts
  BY DEF ActiveOf
<1>2. QED BY <1>1, AttemptsFinite

(* Closing an ACTIVE lease takes one from its job's count and no other's. *)
LEMMA ActiveRemoved ==
  ASSUME LedgerTypeOK, NEW i \in Jobs, NEW k \in Attempts, lease[<<i, k>>] = "ACTIVE",
         NEW s, s # "ACTIVE", lease' = [lease EXCEPT ![<<i, k>>] = s],
         NEW j \in Jobs
  PROVE  Cardinality(ActiveOf(j)') =
           IF j = i THEN Cardinality(ActiveOf(j)) - 1 ELSE Cardinality(ActiveOf(j))
<1>1. CASE j = i
  <2>1. ActiveOf(j)' = ActiveOf(j) \ {k} /\ k \in ActiveOf(j)
    BY <1>1 DEF ActiveOf, LedgerTypeOK, Leases
  <2>2. QED BY <1>1, <2>1, ActiveFinite, FS_RemoveElement
<1>2. CASE j # i
  <2>1. ActiveOf(j)' = ActiveOf(j)
    BY <1>2 DEF ActiveOf, LedgerTypeOK, Leases
  <2>2. QED BY <1>2, <2>1
<1>3. QED BY <1>1, <1>2

(* A grant adds one. *)
LEMMA ActiveAdded ==
  ASSUME LedgerTypeOK, NEW i \in Jobs, NEW k \in Attempts, lease[<<i, k>>] = "NONE",
         lease' = [lease EXCEPT ![<<i, k>>] = "ACTIVE"],
         NEW j \in Jobs
  PROVE  Cardinality(ActiveOf(j)') =
           IF j = i THEN Cardinality(ActiveOf(j)) + 1 ELSE Cardinality(ActiveOf(j))
<1>1. CASE j = i
  <2>1. ActiveOf(j)' = ActiveOf(j) \cup {k} /\ k \notin ActiveOf(j)
    BY <1>1 DEF ActiveOf, LedgerTypeOK, Leases
  <2>2. QED BY <1>1, <2>1, ActiveFinite, FS_AddElement
<1>2. CASE j # i
  <2>1. ActiveOf(j)' = ActiveOf(j)
    BY <1>2 DEF ActiveOf, LedgerTypeOK, Leases
  <2>2. QED BY <1>2, <2>1
<1>3. QED BY <1>1, <1>2

LEMMA ActiveUnchanged ==
  ASSUME lease' = lease, NEW j \in Jobs
  PROVE  Cardinality(ActiveOf(j)') = Cardinality(ActiveOf(j))
BY DEF ActiveOf

LEMMA HandlingStep ==
  ASSUME LedgerTypeOK, Handling, Fresh, [LedgerNext]_ledgerVars
  PROVE  Handling' /\ Fresh'
<1> USE MaxAttemptsAssumption DEF LedgerTypeOK, Handling, Fresh, Attempts, Leases
<1>1. ASSUME lease' = lease, attempt' = attempt, stmt' = stmt, call' = call, todo' = todo
      PROVE  Handling' /\ Fresh'
  BY <1>1
<1>2. ASSUME lease' = lease, attempt' = attempt, Done
      PROVE  Handling' /\ Fresh'
  BY <1>2 DEF Done
<1>3. ASSUME NEW j \in Jobs, Submit(j) PROVE Handling' /\ Fresh'
  BY <1>1, <1>3 DEF Submit
<1>4. ASSUME NEW j \in Jobs, ReserveBudget(j) PROVE Handling' /\ Fresh'
  BY <1>1, <1>4 DEF ReserveBudget
<1>5. ASSUME NEW c \in Cancellers, NEW j \in Jobs, CancelRead(c, j)
      PROVE Handling' /\ Fresh'
  BY <1>1, <1>5 DEF CancelRead
<1>6. ASSUME NEW c \in Cancellers, CancelWrite(c) PROVE Handling' /\ Fresh'
  BY <1>1, <1>6 DEF CancelWrite
<1>7. CASE ClaimBegin
  BY <1>7 DEF ClaimBegin
<1>8. ASSUME NEW j \in Jobs, NEW k \in Attempts, HeartbeatRead(j, k)
      PROVE Handling' /\ Fresh'
  BY <1>8 DEF HeartbeatRead, Goto
<1>9. ASSUME NEW j \in Jobs, NEW k \in Attempts, CompleteBegin(j, k)
       PROVE Handling' /\ Fresh'
  BY <1>9 DEF CompleteBegin, Goto, Accepted, Live
<1>10. ASSUME NEW j \in Jobs, NEW k \in Attempts, UnknownBegin(j, k)
       PROVE Handling' /\ Fresh'
  BY <1>10 DEF UnknownBegin, Goto, Accepted, Live
<1>11. ASSUME NEW j \in Jobs, ReconcileBegin(j) PROVE Handling' /\ Fresh'
  <2>1. stmt' = "recRow" /\ lease' = lease /\ attempt' = attempt
    BY <1>11, Zenon DEF ReconcileBegin, Goto
  <2>2. QED BY <2>1
<1>12. ASSUME NEW l \in Leases, Tick(l) PROVE Handling' /\ Fresh'
  BY <1>1, <1>12 DEF Tick
<1>13. CASE Crash
  BY <1>2, <1>13 DEF Crash
<1>14. ASSUME NEW j \in Jobs, NEW k \in Attempts, ExpireLease(j, k)
       PROVE Handling' /\ Fresh'
  BY <1>14 DEF ExpireLease, Goto
<1>15. CASE ExpireJob
  BY <1>15 DEF ExpireJob
<1>16. CASE ExpireBudget
  BY <1>16 DEF ExpireBudget
<1>17. CASE ClaimNone
  BY <1>2, <1>17 DEF ClaimNone
<1>18. ASSUME NEW j \in Jobs, ClaimExhausted(j) PROVE Handling' /\ Fresh'
  BY <1>2, <1>18 DEF ClaimExhausted
<1>19. ASSUME NEW j \in Jobs, ClaimGrant(j) PROVE Handling' /\ Fresh'
  BY <1>19 DEF ClaimGrant, Exhausted, Done
<1>20. CASE HeartbeatWrite
  BY <1>2, <1>20 DEF HeartbeatWrite
<1>21. CASE CompleteJob
  BY <1>21 DEF CompleteJob
<1>22. CASE CompleteLease
  BY <1>22, CallFields DEF CompleteLease
<1>23. CASE CompleteBudget
  BY <1>23 DEF CompleteBudget
<1>24. CASE CompleteReceipt
  BY <1>2, <1>24 DEF CompleteReceipt
<1>25. CASE UnknownRow
  BY <1>25 DEF UnknownRow
<1>26. CASE UnknownBudget
  BY <1>26 DEF UnknownBudget
<1>27. CASE UnknownLease
  BY <1>27, CallFields DEF UnknownLease, Done
<1>28. ASSUME NEW l \in Leases, ReconcileRow(l) PROVE Handling' /\ Fresh'
  BY <1>28 DEF ReconcileRow
<1>29. CASE ReconcileJob
  BY <1>29 DEF ReconcileJob
<1>30. CASE ReconcileReceipt
  BY <1>30 DEF ReconcileReceipt
<1>31. CASE ReconcileEnd
  BY <1>2, <1>31 DEF ReconcileEnd
<1>32. CASE UNCHANGED ledgerVars
  BY <1>1, <1>32 DEF ledgerVars
<1>33. QED
  BY <1>3, <1>4, <1>5, <1>6, <1>7, <1>8, <1>9, <1>10, <1>11, <1>12, <1>13,
     <1>14, <1>15, <1>16, <1>17, <1>18, <1>19, <1>20, <1>21, <1>22, <1>23,
     <1>24, <1>25, <1>26, <1>27, <1>28, <1>29, <1>30, <1>31, <1>32
  DEF LedgerNext, Serve, LoopStep

(* The arithmetic of the steps that touch the account of a job.  c, r and b
   are its consumed and reserved requests and its backing. *)
LEMMA CoveredStep ==
  ASSUME IInv, LedgerTypeOK', [LedgerNext]_ledgerVars, NEW i \in Jobs
  PROVE  Covered(i)'
<1> DEFINE Card == Cardinality(ActiveOf(i))
<1>1. /\ Card \in Nat /\ Card' \in Nat
      /\ reserved[i] \in Nat /\ consumed[i] \in Nat /\ crashes \in Nat
      /\ MaxRequests \in Nat
  <2>1. ActiveOf(i)' \in SUBSET Attempts
    BY DEF ActiveOf
  <2>2. Card \in Nat /\ Card' \in Nat
    BY <2>1, ActiveFinite, AttemptsFinite
  <2>3. QED
    BY <2>2, MaxRequestsAssumption, MaxCrashesAssumption DEF IInv, LedgerTypeOK
<1>2. Backing(i) = Card + Offset(i) /\ Backing(i)' = Card' + Offset(i)'
  BY DEF Backing
<1>3. /\ Backing(i) - reserved[i] <= crashes
      /\ consumed[i] + reserved[i] <= MaxRequests + crashes
      /\ consumed[i] + Backing(i) <= MaxRequests + crashes
  <2>1. Covered(i)
    BY DEF IInv
  <2>2. QED BY <2>1 DEF Covered
<1>4. Offset(i) \in {-1, 0, 1} /\ Offset(i)' \in {-1, 0, 1}
  BY DEF Offset
<1>5. Offset(i) = -1 => Card >= 1
  <2> SUFFICES ASSUME Offset(i) = -1 PROVE Card >= 1
    OBVIOUS
  <2>1. call.job = i /\ call.k \in Attempts /\ call.k \in ActiveOf(i)
    BY CallFields DEF Offset, IInv, Handling, ActiveOf
  <2>2. QED BY <2>1, <1>1, ActiveFinite, FS_EmptySet
<1> HIDE DEF Card
(* Nothing the account depends on changes. *)
<1>6. ASSUME Card' = Card, Offset(i)' = Offset(i), reserved'[i] = reserved[i],
             consumed' = consumed, crashes' = crashes
      PROVE  Covered(i)'
  BY <1>1, <1>2, <1>3, <1>6 DEF Covered
<1>7. ASSUME lease' = lease PROVE Card' = Card
  BY <1>7, ActiveUnchanged DEF Card
<1>8. ASSUME lease' = lease, budgetVars' = budgetVars, crashes' = crashes,
             Offset(i)' = Offset(i)
      PROVE  Covered(i)'
  BY <1>6, <1>7, <1>8
<1>9. ASSUME NEW j \in Jobs, Submit(j)
      PROVE  Covered(i)'
  BY <1>8, <1>9 DEF Submit, Offset
<1>10. ASSUME NEW c \in Cancellers, NEW j \in Jobs, CancelRead(c, j)
      PROVE  Covered(i)'
  BY <1>8, <1>10 DEF CancelRead, Offset
<1>11. ASSUME NEW c \in Cancellers, CancelWrite(c)
      PROVE  Covered(i)'
  BY <1>8, <1>11 DEF CancelWrite, Offset
<1>12. ASSUME NEW l \in Leases, Tick(l)
      PROVE  Covered(i)'
  BY <1>8, <1>12 DEF Tick, Offset
<1>13. CASE ClaimBegin
  BY <1>8, <1>13 DEF ClaimBegin, Offset, Idle
<1>14. ASSUME NEW j \in Jobs, NEW k \in Attempts, HeartbeatRead(j, k)
      PROVE  Covered(i)'
  BY <1>8, <1>14 DEF HeartbeatRead, Offset, Idle, Goto
<1>15. ASSUME NEW j \in Jobs, NEW k \in Attempts, CompleteBegin(j, k)
      PROVE  Covered(i)'
  BY <1>8, <1>15 DEF CompleteBegin, Offset, Idle, Goto
<1>16. ASSUME NEW j \in Jobs, NEW k \in Attempts, UnknownBegin(j, k)
      PROVE  Covered(i)'
  BY <1>8, <1>16 DEF UnknownBegin, Offset, Idle, Goto
<1>17. ASSUME NEW j \in Jobs, ReconcileBegin(j)
      PROVE  Covered(i)'
  <2>1. lease' = lease /\ budgetVars' = budgetVars /\ crashes' = crashes
        /\ stmt = "idle" /\ stmt' = "recRow"
    BY <1>17, Zenon DEF ReconcileBegin, Idle, Goto
  <2>2. QED BY <1>8, <2>1 DEF Offset
<1>18. CASE ExpireJob
  BY <1>8, <1>18 DEF ExpireJob, Offset
<1>19. CASE ClaimNone
  BY <1>8, <1>19 DEF ClaimNone, Offset, Done
<1>20. ASSUME NEW j \in Jobs, ClaimExhausted(j)
      PROVE  Covered(i)'
  BY <1>8, <1>20 DEF ClaimExhausted, Offset, Done
<1>21. CASE HeartbeatWrite
  BY <1>8, <1>21 DEF HeartbeatWrite, Offset, Done
<1>22. CASE CompleteJob
  BY <1>8, <1>22 DEF CompleteJob, Offset
<1>23. CASE CompleteReceipt
  BY <1>8, <1>23 DEF CompleteReceipt, Offset, Done
<1>24. CASE UnknownRow
  BY <1>8, <1>24 DEF UnknownRow, Offset
<1>25. ASSUME NEW l \in Leases, ReconcileRow(l)
      PROVE  Covered(i)'
  BY <1>8, <1>25 DEF ReconcileRow, Offset
<1>26. CASE ReconcileJob
  BY <1>8, <1>26 DEF ReconcileJob, Offset
<1>27. CASE ReconcileReceipt
  BY <1>8, <1>27 DEF ReconcileReceipt, Offset
<1>28. CASE ReconcileEnd
  BY <1>8, <1>28 DEF ReconcileEnd, Offset, Done
<1>29. CASE UNCHANGED ledgerVars
  BY <1>8, <1>29 DEF ledgerVars, Offset
<1>30. ASSUME NEW j \in Jobs, ReserveBudget(j)
      PROVE  Covered(i)'
  <2>1. Card' = Card /\ Offset(i)' = Offset(i) /\ crashes' = crashes
        /\ consumed' = consumed
    BY <1>30, <1>7 DEF ReserveBudget, Offset
  <2>2. CASE i = j
    <3>1. reserved'[i] = reserved[i] + 1 /\ reserved[i] + consumed[i] + 1 <= MaxRequests
      BY <2>2, <1>30 DEF ReserveBudget, IInv, LedgerTypeOK
    <3>2. QED BY <2>1, <3>1, <1>1, <1>2, <1>3, <1>4 DEF Covered
  <2>3. CASE i # j
    BY <2>1, <2>3, <1>6, <1>30 DEF ReserveBudget, IInv, LedgerTypeOK
  <2>4. QED BY <2>2, <2>3
<1>31. CASE Crash
  <2>1. Card' = Card /\ Offset(i)' = 0 /\ crashes' = crashes + 1
        /\ consumed' = consumed /\ reserved' = reserved
    BY <1>31, <1>7 DEF Crash, Done, Offset
  <2>2. QED BY <2>1, <1>1, <1>2, <1>3, <1>4 DEF Covered
<1>32. ASSUME NEW j \in Jobs, NEW k \in Attempts, ExpireLease(j, k)
      PROVE  Covered(i)'
  <2>1. lease[<<j, k>>] = "ACTIVE"
    BY <1>32 DEF ExpireLease, IInv, Handling
  <2>2. Card' = IF i = j THEN Card - 1 ELSE Card
    BY <1>32, <2>1, ActiveRemoved DEF ExpireLease, IInv, Card
  <2>3. Offset(i) = 0 /\ Offset(i)' \in {0, IF i = j THEN 1 ELSE 0}
        /\ consumed' = consumed /\ reserved' = reserved /\ crashes' = crashes
    BY <1>32 DEF ExpireLease, Goto, Offset
  <2>4. QED BY <2>2, <2>3, <1>1, <1>2, <1>3 DEF Covered
<1>33. CASE ExpireBudget
  <2>1. Card' = Card /\ Offset(i)' = 0 /\ crashes' = crashes /\ consumed' = consumed
        /\ Offset(i) = IF i = call.job THEN 1 ELSE 0
    BY <1>33, <1>7 DEF ExpireBudget, Offset
  <2>2. reserved'[i] = IF i = call.job THEN Released(reserved[i]) ELSE reserved[i]
    BY <1>33 DEF ExpireBudget, IInv, LedgerTypeOK
  <2>3. QED BY <2>1, <2>2, <1>1, <1>2, <1>3 DEF Covered, Released
<1>34. ASSUME NEW j \in Jobs, ClaimGrant(j)
      PROVE  Covered(i)'
  <2>1. attempt[j] + 1 \in Attempts /\ lease[<<j, attempt[j] + 1>>] = "NONE"
    BY <1>34 DEF ClaimGrant, Exhausted, IInv, LedgerTypeOK, Fresh, Attempts
  <2>2. lease' = [lease EXCEPT ![<<j, attempt[j] + 1>>] = "ACTIVE"]
    BY <1>34 DEF ClaimGrant
  <2>3. Card' = IF i = j THEN Card + 1 ELSE Card
    BY <2>1, <2>2, ActiveAdded DEF IInv, Card
  <2>4. Offset(i) = 0 /\ Offset(i)' = 0 /\ consumed' = consumed /\ crashes' = crashes
    BY <1>34 DEF ClaimGrant, Done, Offset
  <2>5. reserved'[i] = IF i = j THEN reserved[i] + 1 ELSE reserved[i]
    BY <1>34 DEF ClaimGrant, IInv, LedgerTypeOK
  <2>6. i = j => consumed[i] + reserved[i] < MaxRequests
    BY <1>34, <1>1 DEF ClaimGrant, Exhausted
  <2>7. QED BY <2>3, <2>4, <2>5, <2>6, <1>1, <1>2, <1>3 DEF Covered
<1>35. CASE CompleteLease
  <2>1. Card' = IF i = call.job THEN Card - 1 ELSE Card
    BY <1>35, CallFields, ActiveRemoved DEF CompleteLease, IInv, Handling, Leases, Card
  <2>2. Offset(i) = 0 /\ Offset(i)' = (IF i = call.job THEN 1 ELSE 0)
        /\ consumed' = consumed /\ reserved' = reserved /\ crashes' = crashes
    BY <1>35 DEF CompleteLease, Offset
  <2>3. QED BY <2>1, <2>2, <1>1, <1>2, <1>3 DEF Covered
<1>36. CASE UnknownLease
  <2>1. Card' = IF i = call.job THEN Card - 1 ELSE Card
    BY <1>36, CallFields, ActiveRemoved DEF UnknownLease, IInv, Handling, Leases, Card
  <2>2. Offset(i) = (IF i = call.job THEN -1 ELSE 0) /\ Offset(i)' = 0
        /\ consumed' = consumed /\ reserved' = reserved /\ crashes' = crashes
    BY <1>36 DEF UnknownLease, Done, Offset
  <2>3. QED BY <2>1, <2>2, <1>1, <1>2, <1>3 DEF Covered
<1>37. CASE CompleteBudget
  <2>1. Card' = Card /\ crashes' = crashes
    BY <1>37, <1>7 DEF CompleteBudget
  <2>2. Offset(i) = (IF i = call.job THEN 1 ELSE 0) /\ Offset(i)' = 0
    BY <1>37 DEF CompleteBudget, Offset
  <2>3. /\ reserved'[i] = IF i = call.job THEN Released(reserved[i]) ELSE reserved[i]
        /\ consumed'[i] = IF i = call.job THEN consumed[i] + 1 ELSE consumed[i]
    BY <1>37 DEF CompleteBudget, Charge, IInv, LedgerTypeOK
  <2>5. QED BY <2>1, <2>2, <2>3, <1>1, <1>2, <1>3 DEF Covered, Released
<1>38. CASE UnknownBudget
  <2>1. Card' = Card /\ crashes' = crashes
    BY <1>38, <1>7 DEF UnknownBudget
  <2>2. Offset(i) = 0 /\ Offset(i)' = (IF i = call.job THEN -1 ELSE 0)
    BY <1>38 DEF UnknownBudget, Offset
  <2>3. /\ reserved'[i] = IF i = call.job THEN Released(reserved[i]) ELSE reserved[i]
        /\ consumed'[i] = IF i = call.job THEN consumed[i] + 1 ELSE consumed[i]
    BY <1>38 DEF UnknownBudget, Charge, IInv, LedgerTypeOK
  <2>4. i = call.job => Card >= 1
    <3>1. i = call.job => call.k \in ActiveOf(i)
      BY <1>38, CallFields DEF UnknownBudget, IInv, Handling, ActiveOf
    <3>2. QED BY <3>1, <1>1, ActiveFinite, FS_EmptySet DEF Card
  <2>5. QED BY <2>1, <2>2, <2>3, <2>4, <1>1, <1>2, <1>3 DEF Covered, Released
<1>39. QED
  BY <1>9, <1>10, <1>11, <1>12, <1>13, <1>14, <1>15, <1>16, <1>17, <1>18,
     <1>19, <1>20, <1>21, <1>22, <1>23, <1>24, <1>25, <1>26, <1>27, <1>28,
     <1>29, <1>30, <1>31, <1>32, <1>33, <1>34, <1>35, <1>36, <1>37, <1>38
  DEF LedgerNext, Serve, LoopStep

(* BudgetBound for every number of jobs, attempts, requests and restarts. *)
THEOREM BudgetBoundHolds == LedgerSpec => []BudgetBound
<1>1. LedgerInit => IInv
  <2> SUFFICES ASSUME LedgerInit PROVE IInv
    OBVIOUS
  <2>1. LedgerTypeOK
    BY NoCallType, MaxAttemptsAssumption, MaxCrashesAssumption
    DEF LedgerInit, LedgerTypeOK, NoCall, JobStates, LeaseStates, Steps
  <2>2. Handling /\ Fresh
    BY DEF LedgerInit, Handling, Fresh, Leases
  <2>3. ASSUME NEW j \in Jobs PROVE Covered(j)
    <3>1. ActiveOf(j) = {}
      BY DEF LedgerInit, ActiveOf, Leases
    <3>2. Backing(j) = 0
      BY <3>1, FS_EmptySet, NoJobAssumption DEF Backing, Offset, LedgerInit, NoCall
    <3>3. QED BY <3>2, MaxRequestsAssumption DEF LedgerInit, Covered
  <2>4. QED BY <2>1, <2>2, <2>3 DEF IInv
<1>2. IInv /\ LedgerTypeOK' /\ [LedgerNext]_ledgerVars => IInv'
  BY HandlingStep, CoveredStep DEF IInv
<1>3. IInv => BudgetBound
  BY DEF IInv, Covered, BudgetBound
<1>4. QED
  BY <1>1, <1>2, <1>3, TypeCorrect, PTL DEF LedgerSpec
-----------------------------------------------------------------------------
(* What no restart has disturbed yet.  `LeaseExclusive` and `NoBlindRetry` hang
   together: a job is queued again only by a handler that has ended its lease or
   is about to, and an unknown outcome is the last attempt of a job that is not
   queued. *)
Exclusive ==
  \A j \in Jobs, k \in Attempts : lease[<<j, k>>] = "ACTIVE" =>
    /\ k = attempt[j]
    /\ status[j] \in {"QUEUED", "ABSENT"} => stmt = "doneLease" /\ call.job = j

Blocked ==
  \A j \in Jobs, k \in Attempts : <<j, k>> \in unknown =>
    /\ k = attempt[j] /\ status[j] \notin {"QUEUED", "ABSENT"}
    /\ \/ lease[<<j, k>>] = "UNKNOWN"
       \/ stmt \in {"unkBudget", "unkLease"} /\ call.job = j /\ call.k = k

(* A handler that has ended a lease and not yet done what follows from it. *)
Ended ==
  stmt \in {"expireJob", "doneBudget"} =>
    call.k = attempt[call.job] /\ lease[<<call.job, call.k>>] \in {"EXPIRED", "COMPLETED"}

Writing ==
  /\ stmt = "expireJob" => call.write \in {"CANCELLED", "FAILED", "QUEUED"}
  /\ stmt = "beat" => call.write = "RUNNING"

(* A job that succeeded without a receipt is the one whose receipt comes next. *)
Receipted ==
  \A j \in Jobs : status[j] = "SUCCEEDED" =>
    \/ receipt[j] = "SUCCEEDED"
    \/ call.job = j /\ stmt \in {"doneLease", "doneBudget", "doneReceipt", "recReceipt"}

Undisturbed == Exclusive /\ Blocked /\ Ended /\ Writing /\ Receipted

LEMMA UndisturbedStep ==
  ASSUME LedgerTypeOK, LedgerTypeOK', Handling, Fresh, Undisturbed, [LedgerNext]_ledgerVars, crashes' = 0
  PROVE  Undisturbed'
<1> USE DEF LedgerTypeOK, Handling, Undisturbed, Exclusive, Blocked, Ended, Writing,
            Receipted, Leases
<1>1. ASSUME UNCHANGED <<status, attempt, lease, unknown, receipt, stmt, call>>
      PROVE  Undisturbed'
  BY <1>1
<1>2. ASSUME NEW j \in Jobs, Submit(j) PROVE Undisturbed'
  BY <1>2 DEF Submit, Idle
<1>3. ASSUME NEW j \in Jobs, ReserveBudget(j) PROVE Undisturbed'
  BY <1>1, <1>3 DEF ReserveBudget
<1>4. ASSUME NEW c \in Cancellers, NEW j \in Jobs, CancelRead(c, j) PROVE Undisturbed'
  BY <1>1, <1>4 DEF CancelRead
<1>5. ASSUME NEW c \in Cancellers, CancelWrite(c) PROVE Undisturbed'
  BY <1>5 DEF CancelWrite
<1>6. CASE ClaimBegin
  BY <1>6 DEF ClaimBegin, Idle
<1>7. ASSUME NEW j \in Jobs, NEW k \in Attempts, HeartbeatRead(j, k) PROVE Undisturbed'
  BY <1>7 DEF HeartbeatRead, Goto, Idle
<1>8. ASSUME NEW j \in Jobs, NEW k \in Attempts, CompleteBegin(j, k) PROVE Undisturbed'
  BY <1>8 DEF CompleteBegin, Goto, Idle
<1>9. ASSUME NEW j \in Jobs, NEW k \in Attempts, UnknownBegin(j, k) PROVE Undisturbed'
  BY <1>9 DEF UnknownBegin, Goto, Idle
<1>10. ASSUME NEW j \in Jobs, ReconcileBegin(j) PROVE Undisturbed'
  <2>1. /\ stmt = "idle" /\ stmt' = "recRow"
        /\ UNCHANGED <<status, attempt, lease, unknown, receipt>>
    BY <1>10, Zenon DEF ReconcileBegin, Goto, Idle, jobVars, leaseVars
  <2>2. QED BY <2>1
<1>11. ASSUME NEW l \in Leases, Tick(l) PROVE Undisturbed'
  BY <1>1, <1>11 DEF Tick
<1>12. CASE Crash
  BY <1>12, MaxCrashesAssumption DEF Crash
<1>13. ASSUME NEW j \in Jobs, NEW k \in Attempts, ExpireLease(j, k) PROVE Undisturbed'
  <2>1. /\ stmt = "expire" /\ lease[<<j, k>>] = "ACTIVE" /\ k = attempt[j]
        /\ lease' = [lease EXCEPT ![<<j, k>>] = "EXPIRED"]
        /\ UNCHANGED <<status, attempt, unknown, receipt>>
    BY <1>13 DEF ExpireLease
  <2>2. ASSUME NEW i \in Jobs, NEW m \in Attempts, <<i, m>> \in unknown
        PROVE  /\ m = attempt'[i] /\ status'[i] \notin {"QUEUED", "ABSENT"}
               /\ lease'[<<i, m>>] = "UNKNOWN"
    <3>1. /\ lease[<<i, m>>] = "UNKNOWN" /\ m = attempt[i]
          /\ status[i] \notin {"QUEUED", "ABSENT"}
      BY <2>1, <2>2 DEF Blocked
    <3>2. <<i, m>> # <<j, k>>
      BY <2>1, <3>1
    <3>3. lease'[<<i, m>>] = lease[<<i, m>>]
      BY <2>1, <3>2
    <3>4. QED BY <2>1, <3>1, <3>3
  <2>3. Blocked'
    BY <2>1, <2>2
  <2>4. ASSUME NEW i \in Jobs, NEW m \in Attempts, lease'[<<i, m>>] = "ACTIVE"
        PROVE  m = attempt'[i] /\ status'[i] \notin {"QUEUED", "ABSENT"}
    <3>1. lease[<<i, m>>] = "ACTIVE"
      BY <2>1, <2>4
    <3>2. QED BY <2>1, <3>1
  <2>5. Exclusive'
    BY <2>4
  <2>6. \A i \in Jobs : status[i] = "SUCCEEDED" => receipt[i] = "SUCCEEDED"
    BY <2>1
  <2>7. Receipted'
    BY <2>1, <2>6
  <2>8. Ended' /\ Writing'
    <3>1. CASE UNCHANGED <<stmt, call>>
      BY <2>1, <3>1
    <3>2. CASE Goto("expireJob", j, k,
                    IF j \in cancelled THEN "CANCELLED"
                    ELSE IF attempt[j] >= MaxAttempts THEN "FAILED" ELSE "QUEUED")
      <4>1. /\ stmt' = "expireJob" /\ call'.job = j /\ call'.k = k
            /\ call'.write \in {"CANCELLED", "FAILED", "QUEUED"}
        BY <3>2 DEF Goto
      <4>2. lease'[<<j, k>>] = "EXPIRED" /\ attempt'[j] = k
        BY <2>1
      <4>3. QED BY <4>1, <4>2
    <3>3. QED BY <1>13, <3>1, <3>2 DEF ExpireLease
  <2>9. QED BY <2>3, <2>5, <2>7, <2>8
<1>14. CASE ExpireJob
  <2>1. /\ call.job \in Jobs /\ stmt = "expireJob" /\ stmt' = "expireBudget"
        /\ status' = [status EXCEPT ![call.job] = call.write]
        /\ UNCHANGED <<attempt, lease, unknown, receipt, call>>
    BY <1>14 DEF ExpireJob
  <2>2. /\ lease[<<call.job, call.k>>] # "ACTIVE" /\ lease[<<call.job, call.k>>] # "UNKNOWN"
        /\ call.k = attempt[call.job]
        /\ call.write \in {"CANCELLED", "FAILED", "QUEUED"}
    BY <2>1
  <2>3. Exclusive'
    BY <2>1, <2>2
  <2>4. Blocked'
    BY <2>1, <2>2
  <2>5. Ended' /\ Writing' /\ Receipted'
    BY <2>1, <2>2
  <2>6. QED BY <2>3, <2>4, <2>5
<1>15. CASE ExpireBudget
  BY <1>15 DEF ExpireBudget
<1>16. CASE ClaimNone
  BY <1>16 DEF ClaimNone, Done
<1>17. ASSUME NEW j \in Jobs, ClaimExhausted(j) PROVE Undisturbed'
  BY <1>17 DEF ClaimExhausted, Done
<1>18. ASSUME NEW j \in Jobs, ClaimGrant(j) PROVE Undisturbed'
  BY <1>18 DEF ClaimGrant, Oldest, Waiting, Done
<1>19. CASE HeartbeatWrite
  BY <1>19 DEF HeartbeatWrite, Done
<1>20. CASE CompleteJob
  BY <1>20, CallFields DEF CompleteJob
<1>21. CASE CompleteLease
  <2>1. /\ call.job \in Jobs /\ stmt = "doneLease" /\ stmt' = "doneBudget"
        /\ <<call.job, call.k>> \in Leases
        /\ lease' = [lease EXCEPT ![<<call.job, call.k>>] = "COMPLETED"]
        /\ UNCHANGED <<status, attempt, unknown, receipt, call>>
    BY <1>21, CallFields DEF CompleteLease
  <2>2. lease[<<call.job, call.k>>] = "ACTIVE" /\ call.k = attempt[call.job]
    BY <2>1
  <2>3. Exclusive'
    BY <2>1, <2>2
  <2>4. Blocked'
    <3>1. ASSUME NEW i \in Jobs, NEW m \in Attempts, <<i, m>> \in unknown
          PROVE  /\ m = attempt'[i] /\ status'[i] \notin {"QUEUED", "ABSENT"}
                 /\ lease'[<<i, m>>] = "UNKNOWN"
      <4>1. /\ lease[<<i, m>>] = "UNKNOWN" /\ m = attempt[i]
            /\ status[i] \notin {"QUEUED", "ABSENT"}
        BY <2>1, <3>1
      <4>2. <<i, m>> # <<call.job, call.k>>
        BY <2>2, <4>1
      <4>3. lease'[<<i, m>>] = lease[<<i, m>>]
        BY <2>1, <4>2
      <4>4. QED BY <2>1, <4>1, <4>3
    <3>2. QED BY <2>1, <3>1
  <2>5. Ended' /\ Writing' /\ Receipted'
    BY <2>1, <2>2
  <2>6. QED BY <2>3, <2>4, <2>5
<1>22. CASE CompleteBudget
  BY <1>22 DEF CompleteBudget
<1>23. CASE CompleteReceipt
  BY <1>23 DEF CompleteReceipt, Done, Projected
<1>24. CASE UnknownRow
  BY <1>24, CallFields DEF UnknownRow
<1>25. CASE UnknownBudget
  BY <1>25 DEF UnknownBudget
<1>26. CASE UnknownLease
  BY <1>26, CallFields DEF UnknownLease, Done
<1>27. ASSUME NEW l \in Leases, ReconcileRow(l) PROVE Undisturbed'
  BY <1>27 DEF ReconcileRow
<1>28. CASE ReconcileJob
  BY <1>28 DEF ReconcileJob
<1>29. CASE ReconcileReceipt
  BY <1>29 DEF ReconcileReceipt, Projected
<1>30. CASE ReconcileEnd
  BY <1>30 DEF ReconcileEnd, Done
<1>31. CASE UNCHANGED ledgerVars
  BY <1>1, <1>31 DEF ledgerVars
<1>32. QED
  BY <1>2, <1>3, <1>4, <1>5, <1>6, <1>7, <1>8, <1>9, <1>10, <1>11, <1>12,
     <1>13, <1>14, <1>15, <1>16, <1>17, <1>18, <1>19, <1>20, <1>21, <1>22,
     <1>23, <1>24, <1>25, <1>26, <1>27, <1>28, <1>29, <1>30, <1>31
  DEF LedgerNext, Serve, LoopStep

LEMMA CrashesStay ==
  ASSUME LedgerTypeOK, LedgerTypeOK', [LedgerNext]_ledgerVars, crashes' = 0
  PROVE  crashes = 0
<1>1. crashes' = crashes \/ crashes' = crashes + 1
  BY DEF LedgerNext, Serve, ledgerVars, LoopStep, Submit, ReserveBudget, CancelRead,
     CancelWrite, ClaimBegin, HeartbeatRead, CompleteBegin, UnknownBegin,
     ReconcileBegin, Tick, Crash, ExpireLease, ExpireJob, ExpireBudget,
     ClaimNone, ClaimExhausted, ClaimGrant, HeartbeatWrite, CompleteJob,
     CompleteLease, CompleteBudget, CompleteReceipt, UnknownRow, UnknownBudget,
     UnknownLease, ReconcileRow, ReconcileJob, ReconcileReceipt, ReconcileEnd
<1>2. QED BY <1>1 DEF LedgerTypeOK

UInv == LedgerTypeOK /\ Handling /\ Fresh /\ (crashes = 0 => Undisturbed)

LEMMA UndisturbedAlways == LedgerSpec => []UInv
<1>1. LedgerInit => Handling /\ Fresh /\ Undisturbed
  BY DEF LedgerInit, Handling, Fresh, Leases, Undisturbed, Exclusive, Blocked,
     Ended, Writing, Receipted
<1>2. UInv /\ LedgerTypeOK' /\ [LedgerNext]_ledgerVars => UInv'
  BY HandlingStep, UndisturbedStep, CrashesStay DEF UInv
<1>3. QED
  BY <1>1, <1>2, TypeCorrect, PTL DEF LedgerSpec, UInv

(* However cancellations, expiries, retries and heartbeats interleave, a job has
   one ACTIVE lease at most, that of its current attempt. *)
THEOREM LeaseExclusiveHolds == LedgerSpec => []LeaseExclusive
<1>1. UInv => LeaseExclusive
  BY DEF UInv, Undisturbed, Exclusive, LeaseExclusive, ActiveOf
<1>2. QED BY <1>1, UndisturbedAlways, PTL

(* Between two handlers a job that succeeded has its receipt, whichever of
   complete and reconcile ended it. *)
THEOREM SuccessHasReceiptHolds == LedgerSpec => []SuccessHasReceipt
<1>1. UInv => SuccessHasReceipt
  BY DEF UInv, Undisturbed, Receipted, SuccessHasReceipt, Idle
<1>2. QED BY <1>1, UndisturbedAlways, PTL

(* Only a grant moves an attempt, a grant takes a queued job, and a job with an
   unknown outcome is not queued. *)
THEOREM NoBlindRetryHolds == LedgerSpec => NoBlindRetry
<1> DEFINE Kept == \A j \in Jobs :
             (crashes = 0 /\ \E l \in unknown : l[1] = j) => attempt'[j] = attempt[j]
<1>1. UInv /\ [LedgerNext]_ledgerVars => [Kept]_ledgerVars
  <2> SUFFICES ASSUME UInv, [LedgerNext]_ledgerVars, crashes = 0, NEW i \in Jobs,
                      NEW l \in unknown, l[1] = i
               PROVE  attempt'[i] = attempt[i]
    OBVIOUS
  <2>1. status[i] # "QUEUED"
    <3>1. PICK k \in Attempts : l = <<i, k>>
      BY DEF UInv, LedgerTypeOK, Leases
    <3>2. QED BY <3>1 DEF UInv, Undisturbed, Blocked
  <2>2. ASSUME NEW j \in Jobs, ClaimGrant(j) PROVE attempt'[i] = attempt[i]
    BY <2>1, <2>2 DEF ClaimGrant, Oldest, Waiting, UInv, LedgerTypeOK
  <2>3. CASE ~ \E j \in Jobs : ClaimGrant(j)
    <3>1. attempt' = attempt
      BY <2>3 DEF LedgerNext, Serve, ledgerVars, LoopStep, Submit, ReserveBudget, CancelRead,
         CancelWrite, ClaimBegin, HeartbeatRead, CompleteBegin, UnknownBegin,
         ReconcileBegin, Tick, Crash, ExpireLease, ExpireJob, ExpireBudget,
         ClaimNone, ClaimExhausted, HeartbeatWrite, CompleteJob, CompleteLease,
         CompleteBudget, CompleteReceipt, UnknownRow, UnknownBudget,
         UnknownLease, ReconcileRow, ReconcileJob, ReconcileReceipt, ReconcileEnd
    <3>2. QED BY <3>1
  <2>4. QED BY <2>2, <2>3
<1>2. QED
  BY <1>1, UndisturbedAlways, PTL DEF LedgerSpec, NoBlindRetry
(* A lease that changes moves in or out of its own job's ACTIVE leases only. *)
LEMMA ActiveMoved ==
  ASSUME LedgerTypeOK, NEW i \in Jobs, NEW k \in Attempts, NEW x,
         lease' = [lease EXCEPT ![<<i, k>>] = x]
  PROVE  /\ x = "ACTIVE" => k \in ActiveOf(i)'
         /\ x # "ACTIVE" => ActiveOf(i)' = ActiveOf(i) \ {k}
         /\ \A j \in Jobs \ {i} : ActiveOf(j)' = ActiveOf(j)
BY DEF ActiveOf, LedgerTypeOK, Leases

(* Without restarts the tables implement the abstract account of attempts: a grant
   finds no attempt under way, whatever ends a lease ends the attempt, and a charge
   pays for an attempt that was. *)
THEOREM RefinesAccount ==
  ASSUME MaxCrashes = 0
  PROVE  LedgerSpec => ImplementsAccount
<1> DEFINE open == {j \in Jobs : UnderWay(j)}
           Stutter == UNCHANGED <<attempt, open, consumed, cancelled>>
<1>1. LedgerInit => Account!Init
  BY DEF LedgerInit, Account!Init, UnderWay, ActiveOf, Leases
<1>2. UInv /\ UInv' /\ [LedgerNext]_ledgerVars => [Account!Next]_(Account!vars)
  <2> SUFFICES ASSUME UInv, UInv', [LedgerNext]_ledgerVars
               PROVE  Account!Next \/ Stutter
    BY DEF Account!vars
  <2>1. crashes = 0 /\ crashes' = 0 /\ Undisturbed
    BY DEF UInv, LedgerTypeOK
  <2> USE <2>1 DEF UInv, LedgerTypeOK, Undisturbed, UnderWay
  <2>2. ASSUME UNCHANGED <<attempt, consumed, cancelled, lease>>,
               \/ UNCHANGED <<stmt, call>>
               \/ {stmt, stmt'} \cap {"unkLease", "doneBudget"} = {}
        PROVE  Stutter
    <3>1. \A j \in Jobs : ActiveOf(j)' = ActiveOf(j)
      BY <2>2 DEF ActiveOf
    <3>2. QED BY <2>2, <3>1
  <2>3. ASSUME NEW j \in Jobs, Submit(j) PROVE Stutter
    BY <2>2, <2>3 DEF Submit, Idle
  <2>4. ASSUME NEW j \in Jobs, ReserveBudget(j) PROVE Stutter
    BY <2>2, <2>4 DEF ReserveBudget
  <2>5. ASSUME NEW c \in Cancellers, NEW j \in Jobs, CancelRead(c, j) PROVE Stutter
    BY <2>2, <2>5 DEF CancelRead
  <2>6. CASE ClaimBegin
    BY <2>2, <2>6 DEF ClaimBegin, Idle
  <2>7. ASSUME NEW j \in Jobs, NEW k \in Attempts, HeartbeatRead(j, k) PROVE Stutter
    BY <2>2, <2>7 DEF HeartbeatRead, Goto, Idle
  <2>8. ASSUME NEW j \in Jobs, NEW k \in Attempts, CompleteBegin(j, k) PROVE Stutter
    BY <2>2, <2>8 DEF CompleteBegin, Goto, Idle
  <2>9. ASSUME NEW j \in Jobs, NEW k \in Attempts, UnknownBegin(j, k) PROVE Stutter
    BY <2>2, <2>9 DEF UnknownBegin, Goto, Idle
  <2>10. ASSUME NEW j \in Jobs, ReconcileBegin(j) PROVE Stutter
    BY <2>2, <2>10 DEF ReconcileBegin, Goto, Idle
  <2>11. ASSUME NEW l \in Leases, Tick(l) PROVE Stutter
    BY <2>2, <2>11 DEF Tick
  <2>12. CASE ExpireJob
    BY <2>2, <2>12 DEF ExpireJob
  <2>13. CASE ExpireBudget
    BY <2>2, <2>13 DEF ExpireBudget
  <2>14. CASE ClaimNone
    BY <2>2, <2>14 DEF ClaimNone, Done
  <2>15. ASSUME NEW j \in Jobs, ClaimExhausted(j) PROVE Stutter
    BY <2>2, <2>15 DEF ClaimExhausted, Done
  <2>16. CASE HeartbeatWrite
    BY <2>2, <2>16 DEF HeartbeatWrite, Done
  <2>17. CASE CompleteJob
    BY <2>2, <2>17 DEF CompleteJob
  <2>18. CASE CompleteReceipt
    BY <2>2, <2>18 DEF CompleteReceipt, Done
  <2>19. CASE UnknownRow
    BY <2>2, <2>19 DEF UnknownRow
  <2>20. ASSUME NEW l \in Leases, ReconcileRow(l) PROVE Stutter
    BY <2>2, <2>20 DEF ReconcileRow
  <2>21. CASE ReconcileJob
    BY <2>2, <2>21 DEF ReconcileJob
  <2>22. CASE ReconcileReceipt
    BY <2>2, <2>22 DEF ReconcileReceipt
  <2>23. CASE ReconcileEnd
    BY <2>2, <2>23 DEF ReconcileEnd, Done
  <2>24. CASE Crash
    BY <2>24 DEF Crash
  <2>25. CASE UNCHANGED ledgerVars
    BY <2>2, <2>25 DEF ledgerVars
  <2>26. ASSUME NEW c \in Cancellers, CancelWrite(c) PROVE Account!Next
    <3>1. PICK j \in Jobs : j = cancelling[c]
      BY <2>26 DEF CancelWrite
    <3>2. /\ cancelled' = cancelled \cup {j}
          /\ UNCHANGED <<attempt, consumed, lease, stmt, call>>
      BY <2>26, <3>1 DEF CancelWrite
    <3>3. UNCHANGED open
      BY <3>2 DEF ActiveOf
    <3>4. QED BY <3>2, <3>3 DEF Account!Next, Account!Halt
  <2>27. ASSUME NEW j \in Jobs, ClaimGrant(j) PROVE Account!Next
    <3>1. /\ stmt = "expire" /\ stmt' = "idle" /\ status[j] = "QUEUED"
          /\ attempt[j] < MaxAttempts /\ consumed[j] < MaxRequests
          /\ attempt' = [attempt EXCEPT ![j] = @ + 1]
          /\ lease' = [lease EXCEPT ![<<j, attempt[j] + 1>>] = "ACTIVE"]
          /\ UNCHANGED <<consumed, cancelled>> /\ j \notin cancelled
      BY <2>27, MaxAttemptsAssumption, MaxRequestsAssumption
      DEF ClaimGrant, Oldest, Waiting, Exhausted, Done
    <3>2. j \notin open
      BY <3>1 DEF Exclusive, ActiveOf
    <3>3. attempt[j] + 1 \in Attempts
      BY <3>1, MaxAttemptsAssumption DEF Attempts
    <3>4. /\ attempt[j] + 1 \in ActiveOf(j)'
          /\ \A i \in Jobs \ {j} : ActiveOf(i)' = ActiveOf(i)
      BY <3>1, <3>3, ActiveMoved
    <3>5. open' = open \cup {j}
      BY <3>1, <3>4
    <3>6. QED BY <3>1, <3>2, <3>5 DEF Account!Next, Account!Grant
  <2>28. ASSUME NEW j \in Jobs, NEW k \in Attempts, ExpireLease(j, k) PROVE Account!Next
    <3>1. /\ stmt = "expire" /\ stmt' \in {"expire", "expireJob"}
          /\ lease[<<j, k>>] = "ACTIVE"
          /\ lease' = [lease EXCEPT ![<<j, k>>] = "EXPIRED"]
          /\ UNCHANGED <<attempt, consumed, cancelled>>
      BY <2>28 DEF ExpireLease, Goto, Handling
    <3>2. ActiveOf(j) = {k}
      <4>1. \A m \in Attempts : lease[<<j, m>>] = "ACTIVE" => m = k
        BY <3>1 DEF Exclusive
      <4>2. QED BY <3>1, <4>1 DEF ActiveOf
    <3>3. j \in open
      BY <3>1, <3>2
    <3>4. ActiveOf(j)' = {} /\ \A i \in Jobs \ {j} : ActiveOf(i)' = ActiveOf(i)
      <4>1. "EXPIRED" # "ACTIVE" => ActiveOf(j)' = ActiveOf(j) \ {k}
        BY <3>1, ActiveMoved, Zenon
      <4>2. \A i \in Jobs \ {j} : ActiveOf(i)' = ActiveOf(i)
        BY <3>1, ActiveMoved, Zenon
      <4>3. ActiveOf(j)' = {}
        BY <3>2, <4>1
      <4>4. QED BY <4>2, <4>3
    <3>5. open' = open \ {j}
      BY <3>1, <3>3, <3>4
    <3>6. QED BY <3>1, <3>3, <3>5 DEF Account!Next, Account!Lapse
  <2>29. CASE CompleteLease
    <3>1. /\ stmt = "doneLease" /\ stmt' = "doneBudget" /\ call' = call
          /\ call.job \in Jobs /\ <<call.job, call.k>> \in Leases
          /\ lease[<<call.job, call.k>>] = "ACTIVE"
          /\ lease' = [lease EXCEPT ![<<call.job, call.k>>] = "COMPLETED"]
          /\ UNCHANGED <<attempt, consumed, cancelled>>
      BY <2>29, CallFields DEF CompleteLease, Handling
    <3>2. call.k \in Attempts /\ call.k \in ActiveOf(call.job)
      BY <3>1 DEF Leases, ActiveOf
    <3>3. call.job \in open /\ call.job \in open'
      BY <3>1, <3>2
    <3>4. \A j \in Jobs \ {call.job} : j \in open <=> j \in open'
      BY <3>1, <3>2, ActiveMoved
    <3>5. QED BY <3>1, <3>3, <3>4
  <2>30. CASE CompleteBudget
    <3>1. PICK j \in Jobs : j = call.job
      BY <2>30 DEF CompleteBudget
    <3>2. /\ stmt = "doneBudget" /\ stmt' = "doneReceipt" /\ lease' = lease
          /\ consumed' = [consumed EXCEPT ![j] = @ + 1]
          /\ UNCHANGED <<attempt, cancelled>>
      BY <2>30, <3>1 DEF CompleteBudget, Charge
    <3>3. ActiveOf(j) = {} /\ \A i \in Jobs : ActiveOf(i)' = ActiveOf(i)
      BY <3>1, <3>2 DEF Exclusive, Ended, ActiveOf
    <3>4. j \in open /\ open' = open \ {j}
      BY <3>1, <3>2, <3>3
    <3>5. QED BY <3>2, <3>4 DEF Account!Next, Account!Pay
  <2>31. CASE UnknownBudget
    <3>1. PICK j \in Jobs : j = call.job
      BY <2>31 DEF UnknownBudget
    <3>2. /\ stmt = "unkBudget" /\ stmt' = "unkLease" /\ UNCHANGED <<lease, call>>
          /\ lease[<<j, call.k>>] = "ACTIVE" /\ call.k \in Attempts
          /\ consumed' = [consumed EXCEPT ![j] = @ + 1]
          /\ UNCHANGED <<attempt, cancelled>>
      BY <2>31, <3>1, CallFields DEF UnknownBudget, Charge, Handling
    <3>3. call.k \in ActiveOf(j) /\ \A i \in Jobs : ActiveOf(i)' = ActiveOf(i)
      BY <3>2 DEF ActiveOf
    <3>4. j \in open /\ open' = open \ {j}
      BY <3>1, <3>2, <3>3
    <3>5. QED BY <3>2, <3>4 DEF Account!Next, Account!Pay
  <2>32. CASE UnknownLease
    <3>1. /\ stmt = "unkLease" /\ stmt' = "idle"
          /\ call.job \in Jobs /\ <<call.job, call.k>> \in Leases
          /\ lease[<<call.job, call.k>>] = "ACTIVE"
          /\ lease' = [lease EXCEPT ![<<call.job, call.k>>] = "UNKNOWN"]
          /\ UNCHANGED <<attempt, consumed, cancelled>>
      BY <2>32, CallFields DEF UnknownLease, Done, Handling
    <3>2. call.k \in Attempts /\ ActiveOf(call.job) = {call.k}
      BY <3>1 DEF Exclusive, ActiveOf, Leases
    <3>3. PICK j \in Jobs : j = call.job
      BY <3>1
    <3>4. PICK k \in Attempts : k = call.k
      BY <3>2
    <3>5. /\ "UNKNOWN" # "ACTIVE" => ActiveOf(j)' = ActiveOf(j) \ {k}
          /\ \A i \in Jobs \ {j} : ActiveOf(i)' = ActiveOf(i)
      BY <3>1, <3>3, <3>4, ActiveMoved, Zenon
    <3>6. ActiveOf(j)' = {}
      BY <3>2, <3>3, <3>4, <3>5
    <3>7. j \notin open /\ j \notin open'
      BY <3>1, <3>3, <3>6
    <3>8. \A i \in Jobs \ {j} : i \in open <=> i \in open'
      BY <3>1, <3>3, <3>5
    <3>9. QED BY <3>1, <3>7, <3>8
  <2>33. QED
    BY <2>3, <2>4, <2>5, <2>6, <2>7, <2>8, <2>9, <2>10, <2>11, <2>12, <2>13,
       <2>14, <2>15, <2>16, <2>17, <2>18, <2>19, <2>20, <2>21, <2>22, <2>23,
       <2>24, <2>25, <2>26, <2>27, <2>28, <2>29, <2>30, <2>31, <2>32
    DEF LedgerNext, Serve, LoopStep
<1>3. QED
  BY <1>1, <1>2, UndisturbedAlways, PTL DEF LedgerSpec, ImplementsAccount, Account!Spec
=============================================================================
