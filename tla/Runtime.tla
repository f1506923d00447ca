------------------------------- MODULE Runtime -------------------------------
(***************************************************************************)
(* The job ledger of the runtime (content-os/modules/vendor3/app): jobs,   *)
(* leases, request budgets, unknown outcomes and completion receipts in    *)
(* one SQLite database, and the HTTP handlers that move them.              *)
(*                                                                         *)
(* Granularity.  SQLite runs in autocommit mode (store.py), so every       *)
(* statement outside tx() commits alone.  submit, claim, heartbeat,        *)
(* complete and reconcile are `async def` handlers without an await        *)
(* between their statements: one event loop runs them one at a time, and   *)
(* `stmt`, `call` and `todo` are the local state of the one in progress.   *)
(* cancel is a plain `def` handler: it runs in a thread pool, so its read  *)
(* and its write interleave with every statement of the others.  A crash   *)
(* may fall between any two statements.                                    *)
(*                                                                         *)
(* Abstractions.  A job is its (project, operation, idempotency_key); the  *)
(* replay and the conflict of a submission change nothing.  A lease is     *)
(* named by its job and attempt (one lease is inserted per attempt).  The  *)
(* clock is the set `late` of the leases with expires_at < now.  Cost      *)
(* units, artifacts, error texts and the audit table are left out.         *)
(***************************************************************************)
EXTENDS Integers, FiniteSets

CONSTANTS
  Jobs,         \* submissions
  Cancellers,   \* thread-pool threads that may run the cancel handler
  MaxAttempts,  \* max_attempts (3 in submit_job)
  MaxRequests,  \* budget.max_requests of every job (4 by default)
  MaxCrashes,   \* bound: process restarts in a behaviour
  NoJob         \* an idle canceller's job

ASSUME MaxAttemptsAssumption == MaxAttempts \in Nat \ {0}
ASSUME MaxRequestsAssumption == MaxRequests \in Nat
ASSUME MaxCrashesAssumption  == MaxCrashes \in Nat
ASSUME JobsFinite == IsFiniteSet(Jobs)
ASSUME NoJobAssumption       == NoJob \notin Jobs

VARIABLES
  status,     \* jobs.status; "ABSENT" before the row exists
  attempt,    \* jobs.attempt
  cancelled,  \* the jobs with jobs.cancelled = 1
  born,       \* rank of jobs.created_at
  lease,      \* leases.status of <<job, attempt>>; "NONE" before the row exists
  late,       \* the leases with expires_at < now
  held,       \* the leases whose claim response reached a worker
  reserved,   \* budgets.reserved_requests
  consumed,   \* budgets.consumed_requests
  unknown,    \* unknown_outcomes rows with status UNKNOWN, by lease
  receipt,    \* status in the job's latest completion receipt, or "NONE"
  stmt,       \* the statement the event loop executes next
  call,       \* locals of its handler: lease at hand, status to be written
  todo,       \* rows its loop has still to visit
  cancelling, \* per canceller: the job it found not terminal
  crashes     \* restarts so far

jobVars    == <<status, attempt, cancelled, born>>
leaseVars  == <<lease, late, held>>
budgetVars == <<reserved, consumed>>
loopVars   == <<stmt, call, todo>>
ledgerVars == <<jobVars, leaseVars, budgetVars, unknown, receipt, loopVars,
          cancelling, crashes>>

Attempts == 1..MaxAttempts
Leases   == Jobs \X Attempts

Terminal == {"SUCCEEDED", "FAILED", "CANCELLED", "BLOCKED_INPUT"}
JobStates == {"ABSENT", "QUEUED", "LEASED", "RUNNING"} \cup Terminal
LeaseStates == {"NONE", "ACTIVE", "COMPLETED", "EXPIRED", "UNKNOWN"}
Steps == {"idle", "expire", "expireJob", "expireBudget", "beat",
          "doneJob", "doneLease", "doneBudget", "doneReceipt",
          "unkRow", "unkBudget", "unkLease",
          "recRow", "recJob", "recReceipt"}

Call == [job: Jobs \cup {NoJob}, k: Attempts, write: JobStates]
NoCall == [job |-> NoJob, k |-> 1, write |-> "ABSENT"]

ActiveOf(j) == {k \in Attempts : lease[<<j, k>>] = "ACTIVE"}

(* The leases heartbeat and complete accept: status ACTIVE, expires_at >= now. *)
Live(l) == lease[l] = "ACTIVE" /\ l \notin late

(* What a job's status becomes in a JobReceipt (projection.py); without error
   codes a FAILED job reads FAILED also when its code is BUDGET_EXHAUSTED. *)
Projected(s) == IF s = "LEASED" THEN "QUEUED" ELSE s

(* MAX(reserved_requests-1,0) *)
Released(r) == IF r > 0 THEN r - 1 ELSE 0

LedgerInit ==
  /\ status = [j \in Jobs |-> "ABSENT"]
  /\ attempt = [j \in Jobs |-> 0]
  /\ cancelled = {}
  /\ born = [j \in Jobs |-> 0]
  /\ lease = [l \in Leases |-> "NONE"]
  /\ late = {}
  /\ held = {}
  /\ reserved = [j \in Jobs |-> 0]
  /\ consumed = [j \in Jobs |-> 0]
  /\ unknown = {}
  /\ receipt = [j \in Jobs |-> "NONE"]
  /\ stmt = "idle"
  /\ call = NoCall
  /\ todo = {}
  /\ cancelling = [c \in Cancellers |-> NoJob]
  /\ crashes = 0

Idle == stmt = "idle"

(* The handler at hand moves on to statement `to` about lease <<j, k>>. *)
Goto(to, j, k, s) ==
  /\ stmt' = to
  /\ call' = [job |-> j, k |-> k, write |-> s]

Done == stmt' = "idle" /\ todo' = {} /\ call' = NoCall

-----------------------------------------------------------------------------
(* submit_job of a new key: both rows in one transaction. *)
Submit(j) ==
  /\ Idle
  /\ status[j] = "ABSENT"
  /\ status' = [status EXCEPT ![j] = "QUEUED"]
  /\ born' = [born EXCEPT ![j] = Cardinality({i \in Jobs : status[i] # "ABSENT"})]
  /\ UNCHANGED <<attempt, cancelled, leaseVars, budgetVars, unknown, receipt,
                 loopVars, cancelling, crashes>>

(* reserve_budget of one request: its own transaction, from any thread. *)
ReserveBudget(j) ==
  /\ status[j] # "ABSENT"
  /\ reserved[j] + consumed[j] + 1 <= MaxRequests
  /\ reserved' = [reserved EXCEPT ![j] = @ + 1]
  /\ UNCHANGED <<jobVars, leaseVars, consumed, unknown, receipt, loopVars,
                 cancelling, crashes>>

(* cancel: the row is read and found not terminal ... *)
CancelRead(c, j) ==
  /\ cancelling[c] = NoJob
  /\ status[j] \notin Terminal \cup {"ABSENT"}
  /\ cancelling' = [cancelling EXCEPT ![c] = j]
  /\ UNCHANGED <<jobVars, leaseVars, budgetVars, unknown, receipt, loopVars,
                 crashes>>

(* ... and written, whatever it holds by now. *)
CancelWrite(c) ==
  /\ cancelling[c] # NoJob
  /\ status' = [status EXCEPT ![cancelling[c]] = "CANCELLED"]
  /\ cancelled' = cancelled \cup {cancelling[c]}
  /\ cancelling' = [cancelling EXCEPT ![c] = NoJob]
  /\ UNCHANGED <<attempt, born, leaseVars, budgetVars, unknown, receipt,
                 loopVars, crashes>>

-----------------------------------------------------------------------------
(* claim, first part: _expire_leases selects the overdue leases. *)
ClaimBegin ==
  /\ Idle
  /\ stmt' = "expire"
  /\ todo' = {l \in Leases : lease[l] = "ACTIVE" /\ l \in late}
  /\ UNCHANGED <<jobVars, leaseVars, budgetVars, unknown, receipt, call,
                 cancelling, crashes>>

(* The lease is marked, then its job is read; a job that is not terminal is
   rewritten from what was read. *)
ExpireLease(j, k) ==
  /\ stmt = "expire"
  /\ <<j, k>> \in todo
  /\ lease' = [lease EXCEPT ![<<j, k>>] = "EXPIRED"]
  /\ todo' = todo \ {<<j, k>>}
  /\ \/ status[j] \in Terminal /\ UNCHANGED <<stmt, call>>
     \/ /\ status[j] \notin Terminal
        /\ Goto("expireJob", j, k,
                IF j \in cancelled THEN "CANCELLED"
                ELSE IF attempt[j] >= MaxAttempts THEN "FAILED" ELSE "QUEUED")
  /\ UNCHANGED <<jobVars, late, held, budgetVars, unknown, receipt,
                 cancelling, crashes>>

ExpireJob ==
  /\ stmt = "expireJob"
  /\ status' = [status EXCEPT ![call.job] = call.write]
  /\ stmt' = "expireBudget"
  /\ UNCHANGED <<attempt, cancelled, born, leaseVars, budgetVars, unknown,
                 receipt, call, todo, cancelling, crashes>>

ExpireBudget ==
  /\ stmt = "expireBudget"
  /\ reserved' = [reserved EXCEPT ![call.job] = Released(@)]
  /\ stmt' = "expire" /\ call' = NoCall
  /\ UNCHANGED <<jobVars, leaseVars, consumed, unknown, receipt, todo,
                 cancelling, crashes>>

(* Mutants: the WHERE clause loses its status, or its cancelled condition. *)
WaitingAnyStatus == {j \in Jobs : status[j] \in {"QUEUED", "RUNNING"} /\ j \notin cancelled}
WaitingCancelled == {j \in Jobs : status[j] = "QUEUED"}

(* The oldest queued job that is not cancelled. *)
Waiting == {j \in Jobs : status[j] = "QUEUED" /\ j \notin cancelled}
Oldest(j) == j \in Waiting /\ \A i \in Waiting : born[j] <= born[i]

(* Mutant: the budget compared with > instead of >=. *)
ExhaustedOffByOne(j) == \/ attempt[j] >= MaxAttempts
                        \/ consumed[j] + reserved[j] > MaxRequests

Exhausted(j) == \/ attempt[j] >= MaxAttempts
                \/ consumed[j] + reserved[j] >= MaxRequests

(* claim, second part, one transaction: nothing to hand out, ... *)
ClaimNone ==
  /\ stmt = "expire" /\ todo = {}
  /\ Waiting = {}
  /\ Done
  /\ UNCHANGED <<jobVars, leaseVars, budgetVars, unknown, receipt,
                 cancelling, crashes>>

(* Mutant: an exhausted job is skipped and stays QUEUED. *)
ClaimExhaustedSkip(j) ==
  /\ stmt = "expire" /\ todo = {}
  /\ Oldest(j) /\ Exhausted(j)
  /\ Done
  /\ UNCHANGED <<jobVars, leaseVars, budgetVars, unknown, receipt,
                 cancelling, crashes>>

(* ... a job that has used up its attempts or requests, ... *)
ClaimExhausted(j) ==
  /\ stmt = "expire" /\ todo = {}
  /\ Oldest(j) /\ Exhausted(j)
  /\ status' = [status EXCEPT ![j] = "FAILED"]
  /\ Done
  /\ UNCHANGED <<attempt, cancelled, born, leaseVars, budgetVars, unknown,
                 receipt, cancelling, crashes>>

(* ... or a new lease.  The response may be lost, or the process may die
   before sending it: the worker then never learns of the lease. *)
ClaimGrant(j) ==
  LET k == attempt[j] + 1 IN
  /\ stmt = "expire" /\ todo = {}
  /\ Oldest(j) /\ ~Exhausted(j)
  /\ status' = [status EXCEPT ![j] = "LEASED"]
  /\ attempt' = [attempt EXCEPT ![j] = k]
  /\ lease' = [lease EXCEPT ![<<j, k>>] = "ACTIVE"]
  /\ reserved' = [reserved EXCEPT ![j] = @ + 1]
  /\ held' \in {held, held \cup {<<j, k>>}}
  /\ Done
  /\ UNCHANGED <<cancelled, born, late, consumed, unknown, receipt,
                 cancelling, crashes>>

-----------------------------------------------------------------------------
(* heartbeat: a job read as LEASED is set RUNNING by a second statement.  In
   every other case only expires_at moves: the lease stays out of `late`. *)
HeartbeatRead(j, k) ==
  /\ Idle
  /\ <<j, k>> \in held /\ Live(<<j, k>>)
  /\ status[j] = "LEASED"
  /\ Goto("beat", j, k, "RUNNING")
  /\ UNCHANGED <<jobVars, leaseVars, budgetVars, unknown, receipt, todo,
                 cancelling, crashes>>

HeartbeatWrite ==
  /\ stmt = "beat"
  /\ status' = [status EXCEPT ![call.job] = call.write]
  /\ Done
  /\ UNCHANGED <<attempt, cancelled, born, leaseVars, budgetVars, unknown,
                 receipt, cancelling, crashes>>

-----------------------------------------------------------------------------
(* complete: the checks, made once, on the lease and the job as read.  The
   replay to a terminal job and the three refusals change nothing. *)
Accepted(j, k) ==
  /\ <<j, k>> \in held /\ Live(<<j, k>>)
  /\ status[j] \notin Terminal
  /\ k = attempt[j]

(* A worker reports success, a failure it calls retryable, or a final one. *)
NextStatus(j, result) ==
  CASE result = "success" -> "SUCCEEDED"
    [] result = "retry" /\ attempt[j] < MaxAttempts -> "QUEUED"
    [] OTHER -> "FAILED"

CompleteBegin(j, k) ==
  /\ Idle
  /\ Accepted(j, k)
  /\ \E result \in {"success", "retry", "failure"} :
       Goto("doneJob", j, k, NextStatus(j, result))
  /\ UNCHANGED <<jobVars, leaseVars, budgetVars, unknown, receipt, todo,
                 cancelling, crashes>>

CompleteJob ==
  /\ stmt = "doneJob"
  /\ status' = [status EXCEPT ![call.job] = call.write]
  /\ stmt' = "doneLease"
  /\ UNCHANGED <<attempt, cancelled, born, leaseVars, budgetVars, unknown,
                 receipt, call, todo, cancelling, crashes>>

(* Mutant: the lease is left ACTIVE. *)
CompleteLeaseForgotten ==
  /\ stmt = "doneLease"
  /\ stmt' = "doneBudget"
  /\ UNCHANGED <<jobVars, leaseVars, budgetVars, unknown, receipt, call,
                 todo, cancelling, crashes>>

CompleteLease ==
  /\ stmt = "doneLease"
  /\ lease' = [lease EXCEPT ![<<call.job, call.k>>] = "COMPLETED"]
  /\ stmt' = "doneBudget"
  /\ UNCHANGED <<jobVars, late, held, budgetVars, unknown, receipt, call,
                 todo, cancelling, crashes>>

(* One reserved request becomes a consumed one. *)
Charge(j) ==
  /\ reserved' = [reserved EXCEPT ![j] = Released(@)]
  /\ consumed' = [consumed EXCEPT ![j] = @ + 1]

CompleteBudget ==
  /\ stmt = "doneBudget"
  /\ Charge(call.job)
  /\ stmt' = "doneReceipt"
  /\ UNCHANGED <<jobVars, leaseVars, unknown, receipt, call, todo,
                 cancelling, crashes>>

(* The receipt copies the job as it is now, for a retry as for an end. *)
CompleteReceipt ==
  /\ stmt = "doneReceipt"
  /\ receipt' = [receipt EXCEPT ![call.job] = Projected(status[call.job])]
  /\ Done
  /\ UNCHANGED <<jobVars, leaseVars, budgetVars, unknown, cancelling, crashes>>

(* complete with unknown=True: the outcome row, the charge, the lease. *)
UnknownBegin(j, k) ==
  /\ Idle
  /\ Accepted(j, k)
  /\ Goto("unkRow", j, k, status[j])
  /\ UNCHANGED <<jobVars, leaseVars, budgetVars, unknown, receipt, todo,
                 cancelling, crashes>>

UnknownRow ==
  /\ stmt = "unkRow"
  /\ unknown' = unknown \cup {<<call.job, call.k>>}
  /\ stmt' = "unkBudget"
  /\ UNCHANGED <<jobVars, leaseVars, budgetVars, receipt, call, todo,
                 cancelling, crashes>>

UnknownBudget ==
  /\ stmt = "unkBudget"
  /\ Charge(call.job)
  /\ stmt' = "unkLease"
  /\ UNCHANGED <<jobVars, leaseVars, unknown, receipt, call, todo,
                 cancelling, crashes>>

(* Mutant: the lease stays ACTIVE, and so expires. *)
UnknownLeaseForgotten ==
  /\ stmt = "unkLease"
  /\ Done
  /\ UNCHANGED <<jobVars, leaseVars, budgetVars, unknown, receipt,
                 cancelling, crashes>>

UnknownLease ==
  /\ stmt = "unkLease"
  /\ lease' = [lease EXCEPT ![<<call.job, call.k>>] = "UNKNOWN"]
  /\ Done
  /\ UNCHANGED <<jobVars, late, held, budgetVars, unknown, receipt,
                 cancelling, crashes>>

-----------------------------------------------------------------------------
(* reconcile: the job is read once, before the loop over its UNKNOWN rows. *)
ReconcileBegin(j) ==
  /\ Idle
  /\ todo' = {l \in unknown : l[1] = j}
  /\ todo' # {}
  /\ Goto("recRow", j, 1, status[j])
  /\ UNCHANGED <<jobVars, leaseVars, budgetVars, unknown, receipt,
                 cancelling, crashes>>

(* A row is closed.  The job is ended here only if no completion receipt of
   it exists and it was not terminal when read. *)
ReconcileRow(l) ==
  /\ stmt = "recRow"
  /\ l \in todo
  /\ unknown' = unknown \ {l}
  /\ todo' = todo \ {l}
  /\ stmt' = IF receipt[call.job] = "NONE" /\ call.write \notin Terminal
           THEN "recJob" ELSE "recRow"
  /\ UNCHANGED <<jobVars, leaseVars, budgetVars, receipt, call, cancelling,
                 crashes>>

(* Mutant: the job is ended without a receipt. *)
ReconcileJobOnly ==
  /\ stmt = "recJob"
  /\ status' = [status EXCEPT ![call.job] = "SUCCEEDED"]
  /\ stmt' = "recRow"
  /\ UNCHANGED <<attempt, cancelled, born, leaseVars, budgetVars, unknown,
                 receipt, call, todo, cancelling, crashes>>

ReconcileJob ==
  /\ stmt = "recJob"
  /\ status' = [status EXCEPT ![call.job] = "SUCCEEDED"]
  /\ stmt' = "recReceipt"
  /\ UNCHANGED <<attempt, cancelled, born, leaseVars, budgetVars, unknown,
                 receipt, call, todo, cancelling, crashes>>

ReconcileReceipt ==
  /\ stmt = "recReceipt"
  /\ receipt' = [receipt EXCEPT ![call.job] = Projected(status[call.job])]
  /\ stmt' = "recRow"
  /\ UNCHANGED <<jobVars, leaseVars, budgetVars, unknown, call, todo,
                 cancelling, crashes>>

ReconcileEnd ==
  /\ stmt = "recRow" /\ todo = {}
  /\ Done
  /\ UNCHANGED <<jobVars, leaseVars, budgetVars, unknown, receipt,
                 cancelling, crashes>>

-----------------------------------------------------------------------------
(* Time passes: a lease not renewed for 30 s is overdue. *)
Tick(l) ==
  /\ Live(l)
  /\ late' = late \cup {l}
  /\ UNCHANGED <<jobVars, lease, held, budgetVars, unknown, receipt, loopVars,
                 cancelling, crashes>>

(* The process dies and restarts on its database file. *)
Crash ==
  /\ crashes < MaxCrashes
  /\ crashes' = crashes + 1
  /\ Done
  /\ cancelling' = [c \in Cancellers |-> NoJob]
  /\ UNCHANGED <<jobVars, leaseVars, budgetVars, unknown, receipt>>

(* The statements of a handler in progress. *)
LoopStep ==
  \/ \E j \in Jobs, k \in Attempts : ExpireLease(j, k)
  \/ ExpireJob \/ ExpireBudget
  \/ ClaimNone
  \/ \E j \in Jobs : ClaimExhausted(j)
  \/ \E j \in Jobs : ClaimGrant(j)
  \/ HeartbeatWrite
  \/ CompleteJob \/ CompleteLease \/ CompleteBudget \/ CompleteReceipt
  \/ UnknownRow \/ UnknownBudget \/ UnknownLease
  \/ \E l \in Leases : ReconcileRow(l)
  \/ ReconcileJob \/ ReconcileReceipt \/ ReconcileEnd

(* All that happens but a restart. *)
Serve ==
  \/ \E j \in Jobs : Submit(j)
  \/ \E j \in Jobs : ReserveBudget(j)
  \/ \E c \in Cancellers, j \in Jobs : CancelRead(c, j)
  \/ \E c \in Cancellers : CancelWrite(c)
  \/ ClaimBegin
  \/ \E j \in Jobs, k \in Attempts : HeartbeatRead(j, k)
  \/ \E j \in Jobs, k \in Attempts : CompleteBegin(j, k)
  \/ \E j \in Jobs, k \in Attempts : UnknownBegin(j, k)
  \/ \E j \in Jobs : ReconcileBegin(j)
  \/ \E l \in Leases : Tick(l)
  \/ LoopStep

LedgerNext == Serve \/ Crash

LedgerSpec == LedgerInit /\ [][LedgerNext]_ledgerVars

(* A handler once begun runs to its end (no await in it), a cancel thread is
   scheduled, time passes, and polling workers get their claims served: this is
   claimed of a process that is not restarted. *)
Fairness ==
  /\ WF_ledgerVars(LoopStep)
  /\ \A c \in Cancellers : WF_ledgerVars(CancelWrite(c))
  /\ \A l \in Leases : WF_ledgerVars(Tick(l))
  /\ SF_ledgerVars(ClaimBegin)

FairSpec == LedgerInit /\ [][Serve]_ledgerVars /\ Fairness

-----------------------------------------------------------------------------
(* Type correctness of the tables and of the handlers' local state. *)
LedgerTypeOK ==
  /\ status \in [Jobs -> JobStates]
  /\ attempt \in [Jobs -> 0..MaxAttempts]
  /\ cancelled \subseteq Jobs
  /\ born \in [Jobs -> Nat]
  /\ lease \in [Leases -> LeaseStates]
  /\ late \subseteq Leases
  /\ held \subseteq Leases
  /\ reserved \in [Jobs -> Nat]
  /\ consumed \in [Jobs -> Nat]
  /\ unknown \subseteq Leases
  /\ receipt \in [Jobs -> {"NONE"} \cup JobStates]
  /\ stmt \in Steps
  /\ call \in Call
  /\ stmt \notin {"idle", "expire"} => call.job \in Jobs
  /\ todo \subseteq Leases
  /\ cancelling \in [Cancellers -> Jobs \cup {NoJob}]
  /\ crashes \in 0..MaxCrashes

(* What the account of a job charges or holds exceeds max_requests by at most
   the number of restarts: between two restarts the autocommit statements of
   claim, complete, unknown, expiry and reserve_budget never overcommit, and a
   restart in the middle of one loses or repeats one request at most. *)
BudgetBound ==
  \A j \in Jobs : consumed[j] + reserved[j] <= MaxRequests + crashes

(* As long as no restart has interrupted a handler, at most one lease of a
   job is ACTIVE, and it is the one of the job's current attempt, however
   cancellations, expiries, retries and heartbeats interleave. *)
LeaseExclusive ==
  crashes = 0 => \A j \in Jobs : ActiveOf(j) \subseteq {attempt[j]}

(* While an UNKNOWN outcome waits for reconciliation, no restart intervening,
   the job is not handed out again: no blind retry. *)
NoBlindRetry ==
  [][\A j \in Jobs :
       (crashes = 0 /\ \E l \in unknown : l[1] = j) => attempt'[j] = attempt[j]
    ]_ledgerVars

(* Once the cancellation of a job is written it is never leased again, even
   if a handler that read the job earlier puts it back to QUEUED or RUNNING:
   no new provider call starts. *)
CancelledNotGranted ==
  [][\A j \in cancelled : attempt'[j] = attempt[j]]_ledgerVars

(* Without a restart a job that stands SUCCEEDED between two handlers has a
   completion receipt that says so, whichever of complete and reconcile ended
   it and whichever cancel raced with it. *)
SuccessHasReceipt ==
  \A j \in Jobs :
    (crashes = 0 /\ Idle /\ status[j] = "SUCCEEDED") => receipt[j] = "SUCCEEDED"

(* A job waiting in the queue is eventually leased, ended or cancelled: the
   oldest-first choice starves nobody, since attempts and budgets are finite. *)
QueueServed ==
  \A j \in Jobs : (j \in Waiting) ~> (j \notin Waiting)

(* An attempt is under way from the grant of its lease until the lease is
   given up or the request is charged: complete charges after closing the
   lease, an unknown outcome before. *)
UnderWay(j) ==
  \/ ActiveOf(j) # {} /\ ~(stmt = "unkLease" /\ call.job = j)
  \/ stmt = "doneBudget" /\ call.job = j

(* With MaxCrashes = 0, the tables implement the abstract account of attempts:
   one attempt at a time, paid at most once, none after cancellation. *)
Account == INSTANCE AttemptAccount WITH
  granted <- attempt, open <- {j \in Jobs : UnderWay(j)},
  spent <- consumed, halted <- cancelled
ImplementsAccount == Account!Spec

(* Every lease a worker holds is at least one provider call; the calls of a
   job stay within max_requests (BEHAVIOR.md:30-32).  Violated: expiry gives
   the reservation of a call that may have been made back (runtime.py:377). *)
CallsWithinBudget ==
  \A j \in Jobs : Cardinality({l \in held : l[1] = j}) <= MaxRequests
=============================================================================
