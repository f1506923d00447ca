---------------------------- MODULE ShadowBridge ----------------------------
(***************************************************************************)
(* The contractor bridge (src/src/kf_pilot/contractor_bridge): the runs of *)
(* LocalShadowAdapter over one work_root, and their resumption after a     *)
(* failure or a death.                                                     *)
(*                                                                         *)
(* Granularity.  One step per call of the job ledger, per projection and   *)
(* per file operation.  Nothing locks the work_root: runs of several       *)
(* processes interleave, and share the one receipt file.                   *)
(*                                                                         *)
(* External.  JobLedger (a database) and Projector belong to the           *)
(* contractor's packages and are modelled from the adapter's use of them:  *)
(* admit makes a job, or names the one of the key and refuses another      *)
(* digest; every call may answer an error and then changes nothing;        *)
(* mark_projected stores APPLIED and the receipt's hash.                   *)
(*                                                                         *)
(* Abstractions.  A run that is held for its pins or whose snapshot fails  *)
(* ends before the ledger and is left out; so are the locator and the      *)
(* asset store, which only admit the snapshot.  The hash of a receipt is   *)
(* the receipt: its contents are fixed by contract and digest.  FAILED,    *)
(* HUMAN_HOLD and RECONCILE_REQUIRED are answers that leave no trace.      *)
(***************************************************************************)
EXTENDS Integers, FiniteSets

CONSTANTS
  Runners,     \* processes
  Contracts,   \* fingerprints of run contracts
  Digests,     \* what the request digest adds to one: the pins
  MaxStops,    \* bound on deaths and errors
  NoReceipt    \* an absent or truncated file, a hash there is none of

Receipts == Contracts \X Digests

VARIABLES
  jobs,    \* the ledger: per fingerprint its job's state, digest, projection and receipt hash
  receipt, \* shadow-receipt.json
  stage,      \* per process, what its run does next
  order,   \* the contract and digest it runs
  seen,    \* its locals: the ledger's row, the receipt it loaded, the hash it took
  projected, \* the contracts the transport has accepted an event of
  overdue, \* the processes whose run saw the job before it was marked APPLIED
  noops,   \* the receipts DUPLICATE_NOOP was answered for
  stops

durable == <<jobs, receipt>>
inHand == <<stage, order, seen>>
ghosts == <<projected, overdue, noops, stops>>
bridge == <<durable, inHand, ghosts>>

NoJob == [state |-> "NONE", digest |-> NoReceipt, applied |-> FALSE, sha |-> NoReceipt]
Nowhere == [row |-> NoJob, loaded |-> NoReceipt, sha |-> NoReceipt]

BridgeInit ==
  /\ jobs = [c \in Contracts |-> NoJob]
  /\ receipt = NoReceipt
  /\ stage = [r \in Runners |-> "idle"]
  /\ order = [r \in Runners |-> NoReceipt]
  /\ seen = [r \in Runners |-> Nowhere]
  /\ projected = {}
  /\ overdue = {}
  /\ noops = {}
  /\ stops = 0

Job(r) == jobs[order[r][1]]
Goto(r, l) == stage' = [stage EXCEPT ![r] = l]

(* The run of r returns; its locals go with it. *)
Return(r) ==
  /\ Goto(r, "idle")
  /\ order' = [order EXCEPT ![r] = NoReceipt]
  /\ seen' = [seen EXCEPT ![r] = Nowhere]
  /\ overdue' = overdue \ {r}

Run(r, o) ==
  /\ stage[r] = "idle"
  /\ order' = [order EXCEPT ![r] = o]
  /\ Goto(r, "admit")
  /\ UNCHANGED <<durable, seen, ghosts>>

----------------------------------------------------------------------------
(* A first run: the ledger's job goes through its states. *)

AdmitNew(r) ==
  /\ stage[r] = "admit" /\ Job(r).state = "NONE"
  /\ jobs' = [jobs EXCEPT ![order[r][1]] = [NoJob EXCEPT !.state = "ADMITTED", !.digest = order[r][2]]]
  /\ Goto(r, "reserve")
  /\ UNCHANGED <<receipt, order, seen, ghosts>>

(* A mutant: the pins are left out of the request digest. *)
AdmitHitAny(r) ==
  /\ stage[r] = "admit" /\ Job(r).state # "NONE"
  /\ Goto(r, "get")
  /\ UNCHANGED <<durable, order, seen, ghosts>>

AdmitHit(r) ==
  /\ stage[r] = "admit" /\ Job(r).state # "NONE"
  /\ Job(r).digest = order[r][2]
  /\ Goto(r, "get")
  /\ UNCHANGED <<durable, order, seen, ghosts>>

(* DIGEST_CONFLICT *)
AdmitConflict(r) ==
  /\ stage[r] = "admit" /\ Job(r).state # "NONE"
  /\ Job(r).digest # order[r][2]
  /\ Return(r)
  /\ UNCHANGED <<durable, projected, noops, stops>>

(* reserve_budget, claim and record_attempt, then finalize. *)
Ledger(r, from, state, to) ==
  /\ stage[r] = from
  /\ jobs' = [jobs EXCEPT ![order[r][1]].state = state]
  /\ Goto(r, to)
  /\ UNCHANGED <<receipt, order, seen, ghosts>>

Reserve(r)  == Ledger(r, "reserve", "ADMITTED", "claim")
Claim(r)    == Ledger(r, "claim", "CLAIMED", "attempt")
Attempt(r)  == Ledger(r, "attempt", "CLAIMED", "finalize")
Finalize(r) == Ledger(r, "finalize", "SUCCEEDED", "project")

----------------------------------------------------------------------------
(* An idempotent hit: the row is read, then the receipt twice. *)

Get(r) ==
  /\ stage[r] = "get"
  /\ seen' = [seen EXCEPT ![r].row = Job(r)]
  /\ Goto(r, "load")
  /\ UNCHANGED <<durable, order, ghosts>>

Load(r) ==
  /\ stage[r] = "load"
  /\ seen' = [seen EXCEPT ![r].loaded = receipt]
  /\ Goto(r, "sha")
  /\ UNCHANGED <<durable, order, ghosts>>

Sha(r) ==
  /\ stage[r] = "sha"
  /\ seen' = [seen EXCEPT ![r].sha = receipt]
  /\ Goto(r, "replay")
  /\ UNCHANGED <<durable, order, ghosts>>

(* Mutants: the receipt alone is believed, or the state alone. *)
ProvedByReceipt(r) == seen[r].loaded = order[r] /\ seen[r].sha # NoReceipt
ProvedByState(r) == seen[r].row.state = "SUCCEEDED"

(* _receipt_proves and _verify_receipt_against_ledger *)
Proved(r) ==
  /\ seen[r].row.applied
  /\ seen[r].loaded = order[r]
  /\ seen[r].sha # NoReceipt
  /\ seen[r].sha = seen[r].row.sha

ReplayNoop(r) ==
  /\ stage[r] = "replay" /\ seen[r].row.state = "SUCCEEDED"
  /\ Proved(r)
  /\ noops' = noops \cup {order[r]}
  /\ Return(r)
  /\ UNCHANGED <<durable, projected, stops>>

(* HUMAN_HOLD for a job that is not terminal; RECONCILE_REQUIRED for one   *)
(* that is APPLIED without proof.                                          *)
ReplayHeld(r) ==
  /\ stage[r] = "replay"
  /\ seen[r].row.state # "SUCCEEDED" \/ (~ Proved(r) /\ seen[r].row.applied)
  /\ Return(r)
  /\ UNCHANGED <<durable, projected, noops, stops>>

(* A mutant: a missing proof alone makes the run project again. *)
ReplayResumeUnproved(r) ==
  /\ stage[r] = "replay" /\ seen[r].row.state = "SUCCEEDED"
  /\ ~ Proved(r)
  /\ Goto(r, "project")
  /\ UNCHANGED <<durable, order, seen, ghosts>>

ReplayResume(r) ==
  /\ stage[r] = "replay" /\ seen[r].row.state = "SUCCEEDED"
  /\ ~ Proved(r) /\ ~ seen[r].row.applied
  /\ Goto(r, "project")
  /\ UNCHANGED <<durable, order, seen, ghosts>>

----------------------------------------------------------------------------
(* _project_and_persist, the first time or resumed. *)

Project(r) ==
  /\ stage[r] = "project"
  /\ projected' = projected \cup {order[r][1]}
  /\ Goto(r, "open")
  /\ UNCHANGED <<durable, order, seen, overdue, noops, stops>>

(* write_bytes truncates and writes. *)
Open(r) ==
  /\ stage[r] = "open"
  /\ receipt' = NoReceipt
  /\ Goto(r, "write")
  /\ UNCHANGED <<jobs, order, seen, ghosts>>

WriteReceipt(r) ==
  /\ stage[r] = "write"
  /\ receipt' = order[r]
  /\ Goto(r, "hash")
  /\ UNCHANGED <<jobs, order, seen, ghosts>>

(* The hash is taken off the file, whoever wrote it last. *)
Hash(r) ==
  /\ stage[r] = "hash"
  /\ seen' = [seen EXCEPT ![r].sha = receipt]
  /\ Goto(r, "mark")
  /\ UNCHANGED <<durable, order, ghosts>>

Mark(r) ==
  /\ stage[r] = "mark"
  /\ jobs' = [jobs EXCEPT ![order[r][1]].applied = TRUE, ![order[r][1]].sha = seen[r].sha]
  /\ Goto(r, "idle")
  /\ order' = [order EXCEPT ![r] = NoReceipt]
  /\ seen' = [seen EXCEPT ![r] = Nowhere]
  /\ overdue' = (overdue \cup {u \in Runners : order[u] # NoReceipt /\ order[u][1] = order[r][1]
                                               /\ stage[u] \notin {"admit", "get"}}) \ {r}
  /\ UNCHANGED <<receipt, projected, noops, stops>>

(* A call that answers an error or raises ends the run, and so does a death *)
(* anywhere; the projection may have been accepted all the same.           *)
Stop(r) ==
  /\ stage[r] # "idle"
  /\ stops < MaxStops
  /\ stops' = stops + 1
  /\ \/ UNCHANGED projected
     \/ stage[r] = "project" /\ projected' = projected \cup {order[r][1]}
  /\ Return(r)
  /\ UNCHANGED <<durable, noops>>

BridgeNext ==
  \E r \in Runners :
    \/ \E o \in Receipts : Run(r, o)
    \/ AdmitNew(r) \/ AdmitHit(r) \/ AdmitConflict(r)
    \/ Reserve(r) \/ Claim(r) \/ Attempt(r) \/ Finalize(r)
    \/ Get(r) \/ Load(r) \/ Sha(r) \/ ReplayNoop(r) \/ ReplayHeld(r) \/ ReplayResume(r)
    \/ Project(r) \/ Open(r) \/ WriteReceipt(r) \/ Hash(r) \/ Mark(r)
    \/ Stop(r)

BridgeSpec == BridgeInit /\ [][BridgeNext]_bridge

----------------------------------------------------------------------------
(* Whoever is told DUPLICATE_NOOP asked for what was done: the job of that  *)
(* very digest succeeded, was projected and is marked.                     *)
NoopDone ==
  \A o \in noops :
    /\ jobs[o[1]].state = "SUCCEEDED" /\ jobs[o[1]].applied
    /\ jobs[o[1]].digest = o[2]
    /\ o[1] \in projected

(* A job that is APPLIED is projected again only by a run that had read its *)
(* row before; whatever has become of the receipt file.                    *)
AppliedIsFinal ==
  [][\A r \in Runners :
       stage[r] = "project" /\ stage'[r] = "open" /\ Job(r).applied => r \in overdue]_bridge

=============================================================================
