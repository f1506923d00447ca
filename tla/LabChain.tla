------------------------------ MODULE LabChain -------------------------------
(* The integration lab of vendor6: the five simulators (planning, knowledge,
   writer, runtime, CMS) over one file-backed ledger, and Lab.run_chain, which
   calls them in turn.  Threads run chains and single operations at the same
   time; a ledger write replaces a whole file under the ledger's lock, a read
   takes no lock, so whatever is read is stale by the next step.
   A claim's status stands for the evidence snapshot it gives (its hash), an
   article's revision, snapshot and title for its content hash. *)
EXTENDS Integers, FiniteSets

CONSTANTS Threads,      \* threads of the process that drives the lab
          Drivers,      \* those that run chains; the others call the runtime
          Destinations,
          MaxRevision,  \* bound: revisions of the article
          BudgetCap,    \* RuntimeSimulator.budget_cap
          MaxEvents,    \* bound: acts of the driver, kills included
          Nil, Drift    \* no record; an answer that is no receipt

Revisions == 1..MaxRevision
Statuses  == {"ELIGIBLE", "HOLD", "QUARANTINE"}
Requests  == Destinations \X Revisions   \* the CMS' idempotency keys of the chain

VARIABLES
  claim,      \* knowledge: status of the one claim
  article,    \* articles: the article as stored
  approvals,  \* approvals by revision: content, destination, decision, expiry
  jobs,       \* jobs by idempotency key, which is the article's revision
  spent,      \* budget of the project
  effects,    \* cms_effects by request
  receipts,   \* cms_by_receipt; a publication id names the revision alone
  fault,      \* FaultPlan: the fault injected ("down": HTTP 429 or a timeout)
  at,
  snap,       \* bundle in hand
  hand,       \* article in hand
  leave,      \* approval in hand
  dest,       \* destination and mode of the chain
  job,        \* key, copy and change of the job in hand
  granted,    \* history: what writer.approve ever approved
  uncharged,  \* history: jobs saved by a process killed before it charged them
  events

ledger == <<claim, article, approvals, jobs, spent, effects, receipts>>
carried   == <<snap, hand, leave, dest, job>>
lab    == <<ledger, fault, at, carried, granted, uncharged, events>>

NoWork == [key |-> 1, payload |-> "article", copy |-> Nil, op |-> "complete", result |-> "none"]

LabInit ==
  /\ claim = "ELIGIBLE" /\ article = Nil
  /\ approvals = [r \in Revisions |-> Nil]
  /\ jobs = [r \in Revisions |-> Nil] /\ spent = 0
  /\ effects = [q \in Requests |-> Nil] /\ receipts = [r \in Revisions |-> Nil]
  /\ fault = "none"
  /\ at = [t \in Threads |-> "idle"]
  /\ snap = [t \in Threads |-> "ELIGIBLE"]
  /\ hand = [t \in Threads |-> Nil] /\ leave = [t \in Threads |-> Nil]
  /\ dest = [t \in Threads |-> Nil] /\ job = [t \in Threads |-> NoWork]
  /\ granted = {} /\ uncharged = 0 /\ events = 0

Move(t, step) == at' = [at EXCEPT ![t] = step]

(* The call ends, with an answer or an exception, and what it carried is gone. *)
Return(t) ==
  /\ Move(t, "idle")
  /\ snap' = [snap EXCEPT ![t] = "ELIGIBLE"]
  /\ hand' = [hand EXCEPT ![t] = Nil] /\ leave' = [leave EXCEPT ![t] = Nil]
  /\ dest' = [dest EXCEPT ![t] = Nil] /\ job' = [job EXCEPT ![t] = NoWork]

Act == events < MaxEvents /\ events' = events + 1

-----------------------------------------------------------------------------
(* run_chain *)

(* planning.plan makes the same brief each time; knowledge.query reads the claim. *)
Query(t) ==
  /\ at[t] = "idle" /\ t \in Drivers
  /\ \E d \in Destinations, m \in {"DRY_RUN", "STAGING_DRAFT"} :
       dest' = [dest EXCEPT ![t] = [to |-> d, mode |-> m]]
  /\ snap' = [snap EXCEPT ![t] = claim]
  /\ Move(t, "draft")
  /\ UNCHANGED <<ledger, fault, hand, leave, job, granted, uncharged, events>>

MayDraftHeld(s) == s # "QUARANTINE"
MayDraft(s) == s = "ELIGIBLE"

Draft(t) ==
  /\ at[t] = "draft" /\ MayDraft(snap[t])
  /\ article' = [rev |-> 1, snap |-> snap[t], title |-> "draft"]
  /\ hand' = [hand EXCEPT ![t] = article']
  /\ Move(t, "approve")
  /\ UNCHANGED <<claim, approvals, jobs, spent, effects, receipts, fault, snap, leave, dest, job,
                 granted, uncharged, events>>

EvidenceBlocked(t) ==
  /\ at[t] = "draft" /\ ~ MayDraft(snap[t])
  /\ Return(t)
  /\ UNCHANGED <<ledger, fault, granted, uncharged, events>>

Approve(t) ==
  LET rec == [content |-> hand[t], dest |-> dest[t].to]
  IN /\ at[t] = "approve"
     /\ leave' = [leave EXCEPT ![t] = rec]
     /\ granted' = granted \cup {rec}
     /\ approvals' = [approvals EXCEPT ![hand[t].rev] =
                        [content |-> hand[t], dest |-> dest[t].to, decision |-> "APPROVED", live |-> TRUE]]
     /\ job' = [job EXCEPT ![t] = [NoWork EXCEPT !.key = hand[t].rev]]
     /\ Move(t, "admit")
     /\ UNCHANGED <<claim, article, jobs, spent, effects, receipts, fault, snap, hand, dest, uncharged, events>>

-----------------------------------------------------------------------------
(* runtime.admit: the key is looked up, and only the rest is under the lock. *)

InChain(t) == hand[t] # Nil

Admitted(t) == IF InChain(t) THEN Move(t, "publish") /\ UNCHANGED carried ELSE Return(t)

AdmitLook(t) ==
  /\ at[t] = "admit"
  /\ LET found == jobs[job[t].key]
     IN IF found = Nil THEN Move(t, "charge") /\ UNCHANGED carried
        ELSE IF found.payload # job[t].payload THEN Return(t)   \* IDEMPOTENCY_CONFLICT
        ELSE Admitted(t)
  /\ UNCHANGED <<ledger, fault, granted, uncharged, events>>

(* Seen as s: may one more job be charged?  The mutated forms charge too late. *)
WithinCapOnce(s) == s <= BudgetCap
WithinCap(s) == s < BudgetCap

NewJob(p) == [payload |-> p, status |-> "RUNNING", attempt |-> 1, live |-> TRUE, result |-> "none"]

AdmitCharge(t) ==
  /\ at[t] = "charge"
  /\ IF WithinCap(spent)
     THEN /\ jobs' = [jobs EXCEPT ![job[t].key] = NewJob(job[t].payload)]
          /\ spent' = spent + 1
          /\ Admitted(t)
     ELSE Return(t) /\ UNCHANGED <<jobs, spent>>
  /\ UNCHANGED <<claim, article, approvals, effects, receipts, fault, granted, uncharged, events>>

(* A caller admits a job of its own. *)
SubmitJob(t) ==
  /\ at[t] = "idle" /\ Act
  /\ \E k \in Revisions, p \in {"article", "other"} :
       job' = [job EXCEPT ![t] = [NoWork EXCEPT !.key = k, !.payload = p]]
  /\ Move(t, "admit")
  /\ UNCHANGED <<ledger, fault, snap, hand, leave, dest, granted, uncharged>>

-----------------------------------------------------------------------------
(* cms.publish *)

(* Does the approval in hand name what the request carries? *)
CoversAny(a, c, d) == a # Nil /\ a.dest = d
CoversRequest(a, c, d) == a # Nil /\ a.content = c /\ a.dest = d

Completing(t, result) ==
  /\ job' = [job EXCEPT ![t].op = "complete", ![t].result = result]
  /\ Move(t, "read")
  /\ UNCHANGED <<snap, hand, leave, dest>>

Publish(t) ==
  LET to == dest[t].to
      found == effects[<<to, hand[t].rev>>]
  IN /\ at[t] = "publish"
     /\ IF dest[t].mode = "DRY_RUN" THEN Completing(t, "DRY_RUN")
        ELSE IF ~ CoversRequest(leave[t], hand[t], to) THEN Return(t)
        ELSE IF fault = "down" THEN Return(t)
        ELSE IF fault = "unknown" THEN Completing(t, "UNKNOWN")
        ELSE IF found = Nil THEN Move(t, "effect") /\ UNCHANGED carried
        ELSE IF found = hand[t] THEN Completing(t, "SCHEDULED")
        ELSE Return(t)                                      \* IDEMPOTENCY_CONFLICT
     /\ UNCHANGED <<ledger, fault, granted, uncharged, events>>

(* Schema drift records an answer that is no receipt: the chain raises on it,
   and every later request of the key conflicts with it. *)
PutEffect(t) ==
  LET q == <<dest[t].to, hand[t].rev>>
  IN /\ at[t] = "effect"
     /\ IF fault = "drift"
        THEN effects' = [effects EXCEPT ![q] = Drift] /\ Return(t)
        ELSE effects' = [effects EXCEPT ![q] = hand[t]] /\ Move(t, "receipt") /\ UNCHANGED carried
     /\ UNCHANGED <<claim, article, approvals, jobs, spent, receipts, fault, granted, uncharged, events>>

PutReceipt(t) ==
  /\ at[t] = "receipt"
  /\ receipts' = [receipts EXCEPT ![hand[t].rev] =
                    [content |-> hand[t], dest |-> dest[t].to, status |-> "SCHEDULED"]]
  /\ Completing(t, "SCHEDULED")
  /\ UNCHANGED <<claim, article, approvals, jobs, spent, effects, fault, granted, uncharged, events>>

-----------------------------------------------------------------------------
(* runtime.complete, cancel and bump_attempt read a job, change the copy and put
   the copy back. *)

(* A caller completes (with the attempt it believes in, or none), cancels or bumps. *)
CallRuntime(t) ==
  /\ at[t] = "idle" /\ Act
  /\ \E k \in Revisions, o \in {"complete", "cancel", "bump"} :
       /\ jobs[k] # Nil
       /\ job' = [job EXCEPT ![t] = [NoWork EXCEPT !.key = k, !.op = o,
                                       !.result = IF o = "complete" THEN "other" ELSE "none"]]
  /\ Move(t, "read")
  /\ UNCHANGED <<ledger, fault, snap, hand, leave, dest, granted, uncharged>>

Completable(j) == j.status # "CANCELLED" /\ j.live

ReadJob(t) ==
  LET found == jobs[job[t].key]
  IN /\ at[t] = "read"
     /\ IF job[t].op = "complete" /\ ~ Completable(found)
        THEN Return(t)
        ELSE /\ job' = [job EXCEPT ![t].copy = found]
             /\ Move(t, "put")
             /\ UNCHANGED <<snap, hand, leave, dest>>
     /\ UNCHANGED <<ledger, fault, granted, uncharged, events>>

(* STALE_ATTEMPT: a caller that names an older attempt is refused as it is read. *)
StaleAttempt(t) ==
  /\ at[t] = "read" /\ ~ InChain(t) /\ job[t].op = "complete"
  /\ jobs[job[t].key].attempt > 1
  /\ Return(t)
  /\ UNCHANGED <<ledger, fault, granted, uncharged, events>>

Changed(j, o, result) ==
  CASE o = "complete" -> [j EXCEPT !.status = "SUCCEEDED", !.result = result]
    [] o = "cancel"   -> [j EXCEPT !.status = "CANCELLED"]
    [] o = "bump"     -> [j EXCEPT !.attempt = @ + 1, !.live = TRUE]

(* After a chain its caller still holds the article and the approval. *)
PutJob(t) ==
  /\ at[t] = "put"
  /\ jobs' = [jobs EXCEPT ![job[t].key] = Changed(job[t].copy, job[t].op, job[t].result)]
  /\ IF InChain(t) THEN Move(t, "done") /\ job' = [job EXCEPT ![t] = [NoWork EXCEPT !.key = job[t].key]]
                        /\ UNCHANGED <<snap, hand, leave, dest>>
                   ELSE Return(t)
  /\ UNCHANGED <<claim, article, approvals, spent, effects, receipts, fault, granted, uncharged, events>>

-----------------------------------------------------------------------------
(* What a test does between and beside the chains. *)

Rest(t) ==
  /\ at[t] = "done"
  /\ Return(t)
  /\ UNCHANGED <<ledger, fault, granted, uncharged, events>>

(* get_approval: an approval past its time is revoked as it is read.  The same
   article is then delivered again, to the same destination or another one, under
   that approval or the one still in hand. *)
Redeliver(t) ==
  LET r == hand[t].rev
      read == IF approvals[r].live THEN approvals[r] ELSE [approvals[r] EXCEPT !.decision = "REVOKED"]
  IN /\ at[t] = "done" /\ Act
     /\ \E d \in Destinations : dest' = [dest EXCEPT ![t] = [to |-> d, mode |-> "STAGING_DRAFT"]]
     /\ \/ UNCHANGED <<leave, approvals>>
        \/ /\ approvals[r] # Nil
           /\ approvals' = [approvals EXCEPT ![r] = read]
           /\ leave' = [leave EXCEPT ![t] = IF read.decision = "REVOKED" THEN Nil
                                           ELSE [content |-> read.content, dest |-> read.dest]]
     /\ Move(t, "admit")
     /\ UNCHANGED <<claim, article, jobs, spent, effects, receipts, fault, snap, hand, job,
                    granted, uncharged>>

(* writer.mutate: the stored article, one revision on; it is approved afresh or
   delivered under the approval in hand. *)
Mutate(t) ==
  /\ at[t] = "done" /\ Act
  /\ article.rev < MaxRevision
  /\ article' = [article EXCEPT !.rev = @ + 1, !.title = "changed"]
  /\ hand' = [hand EXCEPT ![t] = article']
  /\ job' = [job EXCEPT ![t].key = article'.rev]
  /\ dest' = [dest EXCEPT ![t].mode = "STAGING_DRAFT"]
  /\ \E step \in {"approve", "admit"} : Move(t, step)
  /\ UNCHANGED <<claim, approvals, jobs, spent, effects, receipts, fault, snap, leave, granted, uncharged>>

Quiet == UNCHANGED <<at, carried, granted, uncharged>>

SetStatus ==
  /\ Act /\ Quiet
  /\ \E s \in Statuses \ {claim} : claim' = s
  /\ UNCHANGED <<article, approvals, jobs, spent, effects, receipts, fault>>

SetFault ==
  /\ Act /\ Quiet
  /\ \E f \in {"none", "down", "unknown", "drift"} \ {fault} : fault' = f
  /\ UNCHANGED ledger

(* writer.revoke *)
Revoke(r) ==
  /\ Act /\ Quiet
  /\ approvals[r] # Nil /\ approvals[r].decision = "APPROVED"
  /\ approvals' = [approvals EXCEPT ![r].decision = "REVOKED"]
  /\ UNCHANGED <<claim, article, jobs, spent, effects, receipts, fault>>

(* Clock.advance, past every lease, and past every approval as well. *)
Advance ==
  /\ Act
  /\ jobs' = [r \in Revisions |-> IF jobs[r] = Nil THEN Nil ELSE [jobs[r] EXCEPT !.live = FALSE]]
  /\ job' = [t \in Threads |-> IF job[t].copy = Nil THEN job[t] ELSE [job[t] EXCEPT !.copy.live = FALSE]]
  /\ \/ UNCHANGED approvals
     \/ approvals' = [r \in Revisions |->
                        IF approvals[r] = Nil THEN Nil ELSE [approvals[r] EXCEPT !.live = FALSE]]
  /\ UNCHANGED <<claim, article, spent, effects, receipts, fault, at, snap, hand, leave, dest,
                 granted, uncharged>>

RollbackOwn(r) ==
  /\ Act /\ Quiet
  /\ receipts[r] # Nil
  /\ receipts' = [receipts EXCEPT ![r].status = "CANCELLED"]
  /\ UNCHANGED <<claim, article, approvals, jobs, spent, effects, fault>>

(* The process is killed; one inside admit may have saved its job and not its charge. *)
Kill ==
  /\ Act
  /\ \/ UNCHANGED <<jobs, uncharged>>
     \/ \E t \in Threads :
          /\ at[t] = "charge" /\ WithinCap(spent)
          /\ jobs' = [jobs EXCEPT ![job[t].key] = NewJob(job[t].payload)]
          /\ uncharged' = uncharged + 1
  /\ at' = [t \in Threads |-> "idle"]
  /\ snap' = [t \in Threads |-> "ELIGIBLE"]
  /\ hand' = [t \in Threads |-> Nil] /\ leave' = [t \in Threads |-> Nil]
  /\ dest' = [t \in Threads |-> Nil] /\ job' = [t \in Threads |-> NoWork]
  /\ fault' = "none"
  /\ UNCHANGED <<claim, article, approvals, spent, effects, receipts, granted>>

LabNext ==
  \/ \E t \in Threads :
       \/ Query(t) \/ Draft(t) \/ EvidenceBlocked(t) \/ Approve(t)
       \/ AdmitLook(t) \/ AdmitCharge(t) \/ SubmitJob(t)
       \/ Publish(t) \/ PutEffect(t) \/ PutReceipt(t)
       \/ CallRuntime(t) \/ ReadJob(t) \/ StaleAttempt(t) \/ PutJob(t)
       \/ Rest(t) \/ Redeliver(t) \/ Mutate(t)
  \/ SetStatus \/ SetFault \/ Advance \/ Kill
  \/ \E r \in Revisions : Revoke(r) \/ RollbackOwn(r)

LabSpec == LabInit /\ [][LabNext]_lab

-----------------------------------------------------------------------------
(* Every draft in the CMS, and every receipt for one, was approved for that very
   content and destination, and rests on evidence that was eligible when it was
   queried (CmsSimulator.publish, WriterSimulator.draft). *)
EffectsApproved ==
  /\ \A q \in Requests :
       effects[q] \notin {Nil, Drift}
         => [content |-> effects[q], dest |-> q[1]] \in granted /\ effects[q].snap = "ELIGIBLE"
  /\ \A r \in Revisions :
       receipts[r] # Nil => /\ effects[<<receipts[r].dest, r>>] # Nil
                            /\ [content |-> receipts[r].content, dest |-> receipts[r].dest] \in granted

(* However many threads admit at once, the budget is never exceeded and every job is
   charged, except one whose process was killed in between (RuntimeSimulator.admit). *)
BudgetCovers ==
  /\ spent <= BudgetCap
  /\ Cardinality({r \in Revisions : jobs[r] # Nil}) <= spent + uncharged

LabSound == EffectsApproved /\ BudgetCovers
=============================================================================
