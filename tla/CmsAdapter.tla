------------------------------ MODULE CmsAdapter ------------------------------
(***************************************************************************)
(* The CMS adapter (content-os/modules/vendor5/app): publish, reconcile    *)
(* and rollback of staging drafts, by several adapter processes on one     *)
(* SQLite file and one CMS.                                                *)
(*                                                                         *)
(* Granularity.  publish authorizes first, then takes the interprocess     *)
(* file lock and keeps it to its end; every ledger or CMS call under it    *)
(* commits alone.  reconcile and rollback_own take no lock.  A process may *)
(* die between any two calls (crash_after_accept is one such point); the   *)
(* kernel then releases its file lock.                                     *)
(*                                                                         *)
(* Abstractions.  A request is its article revision, mode and test run;    *)
(* its canonical hash is <<article, mode>>, its external key the article.  *)
(* `approved` stands for every check of _authorize that can change with    *)
(* time: decision, expiry window, evidence status; its records belong to   *)
(* the authority all processes ask (AuthorityStore).  Requests that fail a *)
(* check which cannot change leave no trace and are not modelled; nor are  *)
(* the mutations table, which is only appended to, and update_draft, which *)
(* has no route.                                                           *)
(***************************************************************************)
EXTENDS Integers, FiniteSets

CONSTANTS
  Callers,        \* adapter processes, each serving one call at a time
  Keys,           \* idempotency keys
  Articles,       \* article revisions
  Runs,           \* test_run_ids
  PortAttempts,   \* RuntimeRetryPort.max_attempts (1 by default)
  ReconcileLimit, \* 5 in reconcile
  MaxCrashes,     \* bound: process deaths in a behaviour
  MaxRollbacks,   \* bound: rollback_own calls in a behaviour
  Nobody, NoRun, NoReceipt

ASSUME PortAttemptsAssumption == PortAttempts \in Nat \ {0}
ASSUME ReconcileLimitAssumption == ReconcileLimit \in Nat \ {0}
ASSUME BoundsAssumption == MaxCrashes \in Nat /\ MaxRollbacks \in Nat
ASSUME KeysFinite == IsFiniteSet(Keys)
ASSUME NobodyAssumption == Nobody \notin Callers
ASSUME NoRunAssumption == NoRun \notin Runs

Modes == {"DRY_RUN", "STAGING_DRAFT"}
Receipt == [article : Articles, mode : Modes,
            status : {"DRY_RUN", "PUBLISHED", "UNKNOWN"}, effects : {0, 1}]
Request == [key : Keys, article : Articles, mode : Modes, run : Runs]

ASSUME NoReceiptAssumption == NoReceipt \notin Receipt
ASSUME RequestAssumption == Request # {}

(* The request of a process that serves none. *)
Blank == CHOOSE r \in Request : TRUE

VARIABLES
  approved, \* the article revisions that _authorize accepts now
  idem,     \* idempotency table: the receipt of each key
  owner,    \* drafts table: the run that owns each article's draft
  unknown,  \* unknown_outcomes: attempts by key, 0 if there is no row
  draft,    \* CMS: the run that made the article's draft, NoRun if none
  made,     \* how often the CMS stored a new draft of the article
  holder,   \* the process with the file lock
  pc,       \* per process: the call it makes next
  req,      \* the request each process serves
  reply,    \* the receipt it is about to store
  tries,    \* create attempts so far, or the row reconcile has read
  todo,     \* the drafts rollback_own has still to remove
  crashes, rollbacks

tables   == <<idem, owner, unknown>>
cms      == <<draft, made>>
locals   == <<req, reply, tries, todo>>
counters == <<crashes, rollbacks>>
vars == <<approved, tables, cms, holder, pc, locals, counters>>

Steps == {"idle", "wait", "check", "create", "lost", "persist", "unknown",
          "answer", "bump", "delete", "forget"}
Locked == {"check", "create", "lost", "persist", "unknown", "answer"}

Init ==
  /\ approved = Articles
  /\ idem = [k \in Keys |-> NoReceipt]
  /\ owner = [a \in Articles |-> NoRun]
  /\ unknown = [k \in Keys |-> 0]
  /\ draft = [a \in Articles |-> NoRun]
  /\ made = [a \in Articles |-> 0]
  /\ holder = Nobody
  /\ pc = [p \in Callers |-> "idle"]
  /\ req = [p \in Callers |-> Blank]
  /\ reply = [p \in Callers |-> NoReceipt]
  /\ tries = [p \in Callers |-> 0]
  /\ todo = [p \in Callers |-> {}]
  /\ crashes = 0 /\ rollbacks = 0

Goto(p, step) == pc' = [pc EXCEPT ![p] = step]

(* The call of p is over and its locals are gone. *)
Rest(p) ==
  /\ Goto(p, "idle")
  /\ req' = [req EXCEPT ![p] = Blank]
  /\ reply' = [reply EXCEPT ![p] = NoReceipt]
  /\ tries' = [tries EXCEPT ![p] = 0]
  /\ todo' = [todo EXCEPT ![p] = {}]

(* publish returns or raises: the lock is released. *)
Leave(p) == Rest(p) /\ holder' = Nobody

(* _receipt for the request of p. *)
ReceiptOf(p, status, effects) ==
  [article |-> req[p].article, mode |-> req[p].mode,
   status |-> status, effects |-> effects]

Reply(p, status, effects) ==
  reply' = [reply EXCEPT ![p] = ReceiptOf(p, status, effects)]

-----------------------------------------------------------------------------
(* The authority's records change: an approval is revoked or expires, an
   evidence claim goes on HOLD; or the revision is approved (again). *)
Revoke(a) ==
  /\ approved' = approved \ {a}
  /\ UNCHANGED <<tables, cms, holder, pc, locals, counters>>

Approve(a) ==
  /\ approved' = approved \cup {a}
  /\ UNCHANGED <<tables, cms, holder, pc, locals, counters>>

(* publish up to the lock: clock, authenticate, _authorize, _sanitize. *)
Begin(p, r) ==
  /\ pc[p] = "idle"
  /\ r.article \in approved
  /\ req' = [req EXCEPT ![p] = r]
  /\ Goto(p, "wait")
  /\ UNCHANGED <<approved, tables, cms, holder, reply, tries, todo, counters>>

(* Mutant: no mutual exclusion between processes. *)
LockFree(p) ==
  /\ pc[p] = "wait"
  /\ holder' = p
  /\ Goto(p, "check")
  /\ UNCHANGED <<approved, tables, cms, locals, counters>>

Lock(p) ==
  /\ pc[p] = "wait"
  /\ holder = Nobody
  /\ holder' = p
  /\ Goto(p, "check")
  /\ UNCHANGED <<approved, tables, cms, locals, counters>>

Known(p) == idem[req[p].key] # NoReceipt

(* The key was used: its receipt is returned, or IDEMPOTENCY_CONFLICT. *)
Replay(p) ==
  /\ pc[p] = "check" /\ Known(p)
  /\ Leave(p)
  /\ UNCHANGED <<approved, tables, cms, counters>>

DryRun(p) ==
  /\ pc[p] = "check" /\ ~Known(p)
  /\ req[p].mode = "DRY_RUN"
  /\ Reply(p, "DRY_RUN", 0)
  /\ Goto(p, "answer")
  /\ UNCHANGED <<approved, tables, cms, holder, req, tries, todo, counters>>

(* lookup by external key: the draft is there, or it has to be created. *)
LookupHit(p) ==
  /\ pc[p] = "check" /\ ~Known(p)
  /\ req[p].mode = "STAGING_DRAFT"
  /\ draft[req[p].article] # NoRun
  /\ Reply(p, "PUBLISHED", 0)
  /\ Goto(p, "answer")
  /\ UNCHANGED <<approved, tables, cms, holder, req, tries, todo, counters>>

LookupMiss(p) ==
  /\ pc[p] = "check" /\ ~Known(p)
  /\ req[p].mode = "STAGING_DRAFT"
  /\ draft[req[p].article] = NoRun
  /\ Goto(p, "create")
  /\ UNCHANGED <<approved, tables, cms, holder, locals, counters>>

-----------------------------------------------------------------------------
(* create_draft fails before the CMS accepts: with 429, 5xx or a timeout the
   retry port tries again while it has attempts left, ... *)
CreateRetry(p) ==
  /\ pc[p] = "create"
  /\ tries[p] + 1 < PortAttempts
  /\ tries' = [tries EXCEPT ![p] = @ + 1]
  /\ UNCHANGED <<approved, tables, cms, holder, pc, req, reply, todo, counters>>

(* Mutant: the error leaves the lock taken. *)
CreateRefusedKeepsLock(p) ==
  /\ pc[p] = "create"
  /\ Rest(p)
  /\ UNCHANGED <<approved, tables, cms, holder, counters>>

(* ... otherwise the error, any but a timeout, is the caller's, ... *)
CreateRefused(p) ==
  /\ pc[p] = "create"
  /\ Leave(p)
  /\ UNCHANGED <<approved, tables, cms, counters>>

(* ... and a timeout is looked into. *)
CreateTimeout(p) ==
  /\ pc[p] = "create"
  /\ tries[p] + 1 >= PortAttempts
  /\ Goto(p, "lost")
  /\ UNCHANGED <<approved, tables, cms, holder, locals, counters>>

(* The CMS stores a draft, unless it has one of this external key; its reply
   arrives, or is lost ("accepted": not retried). *)
CreateStored(p) ==
  LET a == req[p].article IN
  /\ pc[p] = "create"
  /\ draft' = [draft EXCEPT ![a] = IF @ = NoRun THEN req[p].run ELSE @]
  /\ made' = [made EXCEPT ![a] = IF draft[a] = NoRun THEN @ + 1 ELSE @]
  /\ \/ Goto(p, "persist") /\ Reply(p, "PUBLISHED", 1)
     \/ draft[a] = NoRun /\ Goto(p, "lost") /\ UNCHANGED reply
  /\ UNCHANGED <<approved, tables, holder, req, tries, todo, counters>>

(* Mutant: a draft found after a timeout is not recorded as the run's own. *)
LostFoundUnowned(p) ==
  /\ pc[p] = "lost"
  /\ draft[req[p].article] # NoRun
  /\ Reply(p, "UNKNOWN", 1)
  /\ Goto(p, "unknown")
  /\ UNCHANGED <<approved, tables, cms, holder, req, tries, todo, counters>>

(* After a timeout: was the draft accepted? *)
LostFound(p) ==
  /\ pc[p] = "lost"
  /\ draft[req[p].article] # NoRun
  /\ Reply(p, "UNKNOWN", 1)
  /\ Goto(p, "persist")
  /\ UNCHANGED <<approved, tables, cms, holder, req, tries, todo, counters>>

(* Mutant: nothing found, so no outcome to reconcile is recorded. *)
LostMissingUnrecorded(p) ==
  /\ pc[p] = "lost"
  /\ draft[req[p].article] = NoRun
  /\ Reply(p, "UNKNOWN", 0)
  /\ Goto(p, "answer")
  /\ UNCHANGED <<approved, tables, cms, holder, req, tries, todo, counters>>

LostMissing(p) ==
  /\ pc[p] = "lost"
  /\ draft[req[p].article] = NoRun
  /\ Reply(p, "UNKNOWN", 0)
  /\ Goto(p, "unknown")
  /\ UNCHANGED <<approved, tables, cms, holder, req, tries, todo, counters>>

(* _persist_owned_draft: the drafts row. *)
Persist(p) ==
  /\ pc[p] = "persist"
  /\ owner' = [owner EXCEPT ![req[p].article] = req[p].run]
  /\ Goto(p, IF reply[p].status = "UNKNOWN" THEN "unknown" ELSE "answer")
  /\ UNCHANGED <<approved, idem, unknown, cms, holder, locals, counters>>

PutUnknown(p) ==
  /\ pc[p] = "unknown"
  /\ unknown' = [unknown EXCEPT ![req[p].key] = 1]
  /\ Goto(p, "answer")
  /\ UNCHANGED <<approved, idem, owner, cms, holder, locals, counters>>

(* put_idem, and the receipt (or TIMEOUT, if UNKNOWN) goes to the caller. *)
StoreReply(p) ==
  /\ pc[p] = "answer"
  /\ idem' = [idem EXCEPT ![req[p].key] = reply[p]]
  /\ Leave(p)
  /\ UNCHANGED <<approved, owner, unknown, cms, counters>>

-----------------------------------------------------------------------------
(* reconcile reads the row, refuses at the limit, and writes it back. *)
ReconcileRead(p, k) ==
  /\ pc[p] = "idle"
  /\ unknown[k] \in 1..(ReconcileLimit - 1)
  /\ req' = [req EXCEPT ![p].key = k]
  /\ tries' = [tries EXCEPT ![p] = unknown[k]]
  /\ Goto(p, "bump")
  /\ UNCHANGED <<approved, tables, cms, holder, reply, todo, counters>>

ReconcileWrite(p) ==
  /\ pc[p] = "bump"
  /\ unknown' = [unknown EXCEPT ![req[p].key] = tries[p] + 1]
  /\ Rest(p)
  /\ UNCHANGED <<approved, idem, owner, cms, holder, counters>>

(* rollback_own lists the drafts of a run, then removes each from the CMS
   and from the table. *)
RollbackBegin(p, r) ==
  /\ pc[p] = "idle"
  /\ rollbacks < MaxRollbacks
  /\ rollbacks' = rollbacks + 1
  /\ todo' = [todo EXCEPT ![p] = {a \in Articles : owner[a] = r}]
  /\ todo'[p] # {}
  /\ req' = [req EXCEPT ![p].run = r]
  /\ Goto(p, "delete")
  /\ UNCHANGED <<approved, tables, cms, holder, reply, tries, crashes>>

RollbackDelete(p, a) ==
  /\ pc[p] = "delete"
  /\ a \in todo[p]
  /\ draft' = [draft EXCEPT ![a] = NoRun]
  /\ req' = [req EXCEPT ![p].article = a]
  /\ Goto(p, "forget")
  /\ UNCHANGED <<approved, tables, made, holder, reply, tries, todo, counters>>

RollbackForget(p) ==
  LET rest == todo[p] \ {req[p].article} IN
  /\ pc[p] = "forget"
  /\ owner' = [owner EXCEPT ![req[p].article] = NoRun]
  /\ \/ rest = {} /\ Rest(p)
     \/ /\ rest # {}
        /\ todo' = [todo EXCEPT ![p] = rest]
        /\ Goto(p, "delete")
        /\ UNCHANGED <<req, reply, tries>>
  /\ UNCHANGED <<approved, idem, unknown, cms, holder, counters>>

-----------------------------------------------------------------------------
(* The process dies; the kernel closes its lock file. *)
Crash(p) ==
  /\ pc[p] # "idle"
  /\ crashes < MaxCrashes
  /\ crashes' = crashes + 1
  /\ Rest(p)
  /\ holder' = IF holder = p THEN Nobody ELSE holder
  /\ UNCHANGED <<approved, tables, cms, rollbacks>>

(* What the holder of the lock does next. *)
LockedStep(p) ==
  \/ Replay(p) \/ DryRun(p) \/ LookupHit(p) \/ LookupMiss(p)
  \/ CreateRetry(p) \/ CreateRefused(p) \/ CreateTimeout(p) \/ CreateStored(p)
  \/ LostFound(p) \/ LostMissing(p)
  \/ Persist(p) \/ PutUnknown(p) \/ StoreReply(p)

Next ==
  \/ \E a \in Articles : Revoke(a) \/ Approve(a)
  \/ \E p \in Callers :
       \/ \E r \in Request : Begin(p, r)
       \/ Lock(p) \/ LockedStep(p)
       \/ \E k \in Keys : ReconcileRead(p, k)
       \/ ReconcileWrite(p)
       \/ \E r \in Runs : RollbackBegin(p, r)
       \/ \E a \in Articles : RollbackDelete(p, a)
       \/ RollbackForget(p)
       \/ Crash(p)

Spec == Init /\ [][Next]_vars

(* Every call under the lock returns (the CMS answers or times out), and the
   kernel hands a contended lock to each waiter in turn. *)
LockFairness == \A p \in Callers : WF_vars(LockedStep(p)) /\ SF_vars(Lock(p))

FairSpec == Spec /\ LockFairness

-----------------------------------------------------------------------------
(* Type correctness; the lock holder is the one process inside publish. *)
TypeOK ==
  /\ approved \subseteq Articles
  /\ idem \in [Keys -> Receipt \cup {NoReceipt}]
  /\ owner \in [Articles -> Runs \cup {NoRun}]
  /\ unknown \in [Keys -> 0..ReconcileLimit]
  /\ draft \in [Articles -> Runs \cup {NoRun}]
  /\ made \in [Articles -> Nat]
  /\ holder \in Callers \cup {Nobody}
  /\ pc \in [Callers -> Steps]
  /\ req \in [Callers -> Request]
  /\ reply \in [Callers -> Receipt \cup {NoReceipt}]
  /\ tries \in [Callers -> Nat]
  /\ todo \in [Callers -> SUBSET Articles]
  /\ crashes \in 0..MaxCrashes /\ rollbacks \in 0..MaxRollbacks

(* Every key that was answered UNKNOWN has the row reconcile works from, even
   if the process died at the worst moment: the row is written first. *)
UnknownRecorded ==
  \A k \in Keys :
    (idem[k] # NoReceipt /\ idem[k].status = "UNKNOWN") => unknown[k] > 0

(* As long as no process died inside publish and no rollback ran, every draft
   in the CMS is recorded as owned by the run that made it once its publish
   returned, replies lost or not: rollback_own can find exactly those. *)
DraftsOwned ==
  (crashes = 0 /\ rollbacks = 0 /\ holder = Nobody) => owner = draft

(* The keys whose receipt reports a draft of a as its own effect. *)
Claims(a) ==
  {k \in Keys : idem[k] # NoReceipt /\ idem[k].article = a /\ idem[k].effects = 1}

(* The adapter keeps the promises of PublicationContract through concurrent
   processes, deaths, lost replies and rollbacks: a key is answered once, a
   PUBLISHED answer had a draft, no draft is claimed twice. *)
Contract == INSTANCE PublicationContract WITH
  answer <- idem, live <- {a \in Articles : draft[a] # NoRun},
  claimed <- [a \in Articles |-> Cardinality(Claims(a))]
ImplementsContract == Contract!Spec

(* A caller waiting for the file lock gets it, or dies. *)
LockServed == \A p \in Callers : (pc[p] = "wait") ~> (pc[p] # "wait")

(* No draft is created for a revision whose approval is revoked at that
   moment: docs/REVOCATION_RACE.md:5 "If approval is revoked after admission
   but before provider call: no new create."  Violated: _authorize runs before
   the lock is taken and is not repeated (adapter.py:205-237). *)
NoCreateAfterRevocation ==
  [][\A a \in Articles : made'[a] > made[a] => a \in approved]_vars
=============================================================================
