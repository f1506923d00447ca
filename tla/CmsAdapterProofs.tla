--------------------------- MODULE CmsAdapterProofs ---------------------------
(***************************************************************************)
(* Theorems about CmsAdapter, for any processes, keys, articles, runs,     *)
(* retry and reconcile limits, deaths and rollbacks.                       *)
(***************************************************************************)
EXTENDS CmsAdapter, Preflights, FiniteSetTheorems, WellFoundedInduction, TLAPS

USE DEF tables, cms, locals, counters

(* What a process knows while it serves a request: inside publish it is the
   one holder of the lock, so its key is still unanswered and nobody else has
   made the draft it is about to make; its receipt is true so far. *)
Serving(p) ==
  /\ pc[p] \in Locked <=> holder = p
  /\ pc[p] = "bump" => tries[p] \in 1..(ReconcileLimit - 1)
  /\ pc[p] \in Locked \ {"check"} => idem[req[p].key] = NoReceipt
  /\ pc[p] = "create" => draft[req[p].article] = NoRun
  /\ pc[p] \in {"lost", "persist"} => draft[req[p].article] \in {NoRun, req[p].run}
  /\ pc[p] \in {"persist", "unknown", "answer"} =>
       /\ reply[p] \in Receipt
       /\ reply[p].article = req[p].article
       /\ reply[p].status = "PUBLISHED" => made[req[p].article] > 0
  /\ pc[p] = "persist" => reply[p].effects = 1 /\ reply[p].status # "DRY_RUN"
  /\ pc[p] = "unknown" => reply[p].status = "UNKNOWN"
  /\ pc[p] = "answer" /\ reply[p].status = "UNKNOWN" => unknown[req[p].key] > 0

DraftsCounted == \A a \in Articles : draft[a] # NoRun => made[a] > 0

Consistent ==
  TypeOK /\ (\A p \in Callers : Serving(p)) /\ DraftsCounted /\ UnknownRecorded

LEMMA BlankType == Blank \in Request
BY RequestAssumption DEF Blank

LEMMA ConsistentInit == Init => Consistent
BY BlankType, NobodyAssumption, ReconcileLimitAssumption, BoundsAssumption
   DEF Init, Consistent, TypeOK, Serving, DraftsCounted, UnknownRecorded, Steps, Locked

LEMMA ConsistentStep == Consistent /\ [Next]_vars => Consistent'
<1> SUFFICES ASSUME Consistent, [Next]_vars PROVE Consistent'
  OBVIOUS
<1> USE BlankType, NobodyAssumption, NoRunAssumption, NoReceiptAssumption,
        ReconcileLimitAssumption, BoundsAssumption, PortAttemptsAssumption
    DEF Consistent, TypeOK, Serving, DraftsCounted, UnknownRecorded, Steps, Locked,
        Goto, Rest, Leave, Reply, ReceiptOf, Receipt, Request, Modes, Known
<1>1. ASSUME NEW a \in Articles, Revoke(a) PROVE Consistent'
  BY <1>1 DEF Revoke
<1>2. ASSUME NEW a \in Articles, Approve(a) PROVE Consistent'
  BY <1>2 DEF Approve
<1>3. ASSUME NEW p \in Callers, NEW r \in Request, Begin(p, r) PROVE Consistent'
  BY <1>3 DEF Begin
<1>4. ASSUME NEW p \in Callers, Lock(p) PROVE Consistent'
  BY <1>4 DEF Lock
<1>5. ASSUME NEW p \in Callers, Replay(p) PROVE Consistent'
  BY <1>5 DEF Replay
<1>6. ASSUME NEW p \in Callers, DryRun(p) PROVE Consistent'
  BY <1>6 DEF DryRun
<1>7. ASSUME NEW p \in Callers, LookupHit(p) PROVE Consistent'
  BY <1>7 DEF LookupHit
<1>8. ASSUME NEW p \in Callers, LookupMiss(p) PROVE Consistent'
  BY <1>8 DEF LookupMiss
<1>9. ASSUME NEW p \in Callers, CreateRetry(p) PROVE Consistent'
  BY <1>9 DEF CreateRetry
<1>10. ASSUME NEW p \in Callers, CreateRefused(p) PROVE Consistent'
  BY <1>10 DEF CreateRefused
<1>11. ASSUME NEW p \in Callers, CreateTimeout(p) PROVE Consistent'
  BY <1>11 DEF CreateTimeout
<1>12. ASSUME NEW p \in Callers, CreateStored(p) PROVE Consistent'
  BY <1>12 DEF CreateStored
<1>13. ASSUME NEW p \in Callers, LostFound(p) PROVE Consistent'
  BY <1>13 DEF LostFound
<1>14. ASSUME NEW p \in Callers, LostMissing(p) PROVE Consistent'
  BY <1>14 DEF LostMissing
<1>15. ASSUME NEW p \in Callers, Persist(p) PROVE Consistent'
  BY <1>15 DEF Persist
<1>16. ASSUME NEW p \in Callers, PutUnknown(p) PROVE Consistent'
  BY <1>16 DEF PutUnknown
<1>17. ASSUME NEW p \in Callers, StoreReply(p) PROVE Consistent'
  BY <1>17 DEF StoreReply
<1>18. ASSUME NEW p \in Callers, NEW k \in Keys, ReconcileRead(p, k) PROVE Consistent'
  <2>0. [req[p] EXCEPT !.key = k] \in Request
    BY SMTT(20)
  <2>1. req' \in [Callers -> Request] /\ \A q \in Callers \ {p} : req'[q] = req[q]
    BY <1>18, <2>0, SMTT(20) DEF ReconcileRead
  <2>2. TypeOK'
    BY <1>18, <2>1 DEF ReconcileRead
  <2>3. QED BY <1>18, <2>1, <2>2 DEF ReconcileRead
<1>19. ASSUME NEW p \in Callers, ReconcileWrite(p) PROVE Consistent'
  BY <1>19 DEF ReconcileWrite
<1>20. ASSUME NEW p \in Callers, NEW r \in Runs, RollbackBegin(p, r) PROVE Consistent'
  BY <1>20, SMTT(20) DEF RollbackBegin
<1>21. ASSUME NEW p \in Callers, NEW a \in Articles, RollbackDelete(p, a) PROVE Consistent'
  <2>0. [req[p] EXCEPT !.article = a] \in Request
    BY SMTT(20)
  <2>1. req' \in [Callers -> Request] /\ \A q \in Callers \ {p} : req'[q] = req[q]
    BY <1>21, <2>0, SMTT(20) DEF RollbackDelete
  <2>2. TypeOK'
    BY <1>21, <2>1 DEF RollbackDelete
  <2>3. QED BY <1>21, <2>1, <2>2 DEF RollbackDelete
<1>22. ASSUME NEW p \in Callers, RollbackForget(p) PROVE Consistent'
  <2> DEFINE rest == todo[p] \ {req[p].article}
  <2>1. /\ pc[p] = "forget"
        /\ owner' = [owner EXCEPT ![req[p].article] = NoRun]
        /\ UNCHANGED <<approved, idem, unknown, cms, holder, counters>>
    BY <1>22 DEF RollbackForget
  <2>2. owner' \in [Articles -> Runs \cup {NoRun}]
    BY <2>1
  <2>3. rest \in SUBSET Articles
    OBVIOUS
  <2>4. \/ Rest(p)
        \/ Goto(p, "delete") /\ todo' = [todo EXCEPT ![p] = rest]
           /\ UNCHANGED <<req, reply, tries>>
    BY <1>22, Zenon DEF RollbackForget
  <2> HIDE DEF rest
  <2>5. CASE Rest(p)
    BY <2>1, <2>2, <2>5
  <2>6. CASE Goto(p, "delete") /\ todo' = [todo EXCEPT ![p] = rest]
             /\ UNCHANGED <<req, reply, tries>>
    BY <2>1, <2>2, <2>3, <2>6
  <2>7. QED BY <2>4, <2>5, <2>6
<1>23. ASSUME NEW p \in Callers, Crash(p) PROVE Consistent'
  BY <1>23 DEF Crash
<1>24. CASE UNCHANGED vars
  BY <1>24 DEF vars
<1>25. QED BY <1>1, <1>2, <1>3, <1>4, <1>5, <1>6, <1>7, <1>8, <1>9, <1>10, <1>11, <1>12, <1>13,
              <1>14, <1>15, <1>16, <1>17, <1>18, <1>19, <1>20, <1>21, <1>22, <1>23, <1>24
           DEF Next, LockedStep

(* The tables and the processes keep their types. *)
THEOREM TypeCorrect == Spec => []TypeOK
<1>1. Consistent => TypeOK
  BY DEF Consistent
<1>2. QED BY ConsistentInit, ConsistentStep, <1>1, PTL DEF Spec

(* A key answered UNKNOWN always has the row reconcile starts from. *)
THEOREM UnknownRecordedHolds == Spec => []UnknownRecorded
<1>1. Consistent => UnknownRecorded
  BY DEF Consistent
<1>2. QED BY ConsistentInit, ConsistentStep, <1>1, PTL DEF Spec

-----------------------------------------------------------------------------
(* Up to the first death or rollback, a draft that the table does not show is
   on its way there: its maker holds the lock and is about to record it. *)
Recording(p, a) ==
  /\ pc[p] \in {"lost", "persist"}
  /\ req[p].article = a
  /\ owner[a] = NoRun
  /\ draft[a] = req[p].run

Undisturbed ==
  (crashes = 0 /\ rollbacks = 0) =>
    /\ \A p \in Callers : pc[p] \notin {"delete", "forget"}
    /\ \A p \in Callers : pc[p] = "persist" => draft[req[p].article] # NoRun
    /\ \A a \in Articles :
         owner[a] = draft[a] \/ \E p \in Callers : Recording(p, a)

LEMMA UndisturbedInit == Init => Undisturbed
BY DEF Init, Undisturbed

LEMMA UndisturbedStep == Consistent /\ Undisturbed /\ [Next]_vars => Undisturbed'
<1> SUFFICES ASSUME Consistent, Undisturbed, [Next]_vars PROVE Undisturbed'
  OBVIOUS
<1> USE NoRunAssumption, NobodyAssumption, BoundsAssumption
    DEF Consistent, TypeOK, Serving, Undisturbed, Recording, Locked,
        Goto, Rest, Leave, Reply, ReceiptOf, Request, Known
<1>1. ASSUME NEW a \in Articles, Revoke(a) PROVE Undisturbed'
  BY <1>1 DEF Revoke
<1>2. ASSUME NEW a \in Articles, Approve(a) PROVE Undisturbed'
  BY <1>2 DEF Approve
<1>3. ASSUME NEW p \in Callers, NEW r \in Request, Begin(p, r) PROVE Undisturbed'
  BY <1>3 DEF Begin
<1>4. ASSUME NEW p \in Callers, Lock(p) PROVE Undisturbed'
  BY <1>4 DEF Lock
<1>5. ASSUME NEW p \in Callers, Replay(p) PROVE Undisturbed'
  BY <1>5 DEF Replay
<1>6. ASSUME NEW p \in Callers, DryRun(p) PROVE Undisturbed'
  BY <1>6 DEF DryRun
<1>7. ASSUME NEW p \in Callers, LookupHit(p) PROVE Undisturbed'
  BY <1>7 DEF LookupHit
<1>8. ASSUME NEW p \in Callers, LookupMiss(p) PROVE Undisturbed'
  BY <1>8 DEF LookupMiss
<1>9. ASSUME NEW p \in Callers, CreateRetry(p) PROVE Undisturbed'
  BY <1>9 DEF CreateRetry
<1>10. ASSUME NEW p \in Callers, CreateRefused(p) PROVE Undisturbed'
  BY <1>10 DEF CreateRefused
<1>11. ASSUME NEW p \in Callers, CreateTimeout(p) PROVE Undisturbed'
  BY <1>11 DEF CreateTimeout
<1>12. ASSUME NEW p \in Callers, CreateStored(p) PROVE Undisturbed'
  <2> SUFFICES ASSUME crashes = 0, rollbacks = 0 PROVE Undisturbed'
    BY <1>12 DEF CreateStored
  <2> DEFINE b == req[p].article
  <2>1. /\ b \in Articles /\ req[p].run \in Runs /\ draft[b] = NoRun
        /\ holder = p
    BY <1>12 DEF CreateStored
  <2>2. owner[b] = NoRun
    <3>1. ASSUME NEW q \in Callers PROVE ~Recording(q, b)
      BY <2>1
    <3>2. QED BY <2>1, <3>1
  <2>3. /\ draft' = [draft EXCEPT ![b] = req[p].run]
        /\ pc' \in {[pc EXCEPT ![p] = "persist"], [pc EXCEPT ![p] = "lost"]}
        /\ UNCHANGED <<owner, req, crashes, rollbacks>>
    BY <1>12, <2>1 DEF CreateStored
  <2>4. Recording(p, b)'
    BY <2>1, <2>2, <2>3
  <2>5. ASSUME NEW a \in Articles \ {b}
        PROVE owner'[a] = draft'[a] \/ \E q \in Callers : Recording(q, a)'
    BY <2>1, <2>3
  <2>6. \A q \in Callers : pc'[q] = "persist" => draft'[req'[q].article] # NoRun
    BY <2>1, <2>3
  <2>7. QED BY <2>3, <2>4, <2>5, <2>6
<1>13. ASSUME NEW p \in Callers, LostFound(p) PROVE Undisturbed'
  BY <1>13 DEF LostFound
<1>14. ASSUME NEW p \in Callers, LostMissing(p) PROVE Undisturbed'
  BY <1>14 DEF LostMissing
<1>15. ASSUME NEW p \in Callers, Persist(p) PROVE Undisturbed'
  BY <1>15 DEF Persist
<1>16. ASSUME NEW p \in Callers, PutUnknown(p) PROVE Undisturbed'
  BY <1>16 DEF PutUnknown
<1>17. ASSUME NEW p \in Callers, StoreReply(p) PROVE Undisturbed'
  BY <1>17 DEF StoreReply
<1>18. ASSUME NEW p \in Callers, NEW k \in Keys, ReconcileRead(p, k) PROVE Undisturbed'
  BY <1>18 DEF ReconcileRead
<1>19. ASSUME NEW p \in Callers, ReconcileWrite(p) PROVE Undisturbed'
  BY <1>19 DEF ReconcileWrite
<1>20. ASSUME NEW p \in Callers, NEW r \in Runs, RollbackBegin(p, r) PROVE Undisturbed'
  BY <1>20 DEF RollbackBegin
<1>21. ASSUME NEW p \in Callers, NEW a \in Articles, RollbackDelete(p, a) PROVE Undisturbed'
  BY <1>21 DEF RollbackDelete
<1>22. ASSUME NEW p \in Callers, RollbackForget(p) PROVE Undisturbed'
  BY <1>22 DEF RollbackForget
<1>23. ASSUME NEW p \in Callers, Crash(p) PROVE Undisturbed'
  BY <1>23 DEF Crash
<1>24. CASE UNCHANGED vars
  BY <1>24 DEF vars
<1>25. QED BY <1>1, <1>2, <1>3, <1>4, <1>5, <1>6, <1>7, <1>8, <1>9, <1>10, <1>11, <1>12, <1>13,
              <1>14, <1>15, <1>16, <1>17, <1>18, <1>19, <1>20, <1>21, <1>22, <1>23, <1>24
           DEF Next, LockedStep

(* As long as no process died and no rollback ran, rollback_own finds exactly
   the drafts of its run. *)
THEOREM DraftsOwnedHolds == Spec => []DraftsOwned
<1>1. Consistent /\ Undisturbed => DraftsOwned
  <2> SUFFICES ASSUME Consistent, Undisturbed, crashes = 0, rollbacks = 0, holder = Nobody
               PROVE  owner = draft
    BY DEF DraftsOwned
  <2>1. \A p \in Callers : pc[p] \notin Locked
    BY NobodyAssumption DEF Consistent, Serving
  <2>2. \A a \in Articles : owner[a] = draft[a]
    BY <2>1 DEF Undisturbed, Recording, Locked
  <2>3. QED BY <2>2 DEF Consistent, TypeOK
<1>2. Consistent /\ Undisturbed /\ [Next]_vars => (Consistent /\ Undisturbed)'
  BY ConsistentStep, UndisturbedStep
<1>3. Init => Consistent /\ Undisturbed
  BY ConsistentInit, UndisturbedInit
<1>4. QED BY <1>1, <1>2, <1>3, PTL DEF Spec

-----------------------------------------------------------------------------
(* p made a draft of a, or has lost the reply that says so, and is about to
   answer its key with it. *)
Pending(p, a) ==
  /\ req[p].article = a
  /\ \/ pc[p] = "lost" /\ draft[a] # NoRun
     \/ pc[p] \in {"persist", "unknown", "answer"} /\ reply[p].effects = 1

(* Every claim, stored or about to be, stands on a draft of its own. *)
Backed ==
  \A a \in Articles :
    /\ Cardinality(Claims(a)) <= made[a]
    /\ \A p \in Callers : Pending(p, a) => Cardinality(Claims(a)) < made[a]

LEMMA ClaimsFinite ==
  ASSUME NEW a PROVE IsFiniteSet(Claims(a)) /\ Cardinality(Claims(a)) \in Nat
BY KeysFinite, FS_Subset, FS_CardinalityType DEF Claims

(* A receipt stored for an unanswered key: one claim more if it reports an
   effect, none otherwise. *)
LEMMA ClaimsStored ==
  ASSUME Consistent, NEW k \in Keys, NEW r \in Receipt, idem[k] = NoReceipt,
         idem' = [idem EXCEPT ![k] = r], NEW a \in Articles
  PROVE  Cardinality(Claims(a))' =
           Cardinality(Claims(a)) + (IF a = r.article THEN r.effects ELSE 0)
<1> USE DEF Consistent, TypeOK
<1>1. CASE a = r.article /\ r.effects = 1
  <2>1. Claims(a)' = Claims(a) \cup {k} /\ k \notin Claims(a)
    BY <1>1, NoReceiptAssumption DEF Claims
  <2>2. Cardinality(Claims(a))' = Cardinality(Claims(a)) + 1
    BY <2>1, ClaimsFinite, FS_AddElement
  <2>3. QED BY <1>1, <2>2
<1>2. CASE ~(a = r.article /\ r.effects = 1)
  <2>1. Claims(a)' = Claims(a)
    BY <1>2 DEF Claims
  <2>2. a = r.article => r.effects = 0
    BY <1>2 DEF Receipt
  <2>3. QED BY <2>1, <2>2, ClaimsFinite
<1>3. QED BY <1>1, <1>2

LEMMA BackedInit == Init => Backed
<1> SUFFICES ASSUME Init, NEW a \in Articles
             PROVE  /\ Cardinality(Claims(a)) <= made[a]
                    /\ \A p \in Callers : ~Pending(p, a)
  BY DEF Backed
<1>1. Claims(a) = {}
  BY DEF Init, Claims
<1>2. QED BY <1>1, FS_EmptySet DEF Init, Pending

(* A step that stores no receipt and makes no draft keeps every claim backed
   if it makes none pending. *)
LEMMA BackedUnchanged ==
  ASSUME Backed, UNCHANGED <<idem, made>>,
         \A p \in Callers, a \in Articles : Pending(p, a)' => Pending(p, a)
  PROVE  Backed'
BY DEF Backed, Claims

LEMMA BackedStep == Consistent /\ Backed /\ [Next]_vars => Backed'
<1> SUFFICES ASSUME Consistent, Backed, [Next]_vars PROVE Backed'
  OBVIOUS
<1>1. ASSUME NEW p \in Callers, CreateStored(p) PROVE Backed'
  <2> DEFINE b == req[p].article
  <2>1. /\ b \in Articles /\ draft[b] = NoRun /\ holder = p
        /\ \A q \in Callers \ {p} : pc[q] \notin Locked
    BY <1>1, NobodyAssumption DEF CreateStored, Consistent, TypeOK, Serving, Request, Locked
  <2>2. /\ made' = [made EXCEPT ![b] = @ + 1]
        /\ made \in [Articles -> Nat]
        /\ UNCHANGED <<idem, req>>
        /\ \A q \in Callers \ {p} : pc'[q] = pc[q]
    BY <1>1, <2>1 DEF CreateStored, Goto, Consistent, TypeOK
  <2>3. \A a \in Articles : Claims(a)' = Claims(a)
    BY <2>2 DEF Claims
  <2>4. \A q \in Callers, a \in Articles : Pending(q, a)' => a = b
    BY <2>1, <2>2 DEF Pending, Locked
  <2>5. QED BY <2>1, <2>2, <2>3, <2>4, ClaimsFinite DEF Backed
<1>2. ASSUME NEW p \in Callers, StoreReply(p) PROVE Backed'
  <2> DEFINE b == req[p].article  k == req[p].key  r == reply[p]
  <2>1. /\ b \in Articles /\ k \in Keys /\ idem[k] = NoReceipt
        /\ r \in Receipt /\ r.article = b /\ pc[p] = "answer"
        /\ \A q \in Callers \ {p} : pc[q] \notin Locked
    BY <1>2, NobodyAssumption
       DEF StoreReply, Consistent, TypeOK, Serving, Request, Locked
  <2>2. /\ idem' = [idem EXCEPT ![k] = r] /\ idem \in [Keys -> Receipt \cup {NoReceipt}]
        /\ made \in [Articles -> Nat]
        /\ pc'[p] = "idle" /\ \A q \in Callers \ {p} : pc'[q] = pc[q]
        /\ UNCHANGED made
    BY <1>2 DEF StoreReply, Leave, Rest, Goto, Consistent, TypeOK
  <2>3. \A q \in Callers, a \in Articles : ~Pending(q, a)'
    BY <2>1, <2>2 DEF Pending, Locked
  <2>4. ASSUME NEW a \in Articles PROVE Cardinality(Claims(a))' <= made'[a]
    <3>1. Cardinality(Claims(a))' =
            Cardinality(Claims(a)) + (IF a = r.article THEN r.effects ELSE 0)
      BY <2>1, <2>2, ClaimsStored
    <3>2. a = b /\ r.effects = 1 => Cardinality(Claims(a)) < made[a]
      BY <2>1 DEF Backed, Pending
    <3>3. Cardinality(Claims(a)) <= made[a] /\ r.effects \in {0, 1}
      BY <2>1 DEF Backed, Receipt
    <3>4. QED BY <2>1, <2>2, <3>1, <3>2, <3>3, ClaimsFinite
  <2>5. QED BY <2>3, <2>4 DEF Backed
<1> USE NoReceiptAssumption DEF Consistent, TypeOK, Serving, Pending, Locked, Goto, Rest, Leave,
        Reply, ReceiptOf, Request
<1>3. ASSUME NEW a \in Articles, Revoke(a) PROVE Backed'
  BY <1>3, BackedUnchanged DEF Revoke
<1>4. ASSUME NEW a \in Articles, Approve(a) PROVE Backed'
  BY <1>4, BackedUnchanged DEF Approve
<1>5. ASSUME NEW p \in Callers, NEW r \in Request, Begin(p, r) PROVE Backed'
  BY <1>5, BackedUnchanged DEF Begin
<1>6. ASSUME NEW p \in Callers, Lock(p) PROVE Backed'
  BY <1>6, BackedUnchanged DEF Lock
<1>7. ASSUME NEW p \in Callers, Replay(p) PROVE Backed'
  BY <1>7, BackedUnchanged DEF Replay
<1>8. ASSUME NEW p \in Callers, DryRun(p) PROVE Backed'
  BY <1>8, BackedUnchanged DEF DryRun
<1>9. ASSUME NEW p \in Callers, LookupHit(p) PROVE Backed'
  BY <1>9, BackedUnchanged DEF LookupHit
<1>10. ASSUME NEW p \in Callers, LookupMiss(p) PROVE Backed'
  BY <1>10, BackedUnchanged DEF LookupMiss
<1>11. ASSUME NEW p \in Callers, CreateRetry(p) PROVE Backed'
  BY <1>11, BackedUnchanged DEF CreateRetry
<1>12. ASSUME NEW p \in Callers, CreateRefused(p) PROVE Backed'
  BY <1>12, BackedUnchanged DEF CreateRefused
<1>13. ASSUME NEW p \in Callers, CreateTimeout(p) PROVE Backed'
  BY <1>13, BackedUnchanged DEF CreateTimeout
<1>14. ASSUME NEW p \in Callers, LostFound(p) PROVE Backed'
  BY <1>14, BackedUnchanged DEF LostFound
<1>15. ASSUME NEW p \in Callers, LostMissing(p) PROVE Backed'
  BY <1>15, BackedUnchanged DEF LostMissing
<1>16. ASSUME NEW p \in Callers, Persist(p) PROVE Backed'
  BY <1>16, BackedUnchanged DEF Persist
<1>17. ASSUME NEW p \in Callers, PutUnknown(p) PROVE Backed'
  BY <1>17, BackedUnchanged DEF PutUnknown
<1>18. ASSUME NEW p \in Callers, NEW k \in Keys, ReconcileRead(p, k) PROVE Backed'
  BY <1>18, BackedUnchanged DEF ReconcileRead
<1>19. ASSUME NEW p \in Callers, ReconcileWrite(p) PROVE Backed'
  BY <1>19, BackedUnchanged DEF ReconcileWrite
<1>20. ASSUME NEW p \in Callers, NEW r \in Runs, RollbackBegin(p, r) PROVE Backed'
  BY <1>20, BackedUnchanged DEF RollbackBegin
<1>21. ASSUME NEW p \in Callers, NEW a \in Articles, RollbackDelete(p, a) PROVE Backed'
  BY <1>21, BackedUnchanged DEF RollbackDelete
<1>22. ASSUME NEW p \in Callers, RollbackForget(p) PROVE Backed'
  BY <1>22, BackedUnchanged DEF RollbackForget
<1>23. ASSUME NEW p \in Callers, Crash(p) PROVE Backed'
  BY <1>23, BackedUnchanged DEF Crash
<1>24. CASE UNCHANGED vars
  BY <1>24, BackedUnchanged DEF vars
<1>25. QED BY <1>1, <1>2, <1>3, <1>4, <1>5, <1>6, <1>7, <1>8, <1>9, <1>10, <1>11, <1>12, <1>13,
              <1>14, <1>15, <1>16, <1>17, <1>18, <1>19, <1>20, <1>21, <1>22, <1>23, <1>24
           DEF Next, LockedStep

(* The adapter implements the publication contract: a key is answered once, a
   PUBLISHED answer had a draft, no two answers claim the same draft. *)
THEOREM RefinesContract == Spec => ImplementsContract
<1> DEFINE live == {a \in Articles : draft[a] # NoRun}
           claimed == [a \in Articles |-> Cardinality(Claims(a))]
<1>1. Init => Contract!Init
  <2> SUFFICES ASSUME Init PROVE Contract!Init
    OBVIOUS
  <2>1. live = {}
    BY DEF Init
  <2>2. \A a \in Articles : Claims(a) = {}
    BY DEF Init, Claims
  <2>3. claimed = [a \in Articles |-> 0]
    BY <2>2, FS_EmptySet
  <2>4. QED BY <2>1, <2>3 DEF Init, Contract!Init
<1>2. Consistent /\ Backed /\ [Next]_vars => [Contract!Next]_(Contract!vars)
  <2> SUFFICES ASSUME Consistent, Backed, [Next]_vars
               PROVE  Contract!Next \/ UNCHANGED <<idem, claimed, made, live>>
    BY DEF Contract!vars
  <2>1. ASSUME UNCHANGED idem PROVE UNCHANGED claimed
    BY <2>1 DEF Claims
  <2>2. ASSUME NEW p \in Callers, CreateStored(p) PROVE Contract!Next
    <3>1. PICK b \in Articles : b = req[p].article
      BY DEF Consistent, TypeOK, Request
    <3>2. /\ draft[b] = NoRun /\ req[p].run \in Runs
          /\ draft \in [Articles -> Runs \cup {NoRun}]
      BY <2>2, <3>1 DEF CreateStored, Consistent, TypeOK, Serving, Request
    <3>3. /\ draft' = [draft EXCEPT ![b] = req[p].run]
          /\ made' = [made EXCEPT ![b] = @ + 1]
          /\ UNCHANGED idem
      BY <2>2, <3>1, <3>2 DEF CreateStored
    <3>4. live' = live \cup {b} /\ b \notin live
      BY <3>2, <3>3, NoRunAssumption
    <3>5. Contract!Make(b)
      BY <2>1, <3>3, <3>4 DEF Contract!Make
    <3>6. QED BY <3>5 DEF Contract!Next
  <2>3. ASSUME NEW p \in Callers, NEW a \in Articles, RollbackDelete(p, a)
        PROVE  Contract!Next
    <3>1. UNCHANGED <<idem, made>> /\ live' = live \ {a}
      BY <2>3, NoRunAssumption DEF RollbackDelete, Consistent, TypeOK
    <3>2. Contract!Remove(a)
      BY <2>1, <3>1 DEF Contract!Remove
    <3>3. QED BY <3>2 DEF Contract!Next
  <2>4. ASSUME NEW p \in Callers, StoreReply(p) PROVE Contract!Next
    <3>1. /\ req[p].key \in Keys /\ reply[p] \in Receipt
          /\ reply[p].article = req[p].article
          /\ idem[req[p].key] = NoReceipt /\ pc[p] = "answer"
          /\ reply[p].status = "PUBLISHED" => made[req[p].article] > 0
      BY <2>4 DEF StoreReply, Consistent, TypeOK, Serving, Request, Locked
    <3>2. PICK k \in Keys, r \in Receipt : k = req[p].key /\ r = reply[p]
      BY <3>1
    <3>3. r.article \in Articles
      BY DEF Receipt
    <3>4. /\ idem[k] = NoReceipt
          /\ r.status = "PUBLISHED" => made[r.article] > 0
          /\ r.effects = 1 => Cardinality(Claims(r.article)) < made[r.article]
      BY <3>1, <3>2, <3>3 DEF Backed, Pending
    <3>5. idem' = [idem EXCEPT ![k] = r] /\ UNCHANGED <<made, draft>>
      BY <2>4, <3>2 DEF StoreReply
    <3>6. \A a \in Articles : Cardinality(Claims(a))' =
            Cardinality(Claims(a)) + (IF a = r.article THEN r.effects ELSE 0)
      BY <3>4, <3>5, ClaimsStored
    <3>7. claimed' = [claimed EXCEPT ![r.article] = @ + r.effects]
      <4>1. \A a \in Articles : Cardinality(Claims(a)) \in Nat
        BY ClaimsFinite
      <4>2. QED BY <3>3, <3>6, <4>1
    <3>8. claimed[r.article] = Cardinality(Claims(r.article))
      BY <3>3
    <3>9. Contract!Answer(k, r)
      BY <3>4, <3>5, <3>7, <3>8 DEF Contract!Answer
    <3>10. QED BY <3>9 DEF Contract!Next
  <2>5. UNCHANGED <<idem, made, draft>> => UNCHANGED <<idem, claimed, made, live>>
    BY <2>1
  <2>6. QED
    BY <2>2, <2>3, <2>4, <2>5
       DEF Next, LockedStep, vars, Revoke, Approve, Begin, Lock, Replay, DryRun,
           LookupHit, LookupMiss, CreateRetry, CreateRefused, CreateTimeout,
           LostFound, LostMissing, Persist, PutUnknown, ReconcileRead,
           ReconcileWrite, RollbackBegin, RollbackForget, Crash
<1>3. Consistent /\ Backed /\ [Next]_vars => (Consistent /\ Backed)'
  BY ConsistentStep, BackedStep
<1>4. Init => Consistent /\ Backed
  BY ConsistentInit, BackedInit
<1>5. QED BY <1>1, <1>2, <1>3, <1>4, PTL DEF Spec, ImplementsContract, Contract!Spec

-----------------------------------------------------------------------------
(* The staging preflight of the runtime. *)

Numbers == /\ sent \in Nat /\ rows \in Nat /\ rels \in Nat /\ left \in Nat
           /\ targets \in Nat /\ cursors \in Nat

(* A database whose relations no pin has vouched for yet still has one to look at,
   or has no row and counts as empty; and one whose pin says the id of its schema is
   vouched for by that pin alone. *)
Refusing ==
  \/ at = "query" /\ rels > 0
  \/ at = "row" /\ rows > 0 /\ rels > 0
  \/ at = "relation" /\ left > 0
Held(d) == \E p \in pinned : <<d, p>> \in vouched
Vouched ==
  pinned = {} \/ empty \/ \A d \in related : Held(d) \/ (d = db /\ Refusing)
OwnPin == pinned # {} => \A v \in vouched : v[2] \in pinned /\ (v[1] \in ids => v[2] = v[1])
Named == at \in {"query", "row", "relation", "page", "target"} /\ db \in ids => named = db

RuntimeInv ==
  /\ Numbers
  /\ sent <= MaxRequests + 1 /\ (at # "done" => sent <= MaxRequests)
  /\ OwnPin /\ Named /\ ids \subseteq pinned
  /\ at \in {"schema", "judge"} => rows = 0 /\ targets = 0
  /\ at \in {"query", "row"} => targets = 0
  /\ at = "target" => targets > 0
  /\ at = "page" => left > 0
  /\ empty \in BOOLEAN
  /\ at # "done" => verdict = "none"
  /\ at \notin {"done", "raised"} => Vouched
  /\ R!ReadOkSound

LEMMA RuntimeInitially == R!Init => RuntimeInv
<1> SUFFICES ASSUME R!Init PROVE RuntimeInv
  OBVIOUS
<1>1. /\ at \in {"schema", "judge"} /\ verdict = "none" /\ related = {} /\ empty = FALSE
      /\ vouched = {} /\ ids \subseteq pinned
      /\ sent = 0 /\ rows = 0 /\ rels = 0 /\ left = 0 /\ targets = 0 /\ cursors = 0
  BY DEF R!Init
<1>2. Vouched /\ OwnPin /\ Named /\ R!ReadOkSound
  BY <1>1 DEF Vouched, OwnPin, Named, R!ReadOkSound
<1>3. empty \in BOOLEAN
  BY <1>1
<1>4. Numbers /\ sent <= MaxRequests + 1 /\ sent <= MaxRequests
  BY <1>1, PreflightsAssumption DEF Numbers
<1>5. QED
  BY <1>1, <1>2, <1>3, <1>4 DEF RuntimeInv

(* What ends with another word than READ_OK promises nothing. *)
LEMMA RuntimeStops ==
  ASSUME RuntimeInv, at # "done", NEW status, status # "READ_OK", R!Stop(status),
         sent' \in {sent, sent + 1}
  PROVE  RuntimeInv'
<1>1. /\ at' = "done" /\ verdict' # "READ_OK"
      /\ UNCHANGED <<pinned, ids, db, named, cursors, rows, rels, left, targets, found, empty, related, vouched>>
  BY DEF R!Stop, R!pins, R!progress
<1>2. OwnPin' /\ Named' /\ R!ReadOkSound'
  BY <1>1 DEF RuntimeInv, OwnPin, Named, R!ReadOkSound
<1>3. QED BY <1>1, <1>2, PreflightsAssumption DEF RuntimeInv, Numbers

LEMMA DisabledKeeps == ASSUME RuntimeInv, R!Disabled PROVE RuntimeInv'
BY RuntimeStops DEF R!Disabled

LEMMA CallFailsKeeps == ASSUME RuntimeInv, R!CallFails PROVE RuntimeInv'
BY RuntimeStops DEF R!CallFails, R!Calling, R!Send

LEMMA BudgetExceededKeeps == ASSUME RuntimeInv, R!BudgetExceeded PROVE RuntimeInv'
BY RuntimeStops DEF R!BudgetExceeded, R!Calling, R!Send

LEMMA RaisesKeeps == ASSUME RuntimeInv, R!Raises PROVE RuntimeInv'
<1>1. /\ at' = "raised" /\ at # "done" /\ verdict' = verdict
      /\ UNCHANGED <<pinned, ids, db, named, cursors, rows, rels, left, targets, found, empty, related, vouched>>
  BY DEF R!Raises, R!Calling, R!pins, R!progress
<1>2. sent' \in Nat /\ sent' <= MaxRequests
  BY <1>1, PreflightsAssumption
     DEF R!Raises, R!Answered, R!Send, R!OverBudget, RuntimeInv, Numbers
<1>3. OwnPin' /\ Named' /\ R!ReadOkSound'
  BY <1>1 DEF RuntimeInv, OwnPin, Named, R!ReadOkSound
<1>4. QED BY <1>1, <1>2, <1>3, PreflightsAssumption DEF RuntimeInv, Numbers

LEMMA RowRefusedKeeps == ASSUME RuntimeInv, R!RowRefused PROVE RuntimeInv'
BY RuntimeStops DEF R!RowRefused

(* An answer within the budget. *)
LEMMA AnsweredCounts ==
  ASSUME RuntimeInv, at # "done", R!Answered PROVE sent' = sent + 1 /\ sent' \in Nat /\ sent' <= MaxRequests
BY PreflightsAssumption DEF RuntimeInv, Numbers, R!Answered, R!Send, R!OverBudget

LEMMA FetchSchemaKeeps == ASSUME RuntimeInv, R!FetchSchema PROVE RuntimeInv'
<1>1. /\ at = "schema" /\ R!Answered
  BY DEF R!FetchSchema
<1>2. sent' = sent + 1 /\ sent' \in Nat /\ sent' <= MaxRequests
  BY <1>1, AnsweredCounts
<1>3. ASSUME NEW status \in {"SCHEMA_DRIFT", "BLOCKED_OWNER_INPUT"}, R!Stop(status)
      PROVE  RuntimeInv'
  BY <1>1, <1>2, <1>3, RuntimeStops
<1>4. ASSUME NEW k \in 0..MaxRelations,
             /\ rels' = k
             /\ related' = IF k > 0 THEN related \cup {db} ELSE related
             /\ named' \in IF db \in ids THEN {db} ELSE R!Databases \cup {0}
             /\ at' = "query" /\ cursors' = 0
             /\ UNCHANGED <<R!pins, db, rows, left, targets, found, empty, vouched, verdict>>
      PROVE  RuntimeInv'
  <2>1. k \in Nat
    BY <1>4, PreflightsAssumption
  <2>2. Vouched'
    BY <1>1, <1>4, <2>1 DEF RuntimeInv, Vouched, Held, Refusing, R!pins
  <2>3. OwnPin' /\ Named' /\ ids' \subseteq pinned'
    BY <1>4 DEF RuntimeInv, OwnPin, Named, R!pins
  <2>4. QED
    BY <1>1, <1>2, <1>4, <2>1, <2>2, <2>3, PreflightsAssumption
       DEF RuntimeInv, Numbers, R!ReadOkSound, R!pins
<1>5. QED BY <1>3, <1>4 DEF R!FetchSchema

LEMMA PaginateKeeps == ASSUME RuntimeInv, R!Paginate PROVE RuntimeInv'
<1>1. /\ at = "query" /\ R!Answered
      /\ UNCHANGED <<pinned, ids, db, named, rels, left, targets, found, related, vouched>>
  BY DEF R!Paginate, R!pins
<1>2. sent' = sent + 1 /\ sent' \in Nat /\ sent' <= MaxRequests
  BY <1>1, AnsweredCounts
<1>3. PICK n \in 0..MaxBatch, more \in R!Further :
        /\ rows' = rows + n
        /\ R!Paginated(more, "row")
        /\ empty' = (empty \/ (more = "end" /\ rels > 0 /\ rows + n = 0))
  BY DEF R!Paginate
<1>4. n \in Nat /\ rows' \in Nat
  BY <1>3, PreflightsAssumption DEF RuntimeInv, Numbers
<1>5. \/ more = "end" /\ at' = "row" /\ cursors' = 0 /\ verdict' = verdict
      \/ at' = "done" /\ verdict' # "READ_OK" /\ cursors' = cursors
      \/ more # "end" /\ at' = "query" /\ cursors' = cursors + 1 /\ verdict' = verdict
  BY <1>1, <1>3 DEF R!Paginated
<1>6. at' # "done" => Vouched'
  <2>1. empty' \in BOOLEAN /\ (empty => empty')
        /\ (more = "end" /\ rels > 0 /\ rows' = 0 => empty')
    BY <1>3
  <2>2. Vouched /\ at = "query"
    BY <1>1 DEF RuntimeInv
  <2>3. CASE empty'
    BY <2>3 DEF Vouched
  <2>4. CASE ~ empty'
    <3>1. pinned = {} \/ \A d \in related : Held(d) \/ (d = db /\ rels > 0)
      BY <2>1, <2>2, <2>4 DEF Vouched, Refusing
    <3>2. at' # "done" /\ rels > 0 => Refusing'
      BY <1>1, <1>4, <1>5, <2>1, <2>4 DEF Refusing
    <3>3. QED BY <1>1, <3>1, <3>2 DEF Vouched, Held
  <2>5. QED BY <2>3, <2>4
<1>7. R!ReadOkSound' /\ empty' \in BOOLEAN /\ OwnPin' /\ Named'
  BY <1>1, <1>3, <1>5 DEF RuntimeInv, OwnPin, Named, R!ReadOkSound
<1>8. QED
  BY <1>1, <1>2, <1>4, <1>5, <1>6, <1>7, PreflightsAssumption DEF RuntimeInv, Numbers

LEMMA NoMoreRowsKeeps == ASSUME RuntimeInv, R!NoMoreRows PROVE RuntimeInv'
<1>1. /\ at = "row" /\ rows = 0 /\ at' \in {"schema", "judge"}
      /\ UNCHANGED <<pinned, ids, sent, cursors, R!progress, verdict>>
  BY DEF R!NoMoreRows, R!pins
<1>2. Vouched' /\ OwnPin' /\ Named'
  BY <1>1 DEF RuntimeInv, Vouched, Held, OwnPin, Named, Refusing, R!progress
<1>3. QED
  BY <1>1, <1>2 DEF RuntimeInv, Numbers, R!progress, R!ReadOkSound

LEMMA RowKeeps == ASSUME RuntimeInv, R!Row PROVE RuntimeInv'
<1>1. Vouched' /\ OwnPin' /\ Named'
  BY DEF R!Row, R!pins, RuntimeInv, Numbers, Vouched, Held, OwnPin, Named, Refusing
<1>2. QED
  BY <1>1 DEF R!Row, R!pins, RuntimeInv, Numbers, R!ReadOkSound

LEMMA RelationKeeps == ASSUME RuntimeInv, R!Relation PROVE RuntimeInv'
<1>1. /\ at = "relation" /\ left > 0
      /\ UNCHANGED <<pinned, ids, db, named, sent, rows, rels, found, empty, related>>
  BY DEF R!Relation, R!pins
<1> PICK p \in R!Vouchers : vouched' = vouched \cup {<<db, p>>}
  BY DEF R!Relation
<1>2. PICK n \in 0..MaxBatch :
       /\ targets' = targets + n
       /\ \/ left' = left - 1 /\ UNCHANGED <<at, cursors, verdict>>
          \/ at' = "page" /\ cursors' = 1 /\ UNCHANGED <<left, verdict>>
  BY DEF R!Relation
<1>3. n \in Nat /\ targets' \in Nat /\ left' \in Nat /\ cursors' \in Nat
  BY <1>1, <1>2, PreflightsAssumption DEF RuntimeInv, Numbers
<1>4. pinned # {} => p \in pinned /\ (db \in ids => p = db)
  BY <1>1 DEF RuntimeInv, Named, R!Vouchers
<1>5. Vouched' /\ OwnPin'
  <2>1. \A d : Held(d) => Held(d)'
    BY <1>1 DEF Held
  <2>2. pinned # {} => Held(db)'
    BY <1>1, <1>4 DEF Held
  <2>3. Vouched'
    BY <1>1, <2>1, <2>2 DEF RuntimeInv, Vouched
  <2>4. OwnPin'
    BY <1>1, <1>4 DEF RuntimeInv, OwnPin
  <2>5. QED BY <2>3, <2>4
<1>6. Named'
  BY <1>1, <1>2 DEF RuntimeInv, Named
<1>7. QED
  BY <1>1, <1>2, <1>3, <1>5, <1>6 DEF RuntimeInv, Numbers, R!ReadOkSound

LEMMA RelationPageKeeps == ASSUME RuntimeInv, R!RelationPage PROVE RuntimeInv'
<1>1. /\ at = "page" /\ R!Answered
      /\ UNCHANGED <<pinned, ids, db, named, rows, rels, found, empty, related, vouched>>
  BY DEF R!RelationPage, R!pins
<1>2. sent' = sent + 1 /\ sent' \in Nat /\ sent' <= MaxRequests
  BY <1>1, AnsweredCounts
<1>3. PICK n \in 0..MaxBatch, more \in R!Further :
        /\ targets' = targets + n
        /\ R!Paginated(more, "relation")
        /\ left' = IF more = "end" THEN left - 1 ELSE left
  BY DEF R!RelationPage
<1>4. n \in Nat /\ targets' \in Nat
  BY <1>3, PreflightsAssumption DEF RuntimeInv, Numbers
<1>5. \/ more = "end" /\ at' = "relation" /\ cursors' = 0 /\ verdict' = verdict
      \/ more # "end" /\ at' = "done" /\ verdict' # "READ_OK" /\ cursors' = cursors
      \/ more # "end" /\ at' = "page" /\ cursors' = cursors + 1 /\ verdict' = verdict
  BY <1>1, <1>3 DEF R!Paginated
<1>6. left \in Nat /\ left > 0 /\ left' \in Nat /\ (at' = "page" => left' > 0)
  BY <1>1, <1>3, <1>5 DEF RuntimeInv, Numbers
<1>7. at' # "done" => Vouched'
  <2>1. Vouched /\ ~ Refusing
    BY <1>1 DEF RuntimeInv, Refusing
  <2>2. QED BY <1>1, <2>1 DEF Vouched, Held
<1>8. R!ReadOkSound' /\ OwnPin' /\ Named'
  BY <1>1, <1>5 DEF RuntimeInv, OwnPin, Named, R!ReadOkSound
<1>9. QED
  BY <1>1, <1>2, <1>4, <1>5, <1>6, <1>7, <1>8, PreflightsAssumption DEF RuntimeInv, Numbers

LEMMA CollectedKeeps == ASSUME RuntimeInv, R!Collected PROVE RuntimeInv'
<1>1. Vouched' /\ OwnPin' /\ Named'
  BY DEF R!Collected, RuntimeInv, Vouched, Held, OwnPin, Named, Refusing, R!progress, R!pins
<1>2. QED
  BY <1>1 DEF R!Collected, RuntimeInv, Numbers, R!ReadOkSound, R!progress, R!pins

LEMMA TargetKeeps == ASSUME RuntimeInv, R!Target PROVE RuntimeInv'
<1>1. at = "target" /\ R!Answered
  BY DEF R!Target
<1>2. sent' = sent + 1 /\ sent' \in Nat /\ sent' <= MaxRequests
  BY <1>1, AnsweredCounts
<1>3. ASSUME NEW status \in {"TARGET_INACCESSIBLE", "NO_PARENT", "BLOCKED_STAGING_RELATIONS",
                             "WRONG_RELATION_TARGET"}, R!Stop(status)
      PROVE  RuntimeInv'
  BY <1>1, <1>2, <1>3, RuntimeStops
<1>4. ASSUME targets' = targets - 1, found' = TRUE,
             at' = IF targets > 1 THEN "target" ELSE "row",
             UNCHANGED <<R!pins, db, named, cursors, rows, rels, left, empty, related, vouched, verdict>>
      PROVE  RuntimeInv'
  <2>1. Vouched' /\ OwnPin' /\ Named' /\ ids' \subseteq pinned'
    BY <1>1, <1>4 DEF RuntimeInv, Vouched, Held, OwnPin, Named, Refusing, R!pins
  <2>2. targets' \in Nat /\ (at' = "target" => targets' > 0) /\ (at' = "row" => targets' = 0)
    BY <1>1, <1>4 DEF RuntimeInv, Numbers
  <2>3. at' \in {"target", "row"}
    BY <1>4
  <2>4. R!ReadOkSound' /\ verdict' = "none" /\ rows' = rows /\ empty' = empty
        /\ UNCHANGED <<cursors, rels, left>>
    BY <1>1, <1>4 DEF RuntimeInv, R!ReadOkSound
  <2>5. QED
    BY <1>1, <1>2, <2>1, <2>2, <2>3, <2>4, PreflightsAssumption DEF RuntimeInv, Numbers
<1>5. QED BY <1>3, <1>4 DEF R!Target

LEMMA JudgeKeeps == ASSUME RuntimeInv, R!Judge PROVE RuntimeInv'
<1>1. /\ at = "judge" /\ at' = "done" /\ verdict' = R!Verdict
      /\ UNCHANGED <<pinned, ids, db, cursors, R!progress, sent>>
  BY DEF R!Judge, R!Stop, R!pins
<1>2. R!ReadOkSound'
  <2>1. verdict' = "READ_OK" => found /\ ~ empty /\ pinned # {}
    BY <1>1 DEF R!Verdict
  <2>2. rows = 0 /\ targets = 0 /\ Vouched /\ ~ Refusing
    BY <1>1 DEF RuntimeInv, Refusing
  <2>3. QED
    BY <1>1, <2>1, <2>2 DEF RuntimeInv, R!ReadOkSound, R!progress, Vouched, Held, OwnPin
<1>3. OwnPin' /\ Named'
  BY <1>1 DEF RuntimeInv, OwnPin, Named, R!progress
<1>4. QED
  BY <1>1, <1>2, <1>3, PreflightsAssumption DEF RuntimeInv, Numbers, R!progress

LEMMA RuntimeStep == RuntimeInv /\ R!Next => RuntimeInv'
BY DisabledKeeps, CallFailsKeeps, BudgetExceededKeeps, RaisesKeeps, RowRefusedKeeps, FetchSchemaKeeps,
   PaginateKeeps, NoMoreRowsKeeps, RowKeeps, RelationKeeps, RelationPageKeeps,
   CollectedKeeps, TargetKeeps, JudgeKeeps DEF R!Next

-----------------------------------------------------------------------------
(* The staging preflight of the gateway: what a database and a row may cost. *)

OfRow == MaxRelations * G!PerRelation
OfDatabase == 1 + MaxPages + G!MostRows * OfRow

LEMMA WellFoundedLeast ==
  ASSUME NEW Under, IsWellFoundedOn(Under, Nat), NEW T, T \subseteq Nat, T # {}
  PROVE  \E x \in T : \A y \in T : ~ (<<y, x>> \in Under)
BY WFMin

(* A nonempty set of numbers has a least one. *)
LEMMA LeastExists ==
  ASSUME NEW T, T \subseteq Nat, T # {} PROVE \E x \in T : \A y \in T : x <= y
<1> DEFINE Under == {ss \in Nat \X Nat : ss[1] < ss[2]}
<1>1. IsWellFoundedOn(Under, Nat)
  BY NatLessThanWellFounded DEF OpToRel
<1>2. \A x, y \in Nat : <<y, x>> \notin Under => x <= y
  OBVIOUS
<1> HIDE DEF Under
<1>3. \E x \in T : \A y \in T : ~ (<<y, x>> \in Under)
  BY <1>1, WellFoundedLeast
<1>4. QED BY <1>2, <1>3

LEMMA Product == ASSUME NEW a \in Nat, NEW b \in Nat PROVE a * b \in Nat
OBVIOUS

LEMMA ProductGrows ==
  ASSUME NEW a \in Nat, NEW b \in Nat, NEW c \in Nat, a <= b PROVE a * c <= b * c
<1>1. PICK k \in Nat : b = a + k
  <2>1. b - a \in Nat /\ b = a + (b - a)
    OBVIOUS
  <2>2. QED BY <2>1
<1>2. b * c = a * c + k * c
  BY <1>1
<1>3. QED BY <1>2, Product

LEMMA ProductNext ==
  ASSUME NEW a \in Nat, NEW c \in Nat PROVE (a + 1) * c = a * c + c
OBVIOUS

LEMMA ProductAssociates ==
  ASSUME NEW a \in Nat, NEW b \in Nat, NEW c \in Nat PROVE (a * b) * c = a * (b * c)
OBVIOUS

LEMMA Costs ==
  /\ G!PerRelation \in Nat /\ OfRow \in Nat /\ OfDatabase \in Nat /\ G!MostRows \in Nat
  /\ G!PerRelation = MaxRelationPages + (MaxRelationPages + 1) * MaxBatch
  /\ (MaxRelationPages + 1) * MaxBatch \in Nat
  /\ OfDatabase = 1 + MaxPages + G!MostRows * OfRow
  /\ G!MostRows = MaxPages * MaxBatch /\ G!MostRows * OfRow \in Nat
<1>1. (MaxRelationPages + 1) * MaxBatch \in Nat /\ G!MostRows \in Nat
  BY PreflightsAssumption, Product DEF G!MostRows
<1>2. G!PerRelation \in Nat /\ G!PerRelation = MaxRelationPages + (MaxRelationPages + 1) * MaxBatch
  BY <1>1, PreflightsAssumption DEF G!PerRelation
<1>3. OfRow \in Nat
  BY <1>2, PreflightsAssumption, Product DEF OfRow
<1>4. G!MostRows * OfRow \in Nat
  BY <1>1, <1>3, Product
<1>5. OfDatabase \in Nat
  BY <1>4, PreflightsAssumption DEF OfDatabase
<1>6. QED
  BY <1>1, <1>2, <1>3, <1>4, <1>5 DEF OfDatabase, G!MostRows

(* Requests sent, and those that what is known of the database at hand may still cost. *)
Paid ==
  /\ at = "schema" => sent <= (db - 1) * OfDatabase
  /\ at = "query" => /\ sent <= (db - 1) * OfDatabase + 1 + cursors
                     /\ rows <= cursors * MaxBatch /\ cursors < MaxPages
  /\ at = "row" => sent + rows * OfRow <= db * OfDatabase
  /\ at = "relation" => sent + rows * OfRow + left * G!PerRelation <= db * OfDatabase
  /\ at = "page" =>
       /\ sent + rows * OfRow + left * G!PerRelation + G!PerRelation <= db * OfDatabase + cursors
       /\ targets <= (cursors + 1) * MaxBatch /\ cursors < MaxRelationPages
  /\ at = "target" => /\ targets > 0
                      /\ sent + rows * OfRow + left * G!PerRelation + targets <= db * OfDatabase
  /\ at \in {"judge", "done", "raised"} => sent <= Count * OfDatabase

Looking == {"query", "row", "relation", "page", "target"}

GatewayInv ==
  /\ Numbers /\ at \in {"schema", "judge", "done", "raised"} \cup Looking
  /\ db \in Nat \ {0} /\ (at \in {"schema"} \cup Looking => db <= Count)
  /\ rels <= MaxRelations
  /\ at \in {"schema", "row", "relation", "target"} => cursors = 0
  /\ at = "schema" => rows = 0
  /\ Paid
  /\ at \in Looking => db \in pinned
  /\ pinned \subseteq G!Databases /\ verified \subseteq pinned
  /\ at # "done" => verdict = "none"
  /\ G!OkSound

LEMMA GatewayInitially == G!Init => GatewayInv
<1> SUFFICES ASSUME G!Init PROVE GatewayInv
  OBVIOUS
<1>1. /\ Count = 0 => at = "judge"
      /\ Count # 0 => at = "schema"
      /\ db = 1 /\ verdict = "none" /\ verified = {}
      /\ sent = 0 /\ rows = 0 /\ rels = 0 /\ left = 0 /\ targets = 0 /\ cursors = 0
      /\ pinned \subseteq G!Databases
  BY DEF G!Init
<1>2. (db - 1) * OfDatabase = 0 /\ Count * OfDatabase \in Nat
  BY <1>1, Costs, Product, PreflightsAssumption
<1>3. Paid
  BY <1>1, <1>2 DEF Paid
<1>4. QED
  BY <1>1, <1>3, PreflightsAssumption DEF GatewayInv, Numbers, Looking, G!OkSound

(* One more request fits, wherever one may go out. *)
LEMMA OneMoreFits ==
  ASSUME GatewayInv, at \in {"schema"} \cup Looking
  PROVE  /\ at \in {"schema", "query", "page", "target"} => sent + 1 <= db * OfDatabase
         /\ sent <= db * OfDatabase
<1> USE DEF GatewayInv, Numbers, Looking
<1>1. db - 1 \in Nat /\ db * OfDatabase = (db - 1) * OfDatabase + OfDatabase
      /\ (db - 1) * OfDatabase \in Nat
  <2>1. db - 1 \in Nat /\ (db - 1) + 1 = db
    OBVIOUS
  <2>2. QED BY <2>1, Costs, ProductNext, Product
<1>2. rows * OfRow \in Nat /\ left * G!PerRelation \in Nat
  BY Costs, Product
<1>3. CASE at \in {"schema", "query"}
  BY <1>1, <1>3, Costs, PreflightsAssumption DEF Paid
<1>4. CASE at \in {"row", "relation", "target"}
  BY <1>1, <1>2, <1>4, Costs DEF Paid
<1>5. CASE at = "page"
  BY <1>1, <1>2, <1>5, Costs, PreflightsAssumption DEF Paid
<1>6. QED BY <1>3, <1>4, <1>5

(* The next database is begun with all of the earlier ones paid. *)
LEMMA NextDatabasePaid ==
  ASSUME GatewayInv, at \in {"schema"} \cup Looking, G!NextDatabase,
         sent' \in Nat, sent' <= db * OfDatabase, verified' \subseteq pinned
  PROVE  GatewayInv'
<1>1. /\ IF db < Count THEN db' = db + 1 /\ at' = "schema" ELSE at' = "judge" /\ db' = db
      /\ cursors' = 0 /\ rows' = 0 /\ rels' = 0 /\ left' = 0 /\ targets' = 0 /\ found' = FALSE
      /\ pinned' = pinned /\ verdict' = verdict
  BY DEF G!NextDatabase
<1>2. db \in Nat \ {0} /\ db <= Count /\ verdict = "none" /\ Count \in Nat
  BY PreflightsAssumption DEF GatewayInv, Looking
<1>3. CASE db < Count
  <2>1. db' = db + 1 /\ at' = "schema" /\ db' - 1 = db /\ db' <= Count
    BY <1>1, <1>2, <1>3
  <2>2. Paid'
    BY <2>1 DEF Paid
  <2>3. QED
    BY <1>1, <1>2, <2>1, <2>2, PreflightsAssumption DEF GatewayInv, Numbers, Looking, G!OkSound
<1>4. CASE ~ (db < Count)
  <2>1. at' = "judge" /\ db' = db
    BY <1>1, <1>4
  <2>2. db * OfDatabase <= Count * OfDatabase
    BY <1>2, Costs, ProductGrows
  <2>3. db * OfDatabase \in Nat /\ Count * OfDatabase \in Nat
    BY <1>2, Costs, Product
  <2>4. Paid'
    BY <2>1, <2>2, <2>3 DEF Paid
  <2>5. QED
    BY <1>1, <1>2, <2>1, <2>4, PreflightsAssumption DEF GatewayInv, Numbers, Looking, G!OkSound
<1>5. QED BY <1>3, <1>4

LEMMA FailKeeps ==
  ASSUME GatewayInv, NEW class, G!Fail(class),
         \/ at \in {"schema", "query", "page", "target"} /\ sent' = sent + 1
         \/ at \in {"row", "relation"} /\ sent' = sent
  PROVE  GatewayInv'
<1>1. at \in {"schema"} \cup Looking
  BY DEF Looking
<1>2. sent' \in Nat /\ sent' <= db * OfDatabase
  BY <1>1, OneMoreFits DEF GatewayInv, Numbers
<1>3. G!NextDatabase /\ verified' \subseteq pinned
  BY DEF G!Fail, GatewayInv
<1>4. QED BY <1>1, <1>2, <1>3, NextDatabasePaid

LEMMA GatewayDisabledKeeps == ASSUME GatewayInv, G!Disabled PROVE GatewayInv'
<1>1. /\ at = "schema" /\ at' = "done" /\ verdict' # "PREFLIGHT_OK"
      /\ UNCHANGED <<pinned, db, sent, cursors, G!progress, verified, errors>>
  BY DEF G!Disabled
<1>2. sent <= Count * OfDatabase
  <2>1. db <= Count /\ db \in Nat /\ Count \in Nat /\ sent \in Nat
    BY <1>1, PreflightsAssumption DEF GatewayInv, Numbers
  <2>2. sent <= db * OfDatabase
    BY <1>1, OneMoreFits
  <2>3. db * OfDatabase <= Count * OfDatabase
    BY <2>1, Costs, ProductGrows
  <2>4. db * OfDatabase \in Nat /\ Count * OfDatabase \in Nat
    BY <2>1, Costs, Product
  <2>5. QED BY <2>1, <2>2, <2>3, <2>4
<1>3. Paid'
  BY <1>1, <1>2 DEF Paid
<1>4. QED
  BY <1>1, <1>3 DEF GatewayInv, Numbers, Looking, G!progress, G!OkSound

LEMMA GatewayRaisesKeeps == ASSUME GatewayInv, G!Raises PROVE GatewayInv'
<1>1. /\ at \in {"schema"} \cup Looking /\ at' = "raised"
      /\ sent' \in {sent, sent + 1}
      /\ at \in {"row", "relation"} => sent' = sent
      /\ UNCHANGED <<pinned, db, cursors, rows, rels, left, targets, found, verified, errors, verdict>>
  BY DEF G!Raises, G!Send, G!progress, G!report, Looking
<1>2. sent' <= Count * OfDatabase
  <2>1. db <= Count /\ db \in Nat /\ Count \in Nat /\ sent \in Nat
    BY <1>1, PreflightsAssumption DEF GatewayInv, Numbers
  <2>2. sent' <= db * OfDatabase
    BY <1>1, OneMoreFits DEF Looking
  <2>3. db * OfDatabase <= Count * OfDatabase
    BY <2>1, Costs, ProductGrows
  <2>4. db * OfDatabase \in Nat /\ Count * OfDatabase \in Nat
    BY <2>1, Costs, Product
  <2>5. QED BY <1>1, <2>1, <2>2, <2>3, <2>4
<1>3. Paid'
  BY <1>1, <1>2 DEF Paid
<1>4. at # "done" /\ verdict = "none"
  BY <1>1 DEF GatewayInv, Looking
<1>5. QED
  BY <1>1, <1>3, <1>4 DEF GatewayInv, Numbers, Looking, G!OkSound

LEMMA GatewayCallFailsKeeps == ASSUME GatewayInv, G!CallFails PROVE GatewayInv'
BY FailKeeps DEF G!CallFails, G!Send

LEMMA ReadSchemaKeeps == ASSUME GatewayInv, G!ReadSchema PROVE GatewayInv'
<1>1. at = "schema" /\ sent' = sent + 1
  BY DEF G!ReadSchema, G!Send
<1>2. CASE \E class : G!Fail(class)
  BY <1>1, <1>2, FailKeeps
<1>3. CASE ~ \E class : G!Fail(class)
  <2>1. /\ db \in pinned /\ rels' \in 0..MaxRelations /\ at' = "query"
        /\ UNCHANGED <<pinned, db, cursors, rows, left, targets, found, G!report>>
    BY <1>3 DEF G!ReadSchema
  <2>2. rows = 0 /\ cursors = 0 /\ rels' \in Nat /\ rels' <= MaxRelations
    BY <1>1, <2>1, PreflightsAssumption DEF GatewayInv
  <2>3. sent' <= (db - 1) * OfDatabase + 1
    <3>1. sent <= (db - 1) * OfDatabase
      BY <1>1 DEF GatewayInv, Paid
    <3>2. (db - 1) * OfDatabase \in Nat
      BY Costs, Product DEF GatewayInv
    <3>3. QED BY <1>1, <3>1, <3>2 DEF GatewayInv, Numbers
  <2>4. cursors * MaxBatch = 0
    BY <2>2, PreflightsAssumption
  <2>5. rows' <= cursors' * MaxBatch /\ cursors' < MaxPages
        /\ sent' <= (db' - 1) * OfDatabase + 1 + cursors'
    <3>1. rows' = 0 /\ cursors' = 0 /\ db' = db /\ cursors' = cursors
      BY <2>1, <2>2
    <3>2. (db - 1) * OfDatabase \in Nat
      BY Costs, Product DEF GatewayInv
    <3>3. QED BY <2>3, <2>4, <3>1, <3>2, PreflightsAssumption
  <2>6. Paid'
    BY <2>1, <2>5 DEF Paid
  <2>7. QED
    BY <1>1, <2>1, <2>2, <2>6
       DEF GatewayInv, Numbers, Looking, G!report, G!OkSound
<1>4. QED BY <1>2, <1>3

LEMMA QueryPageKeeps == ASSUME GatewayInv, G!QueryPage PROVE GatewayInv'
<1>1. at = "query" /\ sent' = sent + 1 /\ sent' \in Nat
  BY DEF G!QueryPage, G!Send, GatewayInv, Numbers
<1>2. PICK n \in 0..MaxBatch, more \in G!Further :
       \/ /\ more = "end" /\ rows + n > 0
          /\ rows' = rows + n /\ at' = "row" /\ cursors' = 0
          /\ UNCHANGED <<pinned, db, rels, left, targets, found, G!report>>
       \/ more = "end" /\ rows + n = 0 /\ G!NextDatabase /\ UNCHANGED <<verified, errors>>
       \/ \E class : G!Fail(class)
       \/ /\ more = "fresh" /\ cursors + 1 < MaxPages
          /\ rows' = rows + n /\ cursors' = cursors + 1
          /\ UNCHANGED <<pinned, db, at, rels, left, targets, found, G!report>>
  BY DEF G!QueryPage
<1>3. n \in Nat /\ n <= MaxBatch /\ rows + n \in Nat
  BY <1>2, PreflightsAssumption DEF GatewayInv, Numbers
<1>4. /\ sent' <= (db - 1) * OfDatabase + 1 + cursors + 1
      /\ rows + n <= (cursors + 1) * MaxBatch /\ cursors < MaxPages
      /\ (db - 1) * OfDatabase \in Nat /\ db * OfDatabase = (db - 1) * OfDatabase + OfDatabase
      /\ cursors \in Nat
  <2>1. /\ sent <= (db - 1) * OfDatabase + 1 + cursors
        /\ rows <= cursors * MaxBatch /\ cursors < MaxPages
        /\ sent \in Nat /\ rows \in Nat /\ cursors \in Nat
    BY <1>1 DEF GatewayInv, Paid, Numbers
  <2>2. (cursors + 1) * MaxBatch = cursors * MaxBatch + MaxBatch /\ cursors * MaxBatch \in Nat
    BY <2>1, ProductNext, Product, PreflightsAssumption
  <2>3. db - 1 \in Nat /\ (db - 1) + 1 = db
    BY DEF GatewayInv
  <2>4. (db - 1) * OfDatabase \in Nat /\ db * OfDatabase = (db - 1) * OfDatabase + OfDatabase
    BY <2>3, ProductNext, Product, Costs, Zenon
  <2>5. rows + n <= (cursors + 1) * MaxBatch
    BY <1>3, <2>1, <2>2, PreflightsAssumption
  <2>6. QED BY <1>1, <2>1, <2>4, <2>5
<1>5. CASE /\ rows' = rows + n /\ at' = "row" /\ cursors' = 0
           /\ UNCHANGED <<pinned, db, rels, left, targets, found, G!report>>
  <2>1. rows' \in Nat /\ rows' <= G!MostRows
    <3>1. (cursors + 1) * MaxBatch <= MaxPages * MaxBatch
      BY <1>4, ProductGrows, PreflightsAssumption
    <3>2. (cursors + 1) * MaxBatch \in Nat /\ MaxPages * MaxBatch \in Nat
      BY <1>4, Product, PreflightsAssumption
    <3>3. QED BY <1>3, <1>4, <1>5, <3>1, <3>2, Costs
  <2>2. rows' * OfRow <= G!MostRows * OfRow /\ rows' * OfRow \in Nat
    BY <2>1, Costs, ProductGrows, Product
  <2>3. sent' + rows' * OfRow <= db * OfDatabase
    BY <1>1, <1>4, <2>2, Costs, PreflightsAssumption
  <2>4. Paid'
    BY <1>5, <2>3 DEF Paid
  <2>5. QED
    BY <1>1, <1>5, <2>1, <2>4 DEF GatewayInv, Numbers, Looking, G!report, G!OkSound
<1>6. CASE G!NextDatabase /\ UNCHANGED <<verified, errors>>
  <2>1. sent' <= db * OfDatabase /\ at \in {"schema"} \cup Looking /\ verified' \subseteq pinned
    BY <1>1, <1>6, OneMoreFits DEF Looking, GatewayInv
  <2>2. QED BY <1>1, <1>6, <2>1, NextDatabasePaid
<1>7. CASE \E class : G!Fail(class)
  BY <1>1, <1>7, FailKeeps
<1>8. CASE /\ cursors + 1 < MaxPages
           /\ rows' = rows + n /\ cursors' = cursors + 1
           /\ UNCHANGED <<pinned, db, at, rels, left, targets, found, G!report>>
  <2>1. cursors' \in Nat /\ rows' \in Nat
    BY <1>3, <1>4, <1>8
  <2>2. Paid'
    BY <1>1, <1>4, <1>8 DEF Paid
  <2>3. QED
    BY <1>1, <1>8, <2>1, <2>2 DEF GatewayInv, Numbers, Looking, G!report, G!OkSound
<1>9. QED BY <1>2, <1>5, <1>6, <1>7, <1>8

LEMMA GatewayRowKeeps == ASSUME GatewayInv, G!Row PROVE GatewayInv'
<1>1. at = "row" /\ rows > 0 /\ sent' = sent
  BY DEF G!Row
<1>2. CASE \E class : G!Fail(class)
  BY <1>1, <1>2, FailKeeps
<1>3. CASE ~ \E class : G!Fail(class)
  <2>1. /\ rows' = rows - 1 /\ left' = rels /\ at' = "relation"
        /\ UNCHANGED <<pinned, db, cursors, rels, targets, found, G!report>>
    BY <1>3 DEF G!Row
  <2>2. /\ sent \in Nat /\ rows' \in Nat /\ rows = rows' + 1 /\ rels \in Nat
        /\ rels <= MaxRelations /\ sent + rows * OfRow <= db * OfDatabase
    BY <1>1, <2>1 DEF GatewayInv, Numbers, Paid
  <2>3. rows * OfRow = rows' * OfRow + OfRow /\ rows' * OfRow \in Nat
    BY <2>2, Costs, ProductNext, Product
  <2>4. rels * G!PerRelation <= OfRow /\ rels * G!PerRelation \in Nat
    BY <2>2, Costs, ProductGrows, Product, PreflightsAssumption DEF OfRow
  <2>5. db * OfDatabase \in Nat
    BY Costs, Product DEF GatewayInv
  <2>6. sent + rows' * OfRow + rels * G!PerRelation <= db * OfDatabase
    BY <2>2, <2>3, <2>4, <2>5, Costs
  <2>7. Paid'
    BY <1>1, <2>1, <2>6 DEF Paid
  <2>8. QED
    BY <1>1, <2>1, <2>2, <2>7 DEF GatewayInv, Numbers, Looking, G!report, G!OkSound
<1>4. QED BY <1>2, <1>3

(* The products of what a row and its relations may still cost. *)
LEMMA CostsOfRow ==
  ASSUME GatewayInv
  PROVE  /\ rows * OfRow \in Nat /\ left * G!PerRelation \in Nat
         /\ db * OfDatabase \in Nat /\ sent \in Nat /\ targets \in Nat /\ cursors \in Nat
BY Costs, Product DEF GatewayInv, Numbers

LEMMA GatewayRelationKeeps == ASSUME GatewayInv, G!Relation PROVE GatewayInv'
<1>1. at = "relation" /\ left > 0 /\ sent' = sent
  BY DEF G!Relation
<1>2. CASE \E class : G!Fail(class)
  BY <1>1, <1>2, FailKeeps
<1>3. CASE ~ \E class : G!Fail(class)
  <2>1. PICK n \in 0..MaxBatch :
          /\ targets' = n /\ left' = left - 1
          /\ at' \in {"page"} \cup (IF n > 0 THEN {"target"} ELSE {})
          /\ UNCHANGED <<pinned, db, cursors, rows, rels, found, G!report>>
    BY <1>3 DEF G!Relation
  <2>2. n \in Nat /\ n <= MaxBatch /\ (at' = "page" \/ (at' = "target" /\ n > 0))
    BY <2>1, PreflightsAssumption
  <2>3. left' \in Nat /\ left = left' + 1 /\ cursors = 0
    BY <1>1, <2>1 DEF GatewayInv, Numbers
  <2>4. left * G!PerRelation = left' * G!PerRelation + G!PerRelation
        /\ left' * G!PerRelation \in Nat
    BY <2>3, Costs, ProductNext, Product
  <2>5. sent + rows * OfRow + left * G!PerRelation <= db * OfDatabase
    BY <1>1 DEF GatewayInv, Paid
  <2>6. n <= G!PerRelation /\ n <= (0 + 1) * MaxBatch
    <3>1. (MaxRelationPages + 1) * MaxBatch = MaxRelationPages * MaxBatch + MaxBatch
          /\ MaxRelationPages * MaxBatch \in Nat
      BY PreflightsAssumption, ProductNext, Product
    <3>2. QED BY <2>2, <3>1, Costs, PreflightsAssumption
  <2>7. sent + rows * OfRow + left' * G!PerRelation + G!PerRelation <= db * OfDatabase + 0
        /\ sent + rows * OfRow + left' * G!PerRelation + n <= db * OfDatabase
    BY <2>2, <2>4, <2>5, <2>6, Costs, CostsOfRow
  <2>8. Paid'
    <3>1. rows' = rows /\ db' = db /\ cursors' = 0 /\ targets' = n
      BY <2>1, <2>3
    <3>2. CASE at' = "page"
      BY <1>1, <2>6, <2>7, <3>1, <3>2, PreflightsAssumption DEF Paid
    <3>3. CASE at' = "target" /\ n > 0
      BY <1>1, <2>7, <3>1, <3>3 DEF Paid
    <3>4. QED BY <2>2, <3>2, <3>3
  <2>9. QED
    BY <1>1, <2>1, <2>2, <2>3, <2>8 DEF GatewayInv, Numbers, Looking, G!report, G!OkSound
<1>4. QED BY <1>2, <1>3

LEMMA GatewayRelationPageKeeps == ASSUME GatewayInv, G!RelationPage PROVE GatewayInv'
<1>1. at = "page" /\ sent' = sent + 1 /\ sent' \in Nat
  BY DEF G!RelationPage, G!Send, GatewayInv, Numbers
<1>2. PICK n \in 0..MaxBatch, more \in G!Further :
       \/ /\ more = "end" /\ targets + n > 0
          /\ targets' = targets + n /\ at' = "target" /\ cursors' = 0
          /\ UNCHANGED <<pinned, db, rows, rels, left, found, G!report>>
       \/ \E class : G!Fail(class)
       \/ /\ cursors + 1 < MaxRelationPages /\ more = "fresh"
          /\ targets' = targets + n /\ cursors' = cursors + 1
          /\ UNCHANGED <<pinned, db, at, rows, rels, left, found, G!report>>
  BY DEF G!RelationPage
<1>3. n \in Nat /\ n <= MaxBatch
  BY <1>2, PreflightsAssumption
<1>4. /\ sent + rows * OfRow + left * G!PerRelation + G!PerRelation <= db * OfDatabase + cursors
      /\ targets <= (cursors + 1) * MaxBatch /\ cursors < MaxRelationPages
  BY <1>1 DEF GatewayInv, Paid
<1>5. targets + n \in Nat /\ targets + n <= (cursors + 1 + 1) * MaxBatch
  <2>1. cursors + 1 \in Nat
    BY CostsOfRow
  <2>2. (cursors + 1 + 1) * MaxBatch = (cursors + 1) * MaxBatch + MaxBatch
        /\ (cursors + 1) * MaxBatch \in Nat
    BY <2>1, ProductNext, Product, PreflightsAssumption
  <2>3. QED BY <1>3, <1>4, <2>2, CostsOfRow, PreflightsAssumption
<1>6. CASE /\ targets + n > 0
           /\ targets' = targets + n /\ at' = "target" /\ cursors' = 0
           /\ UNCHANGED <<pinned, db, rows, rels, left, found, G!report>>
  <2>1. (cursors + 1 + 1) * MaxBatch <= (MaxRelationPages + 1) * MaxBatch
        /\ (cursors + 1 + 1) * MaxBatch \in Nat
    <3>1. cursors + 1 + 1 \in Nat /\ MaxRelationPages + 1 \in Nat
          /\ cursors + 1 + 1 <= MaxRelationPages + 1
      BY <1>4, CostsOfRow, PreflightsAssumption
    <3>2. QED BY <3>1, ProductGrows, Product, PreflightsAssumption
  <2>2. targets + n <= (MaxRelationPages + 1) * MaxBatch
    BY <1>5, <2>1, Costs
  <2>3. sent + 1 + rows * OfRow + left * G!PerRelation + (targets + n) <= db * OfDatabase
    BY <1>4, <1>5, <2>2, Costs, CostsOfRow, PreflightsAssumption
  <2>4. Paid'
    BY <1>1, <1>6, <2>3 DEF Paid
  <2>5. QED
    BY <1>1, <1>5, <1>6, <2>4 DEF GatewayInv, Numbers, Looking, G!report, G!OkSound
<1>7. CASE \E class : G!Fail(class)
  BY <1>1, <1>7, FailKeeps
<1>8. CASE /\ cursors + 1 < MaxRelationPages
           /\ targets' = targets + n /\ cursors' = cursors + 1
           /\ UNCHANGED <<pinned, db, at, rows, rels, left, found, G!report>>
  <2>1. sent + 1 + rows * OfRow + left * G!PerRelation + G!PerRelation
          <= db * OfDatabase + (cursors + 1)
    BY <1>4, Costs, CostsOfRow
  <2>2. cursors' \in Nat
    BY <1>8, CostsOfRow
  <2>3. Paid'
    BY <1>1, <1>5, <1>8, <2>1 DEF Paid
  <2>4. QED
    BY <1>1, <1>5, <1>8, <2>2, <2>3 DEF GatewayInv, Numbers, Looking, G!report, G!OkSound
<1>9. QED BY <1>2, <1>6, <1>7, <1>8

LEMMA GatewayTargetKeeps == ASSUME GatewayInv, G!Target PROVE GatewayInv'
<1>1. at = "target" /\ sent' = sent + 1 /\ sent' \in Nat
  BY DEF G!Target, G!Send, GatewayInv, Numbers
<1>2. CASE \E class : G!Fail(class)
  BY <1>1, <1>2, FailKeeps
<1>3. CASE ~ \E class : G!Fail(class)
  <2>1. /\ targets' = targets - 1
        /\ at' = IF targets > 1 THEN "target" ELSE "relation"
        /\ UNCHANGED <<pinned, db, cursors, rows, rels, left, G!report>>
    BY <1>3 DEF G!Target
  <2>2. targets > 0
        /\ sent + rows * OfRow + left * G!PerRelation + targets <= db * OfDatabase
    BY <1>1 DEF GatewayInv, Paid
  <2>3. /\ targets' \in Nat
        /\ sent + 1 + rows * OfRow + left * G!PerRelation + targets' <= db * OfDatabase
        /\ sent + 1 + rows * OfRow + left * G!PerRelation <= db * OfDatabase
    BY <2>1, <2>2, Costs, CostsOfRow
  <2>4. \/ at' = "target" /\ targets' > 0
        \/ at' = "relation"
    BY <2>1, <2>2, CostsOfRow
  <2>5. Paid'
    BY <1>1, <2>1, <2>3, <2>4 DEF Paid
  <2>6. QED
    BY <1>1, <2>1, <2>3, <2>4, <2>5 DEF GatewayInv, Numbers, Looking, G!report, G!OkSound
<1>4. QED BY <1>2, <1>3

LEMMA RelationsDoneKeeps == ASSUME GatewayInv, G!RelationsDone PROVE GatewayInv'
<1>1. /\ at = "relation" /\ left = 0 /\ at' = "row"
      /\ UNCHANGED <<pinned, db, sent, cursors, G!progress, G!report>>
  BY DEF G!RelationsDone
<1>2. sent + rows * OfRow + left * G!PerRelation <= db * OfDatabase
  BY <1>1 DEF GatewayInv, Paid
<1>3. sent + rows * OfRow <= db * OfDatabase
  BY <1>2, CostsOfRow
<1>4. Paid'
  BY <1>1, <1>3 DEF Paid, G!progress
<1>5. QED
  BY <1>1, <1>4 DEF GatewayInv, Numbers, Looking, G!report, G!progress, G!OkSound

LEMMA RowsDoneKeeps == ASSUME GatewayInv, G!RowsDone PROVE GatewayInv'
<1>1. at = "row" /\ G!NextDatabase /\ sent' = sent
      /\ verified' = IF found THEN verified \cup {db} ELSE verified
  BY DEF G!RowsDone
<1>2. sent' <= db * OfDatabase /\ sent' \in Nat /\ at \in {"schema"} \cup Looking
  BY <1>1, OneMoreFits, CostsOfRow DEF Looking
<1>3. verified' \subseteq pinned
  BY <1>1 DEF GatewayInv, Looking
<1>4. QED BY <1>1, <1>2, <1>3, NextDatabasePaid

(* Only a report without an error and with every database verified is good. *)
LEMMA VerdictGood ==
  G!Verdict = "PREFLIGHT_OK" => errors = {} /\ verified = G!Databases
<1> DEFINE reported == {i \in 1..Len(G!Precedence) : G!Precedence[i][1] \in errors}
           first == CHOOSE i \in reported : \A j \in reported : i <= j
           other == IF reported = {} THEN "CHANGES_REQUIRED" ELSE G!Precedence[first][2]
<1>1. reported \subseteq Nat
  OBVIOUS
<1>2. reported # {} => first \in reported
  <2> HIDE DEF reported
  <2>1. reported # {} => \E i \in reported : \A j \in reported : i <= j
    BY <1>1, LeastExists
  <2>2. QED BY <2>1
<1>3. Len(G!Precedence) = 6 /\ \A i \in 1..6 : G!Precedence[i][2] # "PREFLIGHT_OK"
  BY DEF G!Precedence
<1>4. other # "PREFLIGHT_OK"
  <2> HIDE DEF first
  <2>1. QED BY <1>2, <1>3
<1>5. G!Verdict = CASE errors \cap G!Blocking # {} -> "BLOCKED_STAGING_RELATIONS"
    [] errors = {} /\ verified = G!Databases /\ Count > 0 -> "PREFLIGHT_OK"
    [] errors = {} /\ ~(verified = G!Databases /\ Count > 0) -> "PREFLIGHT_INCOMPLETE"
    [] OTHER -> other
  BY DEF G!Verdict
<1> HIDE DEF other
<1>6. QED BY <1>4, <1>5

LEMMA GatewayJudgeKeeps == ASSUME GatewayInv, G!Judge PROVE GatewayInv'
<1>1. /\ at = "judge" /\ at' = "done" /\ verdict' = G!Verdict
      /\ UNCHANGED <<pinned, db, sent, cursors, G!progress, verified, errors>>
  BY DEF G!Judge
<1>2. G!OkSound'
  BY <1>1, VerdictGood DEF G!OkSound, GatewayInv
<1>3. Paid'
  BY <1>1 DEF GatewayInv, Paid
<1>4. QED
  BY <1>1, <1>2, <1>3 DEF GatewayInv, Numbers, Looking, G!progress

LEMMA GatewayStep == GatewayInv /\ G!Next => GatewayInv'
BY GatewayDisabledKeeps, GatewayRaisesKeeps, GatewayCallFailsKeeps, ReadSchemaKeeps, QueryPageKeeps,
   GatewayRowKeeps, GatewayRelationKeeps, GatewayRelationPageKeeps, GatewayTargetKeeps,
   RelationsDoneKeeps, RowsDoneKeeps, GatewayJudgeKeeps DEF G!Next

LEMMA GatewayBounded == GatewayInv => G!RequestsBounded
<1> SUFFICES ASSUME GatewayInv PROVE G!RequestsBounded
  OBVIOUS
<1>1. sent <= Count * OfDatabase
  <2>1. CASE at \in {"schema"} \cup Looking
    <3>1. db \in Nat /\ db <= Count /\ Count \in Nat
      BY <2>1, PreflightsAssumption DEF GatewayInv
    <3>2. db * OfDatabase <= Count * OfDatabase /\ db * OfDatabase \in Nat
          /\ Count * OfDatabase \in Nat
      BY <3>1, Costs, ProductGrows, Product
    <3>3. QED BY <2>1, <3>2, OneMoreFits, CostsOfRow
  <2>2. CASE at \in {"judge", "done", "raised"}
    BY <2>2 DEF GatewayInv, Paid
  <2>3. QED BY <2>1, <2>2 DEF GatewayInv
<1>2. G!MostRows * MaxRelations * G!PerRelation = G!MostRows * OfRow
  BY Costs, ProductAssociates, PreflightsAssumption DEF OfRow
<1>3. QED BY <1>1, <1>2 DEF G!RequestsBounded, OfDatabase

-----------------------------------------------------------------------------
(* The staging preflight of the lab: what a pagination has read is a beginning of
   the rows, as long as its cursor. *)

FromStart(n) == [i \in 1..n |-> i]
Paged == IF at = "query" THEN db ELSE 0

LabInv ==
  /\ size \in [L!Databases \cup {0} -> 0..MaxRows]
  /\ db \in Nat \ {0} /\ (at \notin {"judge", "done"} => db <= Count)
  /\ at \in {"query", "relations"} =>
       cursor \in Nat /\ cursor <= size[Paged] /\ read = FromStart(cursor)

LEMMA LabInitially == L!Init => LabInv
BY PreflightsAssumption DEF L!Init, LabInv

LEMMA Appended ==
  ASSUME NEW a \in Nat, NEW b \in Nat
  PROVE  FromStart(a) \o [i \in 1..b |-> a + i] = FromStart(a + b)
BY DEF FromStart

LEMMA SizeOfPaged ==
  ASSUME LabInv, at \in {"query", "relations"} PROVE size[Paged] \in Nat
BY PreflightsAssumption DEF LabInv, Paged, L!Databases

(* One page: the next rows, or an end. *)
LEMMA PageReads ==
  ASSUME LabInv, at \in {"query", "relations"}, NEW told, L!Page(size[Paged], told)
  PROVE  /\ UNCHANGED <<size, db>>
         /\ \/ at' = "done"
            \/ at' = "row" /\ read' = FromStart(size[Paged])
            \/ at' = at /\ cursor' \in Nat /\ cursor' <= size[Paged] /\ read' = FromStart(cursor')
<1> DEFINE n == size[Paged]
<1>1. n \in Nat /\ cursor \in Nat /\ cursor <= n /\ read = FromStart(cursor) /\ PageSize \in Nat
  BY SizeOfPaged, PreflightsAssumption DEF LabInv
<1>2. UNCHANGED <<size, db>>
  BY DEF L!Page, L!transport
<1> HIDE DEF n
<1>3. CASE told = "cursor_loop" /\ cursor > 0
  BY <1>2, <1>3 DEF L!Page, L!Stop
<1>4. CASE ~ (told = "cursor_loop" /\ cursor > 0)
  <2>1. /\ read' = read \o L!Chunk(n)
        /\ \/ ~ L!More(n) /\ at' = "row"
           \/ at' = "done"
           \/ L!More(n) /\ cursor' = L!NextIndex /\ at' = at
    BY <1>4 DEF L!Page, L!Stop, n
  <2>2. CASE L!More(n)
    <3>1. cursor + PageSize < n
      BY <2>2 DEF L!More
    <3>2. L!Chunk(n) = [i \in 1..PageSize |-> cursor + i]
      BY <3>1 DEF L!Chunk
    <3>3. read' = FromStart(cursor + PageSize)
      BY <1>1, <2>1, <3>2, Appended
    <3>4. cursor + PageSize \in Nat /\ cursor + PageSize <= n
      BY <1>1, <3>1
    <3>5. QED BY <1>2, <2>1, <2>2, <3>3, <3>4 DEF L!NextIndex, n
  <2>3. CASE ~ L!More(n)
    <3>1. ~ (cursor + PageSize < n)
      BY <2>3 DEF L!More
    <3>2. L!Chunk(n) = [i \in 1..(n - cursor) |-> cursor + i]
      BY <3>1 DEF L!Chunk
    <3>3. n - cursor \in Nat /\ cursor + (n - cursor) = n
      BY <1>1
    <3>4. read' = FromStart(n)
      BY <1>1, <2>1, <3>2, <3>3, Appended
    <3>5. QED BY <1>2, <2>1, <2>3, <3>4 DEF n
  <2>4. QED BY <2>2, <2>3
<1>5. QED BY <1>3, <1>4

(* Each other step leaves the pagination alone, ends it or begins one. *)
LEMMA OtherReads ==
  ASSUME LabInv, L!Next, ~ L!Query, ~ L!Relations
  PROVE  /\ size' = size
         /\ \/ at' = at /\ UNCHANGED <<db, cursor, read>>
            \/ at' \in {"done", "judge"} /\ db' = db
            \/ /\ at' \in {"query", "row", "relations", "target"} /\ db' = db
               /\ at \in {"schema", "row", "target"}
               /\ at' \in {"query", "relations"} => cursor' = 0 /\ read' = <<>>
            \/ at' = "schema" /\ db' = db + 1 /\ db < Count
<1> USE DEF L!transport, L!paging, L!Stop, L!Forget, L!Answered
<1>1. CASE L!Unprepared
  BY <1>1 DEF L!Unprepared
<1>2. CASE L!Throttled
  BY <1>2 DEF L!Throttled
<1>3. CASE L!Refused
  BY <1>3 DEF L!Refused
<1>4. CASE L!Schema
  BY <1>4 DEF L!Schema
<1>5. CASE L!PageBudget
  BY <1>5 DEF L!PageBudget
<1>6. CASE L!Row
  BY <1>6 DEF L!Row
<1>7. CASE L!Target
  BY <1>7 DEF L!Target
<1>8. CASE L!NextDatabase
  BY <1>8 DEF L!NextDatabase
<1>9. CASE L!Judge
  BY <1>9 DEF L!Judge
<1>10. QED
  BY <1>1, <1>2, <1>3, <1>4, <1>5, <1>6, <1>7, <1>8, <1>9 DEF L!Next

LEMMA LabStep ==
  ASSUME LabInv, L!Next
  PROVE  LabInv' /\ (L!PageEnd => read' = FromStart(size[Paged]))
<1>1. CASE L!Query \/ L!Relations
  <2>1. /\ at \in {"query", "relations"}
        /\ \E told : L!Page(size[Paged], told)
    BY <1>1 DEF L!Query, L!Relations, Paged
  <2>2. at' = at => Paged' = Paged
    BY <2>1, PageReads DEF Paged
  <2>3. QED
    BY <2>1, <2>2, PageReads DEF LabInv, L!PageEnd
<1>2. CASE ~ (L!Query \/ L!Relations)
  <2>1. FromStart(0) = <<>>
    BY DEF FromStart
  <2>2. /\ size' = size
        /\ \/ at' = at /\ UNCHANGED <<db, cursor, read>>
           \/ at' \in {"done", "judge"} /\ db' = db
           \/ /\ at' \in {"query", "row", "relations", "target"} /\ db' = db
              /\ at \in {"schema", "row", "target"}
              /\ at' \in {"query", "relations"} => cursor' = 0 /\ read' = <<>>
           \/ at' = "schema" /\ db' = db + 1 /\ db < Count
    BY <1>2, OtherReads
  <2>3. ~ L!PageEnd
    BY <2>2 DEF L!PageEnd
  <2>4. db' \in Nat \ {0} /\ (at' \notin {"judge", "done"} => db' <= Count)
    BY <2>2, PreflightsAssumption DEF LabInv
  <2>5. ASSUME at' \in {"query", "relations"}
        PROVE  cursor' \in Nat /\ cursor' <= size'[Paged'] /\ read' = FromStart(cursor')
    <3>1. CASE at' = at /\ UNCHANGED <<db, cursor, read>>
      BY <2>2, <2>5, <3>1 DEF LabInv, Paged
    <3>2. CASE cursor' = 0 /\ read' = <<>> /\ db' = db
      <4>1. db' \in L!Databases
        BY <2>4, <2>5 DEF L!Databases
      <4>2. size'[Paged'] \in Nat
        BY <2>2, <4>1, PreflightsAssumption DEF LabInv, Paged
      <4>3. QED BY <2>1, <3>2, <4>2
    <3>3. QED BY <2>2, <2>5, <3>1, <3>2
  <2>6. QED BY <2>2, <2>3, <2>4, <2>5 DEF LabInv
<1>3. QED BY <1>1, <1>2

-----------------------------------------------------------------------------
PreflightInv ==
  /\ which = "runtime" => RuntimeInv
  /\ which = "gateway" => GatewayInv
  /\ which = "lab" => LabInv

LEMMA PreflightInitially == PreflightInit => PreflightInv
BY RuntimeInitially, GatewayInitially, LabInitially DEF PreflightInit, PreflightInv

LEMMA PreflightStill == ASSUME PreflightInv, UNCHANGED preflight PROVE PreflightInv'
<1> USE DEF preflight, visited, runtime, lab, PreflightInv
<1>1. CASE which = "runtime"
  BY <1>1 DEF RuntimeInv, Numbers, Vouched, Held, OwnPin, Named, Refusing, R!ReadOkSound
<1>2. CASE which = "gateway"
  BY <1>2 DEF GatewayInv, Numbers, Paid, G!OkSound
<1>3. CASE which = "lab"
  BY <1>3 DEF LabInv, Paged
<1>4. QED BY <1>1, <1>2, <1>3

LEMMA PreflightStep == PreflightInv /\ [PreflightNext]_preflight => PreflightInv'
BY RuntimeStep, GatewayStep, LabStep, PreflightStill DEF PreflightNext, PreflightInv

(* READ_OK and PREFLIGHT_OK are said only of a staging that was looked at in full and
   against pins, within the requests a preflight may make, whatever the provider
   answers (vendor3 and vendor4, app/staging_preflight.py, run_preflight). *)
THEOREM VerdictsAreSound == PreflightSpec => []VerdictSound
<1>1. PreflightInv => VerdictSound
  <2>1. RuntimeInv => R!ReadOkSound /\ R!RequestsBounded
    BY DEF RuntimeInv, R!RequestsBounded
  <2>2. GatewayInv => G!OkSound /\ G!RequestsBounded
    BY GatewayBounded DEF GatewayInv
  <2>3. QED BY <2>1, <2>2 DEF PreflightInv, VerdictSound
<1>2. QED
  BY <1>1, PreflightInitially, PreflightStep, PTL DEF PreflightSpec

(* A pagination of the lab that ends has every row once and in order, whatever its
   transport was told to do (vendor6, staging/preflight.py, _paginate). *)
THEOREM PaginationsAreComplete == PreflightSpec => PagesComplete
<1> DEFINE Complete ==
      which = "lab" /\ L!PageEnd => read' = L!AllRows(IF at = "query" THEN db ELSE 0)
<1>1. PreflightInv /\ [PreflightNext]_preflight => [Complete]_preflight
  <2> SUFFICES ASSUME PreflightInv, PreflightNext, which = "lab", L!PageEnd
               PROVE  read' = L!AllRows(IF at = "query" THEN db ELSE 0)
    OBVIOUS
  <2>1. LabInv /\ L!Next
    BY DEF PreflightInv, PreflightNext
  <2>2. read' = FromStart(size[Paged])
    BY <2>1, LabStep
  <2>3. QED BY <2>2 DEF FromStart, Paged, L!AllRows
<1>2. PreflightSpec => [][Complete]_preflight
  BY <1>1, PreflightInitially, PreflightStep, PTL DEF PreflightSpec
<1>3. QED BY <1>2 DEF PagesComplete
=============================================================================
