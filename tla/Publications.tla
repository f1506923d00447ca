----------------------------- MODULE Publications -----------------------------
(***************************************************************************)
(* The editorial half of the content workflow (vendor2, service.ts, gate.ts,*)
(* cms.ts): article revisions, approvals, revocation of evidence and        *)
(* publication, as the handlers of one Node process interleave them.        *)
(*                                                                         *)
(* Granularity.  A handler gives up the thread at every awaited statement, *)
(* so each statement on the tables is a step.  What runs between two awaits *)
(* is one step: the gate and the call of the CMS follow the read of the     *)
(* approval without an await, and cmsCreateDraft stores its record before  *)
(* it returns.  The reply of the CMS is looked at in a later step, and the *)
(* fault that the x-fault header sets is a variable of the module, shared  *)
(* by every request until the `finally` of the one that set it.            *)
(*                                                                         *)
(* Abstractions.  One project and one destination.  An article revision is *)
(* named by its number, which stands for its content hash: a row is never  *)
(* written twice.  A bundle stands for its snapshot hash.  Claims, expiry, *)
(* schedules and text only narrow the gate and are left out, as are        *)
(* REJECTED records, which nothing reads again.  The tables survive a      *)
(* restart (DATABASE_URL); the CMS is the mock's Map and does not.  A      *)
(* refused call changes nothing and is a step only after its first await.  *)
(***************************************************************************)
EXTENDS Integers, Sequences, FiniteSets

CONSTANTS
  Callers,      \* requests under way at the same time
  Keys,         \* idempotency keys of publication.submit
  Articles, Bundles,
  AllowStaging, \* LIVE_FLAGS.allow_staging: FALSE as deployed
  MaxRevision, MaxApprovals, MaxRestarts, \* bounds
  Nothing       \* no request, receipt, key or article

ASSUME AllowStagingAssumption == AllowStaging \in BOOLEAN
ASSUME BoundsAssumption ==
  /\ MaxRevision \in Nat \ {0} /\ MaxApprovals \in Nat /\ MaxRestarts \in Nat

VARIABLES
  articles,  \* cos_articles: per article, its revisions in order
  approvals, \* cos_approvals: per approval id, the column and the body
  revoked,   \* cos_evidence.revoked
  admitted,  \* cos_idempotency: the payload a key was first used with
  pubs,      \* cos_publications: per key, its receipt
  cms,       \* cms.ts records: the logical keys that have a draft
  fault,     \* cms.ts fault = "timeout-after-accept"
  pc,        \* per caller: idle, or the await it is at
  at,        \* the article (or, for a revocation, the bundle) it works on
  key,       \* the key of a publication
  seen,      \* the revision it read
  reply,     \* what the CMS, or the gate, said
  todo,      \* approvals a revocation still has to update
  edited,    \* approvals whose column an edit revoked
  replaced,  \* revisions that an edit which returned has superseded
  withdrawn, \* bundles whose revocation returned
  told,      \* the receipts clients were answered with, by key
  restarts

tables  == <<articles, approvals, revoked, admitted, pubs>>
locals  == <<pc, at, key, seen, reply, todo>>
history == <<edited, replaced, withdrawn, told>>
vars == <<tables, cms, fault, locals, history, restarts>>

Revisions == [status : {"PREVIEW_READY", "DRAFT"}, bundle : Bundles]
ApprovalRows ==
  [article : Articles, rev : 1..MaxRevision, bundle : Bundles,
   column : {"APPROVED", "REVOKED"}, body : {"APPROVED", "REVOKED"}]
Requests ==
  [article : Articles, rev : 1..MaxRevision, approval : 1..MaxApprovals,
   mode : {"DRY_RUN", "STAGING_DRAFT"}]
Receipts ==
  [article : Articles, rev : 1..MaxRevision,
   status : {"DRY_RUN", "PUBLISHED", "UNKNOWN"}, side : 0..1]

ASSUME NothingAssumption ==
  Nothing \notin Keys \cup Articles \cup Bundles \cup Requests \cup Receipts

Latest(a) == Len(articles[a])
Draft(q) == <<q.article, q.rev>>

(* ensureSeed: one generated revision of each article. *)
Init ==
  /\ articles \in [Articles -> {<<[status |-> "PREVIEW_READY", bundle |-> b]>> : b \in Bundles}]
  /\ approvals = <<>>
  /\ revoked = {}
  /\ admitted = [k \in Keys |-> Nothing]
  /\ pubs = [k \in Keys |-> Nothing]
  /\ cms = {}
  /\ fault = FALSE
  /\ pc = [c \in Callers |-> "idle"]
  /\ at = [c \in Callers |-> Nothing]
  /\ key = [c \in Callers |-> Nothing]
  /\ seen = [c \in Callers |-> 0]
  /\ reply = [c \in Callers |-> "none"]
  /\ todo = [c \in Callers |-> {}]
  /\ edited = {} /\ replaced = {} /\ withdrawn = {} /\ told = {}
  /\ restarts = 0

(* A caller whose request is over forgets what it held. *)
Done(c) ==
  /\ pc' = [pc EXCEPT ![c] = "idle"]
  /\ seen' = [seen EXCEPT ![c] = 0]
  /\ reply' = [reply EXCEPT ![c] = "none"]
  /\ at' = [at EXCEPT ![c] = Nothing]
  /\ key' = [key EXCEPT ![c] = Nothing]
  /\ UNCHANGED todo
Goto(c, l) == pc' = [pc EXCEPT ![c] = l]

----------------------------------------------------------------------------
(* submitPublication.  admit inserts the key or finds it: the first of two *)
(* equal requests is fresh, a different payload is refused.  A request     *)
(* names a revision and an approval that some answer has shown.            *)
(* A mutant: the digest of the payload is not compared.                    *)
SameAny(k, q) == TRUE
SamePayload(k, q) == admitted[k] \in {Nothing, q}

PublishBegin(c, k, q) ==
  /\ pc[c] = "idle"
  /\ q.rev <= Latest(q.article) /\ q.approval <= Len(approvals)
  /\ SamePayload(k, q)
  /\ admitted' = [admitted EXCEPT ![k] = q]
  /\ pubs[k] = Nothing
  /\ Goto(c, "pub_article")
  /\ key' = [key EXCEPT ![c] = k]
  /\ at' = [at EXCEPT ![c] = q.article]
  /\ UNCHANGED <<articles, approvals, revoked, pubs, cms, fault, seen, reply, todo, history, restarts>>

(* A key that has a receipt is answered with it. *)
PublishReplay(k) ==
  /\ pubs[k] # Nothing
  /\ told' = told \cup {<<k, pubs[k]>>}
  /\ UNCHANGED <<tables, cms, fault, locals, edited, replaced, withdrawn, restarts>>

PublishArticle(c) ==
  /\ pc[c] = "pub_article"
  /\ seen' = [seen EXCEPT ![c] = Latest(at[c])]
  /\ Goto(c, "pub_evidence")
  /\ UNCHANGED <<tables, cms, fault, at, key, reply, todo, history, restarts>>

SeenBundle(c) == articles[at[c]][seen[c]].bundle

PublishEvidence(c) ==
  /\ pc[c] = "pub_evidence"
  /\ IF SeenBundle(c) \in revoked
     THEN Done(c)
     ELSE Goto(c, "pub_decide") /\ UNCHANGED <<at, key, seen, reply, todo>>
  /\ UNCHANGED <<tables, cms, fault, history, restarts>>

(* gatePublish, on the article in hand and the body of the approval. *)
GatePasses(c) ==
  LET q == admitted[key[c]]
      a == approvals[q.approval]
  IN /\ q.rev = seen[c]
     /\ a.article = q.article /\ a.rev = q.rev
     /\ a.body = "APPROVED"
     /\ articles[q.article][q.rev].status = "PREVIEW_READY"
     /\ q.mode = "STAGING_DRAFT" => AllowStaging

Refuse(c) ==
  /\ pc[c] = "pub_decide"
  /\ ~ GatePasses(c)
  /\ Done(c)
  /\ UNCHANGED <<tables, cms, fault, history, restarts>>

DryRun(c) ==
  /\ pc[c] = "pub_decide"
  /\ GatePasses(c)
  /\ admitted[key[c]].mode = "DRY_RUN"
  /\ reply' = [reply EXCEPT ![c] = "DRY_RUN"]
  /\ Goto(c, "pub_record")
  /\ UNCHANGED <<tables, cms, fault, at, key, seen, todo, history, restarts>>

(* cmsCreateDraft: a draft that exists is returned as it is. *)
Create(c, faulty) ==
  LET d == Draft(admitted[key[c]]) IN
  /\ pc[c] = "pub_decide"
  /\ GatePasses(c)
  /\ admitted[key[c]].mode = "STAGING_DRAFT"
  /\ fault' = (fault \/ faulty)
  /\ cms' = cms \cup {d}
  /\ reply' = [reply EXCEPT ![c] = IF d \notin cms /\ fault' THEN "lost" ELSE "PUBLISHED"]
  /\ Goto(c, "pub_settle")
  /\ UNCHANGED <<tables, at, key, seen, todo, history, restarts>>

(* A mutant: a lost reply is an error like any other. *)
SettleThrows(c) ==
  /\ pc[c] = "pub_settle"
  /\ fault' = FALSE
  /\ IF reply[c] = "lost" THEN Done(c)
     ELSE Goto(c, "pub_record") /\ UNCHANGED <<at, key, seen, reply, todo>>
  /\ UNCHANGED <<tables, cms, history, restarts>>

(* A lost reply is looked up by cmsFind, which finds what Create stored. *)
Settle(c) ==
  /\ pc[c] = "pub_settle"
  /\ reply' = [reply EXCEPT ![c] = IF @ = "lost" THEN "UNKNOWN" ELSE @]
  /\ fault' = FALSE
  /\ Goto(c, "pub_record")
  /\ UNCHANGED <<tables, cms, at, key, seen, todo, history, restarts>>

(* The index cos_pub_logical_idx admits one receipt per revision, whatever *)
(* its key and mode; only a conflict of the publication id is forgiven.    *)
(* What is answered is the caller's own receipt, stored or not.            *)
TakenByOther(k, d) == \E k2 \in Keys \ {k} : pubs[k2] # Nothing /\ Draft(pubs[k2]) = d

Record(c) ==
  LET k == key[c]
      q == admitted[k]
      row == [article |-> q.article, rev |-> q.rev, status |-> reply[c],
              side |-> IF reply[c] = "DRY_RUN" THEN 0 ELSE 1]
  IN /\ pc[c] = "pub_record"
     /\ \/ /\ pubs[k] = Nothing
           /\ ~ TakenByOther(k, Draft(q))
           /\ pubs' = [pubs EXCEPT ![k] = row]
           /\ told' = told \cup {<<k, row>>}
        \/ /\ pubs[k] # Nothing
           /\ told' = told \cup {<<k, row>>}
           /\ UNCHANGED pubs
        \/ /\ pubs[k] = Nothing
           /\ TakenByOther(k, Draft(q))
           /\ UNCHANGED <<pubs, told>>
     /\ Done(c)
     /\ UNCHANGED <<articles, approvals, revoked, admitted, cms, fault, edited, replaced, withdrawn, restarts>>

(* reconcilePublication: an UNKNOWN receipt whose draft the CMS still has. *)
Reconcile(k) ==
  /\ pubs[k] # Nothing
  /\ pubs[k].status = "UNKNOWN"
  /\ Draft(pubs[k]) \in cms
  /\ pubs' = [pubs EXCEPT ![k].status = "PUBLISHED", ![k].side = 1]
  /\ UNCHANGED <<articles, approvals, revoked, admitted, cms, fault, locals, history, restarts>>

----------------------------------------------------------------------------
(* editArticle: the approvals of the article are revoked in their column   *)
(* alone; an edit whose revision another insert took is returned all the   *)
(* same, its row is dropped by `on conflict do nothing`.                   *)
EditBegin(c, a) ==
  /\ pc[c] = "idle"
  /\ at' = [at EXCEPT ![c] = a]
  /\ seen' = [seen EXCEPT ![c] = Latest(a)]
  /\ Goto(c, "edit_revoke")
  /\ UNCHANGED <<tables, cms, fault, key, reply, todo, history, restarts>>

ColumnRevoked(a) ==
  [i \in DOMAIN approvals |->
     IF approvals[i].article = a THEN [approvals[i] EXCEPT !.column = "REVOKED"]
     ELSE approvals[i]]

EditRevoke(c) ==
  /\ pc[c] = "edit_revoke"
  /\ approvals' = ColumnRevoked(at[c])
  /\ edited' = edited \cup {i \in DOMAIN approvals : approvals'[i] # approvals[i]}
  /\ Goto(c, "edit_insert")
  /\ UNCHANGED <<articles, revoked, admitted, pubs, cms, fault, at, key, seen, reply, todo,
                 replaced, withdrawn, told, restarts>>

(* insertArticle *)
Insert(a, rev, row) ==
  articles' = IF rev > Latest(a) THEN [articles EXCEPT ![a] = Append(@, row)] ELSE articles

EditInsert(c) ==
  /\ pc[c] = "edit_insert"
  /\ seen[c] < MaxRevision
  /\ Insert(at[c], seen[c] + 1, [status |-> "DRAFT", bundle |-> SeenBundle(c)])
  /\ replaced' = replaced \cup {<<at[c], r>> : r \in 1..seen[c]}
  /\ Done(c)
  /\ UNCHANGED <<approvals, revoked, admitted, pubs, cms, fault, edited, withdrawn, told, restarts>>

(* processContentJob, as far as articles go: evidence that is not revoked, *)
(* the number of the last revision, and the generated one after it.        *)
GenerateBegin(c, a) ==
  /\ pc[c] = "idle"
  /\ articles[a][Latest(a)].bundle \notin revoked
  /\ at' = [at EXCEPT ![c] = a]
  /\ seen' = [seen EXCEPT ![c] = Latest(a)]
  /\ Goto(c, "generate")
  /\ UNCHANGED <<tables, cms, fault, key, reply, todo, history, restarts>>

Generate(c) ==
  /\ pc[c] = "generate"
  /\ seen[c] < MaxRevision
  /\ Insert(at[c], seen[c] + 1, [status |-> "PREVIEW_READY", bundle |-> SeenBundle(c)])
  /\ Done(c)
  /\ UNCHANGED <<approvals, revoked, admitted, pubs, cms, fault, history, restarts>>

(* issueApproval: the article, then its evidence, then the record. *)
ApproveBegin(c, a) ==
  /\ pc[c] = "idle"
  /\ at' = [at EXCEPT ![c] = a]
  /\ seen' = [seen EXCEPT ![c] = Latest(a)]
  /\ Goto(c, "approve_check")
  /\ UNCHANGED <<tables, cms, fault, key, reply, todo, history, restarts>>

ApproveCheck(c) ==
  /\ pc[c] = "approve_check"
  /\ IF SeenBundle(c) \notin revoked /\ articles[at[c]][seen[c]].status = "PREVIEW_READY"
     THEN Goto(c, "approve_insert") /\ UNCHANGED <<at, key, seen, reply, todo>>
     ELSE Done(c)
  /\ UNCHANGED <<tables, cms, fault, history, restarts>>

ApproveInsert(c) ==
  /\ pc[c] = "approve_insert"
  /\ Len(approvals) < MaxApprovals
  /\ approvals' = Append(approvals, [article |-> at[c], rev |-> seen[c], bundle |-> SeenBundle(c),
                                     column |-> "APPROVED", body |-> "APPROVED"])
  /\ Done(c)
  /\ UNCHANGED <<articles, revoked, admitted, pubs, cms, fault, history, restarts>>

(* revokeEvidence: mark the bundle, look up its approvals by their column, *)
(* revoke each in column and body, answer.                                 *)
RevokeMark(c, b) ==
  /\ pc[c] = "idle"
  /\ b \notin withdrawn
  /\ revoked' = revoked \cup {b}
  /\ at' = [at EXCEPT ![c] = b]
  /\ Goto(c, "revoke_select")
  /\ UNCHANGED <<articles, approvals, admitted, pubs, cms, fault, key, seen, reply, todo, history, restarts>>

RevokeSelect(c) ==
  /\ pc[c] = "revoke_select"
  /\ todo' = [todo EXCEPT ![c] = {i \in DOMAIN approvals :
                approvals[i].bundle = at[c] /\ approvals[i].column = "APPROVED"}]
  /\ Goto(c, "revoke_update")
  /\ UNCHANGED <<tables, cms, fault, at, key, seen, reply, history, restarts>>

(* A mutant: the column alone, as editArticle has it. *)
ColumnOnly(row) == [row EXCEPT !.column = "REVOKED"]
RevokedRow(row) == [row EXCEPT !.column = "REVOKED", !.body = "REVOKED"]

RevokeUpdate(c, i) ==
  /\ pc[c] = "revoke_update"
  /\ i \in todo[c]
  /\ approvals' = [approvals EXCEPT ![i] = RevokedRow(@)]
  /\ todo' = [todo EXCEPT ![c] = @ \ {i}]
  /\ UNCHANGED <<articles, revoked, admitted, pubs, cms, fault, pc, at, key, seen, reply, history, restarts>>

RevokeReturn(c) ==
  /\ pc[c] = "revoke_update"
  /\ todo[c] = {}
  /\ withdrawn' = withdrawn \cup {at[c]}
  /\ Done(c)
  /\ UNCHANGED <<tables, cms, fault, edited, replaced, told, restarts>>

(* The process ends: requests, the CMS mock and its fault are gone. *)
Restart ==
  /\ restarts < MaxRestarts
  /\ restarts' = restarts + 1
  /\ cms' = {}
  /\ fault' = FALSE
  /\ pc' = [c \in Callers |-> "idle"]
  /\ at' = [c \in Callers |-> Nothing]
  /\ key' = [c \in Callers |-> Nothing]
  /\ seen' = [c \in Callers |-> 0]
  /\ reply' = [c \in Callers |-> "none"]
  /\ todo' = [c \in Callers |-> {}]
  /\ UNCHANGED <<tables, history>>

Publish(c) ==
  \/ \E k \in Keys, q \in Requests : PublishBegin(c, k, q)
  \/ PublishArticle(c) \/ PublishEvidence(c)
  \/ Refuse(c) \/ DryRun(c)
  \/ \E f \in BOOLEAN : Create(c, f)
  \/ Settle(c) \/ Record(c)
Edit(c) == (\E a \in Articles : EditBegin(c, a)) \/ EditRevoke(c) \/ EditInsert(c)
Regenerate(c) == (\E a \in Articles : GenerateBegin(c, a)) \/ Generate(c)
Approve(c) == (\E a \in Articles : ApproveBegin(c, a)) \/ ApproveCheck(c) \/ ApproveInsert(c)
Revoke(c) ==
  \/ \E b \in Bundles : RevokeMark(c, b)
  \/ RevokeSelect(c)
  \/ \E i \in 1..MaxApprovals : RevokeUpdate(c, i)
  \/ RevokeReturn(c)

Next ==
  \/ \E c \in Callers : Publish(c) \/ Edit(c) \/ Regenerate(c) \/ Approve(c) \/ Revoke(c)
  \/ \E k \in Keys : PublishReplay(k) \/ Reconcile(k)
  \/ Restart

Spec == Init /\ [][Next]_vars

----------------------------------------------------------------------------
InFlight == {"pub_settle", "pub_record"}
Carries(c, d) == pc[c] \in InFlight /\ Draft(admitted[key[c]]) = d /\ reply[c] # "DRY_RUN"

(* Types; a caller past the admission works on what its key was admitted with. *)
TypeOK ==
  /\ \A a \in Articles : /\ Latest(a) \in 1..MaxRevision
                         /\ \A r \in 1..Latest(a) : articles[a][r] \in Revisions
  /\ Len(approvals) \in 0..MaxApprovals
  /\ \A i \in DOMAIN approvals : approvals[i] \in ApprovalRows
  /\ revoked \subseteq Bundles /\ withdrawn \subseteq revoked
  /\ admitted \in [Keys -> Requests \cup {Nothing}]
  /\ pubs \in [Keys -> Receipts \cup {Nothing}]
  /\ cms \subseteq Articles \X (1..MaxRevision)
  /\ fault \in BOOLEAN
  /\ at \in [Callers -> Articles \cup Bundles \cup {Nothing}]
  /\ key \in [Callers -> Keys \cup {Nothing}]
  /\ seen \in [Callers -> 0..MaxRevision]
  /\ \A c \in Callers : todo[c] \subseteq DOMAIN approvals
  /\ \A c \in Callers : pc[c] \in {"pub_article", "pub_evidence", "pub_decide"} \cup InFlight
       => admitted[key[c]] # Nothing /\ admitted[key[c]].article = at[c]
  /\ edited \subseteq DOMAIN approvals
  /\ replaced \subseteq Articles \X (1..MaxRevision)
  /\ told \subseteq Keys \X Receipts
  /\ restarts \in 0..MaxRestarts

(* Once revokeEvidence has answered, no request passes the gate with that   *)
(* evidence, also one that read the evidence before it was revoked: the     *)
(* body of its approval is revoked by then.  The only way through is an     *)
(* approval whose column an edit had revoked before (editArticle leaves the *)
(* body APPROVED, and the revocation looks approvals up by the column).     *)
RevocationBlocks ==
  [][\A c \in Callers :
       pc[c] = "pub_decide" /\ pc'[c] \in InFlight /\ SeenBundle(c) \in withdrawn
       => admitted[key[c]].approval \in edited]_vars

(* Every draft the CMS holds is accounted for: a receipt for its revision   *)
(* exists, or the request that made it is still on its way to write one.    *)
(* The receipt may be another key's, also that of a dry run.                *)
EffectsAccounted ==
  \A d \in cms : \/ \E k \in Keys : pubs[k] # Nothing /\ Draft(pubs[k]) = d
                 \/ \E c \in Callers : Carries(c, d)

(* A receipt that claims an effect, and a request about to write one, has   *)
(* its draft in the CMS, unless a restart emptied the mock: what is UNKNOWN *)
(* can be reconciled.                                                       *)
ReceiptsBacked ==
  restarts = 0 =>
    /\ \A k \in Keys : pubs[k] # Nothing /\ pubs[k].side = 1 => Draft(pubs[k]) \in cms
    /\ \A c \in Callers : pc[c] \in InFlight /\ reply[c] # "DRY_RUN"
         => Draft(admitted[key[c]]) \in cms

(* The CMS and the receipts agree: every draft is accounted for, and no claim *)
(* of an effect is without its draft; with the types.                        *)
DraftsAccounted == TypeOK /\ EffectsAccounted /\ ReceiptsBacked

(* What a client was answered stays true, however many equal requests raced *)
(* under its key, whichever of them was stored and whatever reply one lost: *)
(* the stored receipt is of the same revision and claims an effect if and   *)
(* only if the answer did; where the two differ, one is UNKNOWN and the     *)
(* other PUBLISHED.  Nobody is told of a receipt that is not there.         *)
AnswerStands ==
  \A t \in told :
    LET kept == pubs[t[1]]
        said == t[2]
    IN /\ kept # Nothing
       /\ Draft(kept) = Draft(said) /\ kept.side = said.side
       /\ kept.status # said.status => {kept.status, said.status} = {"UNKNOWN", "PUBLISHED"}

(* BEHAVIOR.md:67: editing a bound field blocks publishing until it is      *)
(* approved again: no request passes the gate with a revision that an edit  *)
(* which has returned superseded and an approval that an edit revoked.      *)
(* Violated: see the run publication_edited.                                *)
EditBlocksPublishing ==
  [][\A c \in Callers : pc[c] = "pub_decide" /\ pc'[c] \in InFlight
       => ~ (/\ <<at[c], seen[c]>> \in replaced
             /\ admitted[key[c]].approval \in edited)]_vars
=============================================================================
