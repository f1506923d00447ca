-------------------------- MODULE PublicationsProofs --------------------------
(* Theorems about Publications, for any callers, keys, articles and bundles and any
   number of revisions, approvals and restarts; and about LabChain, for any threads,
   destinations, revisions, budget and acts of its driver. *)
EXTENDS MCLab, FiniteSetTheorems, TLAPS

USE DEF tables, locals, history

Publishing == {"pub_article", "pub_evidence", "pub_decide", "pub_settle", "pub_record"}
Writing    == {"edit_revoke", "edit_insert", "generate", "approve_check", "approve_insert"}
Revoking   == {"revoke_select", "revoke_update"}
Steps      == {"idle"} \cup Publishing \cup Writing \cup Revoking

(* Types of the tables, and of what each caller holds. *)
Tables ==
  /\ articles \in [Articles -> Seq(Revisions)]
  /\ \A a \in Articles : Latest(a) \in 1..MaxRevision
  /\ approvals \in Seq(ApprovalRows) /\ Len(approvals) <= MaxApprovals
  /\ admitted \in [Keys -> Requests \cup {Nothing}]
  /\ pubs \in [Keys -> Receipts \cup {Nothing}]
  /\ revoked \subseteq Bundles /\ withdrawn \subseteq revoked
  /\ cms \subseteq Articles \X (1..MaxRevision)
  /\ edited \subseteq DOMAIN approvals
  /\ replaced \subseteq Articles \X (1..MaxRevision)
  /\ told \subseteq Keys \X Receipts
  /\ restarts \in 0..MaxRestarts

Locals ==
  /\ pc \in [Callers -> Steps]
  /\ at \in [Callers -> Articles \cup Bundles \cup {Nothing}]
  /\ key \in [Callers -> Keys \cup {Nothing}]
  /\ seen \in [Callers -> 0..MaxRevision]
  /\ reply \in [Callers -> {"none", "lost", "DRY_RUN", "PUBLISHED", "UNKNOWN"}]
  /\ todo \in [Callers -> SUBSET (DOMAIN approvals)]

(* The body of the approval is revoked, or an edit revoked its column alone. *)
Dead(i) == approvals[i].body = "REVOKED" \/ i \in edited

(* An approval is of a revision that exists and of its evidence. *)
Sound(i) ==
  /\ approvals[i].rev <= Latest(approvals[i].article)
  /\ approvals[i].bundle = articles[approvals[i].article][approvals[i].rev].bundle
  /\ approvals[i].column = "REVOKED" => Dead(i)

(* The approvals fit the articles, and a request names one that is there. *)
Rows ==
  /\ \A i \in DOMAIN approvals : Sound(i)
  /\ \A k \in Keys : admitted[k] # Nothing => admitted[k].approval <= Len(approvals)

(* What a caller knows at its step. *)
Knows(c) ==
  /\ pc[c] \in Publishing =>
       key[c] \in Keys /\ admitted[key[c]] # Nothing /\ admitted[key[c]].article = at[c]
  /\ pc[c] \in {"pub_evidence", "pub_decide"} \cup Writing =>
       at[c] \in Articles /\ seen[c] \in 1..Latest(at[c])
  /\ pc[c] = "pub_settle" => reply[c] \in {"lost", "PUBLISHED"}
  /\ pc[c] = "pub_record" => reply[c] \in {"DRY_RUN", "PUBLISHED", "UNKNOWN"}
  /\ pc[c] \in Revoking => at[c] \in revoked

(* The part of the invariant that every other part rests on. *)
Known == Tables /\ Locals /\ Rows /\ \A c \in Callers : Knows(c)

LEMMA InitKnown == Init => Known
<1> SUFFICES ASSUME Init PROVE Known
  OBVIOUS
<1> USE BoundsAssumption DEF Init
<1>1. \A a \in Articles : articles[a] \in Seq(Revisions) /\ Latest(a) = 1
  <2> TAKE a \in Articles
  <2>1. PICK b \in Bundles : articles[a] = <<[status |-> "PREVIEW_READY", bundle |-> b]>>
    OBVIOUS
  <2>2. [status |-> "PREVIEW_READY", bundle |-> b] \in Revisions
    BY DEF Revisions
  <2>3. QED BY <2>1, <2>2 DEF Latest
<1>2. Tables
  BY <1>1 DEF Tables
<1>3. Locals
  BY DEF Locals, Steps
<1>4. Rows
  BY DEF Rows
<1>5. \A c \in Callers : Knows(c)
  BY DEF Knows, Publishing, Writing, Revoking
<1>6. QED BY <1>2, <1>3, <1>4, <1>5 DEF Known

(* A revision once stored is never written again. *)
Grown ==
  /\ articles' \in [Articles -> Seq(Revisions)]
  /\ \A a \in Articles :
       /\ Latest(a)' \in 1..MaxRevision /\ Latest(a) <= Latest(a)'
       /\ \A r \in 1..Latest(a) : articles'[a][r] = articles[a][r]

LEMMA InsertGrows ==
  ASSUME Tables, NEW a \in Articles, NEW rev \in 1..MaxRevision, NEW row \in Revisions,
         Insert(a, rev, row)
  PROVE  Grown
<1>1. CASE rev > Latest(a)
  <2>1. articles' = [articles EXCEPT ![a] = Append(@, row)]
    BY <1>1 DEF Insert
  <2>2. articles' \in [Articles -> Seq(Revisions)]
    BY <2>1 DEF Tables
  <2>3. \A x \in Articles :
          /\ Latest(x)' \in 1..MaxRevision /\ Latest(x) <= Latest(x)'
          /\ \A r \in 1..Latest(x) : articles'[x][r] = articles[x][r]
    BY <1>1, <2>1, BoundsAssumption DEF Tables, Latest
  <2>4. QED BY <2>2, <2>3 DEF Grown
<1>2. CASE ~ (rev > Latest(a))
  <2>1. articles' = articles
    BY <1>2 DEF Insert
  <2>2. QED BY <2>1, BoundsAssumption DEF Tables, Grown, Latest
<1>3. QED BY <1>1, <1>2

LEMMA SameGrows ==
  ASSUME Tables, articles' = articles PROVE Grown
BY BoundsAssumption DEF Tables, Grown, Latest

(* The revision a caller has read, and the bundle of it. *)
LEMMA SeenRevision ==
  ASSUME Tables, NEW c \in Callers, at[c] \in Articles, seen[c] \in 1..Latest(at[c])
  PROVE  /\ articles[at[c]][seen[c]] \in Revisions
         /\ SeenBundle(c) \in Bundles
         /\ seen[c] \in 1..MaxRevision
<1>1. articles[at[c]] \in Seq(Revisions) /\ Len(articles[at[c]]) \in 1..MaxRevision
  BY DEF Tables, Latest
<1>2. articles[at[c]][seen[c]] \in Revisions /\ seen[c] \in 1..MaxRevision
  BY <1>1, BoundsAssumption DEF Latest
<1>3. SeenBundle(c) \in Bundles
  BY <1>2 DEF SeenBundle, Revisions
<1>4. QED BY <1>2, <1>3

(* Every step keeps the revisions that are there. *)
LEMMA StepGrows ==
  ASSUME Known, [Next]_vars PROVE Grown
<1> USE DEF Known
<1>1. ASSUME NEW c \in Callers, NEW k \in Keys, NEW q \in Requests, PublishBegin(c, k, q)
      PROVE  Grown
  BY <1>1, SameGrows DEF PublishBegin
<1>2. ASSUME NEW c \in Callers, PublishArticle(c) PROVE Grown
  BY <1>2, SameGrows DEF PublishArticle
<1>3. ASSUME NEW c \in Callers, PublishEvidence(c) PROVE Grown
  BY <1>3, SameGrows DEF PublishEvidence
<1>4. ASSUME NEW c \in Callers, Refuse(c) PROVE Grown
  BY <1>4, SameGrows DEF Refuse
<1>5. ASSUME NEW c \in Callers, DryRun(c) PROVE Grown
  BY <1>5, SameGrows DEF DryRun
<1>6. ASSUME NEW c \in Callers, NEW f \in BOOLEAN, Create(c, f) PROVE Grown
  BY <1>6, SameGrows DEF Create
<1>7. ASSUME NEW c \in Callers, Settle(c) PROVE Grown
  BY <1>7, SameGrows DEF Settle
<1>8. ASSUME NEW c \in Callers, Record(c) PROVE Grown
  BY <1>8, SameGrows DEF Record
<1>9. ASSUME NEW c \in Callers, NEW a \in Articles, EditBegin(c, a) PROVE Grown
  BY <1>9, SameGrows DEF EditBegin
<1>10. ASSUME NEW c \in Callers, EditRevoke(c) PROVE Grown
  BY <1>10, SameGrows DEF EditRevoke
<1>11. ASSUME NEW c \in Callers, EditInsert(c) PROVE Grown
  <2>1. at[c] \in Articles /\ seen[c] \in 1..Latest(at[c]) /\ seen[c] < MaxRevision
    BY <1>11 DEF EditInsert, Knows, Writing
  <2>2. [status |-> "DRAFT", bundle |-> SeenBundle(c)] \in Revisions
    BY <2>1, SeenRevision DEF Revisions
  <2>3. seen[c] + 1 \in 1..MaxRevision
    BY <2>1, BoundsAssumption DEF Tables
  <2>4. QED BY <1>11, <2>1, <2>2, <2>3, InsertGrows DEF EditInsert
<1>12. ASSUME NEW c \in Callers, NEW a \in Articles, GenerateBegin(c, a) PROVE Grown
  BY <1>12, SameGrows DEF GenerateBegin
<1>13. ASSUME NEW c \in Callers, Generate(c) PROVE Grown
  <2>1. at[c] \in Articles /\ seen[c] \in 1..Latest(at[c]) /\ seen[c] < MaxRevision
    BY <1>13 DEF Generate, Knows, Writing
  <2>2. [status |-> "PREVIEW_READY", bundle |-> SeenBundle(c)] \in Revisions
    BY <2>1, SeenRevision DEF Revisions
  <2>3. seen[c] + 1 \in 1..MaxRevision
    BY <2>1, BoundsAssumption DEF Tables
  <2>4. QED BY <1>13, <2>1, <2>2, <2>3, InsertGrows DEF Generate
<1>14. ASSUME NEW c \in Callers, NEW a \in Articles, ApproveBegin(c, a) PROVE Grown
  BY <1>14, SameGrows DEF ApproveBegin
<1>15. ASSUME NEW c \in Callers, ApproveCheck(c) PROVE Grown
  BY <1>15, SameGrows DEF ApproveCheck
<1>16. ASSUME NEW c \in Callers, ApproveInsert(c) PROVE Grown
  BY <1>16, SameGrows DEF ApproveInsert
<1>17. ASSUME NEW c \in Callers, NEW b \in Bundles, RevokeMark(c, b) PROVE Grown
  BY <1>17, SameGrows DEF RevokeMark
<1>18. ASSUME NEW c \in Callers, RevokeSelect(c) PROVE Grown
  BY <1>18, SameGrows DEF RevokeSelect
<1>19. ASSUME NEW c \in Callers, NEW i \in 1..MaxApprovals, RevokeUpdate(c, i) PROVE Grown
  BY <1>19, SameGrows DEF RevokeUpdate
<1>20. ASSUME NEW c \in Callers, RevokeReturn(c) PROVE Grown
  BY <1>20, SameGrows DEF RevokeReturn
<1>21. ASSUME NEW k \in Keys, PublishReplay(k) PROVE Grown
  BY <1>21, SameGrows DEF PublishReplay
<1>22. ASSUME NEW k \in Keys, Reconcile(k) PROVE Grown
  BY <1>22, SameGrows DEF Reconcile
<1>23. CASE Restart
  BY <1>23, SameGrows DEF Restart
<1>24. CASE UNCHANGED vars
  BY <1>24, SameGrows DEF vars
<1>25. QED BY <1>1, <1>2, <1>3, <1>4, <1>5, <1>6, <1>7, <1>8, <1>9, <1>10, <1>11, <1>12, <1>13,
       <1>14, <1>15, <1>16, <1>17, <1>18, <1>19, <1>20, <1>21, <1>22, <1>23, <1>24 DEF Next,
       Publish, Edit, Regenerate, Approve, Revoke

(* The approvals keep their types. *)
Listed ==
  /\ approvals' \in Seq(ApprovalRows)
  /\ Len(approvals) <= Len(approvals') /\ Len(approvals') <= MaxApprovals
  /\ edited' \subseteq DOMAIN approvals'

(* An approval stays where it is and what it is about, one that is dead stays dead, and
   a revoked column is never the whole of it. *)
Lasting ==
  /\ \A i \in DOMAIN approvals :
       /\ approvals'[i].article = approvals[i].article
       /\ approvals'[i].rev = approvals[i].rev
       /\ approvals'[i].bundle = approvals[i].bundle
       /\ Dead(i) => Dead(i)'
  /\ \A i \in DOMAIN approvals' : approvals'[i].column = "REVOKED" => Dead(i)'

Approved == Listed /\ Lasting

LEMMA SameApproved ==
  ASSUME Tables, Rows, approvals' = approvals, edited' = edited PROVE Approved
BY DEF Tables, Rows, Sound, Approved, Listed, Lasting, Dead

(* A row written in its place. *)
LEMMA RowWritten ==
  ASSUME Tables, Rows, approvals' \in Seq(ApprovalRows), Len(approvals') = Len(approvals),
         edited \subseteq edited', edited' \subseteq DOMAIN approvals,
         \A i \in DOMAIN approvals :
           \/ approvals'[i] = approvals[i]
           \/ approvals'[i] = RevokedRow(approvals[i])
           \/ approvals'[i] = [approvals[i] EXCEPT !.column = "REVOKED"] /\ i \in edited'
  PROVE  Approved
<1>1. DOMAIN approvals' = DOMAIN approvals
  BY DEF Tables
<1>2. ASSUME NEW i \in DOMAIN approvals
      PROVE  /\ approvals'[i].article = approvals[i].article
             /\ approvals'[i].rev = approvals[i].rev
             /\ approvals'[i].bundle = approvals[i].bundle
             /\ Dead(i) => Dead(i)'
             /\ approvals'[i].column = "REVOKED" => Dead(i)'
  <2>1. approvals[i] \in ApprovalRows
    BY <1>2 DEF Tables
  <2>2. approvals[i].column = "REVOKED" => Dead(i)
    BY <1>2 DEF Rows, Sound
  <2>3. CASE approvals'[i] = approvals[i]
    BY <2>2, <2>3 DEF Dead
  <2>4. CASE approvals'[i] = RevokedRow(approvals[i])
    BY <2>1, <2>4 DEF RevokedRow, ApprovalRows, Dead
  <2>5. CASE approvals'[i] = [approvals[i] EXCEPT !.column = "REVOKED"] /\ i \in edited'
    BY <2>1, <2>5 DEF ApprovalRows, Dead
  <2>6. QED BY <2>3, <2>4, <2>5
<1>3. QED BY <1>1, <1>2 DEF Approved, Listed, Lasting, Tables

LEMMA StepApproved ==
  ASSUME Known, [Next]_vars PROVE Approved
<1> USE DEF Known
<1>1. ASSUME NEW c \in Callers, NEW k \in Keys, NEW q \in Requests, PublishBegin(c, k, q)
      PROVE  Approved
  BY <1>1, SameApproved DEF PublishBegin
<1>2. ASSUME NEW c \in Callers, PublishArticle(c) PROVE Approved
  BY <1>2, SameApproved DEF PublishArticle
<1>3. ASSUME NEW c \in Callers, PublishEvidence(c) PROVE Approved
  BY <1>3, SameApproved DEF PublishEvidence
<1>4. ASSUME NEW c \in Callers, Refuse(c) PROVE Approved
  BY <1>4, SameApproved DEF Refuse
<1>5. ASSUME NEW c \in Callers, DryRun(c) PROVE Approved
  BY <1>5, SameApproved DEF DryRun
<1>6. ASSUME NEW c \in Callers, NEW f \in BOOLEAN, Create(c, f) PROVE Approved
  BY <1>6, SameApproved DEF Create
<1>7. ASSUME NEW c \in Callers, Settle(c) PROVE Approved
  BY <1>7, SameApproved DEF Settle
<1>8. ASSUME NEW c \in Callers, Record(c) PROVE Approved
  BY <1>8, SameApproved DEF Record
<1>9. ASSUME NEW c \in Callers, NEW a \in Articles, EditBegin(c, a) PROVE Approved
  BY <1>9, SameApproved DEF EditBegin
<1>10. ASSUME NEW c \in Callers, EditRevoke(c) PROVE Approved
  <2>1. approvals' = ColumnRevoked(at[c])
        /\ edited' = edited \cup {i \in DOMAIN approvals : approvals'[i] # approvals[i]}
    BY <1>10 DEF EditRevoke
  <2>2. ASSUME NEW i \in DOMAIN approvals
        PROVE  /\ approvals[i] \in ApprovalRows
               /\ [approvals[i] EXCEPT !.column = "REVOKED"] \in ApprovalRows
    <3>1. approvals[i] \in ApprovalRows
      BY DEF Tables
    <3>2. QED BY <3>1 DEF ApprovalRows
  <2>3. approvals' \in Seq(ApprovalRows) /\ Len(approvals') = Len(approvals)
    <3>1. Len(approvals) \in Nat /\ DOMAIN approvals = 1..Len(approvals)
      BY DEF Tables
    <3>2. approvals' \in [1..Len(approvals) -> ApprovalRows]
      BY <2>1, <2>2, <3>1 DEF ColumnRevoked
    <3>3. QED BY <3>1, <3>2
  <2>4. \A i \in DOMAIN approvals :
           \/ approvals'[i] = approvals[i]
           \/ approvals'[i] = [approvals[i] EXCEPT !.column = "REVOKED"] /\ i \in edited'
    BY <2>1 DEF ColumnRevoked
  <2>5. QED BY <2>1, <2>3, <2>4, RowWritten DEF Tables
<1>11. ASSUME NEW c \in Callers, EditInsert(c) PROVE Approved
  BY <1>11, SameApproved DEF EditInsert
<1>12. ASSUME NEW c \in Callers, NEW a \in Articles, GenerateBegin(c, a) PROVE Approved
  BY <1>12, SameApproved DEF GenerateBegin
<1>13. ASSUME NEW c \in Callers, Generate(c) PROVE Approved
  BY <1>13, SameApproved DEF Generate
<1>14. ASSUME NEW c \in Callers, NEW a \in Articles, ApproveBegin(c, a) PROVE Approved
  BY <1>14, SameApproved DEF ApproveBegin
<1>15. ASSUME NEW c \in Callers, ApproveCheck(c) PROVE Approved
  BY <1>15, SameApproved DEF ApproveCheck
<1>16. ASSUME NEW c \in Callers, ApproveInsert(c) PROVE Approved
  <2> DEFINE row == [article |-> at[c], rev |-> seen[c], bundle |-> SeenBundle(c),
                     column |-> "APPROVED", body |-> "APPROVED"]
  <2>1. /\ Len(approvals) < MaxApprovals /\ approvals' = Append(approvals, row)
        /\ edited' = edited /\ at[c] \in Articles /\ seen[c] \in 1..Latest(at[c])
    BY <1>16 DEF ApproveInsert, Knows, Writing
  <2>2. row \in ApprovalRows
    BY <2>1, SeenRevision DEF ApprovalRows
  <2>3. row.column # "REVOKED"
    OBVIOUS
  <2> HIDE DEF row
  <2>4. /\ approvals' \in Seq(ApprovalRows) /\ Len(approvals') = Len(approvals) + 1
        /\ \A i \in DOMAIN approvals : approvals'[i] = approvals[i]
        /\ approvals'[Len(approvals')] = row
    BY <2>1, <2>2 DEF Tables
  <2>5. Len(approvals') <= MaxApprovals /\ Len(approvals) <= Len(approvals')
    BY <2>1, <2>4, BoundsAssumption DEF Tables
  <2>6. \A i \in DOMAIN approvals : Dead(i) => Dead(i)'
    BY <2>1, <2>4 DEF Dead
  <2>7. edited' \subseteq DOMAIN approvals'
    BY <2>1, <2>4 DEF Tables
  <2>8. ASSUME NEW i \in DOMAIN approvals', approvals'[i].column = "REVOKED" PROVE Dead(i)'
    <3>1. CASE i = Len(approvals')
      BY <2>3, <2>4, <2>8, <3>1
    <3>2. CASE i # Len(approvals')
      <4>1. i \in DOMAIN approvals
        BY <2>4, <3>2 DEF Tables
      <4>2. QED BY <2>4, <2>6, <2>8, <4>1 DEF Rows, Sound
    <3>3. QED BY <3>1, <3>2
  <2>9. QED BY <2>4, <2>5, <2>6, <2>7, <2>8 DEF Approved, Listed, Lasting
<1>17. ASSUME NEW c \in Callers, NEW b \in Bundles, RevokeMark(c, b) PROVE Approved
  BY <1>17, SameApproved DEF RevokeMark
<1>18. ASSUME NEW c \in Callers, RevokeSelect(c) PROVE Approved
  BY <1>18, SameApproved DEF RevokeSelect
<1>19. ASSUME NEW c \in Callers, NEW i \in 1..MaxApprovals, RevokeUpdate(c, i) PROVE Approved
  <2>1. approvals' = [approvals EXCEPT ![i] = RevokedRow(@)] /\ edited' = edited
        /\ i \in DOMAIN approvals
    BY <1>19 DEF RevokeUpdate, Locals
  <2>2. RevokedRow(approvals[i]) \in ApprovalRows
    <3>1. approvals[i] \in ApprovalRows
      BY <2>1 DEF Tables
    <3>2. QED BY <3>1 DEF RevokedRow, ApprovalRows
  <2>3. approvals' \in Seq(ApprovalRows) /\ Len(approvals') = Len(approvals)
    BY <2>1, <2>2 DEF Tables
  <2>4. \A j \in DOMAIN approvals :
           approvals'[j] = approvals[j] \/ approvals'[j] = RevokedRow(approvals[j])
    BY <2>1 DEF Tables
  <2>5. QED BY <2>1, <2>3, <2>4, RowWritten DEF Tables
<1>20. ASSUME NEW c \in Callers, RevokeReturn(c) PROVE Approved
  BY <1>20, SameApproved DEF RevokeReturn
<1>21. ASSUME NEW k \in Keys, PublishReplay(k) PROVE Approved
  BY <1>21, SameApproved DEF PublishReplay
<1>22. ASSUME NEW k \in Keys, Reconcile(k) PROVE Approved
  BY <1>22, SameApproved DEF Reconcile
<1>23. CASE Restart
  BY <1>23, SameApproved DEF Restart
<1>24. CASE UNCHANGED vars
  BY <1>24, SameApproved DEF vars
<1>25. QED BY <1>1, <1>2, <1>3, <1>4, <1>5, <1>6, <1>7, <1>8, <1>9, <1>10, <1>11, <1>12, <1>13,
       <1>14, <1>15, <1>16, <1>17, <1>18, <1>19, <1>20, <1>21, <1>22, <1>23, <1>24 DEF Next,
       Publish, Edit, Regenerate, Approve, Revoke

(* A key is admitted once and for all. *)
Admits ==
  /\ admitted' \in [Keys -> Requests \cup {Nothing}]
  /\ \A k \in Keys : /\ admitted[k] # Nothing => admitted'[k] = admitted[k]
                     /\ admitted'[k] # Nothing => admitted'[k].approval <= Len(approvals)

LEMMA StepAdmits ==
  ASSUME Known, [Next]_vars PROVE Admits
<1> USE DEF Known, Tables, Rows, Admits
<1>1. ASSUME NEW c \in Callers, NEW k \in Keys, NEW q \in Requests, PublishBegin(c, k, q)
      PROVE  Admits
  BY <1>1, NothingAssumption DEF PublishBegin, SamePayload
<1>2. ASSUME NEW c \in Callers, PublishArticle(c) PROVE Admits
  BY <1>2 DEF PublishArticle
<1>3. ASSUME NEW c \in Callers, PublishEvidence(c) PROVE Admits
  BY <1>3 DEF PublishEvidence
<1>4. ASSUME NEW c \in Callers, Refuse(c) PROVE Admits
  BY <1>4 DEF Refuse
<1>5. ASSUME NEW c \in Callers, DryRun(c) PROVE Admits
  BY <1>5 DEF DryRun
<1>6. ASSUME NEW c \in Callers, NEW f \in BOOLEAN, Create(c, f) PROVE Admits
  BY <1>6 DEF Create
<1>7. ASSUME NEW c \in Callers, Settle(c) PROVE Admits
  BY <1>7 DEF Settle
<1>8. ASSUME NEW c \in Callers, Record(c) PROVE Admits
  BY <1>8 DEF Record
<1>9. ASSUME NEW c \in Callers, NEW a \in Articles, EditBegin(c, a) PROVE Admits
  BY <1>9 DEF EditBegin
<1>10. ASSUME NEW c \in Callers, EditRevoke(c) PROVE Admits
  BY <1>10 DEF EditRevoke
<1>11. ASSUME NEW c \in Callers, EditInsert(c) PROVE Admits
  BY <1>11 DEF EditInsert
<1>12. ASSUME NEW c \in Callers, NEW a \in Articles, GenerateBegin(c, a) PROVE Admits
  BY <1>12 DEF GenerateBegin
<1>13. ASSUME NEW c \in Callers, Generate(c) PROVE Admits
  BY <1>13 DEF Generate
<1>14. ASSUME NEW c \in Callers, NEW a \in Articles, ApproveBegin(c, a) PROVE Admits
  BY <1>14 DEF ApproveBegin
<1>15. ASSUME NEW c \in Callers, ApproveCheck(c) PROVE Admits
  BY <1>15 DEF ApproveCheck
<1>16. ASSUME NEW c \in Callers, ApproveInsert(c) PROVE Admits
  BY <1>16 DEF ApproveInsert
<1>17. ASSUME NEW c \in Callers, NEW b \in Bundles, RevokeMark(c, b) PROVE Admits
  BY <1>17 DEF RevokeMark
<1>18. ASSUME NEW c \in Callers, RevokeSelect(c) PROVE Admits
  BY <1>18 DEF RevokeSelect
<1>19. ASSUME NEW c \in Callers, NEW i \in 1..MaxApprovals, RevokeUpdate(c, i) PROVE Admits
  BY <1>19 DEF RevokeUpdate
<1>20. ASSUME NEW c \in Callers, RevokeReturn(c) PROVE Admits
  BY <1>20 DEF RevokeReturn
<1>21. ASSUME NEW k \in Keys, PublishReplay(k) PROVE Admits
  BY <1>21 DEF PublishReplay
<1>22. ASSUME NEW k \in Keys, Reconcile(k) PROVE Admits
  BY <1>22 DEF Reconcile
<1>23. CASE Restart
  BY <1>23 DEF Restart
<1>24. CASE UNCHANGED vars
  BY <1>24 DEF vars
<1>25. QED BY <1>1, <1>2, <1>3, <1>4, <1>5, <1>6, <1>7, <1>8, <1>9, <1>10, <1>11, <1>12, <1>13,
       <1>14, <1>15, <1>16, <1>17, <1>18, <1>19, <1>20, <1>21, <1>22, <1>23, <1>24 DEF Next,
       Publish, Edit, Regenerate, Approve, Revoke

LEMMA ReconciledReceipt ==
  ASSUME NEW r \in Receipts PROVE [r EXCEPT !.status = "PUBLISHED", !.side = 1] \in Receipts
<1> DEFINE s == [r EXCEPT !.status = "PUBLISHED"]
<1>1. s \in Receipts
  BY DEF Receipts
<1>2. [s EXCEPT !.side = 1] = [r EXCEPT !.status = "PUBLISHED", !.side = 1]
  BY Zenon
<1> HIDE DEF s
<1>3. [s EXCEPT !.side = 1] \in Receipts
  BY <1>1 DEF Receipts
<1>4. QED BY <1>2, <1>3

(* The receipts and the drafts keep their types. *)
Receipted ==
  pubs' \in [Keys -> Receipts \cup {Nothing}] /\ cms' \subseteq Articles \X (1..MaxRevision)

LEMMA StepReceipts ==
  ASSUME Known, [Next]_vars PROVE Receipted
<1> USE DEF Known, Tables, Receipted
<1>1. ASSUME NEW c \in Callers, NEW k \in Keys, NEW q \in Requests, PublishBegin(c, k, q)
      PROVE  Receipted
  BY <1>1 DEF PublishBegin
<1>2. ASSUME NEW c \in Callers, PublishArticle(c) PROVE Receipted
  BY <1>2 DEF PublishArticle
<1>3. ASSUME NEW c \in Callers, PublishEvidence(c) PROVE Receipted
  BY <1>3 DEF PublishEvidence
<1>4. ASSUME NEW c \in Callers, Refuse(c) PROVE Receipted
  BY <1>4 DEF Refuse
<1>5. ASSUME NEW c \in Callers, DryRun(c) PROVE Receipted
  BY <1>5 DEF DryRun
<1>6. ASSUME NEW c \in Callers, NEW f \in BOOLEAN, Create(c, f) PROVE Receipted
  <2>1. key[c] \in Keys /\ admitted[key[c]] # Nothing
    BY <1>6 DEF Create, Knows, Publishing
  <2>2. admitted[key[c]] \in Requests
    BY <2>1
  <2>3. Draft(admitted[key[c]]) \in Articles \X (1..MaxRevision)
    BY <2>2 DEF Draft, Requests
  <2>4. cms' = cms \cup {Draft(admitted[key[c]])} /\ pubs' = pubs
    BY <1>6 DEF Create
  <2>5. QED BY <2>3, <2>4
<1>7. ASSUME NEW c \in Callers, Settle(c) PROVE Receipted
  BY <1>7 DEF Settle
<1>8. ASSUME NEW c \in Callers, Record(c) PROVE Receipted
  <2> DEFINE q == admitted[key[c]]
             row == [article |-> q.article, rev |-> q.rev, status |-> reply[c],
                     side |-> IF reply[c] = "DRY_RUN" THEN 0 ELSE 1]
  <2>1. key[c] \in Keys /\ q # Nothing /\ reply[c] \in {"DRY_RUN", "PUBLISHED", "UNKNOWN"}
    BY <1>8 DEF Record, Knows, Publishing
  <2>2. q \in Requests
    BY <2>1
  <2>3. row \in Receipts
    BY <2>1, <2>2 DEF Requests, Receipts
  <2>4. cms' = cms /\ (pubs' = pubs \/ pubs' = [pubs EXCEPT ![key[c]] = row])
    BY <1>8 DEF Record
  <2> HIDE DEF row
  <2>5. QED BY <2>1, <2>3, <2>4
<1>9. ASSUME NEW c \in Callers, NEW a \in Articles, EditBegin(c, a) PROVE Receipted
  BY <1>9 DEF EditBegin
<1>10. ASSUME NEW c \in Callers, EditRevoke(c) PROVE Receipted
  BY <1>10 DEF EditRevoke
<1>11. ASSUME NEW c \in Callers, EditInsert(c) PROVE Receipted
  BY <1>11 DEF EditInsert
<1>12. ASSUME NEW c \in Callers, NEW a \in Articles, GenerateBegin(c, a) PROVE Receipted
  BY <1>12 DEF GenerateBegin
<1>13. ASSUME NEW c \in Callers, Generate(c) PROVE Receipted
  BY <1>13 DEF Generate
<1>14. ASSUME NEW c \in Callers, NEW a \in Articles, ApproveBegin(c, a) PROVE Receipted
  BY <1>14 DEF ApproveBegin
<1>15. ASSUME NEW c \in Callers, ApproveCheck(c) PROVE Receipted
  BY <1>15 DEF ApproveCheck
<1>16. ASSUME NEW c \in Callers, ApproveInsert(c) PROVE Receipted
  BY <1>16 DEF ApproveInsert
<1>17. ASSUME NEW c \in Callers, NEW b \in Bundles, RevokeMark(c, b) PROVE Receipted
  BY <1>17 DEF RevokeMark
<1>18. ASSUME NEW c \in Callers, RevokeSelect(c) PROVE Receipted
  BY <1>18 DEF RevokeSelect
<1>19. ASSUME NEW c \in Callers, NEW i \in 1..MaxApprovals, RevokeUpdate(c, i) PROVE Receipted
  BY <1>19 DEF RevokeUpdate
<1>20. ASSUME NEW c \in Callers, RevokeReturn(c) PROVE Receipted
  BY <1>20 DEF RevokeReturn
<1>21. ASSUME NEW k \in Keys, PublishReplay(k) PROVE Receipted
  BY <1>21 DEF PublishReplay
<1>22. ASSUME NEW k \in Keys, Reconcile(k) PROVE Receipted
  <2>1. pubs[k] \in Receipts /\ cms' = cms
        /\ pubs' = [pubs EXCEPT ![k].status = "PUBLISHED", ![k].side = 1]
    BY <1>22 DEF Reconcile
  <2>2. [pubs[k] EXCEPT !.status = "PUBLISHED", !.side = 1] \in Receipts
    BY <2>1, ReconciledReceipt
  <2>3. pubs' = [pubs EXCEPT ![k] = [pubs[k] EXCEPT !.status = "PUBLISHED", !.side = 1]]
    BY <2>1
  <2>4. QED BY <2>1, <2>2, <2>3
<1>23. CASE Restart
  BY <1>23 DEF Restart
<1>24. CASE UNCHANGED vars
  BY <1>24 DEF vars
<1>25. QED BY <1>1, <1>2, <1>3, <1>4, <1>5, <1>6, <1>7, <1>8, <1>9, <1>10, <1>11, <1>12, <1>13,
       <1>14, <1>15, <1>16, <1>17, <1>18, <1>19, <1>20, <1>21, <1>22, <1>23, <1>24 DEF Next,
       Publish, Edit, Regenerate, Approve, Revoke

(* What is revoked stays so, and the sets of the histories keep their types. *)
Marked ==
  /\ revoked \subseteq revoked' /\ revoked' \subseteq Bundles /\ withdrawn' \subseteq revoked'
  /\ replaced' \subseteq Articles \X (1..MaxRevision) /\ told' \subseteq Keys \X Receipts
  /\ restarts' \in 0..MaxRestarts

LEMMA StepMarked ==
  ASSUME Known, [Next]_vars PROVE Marked
<1> USE DEF Known, Tables, Marked
<1>1. ASSUME NEW c \in Callers, NEW k \in Keys, NEW q \in Requests, PublishBegin(c, k, q)
      PROVE  Marked
  BY <1>1 DEF PublishBegin
<1>2. ASSUME NEW c \in Callers, PublishArticle(c) PROVE Marked
  BY <1>2 DEF PublishArticle
<1>3. ASSUME NEW c \in Callers, PublishEvidence(c) PROVE Marked
  BY <1>3 DEF PublishEvidence
<1>4. ASSUME NEW c \in Callers, Refuse(c) PROVE Marked
  BY <1>4 DEF Refuse
<1>5. ASSUME NEW c \in Callers, DryRun(c) PROVE Marked
  BY <1>5 DEF DryRun
<1>6. ASSUME NEW c \in Callers, NEW f \in BOOLEAN, Create(c, f) PROVE Marked
  BY <1>6 DEF Create
<1>7. ASSUME NEW c \in Callers, Settle(c) PROVE Marked
  BY <1>7 DEF Settle
<1>8. ASSUME NEW c \in Callers, Record(c) PROVE Marked
  <2> DEFINE k == key[c]
             q == admitted[k]
             row == [article |-> q.article, rev |-> q.rev, status |-> reply[c],
                     side |-> IF reply[c] = "DRY_RUN" THEN 0 ELSE 1]
  <2>1. k \in Keys /\ q \in Requests /\ reply[c] \in {"DRY_RUN", "PUBLISHED", "UNKNOWN"}
    BY <1>8 DEF Record, Knows, Publishing
  <2>2. row \in Receipts
    BY <2>1 DEF Requests, Receipts
  <2>3. /\ told' = told \cup {<<k, row>>} \/ told' = told
        /\ UNCHANGED <<revoked, withdrawn, replaced, restarts>>
    BY <1>8 DEF Record
  <2> HIDE DEF k, q, row
  <2>4. QED BY <2>1, <2>2, <2>3
<1>9. ASSUME NEW c \in Callers, NEW a \in Articles, EditBegin(c, a) PROVE Marked
  BY <1>9 DEF EditBegin
<1>10. ASSUME NEW c \in Callers, EditRevoke(c) PROVE Marked
  BY <1>10 DEF EditRevoke
<1>11. ASSUME NEW c \in Callers, EditInsert(c) PROVE Marked
  <2>1. at[c] \in Articles /\ seen[c] \in 1..MaxRevision
    BY <1>11, SeenRevision DEF EditInsert, Knows, Writing
  <2>2. replaced' = replaced \cup {<<at[c], r>> : r \in 1..seen[c]}
        /\ UNCHANGED <<revoked, withdrawn, told, restarts>>
    BY <1>11 DEF EditInsert
  <2>3. {<<at[c], r>> : r \in 1..seen[c]} \subseteq Articles \X (1..MaxRevision)
    BY <2>1, BoundsAssumption
  <2>4. QED BY <2>2, <2>3
<1>12. ASSUME NEW c \in Callers, NEW a \in Articles, GenerateBegin(c, a) PROVE Marked
  BY <1>12 DEF GenerateBegin
<1>13. ASSUME NEW c \in Callers, Generate(c) PROVE Marked
  BY <1>13 DEF Generate
<1>14. ASSUME NEW c \in Callers, NEW a \in Articles, ApproveBegin(c, a) PROVE Marked
  BY <1>14 DEF ApproveBegin
<1>15. ASSUME NEW c \in Callers, ApproveCheck(c) PROVE Marked
  BY <1>15 DEF ApproveCheck
<1>16. ASSUME NEW c \in Callers, ApproveInsert(c) PROVE Marked
  BY <1>16 DEF ApproveInsert
<1>17. ASSUME NEW c \in Callers, NEW b \in Bundles, RevokeMark(c, b) PROVE Marked
  BY <1>17 DEF RevokeMark
<1>18. ASSUME NEW c \in Callers, RevokeSelect(c) PROVE Marked
  BY <1>18 DEF RevokeSelect
<1>19. ASSUME NEW c \in Callers, NEW i \in 1..MaxApprovals, RevokeUpdate(c, i) PROVE Marked
  BY <1>19 DEF RevokeUpdate
<1>20. ASSUME NEW c \in Callers, RevokeReturn(c) PROVE Marked
  BY <1>20 DEF RevokeReturn, Knows, Revoking
<1>21. ASSUME NEW k \in Keys, PublishReplay(k) PROVE Marked
  BY <1>21 DEF PublishReplay
<1>22. ASSUME NEW k \in Keys, Reconcile(k) PROVE Marked
  BY <1>22 DEF Reconcile
<1>23. CASE Restart
  BY <1>23, BoundsAssumption DEF Restart
<1>24. CASE UNCHANGED vars
  BY <1>24 DEF vars
<1>25. QED BY <1>1, <1>2, <1>3, <1>4, <1>5, <1>6, <1>7, <1>8, <1>9, <1>10, <1>11, <1>12, <1>13,
       <1>14, <1>15, <1>16, <1>17, <1>18, <1>19, <1>20, <1>21, <1>22, <1>23, <1>24 DEF Next,
       Publish, Edit, Regenerate, Approve, Revoke

(* Three actions write the approvals. *)
Written ==
  \/ approvals' = approvals
  \/ \E c \in Callers : EditRevoke(c)
  \/ \E c \in Callers : ApproveInsert(c)
  \/ \E c \in Callers, i \in 1..MaxApprovals : RevokeUpdate(c, i)

LEMMA StepWrites ==
  ASSUME [Next]_vars PROVE Written
<1> USE DEF Written
<1>1. ASSUME NEW c \in Callers, NEW k \in Keys, NEW q \in Requests, PublishBegin(c, k, q)
      PROVE  Written
  BY <1>1 DEF PublishBegin
<1>2. ASSUME NEW c \in Callers, PublishArticle(c) PROVE Written
  BY <1>2 DEF PublishArticle
<1>3. ASSUME NEW c \in Callers, PublishEvidence(c) PROVE Written
  BY <1>3 DEF PublishEvidence
<1>4. ASSUME NEW c \in Callers, Refuse(c) PROVE Written
  BY <1>4 DEF Refuse
<1>5. ASSUME NEW c \in Callers, DryRun(c) PROVE Written
  BY <1>5 DEF DryRun
<1>6. ASSUME NEW c \in Callers, NEW f \in BOOLEAN, Create(c, f) PROVE Written
  BY <1>6 DEF Create
<1>7. ASSUME NEW c \in Callers, Settle(c) PROVE Written
  BY <1>7 DEF Settle
<1>8. ASSUME NEW c \in Callers, Record(c) PROVE Written
  BY <1>8 DEF Record
<1>9. ASSUME NEW c \in Callers, NEW a \in Articles, EditBegin(c, a) PROVE Written
  BY <1>9 DEF EditBegin
<1>10. ASSUME NEW c \in Callers, EditRevoke(c) PROVE Written
  BY <1>10
<1>11. ASSUME NEW c \in Callers, EditInsert(c) PROVE Written
  BY <1>11 DEF EditInsert
<1>12. ASSUME NEW c \in Callers, NEW a \in Articles, GenerateBegin(c, a) PROVE Written
  BY <1>12 DEF GenerateBegin
<1>13. ASSUME NEW c \in Callers, Generate(c) PROVE Written
  BY <1>13 DEF Generate
<1>14. ASSUME NEW c \in Callers, NEW a \in Articles, ApproveBegin(c, a) PROVE Written
  BY <1>14 DEF ApproveBegin
<1>15. ASSUME NEW c \in Callers, ApproveCheck(c) PROVE Written
  BY <1>15 DEF ApproveCheck
<1>16. ASSUME NEW c \in Callers, ApproveInsert(c) PROVE Written
  BY <1>16
<1>17. ASSUME NEW c \in Callers, NEW b \in Bundles, RevokeMark(c, b) PROVE Written
  BY <1>17 DEF RevokeMark
<1>18. ASSUME NEW c \in Callers, RevokeSelect(c) PROVE Written
  BY <1>18 DEF RevokeSelect
<1>19. ASSUME NEW c \in Callers, NEW i \in 1..MaxApprovals, RevokeUpdate(c, i) PROVE Written
  BY <1>19
<1>20. ASSUME NEW c \in Callers, RevokeReturn(c) PROVE Written
  BY <1>20 DEF RevokeReturn
<1>21. ASSUME NEW k \in Keys, PublishReplay(k) PROVE Written
  BY <1>21 DEF PublishReplay
<1>22. ASSUME NEW k \in Keys, Reconcile(k) PROVE Written
  BY <1>22 DEF Reconcile
<1>23. CASE Restart
  BY <1>23 DEF Restart
<1>24. CASE UNCHANGED vars
  BY <1>24 DEF vars
<1>25. QED BY <1>1, <1>2, <1>3, <1>4, <1>5, <1>6, <1>7, <1>8, <1>9, <1>10, <1>11, <1>12, <1>13,
       <1>14, <1>15, <1>16, <1>17, <1>18, <1>19, <1>20, <1>21, <1>22, <1>23, <1>24 DEF Next,
       Publish, Edit, Regenerate, Approve, Revoke

LEMMA TablesStep ==
  ASSUME Known, [Next]_vars PROVE Tables'
<1> USE StepGrows, StepApproved, StepAdmits, StepReceipts, StepMarked
<1>1. /\ articles' \in [Articles -> Seq(Revisions)]
      /\ \A a \in Articles : Latest(a)' \in 1..MaxRevision
  BY DEF Grown
<1>2. /\ approvals' \in Seq(ApprovalRows) /\ Len(approvals') <= MaxApprovals
      /\ edited' \subseteq DOMAIN approvals'
  BY DEF Approved, Listed
<1>3. QED BY <1>1, <1>2 DEF Tables, Admits, Receipted, Marked

(* The approvals stay sound; a new one is of the revision its caller has read. *)
LEMMA RowsStep ==
  ASSUME Known, [Next]_vars PROVE Rows'
<1>1. Grown /\ Approved /\ Admits
  BY StepGrows, StepApproved, StepAdmits
<1>2. Len(approvals) <= Len(approvals') /\ DOMAIN approvals \subseteq DOMAIN approvals'
  BY <1>1 DEF Approved, Listed, Known, Tables
<1>3. ASSUME NEW k \in Keys, admitted'[k] # Nothing
      PROVE  admitted'[k].approval <= Len(approvals')
  <2>1. admitted'[k].approval <= Len(approvals) /\ admitted'[k] \in Requests
    BY <1>1, <1>3 DEF Admits
  <2>2. admitted'[k].approval \in Int /\ Len(approvals) \in Int /\ Len(approvals') \in Int
    BY <1>1, <2>1, BoundsAssumption DEF Requests, Approved, Listed, Known, Tables
  <2>3. QED BY <1>2, <2>1, <2>2
<1>4. ASSUME NEW i \in DOMAIN approvals PROVE Sound(i)'
  <2>1. approvals[i] \in ApprovalRows /\ Sound(i)
    BY DEF Known, Tables, Rows
  <2>2. /\ approvals'[i].article = approvals[i].article
        /\ approvals'[i].rev = approvals[i].rev
        /\ approvals'[i].bundle = approvals[i].bundle
    BY <1>1 DEF Approved, Lasting
  <2>5. approvals'[i].column = "REVOKED" => Dead(i)'
    BY <1>1, <1>2 DEF Approved, Lasting
  <2>3. approvals[i].article \in Articles /\ approvals[i].rev \in 1..Latest(approvals[i].article)
    BY <2>1, BoundsAssumption DEF ApprovalRows, Sound, Known, Tables, Latest
  <2>4. QED BY <1>1, <2>1, <2>2, <2>3, <2>5, BoundsAssumption DEF Sound, Grown, Known, Tables
<1>5. ASSUME NEW i \in DOMAIN approvals', i \notin DOMAIN approvals PROVE Sound(i)'
  <2>1. PICK c \in Callers : ApproveInsert(c)
    <3>1. CASE \E c \in Callers : EditRevoke(c)
      BY <1>5, <3>1 DEF EditRevoke, ColumnRevoked
    <3>2. CASE \E c \in Callers, j \in 1..MaxApprovals : RevokeUpdate(c, j)
      BY <1>5, <3>2 DEF RevokeUpdate, Known, Tables
    <3>3. CASE approvals' = approvals
      BY <1>5, <3>3
    <3>4. QED BY <3>1, <3>2, <3>3, StepWrites DEF Written
  <2>2. /\ approvals' = Append(approvals, [article |-> at[c], rev |-> seen[c],
                                           bundle |-> SeenBundle(c),
                                           column |-> "APPROVED", body |-> "APPROVED"])
        /\ articles' = articles /\ at[c] \in Articles /\ seen[c] \in 1..Latest(at[c])
    BY <2>1 DEF ApproveInsert, Known, Knows, Writing
  <2>3. i = Len(approvals) + 1
    BY <1>5, <2>2 DEF Known, Tables
  <2>4. approvals'[i] = [article |-> at[c], rev |-> seen[c], bundle |-> SeenBundle(c),
                         column |-> "APPROVED", body |-> "APPROVED"]
    BY <2>2, <2>3 DEF Known, Tables
  <2>5. QED BY <2>2, <2>4 DEF Sound, SeenBundle, Latest
<1>6. QED BY <1>3, <1>4, <1>5 DEF Rows

(* The callers' locals keep their types. *)
Placed ==
  /\ pc' \in [Callers -> Steps]
  /\ at' \in [Callers -> Articles \cup Bundles \cup {Nothing}]
  /\ key' \in [Callers -> Keys \cup {Nothing}]
  /\ seen' \in [Callers -> 0..MaxRevision]
  /\ reply' \in [Callers -> {"none", "lost", "DRY_RUN", "PUBLISHED", "UNKNOWN"}]
  /\ todo' \in [Callers -> SUBSET (DOMAIN approvals)]

LEMMA DonePlaced ==
  ASSUME Locals, NEW c \in Callers, Done(c) PROVE Placed
BY BoundsAssumption DEF Locals, Done, Placed, Steps

LEMMA LatestRange ==
  ASSUME Tables, NEW a \in Articles PROVE Latest(a) \in 0..MaxRevision
BY BoundsAssumption DEF Tables

LEMMA StepPlaced ==
  ASSUME Known, [Next]_vars PROVE Placed
<1> USE DEF Known
<1> USE DEF Steps, Publishing, Writing, Revoking
<1>1. ASSUME NEW c \in Callers, NEW k \in Keys, NEW q \in Requests, PublishBegin(c, k, q)
      PROVE  Placed
  <2>1. q.article \in Articles
    BY DEF Requests
  <2>2. QED BY <1>1, <2>1 DEF PublishBegin, Goto, Locals, Placed
<1>2. ASSUME NEW c \in Callers, PublishArticle(c) PROVE Placed
  <2>1. at[c] \in Articles
    BY <1>2 DEF PublishArticle, Knows, Tables, Requests
  <2>2. QED BY <1>2, <2>1, LatestRange DEF PublishArticle, Goto, Locals, Placed
<1>3. ASSUME NEW c \in Callers, PublishEvidence(c) PROVE Placed
  <2>1. CASE Done(c)
    BY <2>1, DonePlaced
  <2>2. CASE Goto(c, "pub_decide") /\ UNCHANGED <<at, key, seen, reply, todo>>
    BY <2>2 DEF Goto, Locals, Placed
  <2>3. QED BY <1>3, <2>1, <2>2 DEF PublishEvidence
<1>4. ASSUME NEW c \in Callers, Refuse(c) PROVE Placed
  BY <1>4, DonePlaced DEF Refuse
<1>5. ASSUME NEW c \in Callers, DryRun(c) PROVE Placed
  BY <1>5 DEF DryRun, Goto, Locals, Placed
<1>6. ASSUME NEW c \in Callers, NEW f \in BOOLEAN, Create(c, f) PROVE Placed
  BY <1>6 DEF Create, Goto, Locals, Placed
<1>7. ASSUME NEW c \in Callers, Settle(c) PROVE Placed
  BY <1>7 DEF Settle, Goto, Locals, Placed
<1>8. ASSUME NEW c \in Callers, Record(c) PROVE Placed
  BY <1>8, DonePlaced DEF Record
<1>9. ASSUME NEW c \in Callers, NEW a \in Articles, EditBegin(c, a) PROVE Placed
  BY <1>9, LatestRange DEF EditBegin, Goto, Locals, Placed
<1>10. ASSUME NEW c \in Callers, EditRevoke(c) PROVE Placed
  BY <1>10 DEF EditRevoke, Goto, Locals, Placed
<1>11. ASSUME NEW c \in Callers, EditInsert(c) PROVE Placed
  BY <1>11, DonePlaced DEF EditInsert
<1>12. ASSUME NEW c \in Callers, NEW a \in Articles, GenerateBegin(c, a) PROVE Placed
  BY <1>12, LatestRange DEF GenerateBegin, Goto, Locals, Placed
<1>13. ASSUME NEW c \in Callers, Generate(c) PROVE Placed
  BY <1>13, DonePlaced DEF Generate
<1>14. ASSUME NEW c \in Callers, NEW a \in Articles, ApproveBegin(c, a) PROVE Placed
  BY <1>14, LatestRange DEF ApproveBegin, Goto, Locals, Placed
<1>15. ASSUME NEW c \in Callers, ApproveCheck(c) PROVE Placed
  <2>1. CASE Done(c)
    BY <2>1, DonePlaced
  <2>2. CASE Goto(c, "approve_insert") /\ UNCHANGED <<at, key, seen, reply, todo>>
    BY <2>2 DEF Goto, Locals, Placed
  <2>3. QED BY <1>15, <2>1, <2>2 DEF ApproveCheck
<1>16. ASSUME NEW c \in Callers, ApproveInsert(c) PROVE Placed
  BY <1>16, DonePlaced DEF ApproveInsert
<1>17. ASSUME NEW c \in Callers, NEW b \in Bundles, RevokeMark(c, b) PROVE Placed
  BY <1>17 DEF RevokeMark, Goto, Locals, Placed
<1>18. ASSUME NEW c \in Callers, RevokeSelect(c) PROVE Placed
  <2>1. {i \in DOMAIN approvals : approvals[i].bundle = at[c] /\ approvals[i].column = "APPROVED"}
          \in SUBSET (DOMAIN approvals)
    OBVIOUS
  <2>2. QED BY <1>18, <2>1 DEF RevokeSelect, Goto, Locals, Placed
<1>19. ASSUME NEW c \in Callers, NEW i \in 1..MaxApprovals, RevokeUpdate(c, i) PROVE Placed
  BY <1>19 DEF RevokeUpdate, Locals, Placed
<1>20. ASSUME NEW c \in Callers, RevokeReturn(c) PROVE Placed
  BY <1>20, DonePlaced DEF RevokeReturn
<1>21. ASSUME NEW k \in Keys, PublishReplay(k) PROVE Placed
  BY <1>21 DEF PublishReplay, Locals, Placed
<1>22. ASSUME NEW k \in Keys, Reconcile(k) PROVE Placed
  BY <1>22 DEF Reconcile, Locals, Placed
<1>23. CASE Restart
  BY <1>23, BoundsAssumption DEF Restart, Locals, Placed, Steps
<1>24. CASE UNCHANGED vars
  BY <1>24 DEF vars, Locals, Placed
<1>25. QED BY <1>1, <1>2, <1>3, <1>4, <1>5, <1>6, <1>7, <1>8, <1>9, <1>10, <1>11, <1>12, <1>13,
       <1>14, <1>15, <1>16, <1>17, <1>18, <1>19, <1>20, <1>21, <1>22, <1>23, <1>24 DEF Next,
       Publish, Edit, Regenerate, Approve, Revoke

LEMMA LocalsStep ==
  ASSUME Known, [Next]_vars PROVE Locals'
<1>1. Placed /\ Listed
  BY StepPlaced, StepApproved DEF Approved
<1>2. DOMAIN approvals \subseteq DOMAIN approvals'
  BY <1>1 DEF Listed, Known, Tables
<1>3. QED BY <1>1, <1>2, Zenon DEF Placed, Locals

(* A caller that no step moved knows what it knew. *)
Stays(x) ==
  /\ pc'[x] = pc[x] /\ at'[x] = at[x] /\ key'[x] = key[x]
  /\ seen'[x] = seen[x] /\ reply'[x] = reply[x]

LEMMA KnowsOn ==
  ASSUME Known, NEW x \in Callers, Grown, Admits, Marked, Stays(x) PROVE Knows(x)'
<1> USE DEF Known
<1>1. pc'[x] = pc[x] /\ at'[x] = at[x] /\ key'[x] = key[x]
      /\ seen'[x] = seen[x] /\ reply'[x] = reply[x]
  BY DEF Stays
<1>2. pc[x] \in Publishing =>
        key[x] \in Keys /\ admitted'[key[x]] # Nothing /\ admitted'[key[x]].article = at[x]
  BY DEF Knows, Admits
<1>3. ASSUME pc[x] \in {"pub_evidence", "pub_decide"} \cup Writing
      PROVE  at[x] \in Articles /\ seen[x] \in 1..Len(articles'[at[x]])
  <2>1. at[x] \in Articles /\ seen[x] \in 1..Latest(at[x])
    BY <1>3 DEF Knows
  <2>2. Latest(at[x]) <= Len(articles'[at[x]]) /\ Latest(at[x]) \in Int
        /\ Len(articles'[at[x]]) \in Int
    BY <2>1, BoundsAssumption DEF Grown, Latest, Tables
  <2>3. QED BY <2>1, <2>2
<1>4. pc[x] \in Revoking => at[x] \in revoked'
  BY DEF Knows, Marked
<1>5. QED BY <1>1, <1>2, <1>3, <1>4 DEF Knows, Latest

LEMMA DoneKnows ==
  ASSUME Locals, NEW c \in Callers, NEW x \in Callers, Done(c) PROVE Stays(x) \/ pc'[x] = "idle"
BY DEF Locals, Done, Stays

LEMMA IdleKnows ==
  ASSUME NEW x, pc'[x] = "idle" PROVE Knows(x)'
BY DEF Knows, Publishing, Writing, Revoking

(* A caller that moved knows what its step has seen. *)
LEMMA KnowsStep ==
  ASSUME Known, [Next]_vars, NEW x \in Callers PROVE Knows(x)'
<1> DEFINE Goal == Stays(x) \/ pc'[x] = "idle" \/ Knows(x)'
<1>0. SUFFICES Goal
  <2>1. Grown /\ Admits /\ Marked
    BY StepGrows, StepAdmits, StepMarked
  <2>2. QED BY <2>1, KnowsOn, IdleKnows
<1> USE DEF Known
<1>1. ASSUME NEW c \in Callers, NEW k \in Keys, NEW q \in Requests, PublishBegin(c, k, q)
      PROVE  Goal
  <2>1. CASE x # c
    BY <1>1, <2>1 DEF PublishBegin, Goto, Stays, Locals
  <2>2. CASE x = c
    <3>1. /\ pc'[x] = "pub_article" /\ key'[x] = k /\ at'[x] = q.article
          /\ admitted'[k] = q
      BY <1>1, <2>2 DEF PublishBegin, Goto, Locals, Tables
    <3>2. q # Nothing
      BY NothingAssumption
    <3>3. Knows(x)'
      BY <3>1, <3>2 DEF Knows, Publishing, Writing, Revoking
    <3>4. QED BY <3>3
  <2>3. QED BY <2>1, <2>2
<1>2. ASSUME NEW c \in Callers, PublishArticle(c) PROVE Goal
  <2>1. CASE x # c
    BY <1>2, <2>1 DEF PublishArticle, Goto, Stays, Locals
  <2>2. CASE x = c
    <3>1. pc'[x] = "pub_evidence"
      BY <1>2, <2>2 DEF PublishArticle, Goto, Locals
    <3>2. key'[x] \in Keys /\ admitted'[key'[x]] # Nothing /\ admitted'[key'[x]].article = at'[x]
      BY <1>2, <2>2
         DEF PublishArticle, Goto, Locals, Knows, Publishing, Writing, Revoking, Latest, Tables,
             Requests
    <3>3. at'[x] \in Articles /\ seen'[x] \in 1..Len(articles'[at'[x]])
      BY <1>2, <2>2
         DEF PublishArticle, Goto, Locals, Knows, Publishing, Writing, Revoking, Latest, Tables,
             Requests
    <3>4. Knows(x)'
      BY <3>1, <3>2, <3>3 DEF Knows, Latest, Publishing, Writing, Revoking
    <3>5. QED BY <3>4
  <2>3. QED BY <2>1, <2>2
<1>3. ASSUME NEW c \in Callers, PublishEvidence(c) PROVE Goal
  <2>1. CASE Done(c)
    BY <2>1, DoneKnows
  <2>2. CASE Goto(c, "pub_decide") /\ UNCHANGED <<at, key, seen, reply, todo>> /\ x # c
    BY <1>3, <2>2 DEF Goto, Stays, Locals
  <2>3. CASE Goto(c, "pub_decide") /\ UNCHANGED <<at, key, seen, reply, todo>> /\ x = c
    <3>1. pc'[x] = "pub_decide"
      BY <1>3, <2>3 DEF Goto, Locals
    <3>2. key'[x] \in Keys /\ admitted'[key'[x]] # Nothing /\ admitted'[key'[x]].article = at'[x]
      BY <1>3, <2>3 DEF PublishEvidence, Goto, Locals, Latest, Knows, Publishing, Writing, Revoking
    <3>3. at'[x] \in Articles /\ seen'[x] \in 1..Len(articles'[at'[x]])
      BY <1>3, <2>3 DEF PublishEvidence, Goto, Locals, Latest, Knows, Publishing, Writing, Revoking
    <3>4. Knows(x)'
      BY <3>1, <3>2, <3>3 DEF Knows, Latest, Publishing, Writing, Revoking
    <3>5. QED BY <3>4
  <2>4. QED BY <1>3, <2>1, <2>2, <2>3 DEF PublishEvidence
<1>4. ASSUME NEW c \in Callers, Refuse(c) PROVE Goal
  BY <1>4, DoneKnows DEF Refuse
<1>5. ASSUME NEW c \in Callers, DryRun(c) PROVE Goal
  <2>1. CASE x # c
    BY <1>5, <2>1 DEF DryRun, Goto, Stays, Locals
  <2>2. CASE x = c
    <3>1. pc'[x] = "pub_record"
      BY <1>5, <2>2 DEF DryRun, Goto, Locals
    <3>2. key'[x] \in Keys /\ admitted'[key'[x]] # Nothing /\ admitted'[key'[x]].article = at'[x]
      BY <1>5, <2>2 DEF DryRun, Goto, Locals, Knows, Publishing, Writing, Revoking
    <3>3. reply'[x] = "DRY_RUN"
      BY <1>5, <2>2 DEF DryRun, Goto, Locals, Knows, Publishing, Writing, Revoking
    <3>4. Knows(x)'
      BY <3>1, <3>2, <3>3 DEF Knows, Latest, Publishing, Writing, Revoking
    <3>5. QED BY <3>4
  <2>3. QED BY <2>1, <2>2
<1>6. ASSUME NEW c \in Callers, NEW f \in BOOLEAN, Create(c, f) PROVE Goal
  <2>1. CASE x # c
    BY <1>6, <2>1 DEF Create, Goto, Stays, Locals
  <2>2. CASE x = c
    <3>1. pc'[x] = "pub_settle"
      BY <1>6, <2>2 DEF Create, Goto, Locals
    <3>2. key'[x] \in Keys /\ admitted'[key'[x]] # Nothing /\ admitted'[key'[x]].article = at'[x]
      BY <1>6, <2>2 DEF Create, Goto, Locals, Knows, Publishing, Writing, Revoking
    <3>3. reply'[x] \in {"lost", "PUBLISHED"}
      BY <1>6, <2>2 DEF Create, Goto, Locals, Knows, Publishing, Writing, Revoking
    <3>4. Knows(x)'
      BY <3>1, <3>2, <3>3 DEF Knows, Latest, Publishing, Writing, Revoking
    <3>5. QED BY <3>4
  <2>3. QED BY <2>1, <2>2
<1>7. ASSUME NEW c \in Callers, Settle(c) PROVE Goal
  <2>1. CASE x # c
    BY <1>7, <2>1 DEF Settle, Goto, Stays, Locals
  <2>2. CASE x = c
    <3>1. pc'[x] = "pub_record"
      BY <1>7, <2>2 DEF Settle, Goto, Locals
    <3>2. key'[x] \in Keys /\ admitted'[key'[x]] # Nothing /\ admitted'[key'[x]].article = at'[x]
      BY <1>7, <2>2 DEF Settle, Goto, Locals, Knows, Publishing, Writing, Revoking
    <3>3. reply'[x] \in {"UNKNOWN", "PUBLISHED"}
      BY <1>7, <2>2 DEF Settle, Goto, Locals, Knows, Publishing, Writing, Revoking
    <3>4. Knows(x)'
      BY <3>1, <3>2, <3>3 DEF Knows, Latest, Publishing, Writing, Revoking
    <3>5. QED BY <3>4
  <2>3. QED BY <2>1, <2>2
<1>8. ASSUME NEW c \in Callers, Record(c) PROVE Goal
  BY <1>8, DoneKnows DEF Record
<1>9. ASSUME NEW c \in Callers, NEW a \in Articles, EditBegin(c, a) PROVE Goal
  <2>1. CASE x # c
    BY <1>9, <2>1 DEF EditBegin, Goto, Stays, Locals
  <2>2. CASE x = c
    <3>1. pc'[x] = "edit_revoke"
      BY <1>9, <2>2 DEF EditBegin, Goto, Locals
    <3>2. at'[x] \in Articles /\ seen'[x] \in 1..Len(articles'[at'[x]])
      BY <1>9, <2>2 DEF EditBegin, Goto, Locals, Latest, Tables
    <3>3. Knows(x)'
      BY <3>1, <3>2 DEF Knows, Latest, Publishing, Writing, Revoking
    <3>4. QED BY <3>3
  <2>3. QED BY <2>1, <2>2
<1>10. ASSUME NEW c \in Callers, EditRevoke(c) PROVE Goal
  <2>1. CASE x # c
    BY <1>10, <2>1 DEF EditRevoke, Goto, Stays, Locals
  <2>2. CASE x = c
    <3>1. pc'[x] = "edit_insert"
      BY <1>10, <2>2 DEF EditRevoke, Goto, Locals
    <3>2. at'[x] \in Articles /\ seen'[x] \in 1..Len(articles'[at'[x]])
      BY <1>10, <2>2 DEF EditRevoke, Goto, Locals, Knows, Publishing, Writing, Revoking, Latest
    <3>3. Knows(x)'
      BY <3>1, <3>2 DEF Knows, Latest, Publishing, Writing, Revoking
    <3>4. QED BY <3>3
  <2>3. QED BY <2>1, <2>2
<1>11. ASSUME NEW c \in Callers, EditInsert(c) PROVE Goal
  BY <1>11, DoneKnows DEF EditInsert
<1>12. ASSUME NEW c \in Callers, NEW a \in Articles, GenerateBegin(c, a) PROVE Goal
  <2>1. CASE x # c
    BY <1>12, <2>1 DEF GenerateBegin, Goto, Stays, Locals
  <2>2. CASE x = c
    <3>1. pc'[x] = "generate"
      BY <1>12, <2>2 DEF GenerateBegin, Goto, Locals
    <3>2. at'[x] \in Articles /\ seen'[x] \in 1..Len(articles'[at'[x]])
      BY <1>12, <2>2 DEF GenerateBegin, Goto, Locals, Latest, Tables
    <3>3. Knows(x)'
      BY <3>1, <3>2 DEF Knows, Latest, Publishing, Writing, Revoking
    <3>4. QED BY <3>3
  <2>3. QED BY <2>1, <2>2
<1>13. ASSUME NEW c \in Callers, Generate(c) PROVE Goal
  BY <1>13, DoneKnows DEF Generate
<1>14. ASSUME NEW c \in Callers, NEW a \in Articles, ApproveBegin(c, a) PROVE Goal
  <2>1. CASE x # c
    BY <1>14, <2>1 DEF ApproveBegin, Goto, Stays, Locals
  <2>2. CASE x = c
    <3>1. pc'[x] = "approve_check"
      BY <1>14, <2>2 DEF ApproveBegin, Goto, Locals
    <3>2. at'[x] \in Articles /\ seen'[x] \in 1..Len(articles'[at'[x]])
      BY <1>14, <2>2 DEF ApproveBegin, Goto, Locals, Latest, Tables
    <3>3. Knows(x)'
      BY <3>1, <3>2 DEF Knows, Latest, Publishing, Writing, Revoking
    <3>4. QED BY <3>3
  <2>3. QED BY <2>1, <2>2
<1>15. ASSUME NEW c \in Callers, ApproveCheck(c) PROVE Goal
  <2>1. CASE Done(c)
    BY <2>1, DoneKnows
  <2>2. CASE Goto(c, "approve_insert") /\ UNCHANGED <<at, key, seen, reply, todo>> /\ x # c
    BY <1>15, <2>2 DEF Goto, Stays, Locals
  <2>3. CASE Goto(c, "approve_insert") /\ UNCHANGED <<at, key, seen, reply, todo>> /\ x = c
    <3>1. pc'[x] = "approve_insert"
      BY <1>15, <2>3 DEF Goto, Locals
    <3>2. at'[x] \in Articles /\ seen'[x] \in 1..Len(articles'[at'[x]])
      BY <1>15, <2>3 DEF ApproveCheck, Goto, Locals, Latest, Knows, Publishing, Writing, Revoking
    <3>3. Knows(x)'
      BY <3>1, <3>2 DEF Knows, Latest, Publishing, Writing, Revoking
    <3>4. QED BY <3>3
  <2>4. QED BY <1>15, <2>1, <2>2, <2>3 DEF ApproveCheck
<1>16. ASSUME NEW c \in Callers, ApproveInsert(c) PROVE Goal
  BY <1>16, DoneKnows DEF ApproveInsert
<1>17. ASSUME NEW c \in Callers, NEW b \in Bundles, RevokeMark(c, b) PROVE Goal
  <2>1. CASE x # c
    BY <1>17, <2>1 DEF RevokeMark, Goto, Stays, Locals
  <2>2. CASE x = c
    <3>1. pc'[x] = "revoke_select"
      BY <1>17, <2>2 DEF RevokeMark, Goto, Locals
    <3>2. at'[x] \in revoked'
      BY <1>17, <2>2 DEF RevokeMark, Goto, Locals
    <3>3. Knows(x)'
      BY <3>1, <3>2 DEF Knows, Latest, Publishing, Writing, Revoking
    <3>4. QED BY <3>3
  <2>3. QED BY <2>1, <2>2
<1>18. ASSUME NEW c \in Callers, RevokeSelect(c) PROVE Goal
  <2>1. CASE x # c
    BY <1>18, <2>1 DEF RevokeSelect, Goto, Stays, Locals
  <2>2. CASE x = c
    <3>1. pc'[x] = "revoke_update"
      BY <1>18, <2>2 DEF RevokeSelect, Goto, Locals
    <3>2. at'[x] \in revoked'
      BY <1>18, <2>2 DEF RevokeSelect, Goto, Locals, Knows, Publishing, Writing, Revoking
    <3>3. Knows(x)'
      BY <3>1, <3>2 DEF Knows, Latest, Publishing, Writing, Revoking
    <3>4. QED BY <3>3
  <2>3. QED BY <2>1, <2>2
<1>19. ASSUME NEW c \in Callers, NEW i \in 1..MaxApprovals, RevokeUpdate(c, i) PROVE Goal
  BY <1>19 DEF RevokeUpdate, Stays
<1>20. ASSUME NEW c \in Callers, RevokeReturn(c) PROVE Goal
  BY <1>20, DoneKnows DEF RevokeReturn
<1>21. ASSUME NEW k \in Keys, PublishReplay(k) PROVE Goal
  BY <1>21 DEF PublishReplay, Stays
<1>22. ASSUME NEW k \in Keys, Reconcile(k) PROVE Goal
  BY <1>22 DEF Reconcile, Stays
<1>23. CASE Restart
  BY <1>23 DEF Restart
<1>24. CASE UNCHANGED vars
  BY <1>24 DEF vars, Stays
<1>25. QED BY <1>1, <1>2, <1>3, <1>4, <1>5, <1>6, <1>7, <1>8, <1>9, <1>10, <1>11, <1>12, <1>13,
       <1>14, <1>15, <1>16, <1>17, <1>18, <1>19, <1>20, <1>21, <1>22, <1>23, <1>24 DEF Next,
       Publish, Edit, Regenerate, Approve, Revoke

(* What is known of every reachable state. *)
LEMMA KnownStep ==
  ASSUME Known, [Next]_vars PROVE Known'
BY TablesStep, LocalsStep, RowsStep, KnowsStep DEF Known

(* The invariant says of every table what TypeOK says of it. *)
LEMMA KnownTypeOK == Known /\ fault \in BOOLEAN => TypeOK
<1> SUFFICES ASSUME Known, fault \in BOOLEAN PROVE TypeOK
  OBVIOUS
<1>1. \A a \in Articles :
        /\ Latest(a) \in 1..MaxRevision
        /\ \A r \in 1..Latest(a) : articles[a][r] \in Revisions
  BY BoundsAssumption DEF Known, Tables, Latest
<1>2. Len(approvals) \in 0..MaxApprovals /\ \A i \in DOMAIN approvals : approvals[i] \in ApprovalRows
  BY BoundsAssumption DEF Known, Tables
<1>3. \A c \in Callers : pc[c] \in {"pub_article", "pub_evidence", "pub_decide"} \cup InFlight
        => admitted[key[c]] # Nothing /\ admitted[key[c]].article = at[c]
  BY DEF Known, Knows, InFlight, Publishing
<1>4. /\ revoked \subseteq Bundles /\ withdrawn \subseteq revoked
      /\ admitted \in [Keys -> Requests \cup {Nothing}]
      /\ pubs \in [Keys -> Receipts \cup {Nothing}]
      /\ cms \subseteq Articles \X (1..MaxRevision)
      /\ edited \subseteq DOMAIN approvals
      /\ replaced \subseteq Articles \X (1..MaxRevision)
      /\ told \subseteq Keys \X Receipts
      /\ restarts \in 0..MaxRestarts
  BY DEF Known, Tables
<1>5. /\ at \in [Callers -> Articles \cup Bundles \cup {Nothing}]
      /\ key \in [Callers -> Keys \cup {Nothing}]
      /\ seen \in [Callers -> 0..MaxRevision]
      /\ \A c \in Callers : todo[c] \subseteq DOMAIN approvals
  BY DEF Known, Locals
<1>6. QED BY <1>1, <1>2, <1>3, <1>4, <1>5 DEF TypeOK

LEMMA FaultStep ==
  ASSUME fault \in BOOLEAN, [Next]_vars PROVE fault' \in BOOLEAN
<1>1. ASSUME NEW c \in Callers, NEW k \in Keys, NEW q \in Requests, PublishBegin(c, k, q)
      PROVE  fault' \in BOOLEAN
  BY <1>1 DEF PublishBegin
<1>2. ASSUME NEW c \in Callers, PublishArticle(c) PROVE fault' \in BOOLEAN
  BY <1>2 DEF PublishArticle
<1>3. ASSUME NEW c \in Callers, PublishEvidence(c) PROVE fault' \in BOOLEAN
  BY <1>3 DEF PublishEvidence
<1>4. ASSUME NEW c \in Callers, Refuse(c) PROVE fault' \in BOOLEAN
  BY <1>4 DEF Refuse
<1>5. ASSUME NEW c \in Callers, DryRun(c) PROVE fault' \in BOOLEAN
  BY <1>5 DEF DryRun
<1>6. ASSUME NEW c \in Callers, NEW f \in BOOLEAN, Create(c, f) PROVE fault' \in BOOLEAN
  BY <1>6, Zenon DEF Create
<1>7. ASSUME NEW c \in Callers, Settle(c) PROVE fault' \in BOOLEAN
  BY <1>7 DEF Settle
<1>8. ASSUME NEW c \in Callers, Record(c) PROVE fault' \in BOOLEAN
  BY <1>8 DEF Record
<1>9. ASSUME NEW c \in Callers, NEW a \in Articles, EditBegin(c, a) PROVE fault' \in BOOLEAN
  BY <1>9 DEF EditBegin
<1>10. ASSUME NEW c \in Callers, EditRevoke(c) PROVE fault' \in BOOLEAN
  BY <1>10 DEF EditRevoke
<1>11. ASSUME NEW c \in Callers, EditInsert(c) PROVE fault' \in BOOLEAN
  BY <1>11 DEF EditInsert
<1>12. ASSUME NEW c \in Callers, NEW a \in Articles, GenerateBegin(c, a) PROVE fault' \in BOOLEAN
  BY <1>12 DEF GenerateBegin
<1>13. ASSUME NEW c \in Callers, Generate(c) PROVE fault' \in BOOLEAN
  BY <1>13 DEF Generate
<1>14. ASSUME NEW c \in Callers, NEW a \in Articles, ApproveBegin(c, a) PROVE fault' \in BOOLEAN
  BY <1>14 DEF ApproveBegin
<1>15. ASSUME NEW c \in Callers, ApproveCheck(c) PROVE fault' \in BOOLEAN
  BY <1>15 DEF ApproveCheck
<1>16. ASSUME NEW c \in Callers, ApproveInsert(c) PROVE fault' \in BOOLEAN
  BY <1>16 DEF ApproveInsert
<1>17. ASSUME NEW c \in Callers, NEW b \in Bundles, RevokeMark(c, b) PROVE fault' \in BOOLEAN
  BY <1>17 DEF RevokeMark
<1>18. ASSUME NEW c \in Callers, RevokeSelect(c) PROVE fault' \in BOOLEAN
  BY <1>18 DEF RevokeSelect
<1>19. ASSUME NEW c \in Callers, NEW i \in 1..MaxApprovals, RevokeUpdate(c, i) PROVE fault' \in BOOLEAN
  BY <1>19 DEF RevokeUpdate
<1>20. ASSUME NEW c \in Callers, RevokeReturn(c) PROVE fault' \in BOOLEAN
  BY <1>20 DEF RevokeReturn
<1>21. ASSUME NEW k \in Keys, PublishReplay(k) PROVE fault' \in BOOLEAN
  BY <1>21 DEF PublishReplay
<1>22. ASSUME NEW k \in Keys, Reconcile(k) PROVE fault' \in BOOLEAN
  BY <1>22 DEF Reconcile
<1>23. CASE Restart
  BY <1>23 DEF Restart
<1>24. CASE UNCHANGED vars
  BY <1>24 DEF vars
<1>25. QED BY <1>1, <1>2, <1>3, <1>4, <1>5, <1>6, <1>7, <1>8, <1>9, <1>10, <1>11, <1>12, <1>13,
       <1>14, <1>15, <1>16, <1>17, <1>18, <1>19, <1>20, <1>21, <1>22, <1>23, <1>24 DEF Next,
       Publish, Edit, Regenerate, Approve, Revoke

(* The types, and that a caller past the admission works on what its key was admitted
   with. *)
THEOREM TypeCorrect == Spec => []TypeOK
<1>1. Init => Known /\ fault \in BOOLEAN
  BY InitKnown DEF Init
<1>2. (Known /\ fault \in BOOLEAN) /\ [Next]_vars => (Known /\ fault \in BOOLEAN)'
  BY KnownStep, FaultStep
<1>3. QED BY <1>1, <1>2, KnownTypeOK, PTL DEF Spec

-----------------------------------------------------------------------------
(* On its way with a draft in the CMS. *)
Carrying(x) == pc[x] \in InFlight /\ reply[x] # "DRY_RUN"

(* Neither the receipts nor the drafts, nor who carries one, are touched. *)
Quiet ==
  /\ pubs' = pubs /\ cms' = cms /\ told' = told /\ restarts' = restarts
  /\ \A x \in Callers : Carrying(x)' => Carrying(x)
  /\ \A x \in Callers : Carrying(x) => Carrying(x)' /\ key'[x] = key[x]

(* A receipt is of the revision its key was admitted for. *)
OfItsKey(k) == pubs[k] # Nothing => admitted[k] # Nothing /\ Draft(pubs[k]) = Draft(admitted[k])

(* The accounts of drafts and receipts. *)
Accounts == (\A k \in Keys : OfItsKey(k)) /\ EffectsAccounted /\ ReceiptsBacked

(* What a caller carries is admitted, and stays so. *)
LEMMA CarriedKept ==
  ASSUME Known, Admits, NEW x \in Callers, Carrying(x)
  PROVE  /\ key[x] \in Keys /\ admitted[key[x]] # Nothing
         /\ admitted'[key[x]] = admitted[key[x]]
         /\ admitted[key[x]] \in Requests
<1>1. pc[x] \in Publishing
  BY DEF Carrying, InFlight, Publishing
<1>2. key[x] \in Keys /\ admitted[key[x]] # Nothing
  BY <1>1 DEF Known, Knows
<1>3. QED BY <1>2 DEF Admits, Known, Tables

LEMMA OfItsKeyOn ==
  ASSUME Known, Admits, NEW k \in Keys, OfItsKey(k), pubs'[k] = pubs[k] PROVE OfItsKey(k)'
BY DEF Admits, OfItsKey, Draft

LEMMA QuietAccounts ==
  ASSUME Known, Accounts, Admits, Quiet PROVE Accounts'
<1>0. pubs' = pubs /\ cms' = cms /\ told' = told /\ restarts' = restarts
  BY DEF Quiet
<1>1. \A k \in Keys : OfItsKey(k)'
  BY <1>0, OfItsKeyOn DEF Accounts
<1>2. EffectsAccounted'
  <2> SUFFICES ASSUME NEW d \in cms
               PROVE  \/ \E k \in Keys : pubs[k] # Nothing /\ Draft(pubs[k]) = d
                      \/ \E c \in Callers : Carries(c, d)'
    BY <1>0 DEF EffectsAccounted, Draft
  <2>1. CASE \E k \in Keys : pubs[k] # Nothing /\ Draft(pubs[k]) = d
    BY <2>1
  <2>2. ASSUME NEW c \in Callers, Carries(c, d) PROVE Carries(c, d)'
    <3>1. Carrying(c) /\ Draft(admitted[key[c]]) = d
      BY <2>2 DEF Carries, Carrying
    <3>2. Carrying(c)' /\ key'[c] = key[c]
      BY <3>1 DEF Quiet
    <3>3. admitted'[key'[c]] = admitted[key[c]]
      BY <3>1, <3>2, CarriedKept
    <3>4. QED BY <3>1, <3>2, <3>3 DEF Carries, Carrying, Draft
  <2>3. QED BY <2>1, <2>2 DEF Accounts, EffectsAccounted
<1>3. ReceiptsBacked'
  <2> SUFFICES ASSUME restarts = 0
               PROVE  /\ \A k \in Keys : pubs[k] # Nothing /\ pubs[k].side = 1 => Draft(pubs[k]) \in cms
                      /\ \A c \in Callers : Carrying(c)' => Draft(admitted'[key'[c]]) \in cms
    BY <1>0 DEF ReceiptsBacked, Carrying, Draft
  <2>1. \A k \in Keys : pubs[k] # Nothing /\ pubs[k].side = 1 => Draft(pubs[k]) \in cms
    BY DEF Accounts, ReceiptsBacked
  <2>2. ASSUME NEW c \in Callers, Carrying(c)' PROVE Draft(admitted'[key'[c]]) \in cms
    <3>1. Carrying(c) /\ key'[c] = key[c]
      BY <2>2 DEF Quiet
    <3>2. admitted'[key'[c]] = admitted[key[c]]
      BY <3>1, CarriedKept
    <3>3. Draft(admitted[key[c]]) \in cms
      BY <3>1 DEF Accounts, ReceiptsBacked, Carrying
    <3>4. QED BY <3>2, <3>3
  <2>3. QED BY <2>1, <2>2
<1>4. QED BY <1>1, <1>2, <1>3 DEF Accounts

(* The steps that touch no receipt and no draft. *)
LEMMA StepQuiet ==
  ASSUME Known, [Next]_vars
  PROVE  \/ Quiet
         \/ \E c \in Callers, f \in BOOLEAN : Create(c, f)
         \/ \E c \in Callers : Record(c)
         \/ \E k \in Keys : PublishReplay(k) \/ Reconcile(k)
         \/ Restart
<1> DEFINE Goal == \/ Quiet
                   \/ \E c \in Callers, f \in BOOLEAN : Create(c, f)
                   \/ \E c \in Callers : Record(c)
                   \/ \E k \in Keys : PublishReplay(k) \/ Reconcile(k)
                   \/ Restart
<1> SUFFICES Goal
  OBVIOUS
<1> USE DEF Known
<1>1. ASSUME NEW c \in Callers, NEW k \in Keys, NEW q \in Requests, PublishBegin(c, k, q)
      PROVE  Goal
  BY <1>1 DEF PublishBegin, Goto, Done, Locals, Quiet, Carrying, InFlight
<1>2. ASSUME NEW c \in Callers, PublishArticle(c) PROVE Goal
  BY <1>2 DEF PublishArticle, Goto, Done, Locals, Quiet, Carrying, InFlight
<1>3. ASSUME NEW c \in Callers, PublishEvidence(c) PROVE Goal
  <2>1. CASE Done(c)
    BY <1>3, <2>1 DEF PublishEvidence, Goto, Done, Locals, Quiet, Carrying, InFlight
  <2>2. CASE Goto(c, "pub_decide") /\ UNCHANGED <<at, key, seen, reply, todo>>
    BY <1>3, <2>2 DEF PublishEvidence, Goto, Done, Locals, Quiet, Carrying, InFlight
  <2>3. QED BY <1>3, <2>1, <2>2 DEF PublishEvidence
<1>4. ASSUME NEW c \in Callers, Refuse(c) PROVE Goal
  BY <1>4 DEF Refuse, Goto, Done, Locals, Quiet, Carrying, InFlight
<1>5. ASSUME NEW c \in Callers, DryRun(c) PROVE Goal
  BY <1>5 DEF DryRun, Goto, Done, Locals, Quiet, Carrying, InFlight
<1>6. ASSUME NEW c \in Callers, NEW f \in BOOLEAN, Create(c, f) PROVE Goal
  BY <1>6
<1>7. ASSUME NEW c \in Callers, Settle(c) PROVE Goal
  BY <1>7 DEF Settle, Goto, Done, Locals, Quiet, Carrying, InFlight
<1>8. ASSUME NEW c \in Callers, Record(c) PROVE Goal
  BY <1>8
<1>9. ASSUME NEW c \in Callers, NEW a \in Articles, EditBegin(c, a) PROVE Goal
  BY <1>9 DEF EditBegin, Goto, Done, Locals, Quiet, Carrying, InFlight
<1>10. ASSUME NEW c \in Callers, EditRevoke(c) PROVE Goal
  BY <1>10 DEF EditRevoke, Goto, Done, Locals, Quiet, Carrying, InFlight
<1>11. ASSUME NEW c \in Callers, EditInsert(c) PROVE Goal
  BY <1>11 DEF EditInsert, Goto, Done, Locals, Quiet, Carrying, InFlight
<1>12. ASSUME NEW c \in Callers, NEW a \in Articles, GenerateBegin(c, a) PROVE Goal
  BY <1>12 DEF GenerateBegin, Goto, Done, Locals, Quiet, Carrying, InFlight
<1>13. ASSUME NEW c \in Callers, Generate(c) PROVE Goal
  BY <1>13 DEF Generate, Goto, Done, Locals, Quiet, Carrying, InFlight
<1>14. ASSUME NEW c \in Callers, NEW a \in Articles, ApproveBegin(c, a) PROVE Goal
  BY <1>14 DEF ApproveBegin, Goto, Done, Locals, Quiet, Carrying, InFlight
<1>15. ASSUME NEW c \in Callers, ApproveCheck(c) PROVE Goal
  <2>1. CASE Done(c)
    BY <1>15, <2>1 DEF ApproveCheck, Goto, Done, Locals, Quiet, Carrying, InFlight
  <2>2. CASE Goto(c, "approve_insert") /\ UNCHANGED <<at, key, seen, reply, todo>>
    BY <1>15, <2>2 DEF ApproveCheck, Goto, Done, Locals, Quiet, Carrying, InFlight
  <2>3. QED BY <1>15, <2>1, <2>2 DEF ApproveCheck
<1>16. ASSUME NEW c \in Callers, ApproveInsert(c) PROVE Goal
  BY <1>16 DEF ApproveInsert, Goto, Done, Locals, Quiet, Carrying, InFlight
<1>17. ASSUME NEW c \in Callers, NEW b \in Bundles, RevokeMark(c, b) PROVE Goal
  BY <1>17 DEF RevokeMark, Goto, Done, Locals, Quiet, Carrying, InFlight
<1>18. ASSUME NEW c \in Callers, RevokeSelect(c) PROVE Goal
  BY <1>18 DEF RevokeSelect, Goto, Done, Locals, Quiet, Carrying, InFlight
<1>19. ASSUME NEW c \in Callers, NEW i \in 1..MaxApprovals, RevokeUpdate(c, i) PROVE Goal
  BY <1>19 DEF RevokeUpdate, Goto, Done, Locals, Quiet, Carrying, InFlight
<1>20. ASSUME NEW c \in Callers, RevokeReturn(c) PROVE Goal
  BY <1>20 DEF RevokeReturn, Goto, Done, Locals, Quiet, Carrying, InFlight
<1>21. ASSUME NEW k \in Keys, PublishReplay(k) PROVE Goal
  BY <1>21
<1>22. ASSUME NEW k \in Keys, Reconcile(k) PROVE Goal
  BY <1>22
<1>23. CASE Restart
  BY <1>23
<1>24. CASE UNCHANGED vars
  BY <1>24 DEF vars, Quiet, Carrying
<1>25. QED BY <1>1, <1>2, <1>3, <1>4, <1>5, <1>6, <1>7, <1>8, <1>9, <1>10, <1>11, <1>12, <1>13,
       <1>14, <1>15, <1>16, <1>17, <1>18, <1>19, <1>20, <1>21, <1>22, <1>23, <1>24 DEF Next,
       Publish, Edit, Regenerate, Approve, Revoke

(* A draft is made by a caller that carries it from then on. *)
LEMMA CreateAccounts ==
  ASSUME Known, Accounts, NEW c \in Callers, NEW f \in BOOLEAN, Create(c, f) PROVE Accounts'
<1> USE DEF Known
<1>1. /\ pc[c] = "pub_decide" /\ pc' = [pc EXCEPT ![c] = "pub_settle"]
      /\ cms' = cms \cup {Draft(admitted[key[c]])}
      /\ UNCHANGED <<articles, approvals, revoked, admitted, pubs, key, told, restarts>>
  BY DEF Create, Goto
<1>2. reply' \in [Callers -> {"none", "lost", "DRY_RUN", "PUBLISHED", "UNKNOWN"}]
      /\ reply'[c] \in {"lost", "PUBLISHED"}
      /\ \A x \in Callers \ {c} : reply'[x] = reply[x]
  BY DEF Create, Locals
<1>3. Carrying(c)' /\ key[c] \in Keys /\ admitted[key[c]] # Nothing
  BY <1>1, <1>2 DEF Carrying, InFlight, Locals, Knows, Publishing
<1>4. \A x \in Callers \ {c} : Carrying(x)' <=> Carrying(x)
  BY <1>1, <1>2 DEF Carrying, InFlight, Locals
<1>5. \A k \in Keys : OfItsKey(k)'
  BY <1>1 DEF Accounts, OfItsKey, Draft
<1>6. ASSUME NEW d \in cms'
      PROVE  \/ \E k \in Keys : pubs[k] # Nothing /\ Draft(pubs[k]) = d
             \/ \E x \in Callers : Carrying(x)' /\ Draft(admitted[key[x]]) = d
  <2>1. CASE d = Draft(admitted[key[c]])
    BY <1>3, <2>1
  <2>2. CASE d \in cms /\ \E k \in Keys : pubs[k] # Nothing /\ Draft(pubs[k]) = d
    BY <2>2
  <2>3. ASSUME d \in cms, NEW x \in Callers, Carries(x, d)
        PROVE  Carrying(x)' /\ Draft(admitted[key[x]]) = d
    <3>1. Carrying(x) /\ Draft(admitted[key[x]]) = d
      BY <2>3 DEF Carries, Carrying
    <3>2. x # c
      BY <1>1, <3>1 DEF Carrying, InFlight
    <3>3. QED BY <1>4, <3>1, <3>2
  <2>4. QED BY <1>1, <2>1, <2>2, <2>3 DEF Accounts, EffectsAccounted
<1>7. EffectsAccounted'
  BY <1>1, <1>6 DEF EffectsAccounted, Carries, Carrying, Draft
<1>8. ASSUME restarts = 0, NEW x \in Callers, Carrying(x)' PROVE Draft(admitted[key[x]]) \in cms'
  <2>1. CASE x = c
    BY <1>1, <2>1
  <2>2. CASE x # c
    BY <1>1, <1>4, <1>8, <2>2 DEF Accounts, ReceiptsBacked, Carrying
  <2>3. QED BY <2>1, <2>2
<1>9. ReceiptsBacked'
  <2>1. restarts = 0 => \A k \in Keys : pubs[k] # Nothing /\ pubs[k].side = 1 => Draft(pubs[k]) \in cms'
    BY <1>1 DEF Accounts, ReceiptsBacked
  <2>2. QED BY <1>1, <1>8, <2>1 DEF ReceiptsBacked, Carrying, Draft
<1>10. QED BY <1>5, <1>7, <1>9 DEF Accounts

(* The receipt takes over the account of the draft, or another key's receipt has it. *)
LEMMA RecordAccounts ==
  ASSUME Known, Accounts, NEW c \in Callers, Record(c) PROVE Accounts'
<1> USE DEF Known
<1> DEFINE k == key[c]
           q == admitted[k]
           row == [article |-> q.article, rev |-> q.rev, status |-> reply[c],
                   side |-> IF reply[c] = "DRY_RUN" THEN 0 ELSE 1]
<1>1. /\ pc[c] = "pub_record" /\ Done(c)
      /\ UNCHANGED <<admitted, cms, restarts>>
      /\ \/ pubs[k] = Nothing /\ ~ TakenByOther(k, Draft(q)) /\ pubs' = [pubs EXCEPT ![k] = row]
         \/ pubs[k] # Nothing /\ pubs' = pubs
         \/ pubs[k] = Nothing /\ TakenByOther(k, Draft(q)) /\ pubs' = pubs
  BY DEF Record
<1>2. k \in Keys /\ q # Nothing /\ q \in Requests
      /\ reply[c] \in {"DRY_RUN", "PUBLISHED", "UNKNOWN"}
  BY <1>1 DEF Knows, Publishing, Tables
<1>3. row \in Receipts /\ row # Nothing /\ Draft(row) = Draft(q)
      /\ (row.side = 1 => reply[c] # "DRY_RUN")
  <2>1. row \in Receipts
    BY <1>2 DEF Requests, Receipts
  <2>2. row # Nothing
    BY <2>1, NothingAssumption
  <2>3. Draft(row) = Draft(q)
    BY DEF Draft
  <2>4. row.side = 1 => reply[c] # "DRY_RUN"
    OBVIOUS
  <2>5. QED BY <2>1, <2>2, <2>3, <2>4
<1>4. pc'[c] = "idle" /\ \A x \in Callers \ {c} : Stays(x)
  BY <1>1 DEF Done, Locals, Stays
<1>5. ~ Carrying(c)' /\ \A x \in Callers \ {c} : (Carrying(x)' <=> Carrying(x)) /\ key'[x] = key[x]
  BY <1>4 DEF Carrying, InFlight, Stays
<1> HIDE DEF k, q, row
<1>6. pubs' \in [Keys -> Receipts \cup {Nothing}]
  BY <1>1, <1>2, <1>3 DEF Tables
<1>7. ASSUME NEW j \in Keys
      PROVE  pubs'[j] = pubs[j] \/ (j = k /\ pubs[k] = Nothing /\ pubs'[k] = row)
  <2>1. CASE pubs[k] = Nothing /\ pubs' = [pubs EXCEPT ![k] = row]
    <3>1. j # k => pubs'[j] = pubs[j]
      BY <2>1 DEF Tables
    <3>2. pubs'[k] = row
      BY <1>2, <2>1 DEF Tables
    <3>3. QED BY <2>1, <3>1, <3>2
  <2>2. CASE pubs' = pubs
    BY <2>2
  <2>3. QED BY <1>1, <2>1, <2>2
<1>8. \A j \in Keys : OfItsKey(j)'
  <2> SUFFICES ASSUME NEW j \in Keys, pubs'[j] # Nothing
               PROVE  admitted[j] # Nothing /\ Draft(pubs'[j]) = Draft(admitted[j])
    BY <1>1 DEF OfItsKey, Draft
  <2>1. CASE pubs'[j] = pubs[j]
    BY <2>1 DEF Accounts, OfItsKey
  <2>2. CASE j = k /\ pubs'[k] = row
    BY <1>2, <1>3, <2>2 DEF q
  <2>3. QED BY <1>7, <2>1, <2>2
<1>9. \E j \in Keys : pubs'[j] # Nothing /\ Draft(pubs'[j]) = Draft(q)
  <2>1. CASE pubs[k] = Nothing /\ pubs' = [pubs EXCEPT ![k] = row]
    <3>1. pubs'[k] = row
      BY <1>2, <2>1 DEF Tables
    <3>2. QED BY <1>2, <1>3, <3>1
  <2>2. CASE pubs[k] # Nothing /\ pubs' = pubs
    BY <1>2, <2>2 DEF Accounts, OfItsKey, q
  <2>3. CASE TakenByOther(k, Draft(q)) /\ pubs' = pubs
    BY <2>3 DEF TakenByOther
  <2>4. QED BY <1>1, <2>1, <2>2, <2>3
<1>10. ASSUME NEW d \in cms
       PROVE  \/ \E j \in Keys : pubs'[j] # Nothing /\ Draft(pubs'[j]) = d
              \/ \E x \in Callers : Carrying(x)' /\ Draft(admitted[key'[x]]) = d
  <2>1. ASSUME NEW j \in Keys, pubs[j] # Nothing, Draft(pubs[j]) = d
        PROVE  pubs'[j] # Nothing /\ Draft(pubs'[j]) = d
    BY <1>7, <2>1
  <2>2. ASSUME NEW x \in Callers, x # c, Carries(x, d)
        PROVE  Carrying(x)' /\ Draft(admitted[key'[x]]) = d
    <3>1. Carrying(x) /\ Draft(admitted[key[x]]) = d
      BY <2>2 DEF Carries, Carrying
    <3>2. QED BY <1>5, <2>2, <3>1
  <2>3. Carries(c, d) => d = Draft(q)
    BY DEF Carries, q, k
  <2>4. QED BY <1>9, <2>1, <2>2, <2>3 DEF Accounts, EffectsAccounted
<1>11. EffectsAccounted'
  BY <1>1, <1>10 DEF EffectsAccounted, Carries, Carrying, Draft
<1>12. ReceiptsBacked'
  <2> SUFFICES ASSUME restarts = 0
               PROVE  /\ \A j \in Keys : pubs'[j] # Nothing /\ pubs'[j].side = 1 => Draft(pubs'[j]) \in cms
                      /\ \A x \in Callers : Carrying(x)' => Draft(admitted[key'[x]]) \in cms
    BY <1>1 DEF ReceiptsBacked, Carrying, Draft
  <2>1. ASSUME NEW j \in Keys, pubs'[j] # Nothing, pubs'[j].side = 1 PROVE Draft(pubs'[j]) \in cms
    <3>1. CASE pubs'[j] = pubs[j]
      BY <2>1, <3>1 DEF Accounts, ReceiptsBacked
    <3>2. CASE j = k /\ pubs'[k] = row
      <4>1. reply[c] # "DRY_RUN"
        BY <1>3, <2>1, <3>2
      <4>2. Draft(q) \in cms
        BY <1>1, <4>1 DEF Accounts, ReceiptsBacked, InFlight, q, k
      <4>3. QED BY <1>3, <3>2, <4>2
    <3>3. QED BY <1>7, <3>1, <3>2
  <2>2. ASSUME NEW x \in Callers, Carrying(x)' PROVE Draft(admitted[key'[x]]) \in cms
    BY <1>5, <2>2 DEF Accounts, ReceiptsBacked, Carrying
  <2>3. QED BY <2>1, <2>2
<1>13. QED BY <1>8, <1>11, <1>12 DEF Accounts

(* What is reconciled keeps its revision, and its draft is there. *)
LEMMA ReconcileAccounts ==
  ASSUME Known, Accounts, NEW k \in Keys, Reconcile(k) PROVE Accounts'
<1> USE DEF Known
<1>1. /\ pubs[k] # Nothing /\ Draft(pubs[k]) \in cms
      /\ pubs' = [pubs EXCEPT ![k].status = "PUBLISHED", ![k].side = 1]
      /\ UNCHANGED <<admitted, cms, pc, key, reply, restarts>>
  BY DEF Reconcile
<1>2. pubs[k] \in Receipts
  BY <1>1 DEF Tables
<1>3. pubs'[k].article = pubs[k].article /\ pubs'[k].rev = pubs[k].rev /\ pubs'[k] # Nothing
  <2>1. pubs'[k] \in Receipts
    <3>1. pubs'[k] = [pubs[k] EXCEPT !.status = "PUBLISHED", !.side = 1]
      BY <1>1, <1>2 DEF Tables
    <3>2. QED BY <1>2, <3>1, ReconciledReceipt
  <2>2. pubs'[k].article = pubs[k].article /\ pubs'[k].rev = pubs[k].rev
    BY <1>1, <1>2 DEF Tables, Receipts
  <2>3. QED BY <2>1, <2>2, NothingAssumption
<1>4. \A j \in Keys : /\ (pubs'[j] # Nothing <=> pubs[j] # Nothing)
                      /\ Draft(pubs'[j]) = Draft(pubs[j])
                      /\ j # k => pubs'[j] = pubs[j]
  BY <1>1, <1>3 DEF Draft, Tables
<1>5. \A j \in Keys : OfItsKey(j)'
  BY <1>1, <1>4 DEF Accounts, OfItsKey, Draft
<1>6. EffectsAccounted'
  <2>1. \A c \in Callers, d \in cms : Carries(c, d)' <=> Carries(c, d)
    BY <1>1 DEF Carries, Draft
  <2>2. \A d \in cms : \/ \E j \in Keys : pubs'[j] # Nothing /\ Draft(pubs'[j]) = d
                       \/ \E c \in Callers : Carries(c, d)
    BY <1>4 DEF Accounts, EffectsAccounted
  <2>3. QED BY <1>1, <2>1, <2>2 DEF EffectsAccounted, Draft
<1>7. ReceiptsBacked'
  <2>1. restarts = 0 => \A j \in Keys : pubs'[j] # Nothing /\ pubs'[j].side = 1 => Draft(pubs'[j]) \in cms
    BY <1>1, <1>4 DEF Accounts, ReceiptsBacked
  <2>2. restarts = 0 => \A c \in Callers : pc[c] \in InFlight /\ reply[c] # "DRY_RUN"
                          => Draft(admitted[key[c]]) \in cms
    BY DEF Accounts, ReceiptsBacked
  <2>3. QED BY <1>1, <2>1, <2>2 DEF ReceiptsBacked, Draft
<1>8. QED BY <1>5, <1>6, <1>7 DEF Accounts

LEMMA AccountsStep ==
  ASSUME Known, Accounts, [Next]_vars PROVE Accounts'
<1>1. CASE Quiet
  BY <1>1, StepAdmits, QuietAccounts
<1>2. ASSUME NEW c \in Callers, NEW f \in BOOLEAN, Create(c, f) PROVE Accounts'
  BY <1>2, CreateAccounts
<1>3. ASSUME NEW c \in Callers, Record(c) PROVE Accounts'
  BY <1>3, RecordAccounts
<1>4. ASSUME NEW k \in Keys, PublishReplay(k) PROVE Accounts'
  BY <1>4 DEF PublishReplay, Accounts, OfItsKey, EffectsAccounted, Carries, ReceiptsBacked, Draft
<1>5. ASSUME NEW k \in Keys, Reconcile(k) PROVE Accounts'
  BY <1>5, ReconcileAccounts
<1>6. CASE Restart
  <2>1. cms' = {} /\ restarts' # 0 /\ UNCHANGED <<admitted, pubs>>
    BY <1>6 DEF Restart, Known, Tables
  <2>2. QED BY <2>1 DEF Accounts, OfItsKey, EffectsAccounted, ReceiptsBacked, Draft
<1>7. QED BY <1>1, <1>2, <1>3, <1>4, <1>5, <1>6, StepQuiet

LEMMA InitAccounts == Init => Accounts
BY DEF Init, Accounts, OfItsKey, EffectsAccounted, ReceiptsBacked, InFlight

(* Every draft of the CMS has a receipt of its revision or a request on its way to write
   one, and until a restart no receipt claims a draft that is not there. *)
THEOREM DraftsAreAccounted == Spec => []DraftsAccounted
<1>1. Init => Known /\ fault \in BOOLEAN /\ Accounts
  BY InitKnown, InitAccounts DEF Init
<1>2. (Known /\ fault \in BOOLEAN /\ Accounts) /\ [Next]_vars
        => (Known /\ fault \in BOOLEAN /\ Accounts)'
  BY KnownStep, FaultStep, AccountsStep
<1>3. Known /\ fault \in BOOLEAN /\ Accounts => DraftsAccounted
  BY KnownTypeOK DEF DraftsAccounted, Accounts
<1>4. QED BY <1>1, <1>2, <1>3, PTL DEF Spec

-----------------------------------------------------------------------------
(* A caller that is past the gate after a step was past it before, or passes it with a
   reply of its request's mode. *)
Entered(x) ==
  /\ pc[x] = "pub_decide" /\ key'[x] = key[x] /\ admitted' = admitted
  /\ reply'[x] = "DRY_RUN" <=> admitted[key[x]].mode = "DRY_RUN"
Flies(x) ==
  pc'[x] \in InFlight =>
    \/ pc[x] \in InFlight /\ key'[x] = key[x] /\ (reply'[x] = "DRY_RUN" <=> reply[x] = "DRY_RUN")
    \/ Entered(x)

LEMMA StepFlies ==
  ASSUME Known, [Next]_vars, NEW x \in Callers PROVE Flies(x)
<1> USE DEF Known
<1>1. ASSUME NEW c \in Callers, NEW k \in Keys, NEW q \in Requests, PublishBegin(c, k, q) PROVE Flies(x)
  BY <1>1 DEF PublishBegin, Goto, Done, Locals, Flies, Entered, InFlight
<1>2. ASSUME NEW c \in Callers, PublishArticle(c) PROVE Flies(x)
  BY <1>2 DEF PublishArticle, Goto, Done, Locals, Flies, Entered, InFlight
<1>3. ASSUME NEW c \in Callers, PublishEvidence(c) PROVE Flies(x)
  <2>1. CASE Done(c)
    BY <1>3, <2>1 DEF PublishEvidence, Goto, Done, Locals, Flies, Entered, InFlight
  <2>2. CASE Goto(c, "pub_decide") /\ UNCHANGED <<at, key, seen, reply, todo>>
    BY <1>3, <2>2 DEF PublishEvidence, Goto, Done, Locals, Flies, Entered, InFlight
  <2>3. QED BY <1>3, <2>1, <2>2 DEF PublishEvidence
<1>4. ASSUME NEW c \in Callers, Refuse(c) PROVE Flies(x)
  BY <1>4 DEF Refuse, Goto, Done, Locals, Flies, Entered, InFlight
<1>5. ASSUME NEW c \in Callers, DryRun(c) PROVE Flies(x)
  BY <1>5 DEF DryRun, Goto, Done, Locals, Flies, Entered, InFlight
<1>6. ASSUME NEW c \in Callers, NEW f \in BOOLEAN, Create(c, f) PROVE Flies(x)
  <2>1. /\ pc[c] = "pub_decide" /\ admitted[key[c]].mode = "STAGING_DRAFT" /\ admitted' = admitted
        /\ key' = key /\ pc' = [pc EXCEPT ![c] = "pub_settle"]
        /\ reply'[c] \in {"lost", "PUBLISHED"} /\ \A y \in Callers \ {c} : reply'[y] = reply[y]
    BY <1>6 DEF Create, Goto, Locals
  <2>2. QED BY <2>1 DEF Locals, Flies, Entered, InFlight
<1>7. ASSUME NEW c \in Callers, Settle(c) PROVE Flies(x)
  BY <1>7 DEF Settle, Goto, Done, Locals, Flies, Entered, InFlight
<1>8. ASSUME NEW c \in Callers, Record(c) PROVE Flies(x)
  BY <1>8 DEF Record, Goto, Done, Locals, Flies, Entered, InFlight
<1>9. ASSUME NEW c \in Callers, NEW a \in Articles, EditBegin(c, a) PROVE Flies(x)
  BY <1>9 DEF EditBegin, Goto, Done, Locals, Flies, Entered, InFlight
<1>10. ASSUME NEW c \in Callers, EditRevoke(c) PROVE Flies(x)
  BY <1>10 DEF EditRevoke, Goto, Done, Locals, Flies, Entered, InFlight
<1>11. ASSUME NEW c \in Callers, EditInsert(c) PROVE Flies(x)
  BY <1>11 DEF EditInsert, Goto, Done, Locals, Flies, Entered, InFlight
<1>12. ASSUME NEW c \in Callers, NEW a \in Articles, GenerateBegin(c, a) PROVE Flies(x)
  BY <1>12 DEF GenerateBegin, Goto, Done, Locals, Flies, Entered, InFlight
<1>13. ASSUME NEW c \in Callers, Generate(c) PROVE Flies(x)
  BY <1>13 DEF Generate, Goto, Done, Locals, Flies, Entered, InFlight
<1>14. ASSUME NEW c \in Callers, NEW a \in Articles, ApproveBegin(c, a) PROVE Flies(x)
  BY <1>14 DEF ApproveBegin, Goto, Done, Locals, Flies, Entered, InFlight
<1>15. ASSUME NEW c \in Callers, ApproveCheck(c) PROVE Flies(x)
  <2>1. CASE Done(c)
    BY <1>15, <2>1 DEF ApproveCheck, Goto, Done, Locals, Flies, Entered, InFlight
  <2>2. CASE Goto(c, "approve_insert") /\ UNCHANGED <<at, key, seen, reply, todo>>
    BY <1>15, <2>2 DEF ApproveCheck, Goto, Done, Locals, Flies, Entered, InFlight
  <2>3. QED BY <1>15, <2>1, <2>2 DEF ApproveCheck
<1>16. ASSUME NEW c \in Callers, ApproveInsert(c) PROVE Flies(x)
  BY <1>16 DEF ApproveInsert, Goto, Done, Locals, Flies, Entered, InFlight
<1>17. ASSUME NEW c \in Callers, NEW b \in Bundles, RevokeMark(c, b) PROVE Flies(x)
  BY <1>17 DEF RevokeMark, Goto, Done, Locals, Flies, Entered, InFlight
<1>18. ASSUME NEW c \in Callers, RevokeSelect(c) PROVE Flies(x)
  BY <1>18 DEF RevokeSelect, Goto, Done, Locals, Flies, Entered, InFlight
<1>19. ASSUME NEW c \in Callers, NEW i \in 1..MaxApprovals, RevokeUpdate(c, i) PROVE Flies(x)
  BY <1>19 DEF RevokeUpdate, Goto, Done, Locals, Flies, Entered, InFlight
<1>20. ASSUME NEW c \in Callers, RevokeReturn(c) PROVE Flies(x)
  BY <1>20 DEF RevokeReturn, Goto, Done, Locals, Flies, Entered, InFlight
<1>21. ASSUME NEW k \in Keys, PublishReplay(k) PROVE Flies(x)
  BY <1>21 DEF PublishReplay, Goto, Done, Locals, Flies, Entered, InFlight
<1>22. ASSUME NEW k \in Keys, Reconcile(k) PROVE Flies(x)
  BY <1>22 DEF Reconcile, Goto, Done, Locals, Flies, Entered, InFlight
<1>23. CASE Restart
  BY <1>23 DEF Restart, Flies, InFlight
<1>24. CASE UNCHANGED vars
  BY <1>24 DEF vars, Flies
<1>25. QED BY <1>1, <1>2, <1>3, <1>4, <1>5, <1>6, <1>7, <1>8, <1>9, <1>10, <1>11, <1>12,
       <1>13, <1>14, <1>15, <1>16, <1>17, <1>18, <1>19, <1>20, <1>21, <1>22, <1>23, <1>24 DEF Next,
       Publish, Edit, Regenerate, Approve, Revoke

(* A receipt is what a request with the key's payload can come to. *)
Says(k, r) ==
  /\ Draft(r) = Draft(admitted[k])
  /\ r.side = 0 <=> admitted[k].mode = "DRY_RUN"
  /\ r.status = "DRY_RUN" <=> admitted[k].mode = "DRY_RUN"

Kept == \A k \in Keys : pubs[k] # Nothing => admitted[k] # Nothing /\ Says(k, pubs[k])
Heard == \A t \in told : pubs[t[1]] # Nothing /\ Says(t[1], t[2])
Modes ==
  \A c \in Callers : pc[c] \in InFlight =>
    (reply[c] = "DRY_RUN" <=> admitted[key[c]].mode = "DRY_RUN")
Truths == Kept /\ Heard /\ Modes

LEMMA ModesStep == ASSUME Known, Modes, Admits, [Next]_vars PROVE Modes'
<1> SUFFICES ASSUME NEW c \in Callers, pc'[c] \in InFlight
             PROVE  reply'[c] = "DRY_RUN" <=> admitted'[key'[c]].mode = "DRY_RUN"
  BY DEF Modes, InFlight
<1>1. Flies(c)
  BY StepFlies
<1>2. CASE pc[c] \in InFlight /\ key'[c] = key[c] /\ (reply'[c] = "DRY_RUN" <=> reply[c] = "DRY_RUN")
  <2>1. key[c] \in Keys /\ admitted[key[c]] # Nothing
    BY <1>2 DEF Known, Knows, InFlight, Publishing
  <2>2. admitted'[key[c]] = admitted[key[c]]
    BY <2>1 DEF Admits
  <2>3. QED BY <1>2, <2>2 DEF Modes
<1>3. CASE Entered(c)
  BY <1>3 DEF Entered
<1>4. QED BY <1>1, <1>2, <1>3 DEF Flies

(* Receipts that are kept, and one that may be new. *)
LEMMA TruthsFrom ==
  ASSUME Known, Truths, Admits, Modes', told' \in SUBSET (Keys \X Receipts),
         \A k \in Keys : pubs[k] # Nothing => pubs'[k] # Nothing,
         \A k \in Keys : pubs'[k] # Nothing /\ pubs'[k] # pubs[k]
                           => admitted[k] # Nothing /\ Says(k, pubs'[k]),
         \A t \in told' \ told : pubs'[t[1]] # Nothing /\ admitted[t[1]] # Nothing /\ Says(t[1], t[2])
  PROVE  Truths'
<1>1. \A k \in Keys : admitted[k] # Nothing => admitted'[k] = admitted[k]
  BY DEF Admits
<1>2. Kept'
  <2> SUFFICES ASSUME NEW k \in Keys, pubs'[k] # Nothing
               PROVE  admitted'[k] # Nothing /\ Says(k, pubs[k])'
    BY DEF Kept
  <2>1. admitted[k] # Nothing /\ Says(k, pubs'[k])
    BY DEF Truths, Kept
  <2>2. QED BY <1>1, <2>1 DEF Says, Draft
<1>3. Heard'
  <2> SUFFICES ASSUME NEW t \in told' PROVE pubs'[t[1]] # Nothing /\ Says(t[1], t[2])'
    BY DEF Heard
  <2>1. t[1] \in Keys
    OBVIOUS
  <2>2. pubs'[t[1]] # Nothing /\ admitted[t[1]] # Nothing /\ Says(t[1], t[2])
    BY <2>1 DEF Truths, Heard, Kept
  <2>3. QED BY <1>1, <2>1, <2>2 DEF Says, Draft
<1>4. QED BY <1>2, <1>3 DEF Truths

LEMMA TruthsStep == ASSUME Known, Known', Truths, [Next]_vars PROVE Truths'
<1>1. Modes' /\ Admits /\ told' \in SUBSET (Keys \X Receipts)
  BY StepAdmits, ModesStep DEF Truths, Known, Tables
<1>2. CASE pubs' = pubs /\ told' = told
  BY <1>1, <1>2, TruthsFrom
<1>3. ASSUME NEW c \in Callers, Record(c) PROVE Truths'
  <2> DEFINE k == key[c]
             q == admitted[k]
             row == [article |-> q.article, rev |-> q.rev, status |-> reply[c],
                     side |-> IF reply[c] = "DRY_RUN" THEN 0 ELSE 1]
  <2>1. /\ pc[c] = "pub_record"
        /\ \/ pubs[k] = Nothing /\ pubs' = [pubs EXCEPT ![k] = row] /\ told' = told \cup {<<k, row>>}
           \/ pubs[k] # Nothing /\ pubs' = pubs /\ told' = told \cup {<<k, row>>}
           \/ pubs' = pubs /\ told' = told
    BY <1>3 DEF Record
  <2>2. k \in Keys /\ q # Nothing /\ q \in Requests
    BY <2>1 DEF Known, Knows, Publishing, Tables
  <2>3. reply[c] = "DRY_RUN" <=> q.mode = "DRY_RUN"
    BY <2>1 DEF Truths, Modes, InFlight
  <2>4. Says(k, row)
    BY <2>3 DEF Says, Draft
  <2>5. row \in Receipts /\ row # Nothing
    <3>1. reply[c] \in {"DRY_RUN", "PUBLISHED", "UNKNOWN"}
      BY <2>1 DEF Known, Knows
    <3>2. row \in Receipts
      BY <2>2, <3>1 DEF Requests, Receipts
    <3>3. QED BY <3>2, NothingAssumption
  <2>6. <<k, row>>[1] = k /\ <<k, row>>[2] = row
    OBVIOUS
  <2> HIDE DEF k, q, row
  <2>7. CASE pubs[k] = Nothing /\ pubs' = [pubs EXCEPT ![k] = row] /\ told' = told \cup {<<k, row>>}
    <3>1. pubs'[k] = row /\ \A j \in Keys \ {k} : pubs'[j] = pubs[j]
      BY <2>2, <2>7 DEF Known, Tables
    <3>2. \A j \in Keys : pubs'[j] # Nothing /\ pubs'[j] # pubs[j]
                              => admitted[j] # Nothing /\ Says(j, pubs'[j])
      BY <2>2, <2>4, <3>1 DEF q
    <3>3. \A j \in Keys : pubs[j] # Nothing => pubs'[j] # Nothing
      BY <2>5, <3>1
    <3>4. \A t \in told' \ told : pubs'[t[1]] # Nothing /\ admitted[t[1]] # Nothing /\ Says(t[1], t[2])
      <4> SUFFICES ASSUME NEW t \in told' \ told
                   PROVE  pubs'[t[1]] # Nothing /\ admitted[t[1]] # Nothing /\ Says(t[1], t[2])
        OBVIOUS
      <4>1. t = <<k, row>>
        BY <2>7
      <4>2. t[1] = k /\ t[2] = row
        BY <2>6, <4>1
      <4>3. QED BY <2>2, <2>4, <2>5, <3>1, <4>2 DEF q
    <3>5. QED BY <1>1, <3>2, <3>3, <3>4, TruthsFrom
  <2>8. CASE pubs[k] # Nothing /\ pubs' = pubs /\ told' = told \cup {<<k, row>>}
    <3>1. \A t \in told' \ told : pubs'[t[1]] # Nothing /\ admitted[t[1]] # Nothing /\ Says(t[1], t[2])
      <4> SUFFICES ASSUME NEW t \in told' \ told
                   PROVE  pubs'[t[1]] # Nothing /\ admitted[t[1]] # Nothing /\ Says(t[1], t[2])
        OBVIOUS
      <4>1. t = <<k, row>>
        BY <2>8
      <4>2. t[1] = k /\ t[2] = row
        BY <2>6, <4>1
      <4>3. QED BY <2>2, <2>4, <2>8, <4>2 DEF q
    <3>2. QED BY <1>1, <2>8, <3>1, TruthsFrom
  <2>9. QED BY <1>2, <2>1, <2>7, <2>8
<1>4. ASSUME NEW k \in Keys, PublishReplay(k) PROVE Truths'
  <2>1. pubs[k] # Nothing /\ pubs' = pubs /\ told' = told \cup {<<k, pubs[k]>>}
    BY <1>4 DEF PublishReplay
  <2>2. admitted[k] # Nothing /\ Says(k, pubs[k])
    BY <2>1 DEF Truths, Kept
  <2>3. \A t \in told' \ told : pubs'[t[1]] # Nothing /\ admitted[t[1]] # Nothing /\ Says(t[1], t[2])
    <3> SUFFICES ASSUME NEW t \in told' \ told
                 PROVE  pubs'[t[1]] # Nothing /\ admitted[t[1]] # Nothing /\ Says(t[1], t[2])
      OBVIOUS
    <3>1. t = <<k, pubs[k]>>
      BY <2>1
    <3>2. t[1] = k /\ t[2] = pubs[k]
      BY <3>1
    <3>3. QED BY <2>1, <2>2, <3>2
  <2>4. QED BY <1>1, <2>1, <2>3, TruthsFrom
<1>5. ASSUME NEW k \in Keys, Reconcile(k) PROVE Truths'
  <2>1. /\ pubs[k] # Nothing /\ pubs[k].status = "UNKNOWN" /\ told' = told
        /\ pubs' = [pubs EXCEPT ![k].status = "PUBLISHED", ![k].side = 1]
    BY <1>5 DEF Reconcile
  <2>2. admitted[k] # Nothing /\ Says(k, pubs[k]) /\ pubs[k] \in Receipts
    BY <2>1 DEF Truths, Kept, Known, Tables
  <2> DEFINE new == [pubs[k] EXCEPT !.status = "PUBLISHED", !.side = 1]
  <2>3. pubs'[k] = new /\ \A j \in Keys \ {k} : pubs'[j] = pubs[j]
    BY <2>1 DEF Known, Tables
  <2>4. new \in Receipts
    BY <2>2, ReconciledReceipt
  <2>5. new.article = pubs[k].article /\ new.rev = pubs[k].rev /\ new.status = "PUBLISHED" /\ new.side = 1
    BY <2>2 DEF Receipts
  <2> HIDE DEF new
  <2>6. Says(k, new) /\ new # Nothing
    BY <2>1, <2>2, <2>4, <2>5, NothingAssumption DEF Says, Draft
  <2>7. \A j \in Keys : pubs'[j] # Nothing /\ pubs'[j] # pubs[j]
                            => admitted[j] # Nothing /\ Says(j, pubs'[j])
    BY <2>2, <2>3, <2>6
  <2>8. \A j \in Keys : pubs[j] # Nothing => pubs'[j] # Nothing
    BY <2>3, <2>6
  <2>9. QED BY <1>1, <2>1, <2>7, <2>8, TruthsFrom
<1>6. CASE Quiet
  BY <1>2, <1>6 DEF Quiet
<1>7. ASSUME NEW c \in Callers, NEW f \in BOOLEAN, Create(c, f) PROVE Truths'
  BY <1>2, <1>7 DEF Create
<1>8. CASE Restart
  BY <1>2, <1>8 DEF Restart
<1>9. QED BY <1>3, <1>4, <1>5, <1>6, <1>7, <1>8, StepQuiet

LEMMA TruthsStand == ASSUME Known, Truths PROVE AnswerStands
<1> SUFFICES ASSUME NEW t \in told
             PROVE  /\ pubs[t[1]] # Nothing
                    /\ Draft(pubs[t[1]]) = Draft(t[2]) /\ pubs[t[1]].side = t[2].side
                    /\ pubs[t[1]].status # t[2].status
                         => {pubs[t[1]].status, t[2].status} = {"UNKNOWN", "PUBLISHED"}
  BY DEF AnswerStands
<1>1. t[1] \in Keys /\ t[2] \in Receipts /\ pubs[t[1]] # Nothing /\ Says(t[1], t[2])
  BY DEF Known, Tables, Truths, Heard
<1>2. pubs[t[1]] \in Receipts /\ Says(t[1], pubs[t[1]])
  BY <1>1 DEF Known, Tables, Truths, Kept
<1>3. QED BY <1>1, <1>2 DEF Says, Receipts

(* What a client was answered stays true, however many equal requests race under its key,
   whichever of them is stored and whatever reply one lost: the stored receipt is of the
   same revision and claims an effect if and only if the answer did, and where they differ
   one is UNKNOWN and the other PUBLISHED (admit, submitPublication and
   reconcilePublication of service.ts). *)
THEOREM AnswersStand == Spec => []AnswerStands
<1>1. Init => Known /\ Truths
  BY InitKnown DEF Init, Truths, Kept, Heard, Modes, InFlight
<1>2. (Known /\ Truths) /\ [Next]_vars => (Known /\ Truths)'
  BY KnownStep, TruthsStep
<1>3. Known /\ Truths => AnswerStands
  BY TruthsStand
<1>4. QED BY <1>1, <1>2, <1>3, PTL DEF Spec

-----------------------------------------------------------------------------
(* A caller at the gate with approval i: whoever has revoked its evidence since, has the
   approval still to update or has updated it. *)
Held(c) ==
  pc[c] = "pub_decide" =>
    LET i == admitted[key[c]].approval IN
    approvals[i].bundle = SeenBundle(c) =>
      /\ SeenBundle(c) \in withdrawn => Dead(i)
      /\ \A c2 \in Callers : pc[c2] = "revoke_update" /\ at[c2] = SeenBundle(c)
           => i \in todo[c2] \/ Dead(i)

(* What a caller at the gate holds does not change under it. *)
LEMMA SameMatter ==
  ASSUME Known, Grown, Lasting, Admits, NEW c \in Callers, Stays(c), pc[c] = "pub_decide"
  PROVE  /\ admitted[key[c]].approval \in DOMAIN approvals
         /\ admitted'[key'[c]] = admitted[key[c]]
         /\ SeenBundle(c)' = SeenBundle(c)
         /\ approvals'[admitted[key[c]].approval].bundle = approvals[admitted[key[c]].approval].bundle
<1> USE DEF Known
<1>1. /\ key[c] \in Keys /\ admitted[key[c]] # Nothing
      /\ at[c] \in Articles /\ seen[c] \in 1..Latest(at[c])
  BY DEF Knows, Publishing
<1>2. admitted'[key'[c]] = admitted[key[c]]
  BY <1>1 DEF Admits, Stays
<1>3. admitted[key[c]].approval \in DOMAIN approvals
  <2>1. admitted[key[c]].approval \in 1..MaxApprovals
    BY <1>1 DEF Tables, Requests
  <2>2. admitted[key[c]].approval <= Len(approvals)
    BY <1>1 DEF Rows
  <2>3. QED BY <2>1, <2>2, BoundsAssumption DEF Tables
<1>4. articles'[at[c]][seen[c]] = articles[at[c]][seen[c]]
  BY <1>1 DEF Grown
<1>5. SeenBundle(c)' = SeenBundle(c)
  BY <1>4 DEF SeenBundle, Stays
<1>6. QED BY <1>2, <1>3, <1>5 DEF Lasting

(* No revocation returns, and none selects: what one has still to update, it has still
   to update or has updated. *)
Settled ==
  /\ withdrawn' = withdrawn
  /\ \A x \in Callers : pc'[x] = "revoke_update" =>
       /\ pc[x] = "revoke_update" /\ at'[x] = at[x]
       /\ \A j \in DOMAIN approvals : j \in todo[x] => j \in todo'[x] \/ Dead(j)'

LEMMA StepSettled ==
  ASSUME Known, [Next]_vars
  PROVE  \/ Settled
         \/ \E c \in Callers : RevokeSelect(c) \/ RevokeReturn(c)
<1> DEFINE Goal == \/ Settled
                   \/ \E c \in Callers : RevokeSelect(c) \/ RevokeReturn(c)
<1> SUFFICES Goal
  OBVIOUS
<1> USE DEF Known
<1>1. ASSUME NEW c \in Callers, NEW k \in Keys, NEW q \in Requests, PublishBegin(c, k, q)
      PROVE  Goal
  BY <1>1 DEF PublishBegin, Goto, Done, Locals, Settled
<1>2. ASSUME NEW c \in Callers, PublishArticle(c) PROVE Goal
  BY <1>2 DEF PublishArticle, Goto, Done, Locals, Settled
<1>3. ASSUME NEW c \in Callers, PublishEvidence(c) PROVE Goal
  <2>1. CASE Done(c)
    BY <1>3, <2>1 DEF PublishEvidence, Goto, Done, Locals, Settled
  <2>2. CASE Goto(c, "pub_decide") /\ UNCHANGED <<at, key, seen, reply, todo>>
    BY <1>3, <2>2 DEF PublishEvidence, Goto, Done, Locals, Settled
  <2>3. QED BY <1>3, <2>1, <2>2 DEF PublishEvidence
<1>4. ASSUME NEW c \in Callers, Refuse(c) PROVE Goal
  BY <1>4 DEF Refuse, Goto, Done, Locals, Settled
<1>5. ASSUME NEW c \in Callers, DryRun(c) PROVE Goal
  BY <1>5 DEF DryRun, Goto, Done, Locals, Settled
<1>6. ASSUME NEW c \in Callers, NEW f \in BOOLEAN, Create(c, f) PROVE Goal
  BY <1>6 DEF Create, Goto, Done, Locals, Settled
<1>7. ASSUME NEW c \in Callers, Settle(c) PROVE Goal
  BY <1>7 DEF Settle, Goto, Done, Locals, Settled
<1>8. ASSUME NEW c \in Callers, Record(c) PROVE Goal
  BY <1>8 DEF Record, Goto, Done, Locals, Settled
<1>9. ASSUME NEW c \in Callers, NEW a \in Articles, EditBegin(c, a) PROVE Goal
  BY <1>9 DEF EditBegin, Goto, Done, Locals, Settled
<1>10. ASSUME NEW c \in Callers, EditRevoke(c) PROVE Goal
  BY <1>10 DEF EditRevoke, Goto, Done, Locals, Settled
<1>11. ASSUME NEW c \in Callers, EditInsert(c) PROVE Goal
  BY <1>11 DEF EditInsert, Goto, Done, Locals, Settled
<1>12. ASSUME NEW c \in Callers, NEW a \in Articles, GenerateBegin(c, a) PROVE Goal
  BY <1>12 DEF GenerateBegin, Goto, Done, Locals, Settled
<1>13. ASSUME NEW c \in Callers, Generate(c) PROVE Goal
  BY <1>13 DEF Generate, Goto, Done, Locals, Settled
<1>14. ASSUME NEW c \in Callers, NEW a \in Articles, ApproveBegin(c, a) PROVE Goal
  BY <1>14 DEF ApproveBegin, Goto, Done, Locals, Settled
<1>15. ASSUME NEW c \in Callers, ApproveCheck(c) PROVE Goal
  <2>1. CASE Done(c)
    BY <1>15, <2>1 DEF ApproveCheck, Goto, Done, Locals, Settled
  <2>2. CASE Goto(c, "approve_insert") /\ UNCHANGED <<at, key, seen, reply, todo>>
    BY <1>15, <2>2 DEF ApproveCheck, Goto, Done, Locals, Settled
  <2>3. QED BY <1>15, <2>1, <2>2 DEF ApproveCheck
<1>16. ASSUME NEW c \in Callers, ApproveInsert(c) PROVE Goal
  BY <1>16 DEF ApproveInsert, Goto, Done, Locals, Settled
<1>17. ASSUME NEW c \in Callers, NEW b \in Bundles, RevokeMark(c, b) PROVE Goal
  BY <1>17 DEF RevokeMark, Goto, Done, Locals, Settled
<1>18. ASSUME NEW c \in Callers, RevokeSelect(c) PROVE Goal
  BY <1>18
<1>19. ASSUME NEW c \in Callers, NEW i \in 1..MaxApprovals, RevokeUpdate(c, i) PROVE Goal
  <2>1. /\ i \in DOMAIN approvals /\ i \in todo[c]
        /\ approvals' = [approvals EXCEPT ![i] = RevokedRow(@)]
        /\ todo' = [todo EXCEPT ![c] = @ \ {i}]
        /\ UNCHANGED <<pc, at, withdrawn>>
    BY <1>19 DEF RevokeUpdate, Locals
  <2>2. approvals'[i] = RevokedRow(approvals[i]) /\ approvals[i] \in ApprovalRows
    BY <2>1 DEF Tables
  <2>3. Dead(i)'
    BY <2>2 DEF RevokedRow, ApprovalRows, Dead
  <2>4. \A x \in Callers, j \in DOMAIN approvals : j \in todo[x] => j \in todo'[x] \/ j = i
    BY <2>1 DEF Locals
  <2>5. QED BY <2>1, <2>3, <2>4 DEF Settled
<1>20. ASSUME NEW c \in Callers, RevokeReturn(c) PROVE Goal
  BY <1>20
<1>21. ASSUME NEW k \in Keys, PublishReplay(k) PROVE Goal
  BY <1>21 DEF PublishReplay, Goto, Done, Locals, Settled
<1>22. ASSUME NEW k \in Keys, Reconcile(k) PROVE Goal
  BY <1>22 DEF Reconcile, Goto, Done, Locals, Settled
<1>23. CASE Restart
  BY <1>23 DEF Restart, Goto, Done, Locals, Settled
<1>24. CASE UNCHANGED vars
  BY <1>24 DEF vars, Settled
<1>25. QED BY <1>1, <1>2, <1>3, <1>4, <1>5, <1>6, <1>7, <1>8, <1>9, <1>10, <1>11, <1>12, <1>13,
       <1>14, <1>15, <1>16, <1>17, <1>18, <1>19, <1>20, <1>21, <1>22, <1>23, <1>24 DEF Next,
       Publish, Edit, Regenerate, Approve, Revoke

(* The gate is reached from the read of the evidence alone. *)
LEMMA StepEnters ==
  ASSUME Known, [Next]_vars, NEW x \in Callers, pc'[x] = "pub_decide"
  PROVE  Stays(x) \/ PublishEvidence(x)
<1> DEFINE Goal == Stays(x) \/ PublishEvidence(x)
<1> SUFFICES Goal
  OBVIOUS
<1> USE DEF Known
<1>1. ASSUME NEW c \in Callers, NEW k \in Keys, NEW q \in Requests, PublishBegin(c, k, q)
      PROVE  Goal
  BY <1>1 DEF PublishBegin, Goto, Done, Locals, Stays
<1>2. ASSUME NEW c \in Callers, PublishArticle(c) PROVE Goal
  BY <1>2 DEF PublishArticle, Goto, Done, Locals, Stays
<1>3. ASSUME NEW c \in Callers, PublishEvidence(c) PROVE Goal
  <2>1. CASE Done(c)
    BY <1>3, <2>1 DEF PublishEvidence, Goto, Done, Locals, Stays
  <2>2. CASE Goto(c, "pub_decide") /\ UNCHANGED <<at, key, seen, reply, todo>>
    BY <1>3, <2>2 DEF PublishEvidence, Goto, Done, Locals, Stays
  <2>3. QED BY <1>3, <2>1, <2>2 DEF PublishEvidence
<1>4. ASSUME NEW c \in Callers, Refuse(c) PROVE Goal
  BY <1>4 DEF Refuse, Goto, Done, Locals, Stays
<1>5. ASSUME NEW c \in Callers, DryRun(c) PROVE Goal
  BY <1>5 DEF DryRun, Goto, Done, Locals, Stays
<1>6. ASSUME NEW c \in Callers, NEW f \in BOOLEAN, Create(c, f) PROVE Goal
  BY <1>6 DEF Create, Goto, Done, Locals, Stays
<1>7. ASSUME NEW c \in Callers, Settle(c) PROVE Goal
  BY <1>7 DEF Settle, Goto, Done, Locals, Stays
<1>8. ASSUME NEW c \in Callers, Record(c) PROVE Goal
  BY <1>8 DEF Record, Goto, Done, Locals, Stays
<1>9. ASSUME NEW c \in Callers, NEW a \in Articles, EditBegin(c, a) PROVE Goal
  BY <1>9 DEF EditBegin, Goto, Done, Locals, Stays
<1>10. ASSUME NEW c \in Callers, EditRevoke(c) PROVE Goal
  BY <1>10 DEF EditRevoke, Goto, Done, Locals, Stays
<1>11. ASSUME NEW c \in Callers, EditInsert(c) PROVE Goal
  BY <1>11 DEF EditInsert, Goto, Done, Locals, Stays
<1>12. ASSUME NEW c \in Callers, NEW a \in Articles, GenerateBegin(c, a) PROVE Goal
  BY <1>12 DEF GenerateBegin, Goto, Done, Locals, Stays
<1>13. ASSUME NEW c \in Callers, Generate(c) PROVE Goal
  BY <1>13 DEF Generate, Goto, Done, Locals, Stays
<1>14. ASSUME NEW c \in Callers, NEW a \in Articles, ApproveBegin(c, a) PROVE Goal
  BY <1>14 DEF ApproveBegin, Goto, Done, Locals, Stays
<1>15. ASSUME NEW c \in Callers, ApproveCheck(c) PROVE Goal
  <2>1. CASE Done(c)
    BY <1>15, <2>1 DEF ApproveCheck, Goto, Done, Locals, Stays
  <2>2. CASE Goto(c, "approve_insert") /\ UNCHANGED <<at, key, seen, reply, todo>>
    BY <1>15, <2>2 DEF ApproveCheck, Goto, Done, Locals, Stays
  <2>3. QED BY <1>15, <2>1, <2>2 DEF ApproveCheck
<1>16. ASSUME NEW c \in Callers, ApproveInsert(c) PROVE Goal
  BY <1>16 DEF ApproveInsert, Goto, Done, Locals, Stays
<1>17. ASSUME NEW c \in Callers, NEW b \in Bundles, RevokeMark(c, b) PROVE Goal
  BY <1>17 DEF RevokeMark, Goto, Done, Locals, Stays
<1>18. ASSUME NEW c \in Callers, RevokeSelect(c) PROVE Goal
  BY <1>18 DEF RevokeSelect, Goto, Done, Locals, Stays
<1>19. ASSUME NEW c \in Callers, NEW i \in 1..MaxApprovals, RevokeUpdate(c, i) PROVE Goal
  BY <1>19 DEF RevokeUpdate, Goto, Done, Locals, Stays
<1>20. ASSUME NEW c \in Callers, RevokeReturn(c) PROVE Goal
  BY <1>20 DEF RevokeReturn, Goto, Done, Locals, Stays
<1>21. ASSUME NEW k \in Keys, PublishReplay(k) PROVE Goal
  BY <1>21 DEF PublishReplay, Goto, Done, Locals, Stays
<1>22. ASSUME NEW k \in Keys, Reconcile(k) PROVE Goal
  BY <1>22 DEF Reconcile, Goto, Done, Locals, Stays
<1>23. CASE Restart
  BY <1>23 DEF Restart, Goto, Done, Locals, Stays
<1>24. CASE UNCHANGED vars
  BY <1>24 DEF vars, Stays
<1>25. QED BY <1>1, <1>2, <1>3, <1>4, <1>5, <1>6, <1>7, <1>8, <1>9, <1>10, <1>11, <1>12, <1>13,
       <1>14, <1>15, <1>16, <1>17, <1>18, <1>19, <1>20, <1>21, <1>22, <1>23, <1>24 DEF Next,
       Publish, Edit, Regenerate, Approve, Revoke

(* And left for the CMS through the gate. *)
LEMMA StepPasses ==
  ASSUME Known, [Next]_vars, NEW x \in Callers, pc[x] = "pub_decide", pc'[x] \in InFlight
  PROVE  GatePasses(x)
<1> USE DEF Known
<1>1. ASSUME NEW c \in Callers, NEW k \in Keys, NEW q \in Requests, PublishBegin(c, k, q)
      PROVE  GatePasses(x)
  BY <1>1 DEF PublishBegin, Goto, Done, Locals, InFlight
<1>2. ASSUME NEW c \in Callers, PublishArticle(c) PROVE GatePasses(x)
  BY <1>2 DEF PublishArticle, Goto, Done, Locals, InFlight
<1>3. ASSUME NEW c \in Callers, PublishEvidence(c) PROVE GatePasses(x)
  <2>1. CASE Done(c)
    BY <1>3, <2>1 DEF PublishEvidence, Goto, Done, Locals, InFlight
  <2>2. CASE Goto(c, "pub_decide") /\ UNCHANGED <<at, key, seen, reply, todo>>
    BY <1>3, <2>2 DEF PublishEvidence, Goto, Done, Locals, InFlight
  <2>3. QED BY <1>3, <2>1, <2>2 DEF PublishEvidence
<1>4. ASSUME NEW c \in Callers, Refuse(c) PROVE GatePasses(x)
  BY <1>4 DEF Refuse, Goto, Done, Locals, InFlight
<1>5. ASSUME NEW c \in Callers, DryRun(c) PROVE GatePasses(x)
  BY <1>5 DEF DryRun, Goto, Done, Locals, InFlight
<1>6. ASSUME NEW c \in Callers, NEW f \in BOOLEAN, Create(c, f) PROVE GatePasses(x)
  BY <1>6 DEF Create, Goto, Done, Locals, InFlight
<1>7. ASSUME NEW c \in Callers, Settle(c) PROVE GatePasses(x)
  BY <1>7 DEF Settle, Goto, Done, Locals, InFlight
<1>8. ASSUME NEW c \in Callers, Record(c) PROVE GatePasses(x)
  BY <1>8 DEF Record, Goto, Done, Locals, InFlight
<1>9. ASSUME NEW c \in Callers, NEW a \in Articles, EditBegin(c, a) PROVE GatePasses(x)
  BY <1>9 DEF EditBegin, Goto, Done, Locals, InFlight
<1>10. ASSUME NEW c \in Callers, EditRevoke(c) PROVE GatePasses(x)
  BY <1>10 DEF EditRevoke, Goto, Done, Locals, InFlight
<1>11. ASSUME NEW c \in Callers, EditInsert(c) PROVE GatePasses(x)
  BY <1>11 DEF EditInsert, Goto, Done, Locals, InFlight
<1>12. ASSUME NEW c \in Callers, NEW a \in Articles, GenerateBegin(c, a) PROVE GatePasses(x)
  BY <1>12 DEF GenerateBegin, Goto, Done, Locals, InFlight
<1>13. ASSUME NEW c \in Callers, Generate(c) PROVE GatePasses(x)
  BY <1>13 DEF Generate, Goto, Done, Locals, InFlight
<1>14. ASSUME NEW c \in Callers, NEW a \in Articles, ApproveBegin(c, a) PROVE GatePasses(x)
  BY <1>14 DEF ApproveBegin, Goto, Done, Locals, InFlight
<1>15. ASSUME NEW c \in Callers, ApproveCheck(c) PROVE GatePasses(x)
  <2>1. CASE Done(c)
    BY <1>15, <2>1 DEF ApproveCheck, Goto, Done, Locals, InFlight
  <2>2. CASE Goto(c, "approve_insert") /\ UNCHANGED <<at, key, seen, reply, todo>>
    BY <1>15, <2>2 DEF ApproveCheck, Goto, Done, Locals, InFlight
  <2>3. QED BY <1>15, <2>1, <2>2 DEF ApproveCheck
<1>16. ASSUME NEW c \in Callers, ApproveInsert(c) PROVE GatePasses(x)
  BY <1>16 DEF ApproveInsert, Goto, Done, Locals, InFlight
<1>17. ASSUME NEW c \in Callers, NEW b \in Bundles, RevokeMark(c, b) PROVE GatePasses(x)
  BY <1>17 DEF RevokeMark, Goto, Done, Locals, InFlight
<1>18. ASSUME NEW c \in Callers, RevokeSelect(c) PROVE GatePasses(x)
  BY <1>18 DEF RevokeSelect, Goto, Done, Locals, InFlight
<1>19. ASSUME NEW c \in Callers, NEW i \in 1..MaxApprovals, RevokeUpdate(c, i) PROVE GatePasses(x)
  BY <1>19 DEF RevokeUpdate, Goto, Done, Locals, InFlight
<1>20. ASSUME NEW c \in Callers, RevokeReturn(c) PROVE GatePasses(x)
  BY <1>20 DEF RevokeReturn, Goto, Done, Locals, InFlight
<1>21. ASSUME NEW k \in Keys, PublishReplay(k) PROVE GatePasses(x)
  BY <1>21 DEF PublishReplay, Goto, Done, Locals, InFlight
<1>22. ASSUME NEW k \in Keys, Reconcile(k) PROVE GatePasses(x)
  BY <1>22 DEF Reconcile, Goto, Done, Locals, InFlight
<1>23. CASE Restart
  BY <1>23 DEF Restart, Goto, Done, Locals, InFlight
<1>24. CASE UNCHANGED vars
  BY <1>24 DEF vars, InFlight
<1>25. QED BY <1>1, <1>2, <1>3, <1>4, <1>5, <1>6, <1>7, <1>8, <1>9, <1>10, <1>11, <1>12, <1>13,
       <1>14, <1>15, <1>16, <1>17, <1>18, <1>19, <1>20, <1>21, <1>22, <1>23, <1>24 DEF Next,
       Publish, Edit, Regenerate, Approve, Revoke

LEMMA HeldStep ==
  ASSUME Known, \A c \in Callers : Held(c), [Next]_vars, NEW c \in Callers PROVE Held(c)'
<1>i. PICK i : i = admitted[key[c]].approval
  OBVIOUS
<1>b. PICK b : b = SeenBundle(c)
  OBVIOUS
<1>0. Grown /\ Lasting /\ Admits
  BY StepGrows, StepApproved, StepAdmits DEF Approved
<1>1. CASE pc'[c] # "pub_decide"
  BY <1>1 DEF Held
<1>2. CASE Stays(c) /\ pc'[c] = "pub_decide"
  <2>1. /\ pc[c] = "pub_decide" /\ i \in DOMAIN approvals /\ admitted'[key'[c]].approval = i
        /\ SeenBundle(c)' = b /\ approvals'[i].bundle = approvals[i].bundle
    BY <1>0, <1>2, <1>i, <1>b, SameMatter DEF Stays
  <2> SUFFICES ASSUME approvals[i].bundle = b
               PROVE  /\ b \in withdrawn' => Dead(i)'
                      /\ \A x \in Callers : pc'[x] = "revoke_update" /\ at'[x] = b
                           => i \in todo'[x] \/ Dead(i)'
    BY <2>1 DEF Held
  <2>2. /\ b \in withdrawn => Dead(i)
        /\ \A x \in Callers : pc[x] = "revoke_update" /\ at[x] = b => i \in todo[x] \/ Dead(i)
    BY <2>1, <1>i, <1>b DEF Held
  <2>3. Dead(i) => Dead(i)'
    BY <1>0, <2>1 DEF Lasting
  <2>4. CASE Settled
    BY <2>1, <2>2, <2>3, <2>4 DEF Settled
  <2>5. ASSUME NEW y \in Callers, RevokeSelect(y)
        PROVE  /\ b \in withdrawn' => Dead(i)'
               /\ \A x \in Callers : pc'[x] = "revoke_update" /\ at'[x] = b
                    => i \in todo'[x] \/ Dead(i)'
    <3>1. /\ todo' = [todo EXCEPT ![y] = {j \in DOMAIN approvals :
                         approvals[j].bundle = at[y] /\ approvals[j].column = "APPROVED"}]
          /\ pc' = [pc EXCEPT ![y] = "revoke_update"] /\ at' = at /\ withdrawn' = withdrawn
      BY <2>5 DEF RevokeSelect, Goto
    <3>2. approvals[i].column = "APPROVED" \/ Dead(i)
      <4>1. approvals[i] \in ApprovalRows /\ Sound(i)
        BY <2>1 DEF Known, Tables, Rows
      <4>2. QED BY <4>1 DEF ApprovalRows, Sound
    <3>3. at[y] = b => i \in todo'[y] \/ Dead(i)
      BY <2>1, <3>1, <3>2 DEF Known, Locals
    <3>4. ASSUME NEW x \in Callers, x # y, pc'[x] = "revoke_update", at'[x] = b
          PROVE  i \in todo'[x] \/ Dead(i)
      BY <2>2, <3>1, <3>4 DEF Known, Locals
    <3>5. QED BY <2>2, <2>3, <3>1, <3>3, <3>4
  <2>6. ASSUME NEW y \in Callers, RevokeReturn(y)
        PROVE  /\ b \in withdrawn' => Dead(i)'
               /\ \A x \in Callers : pc'[x] = "revoke_update" /\ at'[x] = b
                    => i \in todo'[x] \/ Dead(i)'
    <3>1. /\ pc[y] = "revoke_update" /\ todo[y] = {} /\ withdrawn' = withdrawn \cup {at[y]}
          /\ pc' = [pc EXCEPT ![y] = "idle"] /\ at' = [at EXCEPT ![y] = Nothing] /\ todo' = todo
      BY <2>6 DEF RevokeReturn, Done
    <3>2. b = at[y] => Dead(i)
      BY <2>2, <3>1
    <3>3. ASSUME NEW x \in Callers, pc'[x] = "revoke_update", at'[x] = b
          PROVE  i \in todo'[x] \/ Dead(i)
      BY <2>2, <3>1, <3>3 DEF Known, Locals
    <3>4. QED BY <2>2, <2>3, <3>1, <3>2, <3>3
  <2>7. QED BY <2>4, <2>5, <2>6, StepSettled
<1>3. CASE PublishEvidence(c) /\ pc'[c] = "pub_decide"
  <2>1. /\ b \notin revoked /\ pc' = [pc EXCEPT ![c] = "pub_decide"]
        /\ UNCHANGED <<articles, approvals, admitted, withdrawn, edited, at, key, seen, todo>>
    BY <1>3, <1>b DEF PublishEvidence, Done, Goto, Known, Locals
  <2>2. b \notin withdrawn
    BY <2>1 DEF Known, Tables
  <2>3. ASSUME NEW x \in Callers, pc'[x] = "revoke_update", at[x] = b PROVE FALSE
    <3>1. pc[x] = "revoke_update"
      BY <2>1, <2>3 DEF Known, Locals
    <3>2. at[x] \in revoked
      BY <3>1 DEF Known, Knows, Revoking
    <3>3. QED BY <2>1, <2>3, <3>2
  <2>4. SeenBundle(c)' = b
    BY <2>1, <1>b DEF SeenBundle
  <2>5. QED BY <2>1, <2>2, <2>3, <2>4 DEF Held
<1>4. QED BY <1>1, <1>2, <1>3, StepEnters

(* After revokeEvidence has answered, no publication passes the gate with that evidence,
   but by an approval whose column an edit had revoked. *)
THEOREM RevocationsBlock == Spec => RevocationBlocks
<1> DEFINE I == Known /\ \A c \in Callers : Held(c)
<1>1. Init => I
  <2>1. Init => \A c \in Callers : Held(c)
    BY DEF Init, Held
  <2>2. QED BY <2>1, InitKnown
<1>2. I /\ [Next]_vars => I'
  BY KnownStep, HeldStep
<1>3. I /\ [Next]_vars =>
        [\A c \in Callers :
           pc[c] = "pub_decide" /\ pc'[c] \in InFlight /\ SeenBundle(c) \in withdrawn
           => admitted[key[c]].approval \in edited]_vars
  <2> SUFFICES ASSUME I, [Next]_vars, NEW c \in Callers, pc[c] = "pub_decide",
                      pc'[c] \in InFlight, SeenBundle(c) \in withdrawn
               PROVE  admitted[key[c]].approval \in edited
    OBVIOUS
  <2> DEFINE q == admitted[key[c]]
             i == q.approval
  <2>1. GatePasses(c)
    BY StepPasses
  <2>2. /\ key[c] \in Keys /\ q # Nothing /\ q.article = at[c]
    BY DEF Known, Knows, Publishing
  <2>3. /\ q.rev = seen[c] /\ approvals[i].article = at[c] /\ approvals[i].rev = seen[c]
        /\ approvals[i].body = "APPROVED"
    BY <2>1, <2>2 DEF GatePasses
  <2>4. i \in DOMAIN approvals
    <3>1. i \in 1..MaxApprovals /\ i <= Len(approvals)
      BY <2>2 DEF Known, Tables, Requests, Rows
    <3>2. QED BY <3>1, BoundsAssumption DEF Known, Tables
  <2>5. approvals[i].bundle = SeenBundle(c)
    BY <2>3, <2>4 DEF Known, Rows, Sound, SeenBundle
  <2>6. Dead(i)
    BY <2>5 DEF Held
  <2>7. QED BY <2>3, <2>6 DEF Dead
<1> HIDE DEF I
<1>4. QED BY <1>1, <1>2, <1>3, PTL DEF Spec, RevocationBlocks

-----------------------------------------------------------------------------
(* The lab of vendor6.  A thread publishes under the approval in its hand, which was granted
   for what it carries; what it read of the ledger may be stale, but the ledger only grows,
   and so what it relies on is still there. *)

Calls ==
  [key : Lab!Revisions, payload : {"article", "other"}, copy : Works \cup {Nil},
   op : {"complete", "cancel", "bump"}, result : Results]
Places ==
  {"idle", "draft", "approve", "admit", "charge", "publish", "effect", "receipt", "read",
   "put", "done"}

(* Types of the ledger, and of what each thread carries. *)
LedgerTypes ==
  /\ claim \in Lab!Statuses
  /\ article \in Contents \cup {Nil}
  /\ labApprovals \in [Lab!Revisions -> Granted \cup {Nil}]
  /\ jobs \in [Lab!Revisions -> Works \cup {Nil}]
  /\ spent \in 0..BudgetCap /\ uncharged \in Nat
  /\ effects \in [Lab!Requests -> Contents \cup {Nil, Drift}]
  /\ labReceipts \in [Lab!Revisions -> Delivered \cup {Nil}]

CarriedTypes ==
  /\ labAt \in [Threads -> Places]
  /\ snap \in [Threads -> Lab!Statuses]
  /\ hand \in [Threads -> Contents \cup {Nil}]
  /\ leave \in [Threads -> Leaves \cup {Nil}]
  /\ dest \in [Threads -> Ways \cup {Nil}]
  /\ job \in [Threads -> Calls]

(* What is stored was drafted on eligible evidence, and an approval was granted. *)
Stored ==
  /\ article # Nil => article.snap = "ELIGIBLE"
  /\ \A r \in Lab!Revisions :
       labApprovals[r] # Nil
         => [content |-> labApprovals[r].content, dest |-> labApprovals[r].dest] \in granted

(* What a thread carries at its step. *)
HasInHand(t) ==
  /\ hand[t] # Nil => hand[t].snap = "ELIGIBLE" /\ article # Nil /\ dest[t] # Nil
  /\ leave[t] # Nil => leave[t] \in granted
  /\ labAt[t] = "idle" => hand[t] = Nil
  /\ labAt[t] = "draft" => dest[t] # Nil
  /\ labAt[t] \in {"approve", "publish", "effect", "receipt", "done"} => hand[t] # Nil
  /\ labAt[t] \in {"effect", "receipt"} => leave[t] = [content |-> hand[t], dest |-> dest[t].to]
  /\ labAt[t] = "receipt" => effects[<<dest[t].to, hand[t].rev>>] # Nil
  /\ labAt[t] \in {"publish", "effect", "receipt", "read", "put"} => jobs[job[t].key] # Nil
  /\ labAt[t] = "put" => job[t].copy # Nil

LabInv ==
  /\ LedgerTypes /\ CarriedTypes /\ Stored /\ Lab!EffectsApproved
  /\ \A t \in Threads : HasInHand(t)

LEMMA LabNulls ==
  /\ Nil # Drift /\ BudgetCap \in Nat /\ MaxRevision \in Nat \ {0}
  /\ Nil \notin Contents /\ Nil \notin Leaves /\ Nil \notin Granted
  /\ Nil \notin Delivered /\ Nil \notin Ways /\ Nil \notin Works
  /\ Drift \notin Contents
BY LabAssumption, BoundsAssumption

LEMMA LabInitInv == Lab!LabInit => LabInv
<1> SUFFICES ASSUME Lab!LabInit PROVE LabInv
  OBVIOUS
<1>1. Lab!NoWork \in Calls /\ 1 \in Lab!Revisions
  BY LabNulls DEF Lab!NoWork, Calls, Lab!Revisions, Results
<1>2. LedgerTypes
  BY LabNulls, <1>1 DEF LedgerTypes, Lab!LabInit, Lab!Statuses
<1>3. CarriedTypes
  <2>1. labAt \in [Threads -> Places] /\ snap \in [Threads -> Lab!Statuses]
    BY DEF Lab!LabInit, Places, Lab!Statuses
  <2>2. hand \in [Threads -> Contents \cup {Nil}] /\ leave \in [Threads -> Leaves \cup {Nil}]
        /\ dest \in [Threads -> Ways \cup {Nil}]
    BY DEF Lab!LabInit
  <2>3. job \in [Threads -> Calls]
    BY <1>1 DEF Lab!LabInit
  <2>4. QED BY <2>1, <2>2, <2>3 DEF CarriedTypes
<1>4. Stored /\ Lab!EffectsApproved
  BY DEF Stored, Lab!EffectsApproved, Lab!LabInit
<1>5. \A t \in Threads : HasInHand(t)
  BY DEF HasInHand, Lab!LabInit
<1>6. QED BY <1>2, <1>3, <1>4, <1>5 DEF LabInv

(* What the ledger has, it keeps. *)
Grows ==
  /\ article # Nil => article' # Nil
  /\ granted \subseteq granted'
  /\ \A q \in Lab!Requests : effects[q] # Nil => effects'[q] # Nil
  /\ \A r \in Lab!Revisions : jobs[r] # Nil => jobs'[r] # Nil

SameHands(q) ==
  /\ labAt'[q] = labAt[q] /\ hand'[q] = hand[q] /\ leave'[q] = leave[q]
  /\ dest'[q] = dest[q] /\ job'[q] = job[q]

(* What another thread carries is not touched by a step that keeps the ledger. *)
LEMMA CarriesOn ==
  ASSUME NEW q \in Threads, LedgerTypes, CarriedTypes, HasInHand(q), Grows, SameHands(q)
  PROVE  HasInHand(q)'
<1>1. labAt[q] = "receipt" => <<dest[q].to, hand[q].rev>> \in Lab!Requests
  BY LabNulls DEF HasInHand, CarriedTypes, Ways, Contents, Lab!Requests
<1>2. job[q].key \in Lab!Revisions
  BY DEF CarriedTypes, Calls
<1>3. QED BY <1>1, <1>2 DEF HasInHand, Grows, SameHands

(* A thread that is given up carries nothing. *)
LEMMA ReturnCarries ==
  ASSUME NEW t \in Threads, CarriedTypes, Lab!Return(t)
  PROVE  CarriedTypes' /\ HasInHand(t)' /\ \A q \in Threads \ {t} : SameHands(q)
<1>1. Lab!NoWork \in Calls
  BY LabNulls DEF Lab!NoWork, Calls, Lab!Revisions, Results
<1>2. CarriedTypes'
  <2>1. labAt' \in [Threads -> Places] /\ snap' \in [Threads -> Lab!Statuses]
    BY DEF CarriedTypes, Lab!Return, Lab!Move, Places, Lab!Statuses
  <2>2. hand' \in [Threads -> Contents \cup {Nil}] /\ leave' \in [Threads -> Leaves \cup {Nil}]
        /\ dest' \in [Threads -> Ways \cup {Nil}]
    BY DEF CarriedTypes, Lab!Return
  <2>3. job' \in [Threads -> Calls]
    BY <1>1 DEF CarriedTypes, Lab!Return
  <2>4. QED BY <2>1, <2>2, <2>3 DEF CarriedTypes
<1>3. HasInHand(t)'
  BY DEF HasInHand, CarriedTypes, Lab!Return, Lab!Move
<1>4. QED BY <1>2, <1>3 DEF SameHands, CarriedTypes, Lab!Return, Lab!Move

LEMMA LabSame ==
  ASSUME LabInv, UNCHANGED <<claim, article, labApprovals, jobs, spent, effects, labReceipts, granted, uncharged>>
  PROVE  LedgerTypes' /\ Stored' /\ Lab!EffectsApproved' /\ Grows
<1>1. LedgerTypes'
  BY DEF LabInv, LedgerTypes
<1>2. Stored'
  BY DEF LabInv, Stored
<1>3. Lab!EffectsApproved'
  BY DEF LabInv, Lab!EffectsApproved
<1>4. QED BY <1>1, <1>2, <1>3 DEF Grows

LEMMA LabTogether ==
  ASSUME NEW t \in Threads, LabInv, LedgerTypes', CarriedTypes', Stored', Lab!EffectsApproved',
         Grows, HasInHand(t)', \A q \in Threads \ {t} : SameHands(q)
  PROVE  LabInv'
BY CarriesOn DEF LabInv

LEMMA ReturnKeeps ==
  ASSUME NEW t \in Threads, LabInv, Lab!Return(t),
         UNCHANGED <<claim, article, labApprovals, jobs, spent, effects, labReceipts, granted, uncharged>>
  PROVE  LabInv'
BY LabSame, ReturnCarries, LabTogether DEF LabInv

LEMMA QueryKeeps == ASSUME NEW t \in Threads, LabInv, Lab!Query(t) PROVE LabInv'
<1> USE DEF Lab!Query, Lab!Move, Lab!ledger, LabInv
<1>1. CarriedTypes'
  <2>1. PICK d \in Destinations, m \in {"DRY_RUN", "STAGING_DRAFT"} :
          dest' = [dest EXCEPT ![t] = [to |-> d, mode |-> m]]
    OBVIOUS
  <2>2. [to |-> d, mode |-> m] \in Ways
    BY DEF Ways
  <2>3. dest' \in [Threads -> Ways \cup {Nil}]
    BY <2>1, <2>2 DEF CarriedTypes
  <2>4. labAt' \in [Threads -> Places] /\ snap' \in [Threads -> Lab!Statuses]
    BY DEF CarriedTypes, LedgerTypes, Places
  <2>5. QED BY <2>3, <2>4 DEF CarriedTypes
<1>2. HasInHand(t)'
  <2>1. dest'[t] # Nil
    BY LabNulls DEF CarriedTypes, Ways
  <2>2. labAt'[t] = "draft" /\ hand'[t] = hand[t] /\ leave'[t] = leave[t] /\ hand[t] = Nil
    BY DEF CarriedTypes, HasInHand
  <2>3. QED BY <2>1, <2>2 DEF HasInHand
<1>3. \A q \in Threads \ {t} : SameHands(q)
  BY DEF SameHands, CarriedTypes
<1>4. QED BY <1>1, <1>2, <1>3, LabSame, LabTogether

LEMMA DraftKeeps == ASSUME NEW t \in Threads, LabInv, Lab!Draft(t) PROVE LabInv'
<1> USE DEF Lab!Draft, Lab!Move, LabInv
<1> DEFINE c == [rev |-> 1, snap |-> snap[t], title |-> "draft"]
<1>1. c \in Contents /\ c # Nil /\ c.snap = "ELIGIBLE" /\ article' = c /\ hand' = [hand EXCEPT ![t] = c]
  BY LabNulls DEF Contents, Lab!Revisions, CarriedTypes, Lab!MayDraft
<1> HIDE DEF c
<1>2. LedgerTypes' /\ Stored' /\ Grows
  BY <1>1 DEF LedgerTypes, Stored, Grows
<1>3. Lab!EffectsApproved'
  BY DEF Lab!EffectsApproved
<1>4. CarriedTypes'
  BY <1>1 DEF CarriedTypes, Places
<1>5. HasInHand(t)'
  <2>1. hand'[t] = c /\ labAt'[t] = "approve" /\ leave'[t] = leave[t] /\ dest'[t] = dest[t] /\ dest[t] # Nil
    BY <1>1 DEF CarriedTypes, HasInHand
  <2>2. QED BY <1>1, <2>1 DEF HasInHand
<1>6. \A q \in Threads \ {t} : SameHands(q)
  BY DEF SameHands, CarriedTypes
<1>7. QED BY <1>2, <1>3, <1>4, <1>5, <1>6, LabTogether

LEMMA ApproveKeeps == ASSUME NEW t \in Threads, LabInv, Lab!Approve(t) PROVE LabInv'
<1> USE DEF Lab!Approve, Lab!Move, LabInv
<1> DEFINE rec == [content |-> hand[t], dest |-> dest[t].to]
           row == [content |-> hand[t], dest |-> dest[t].to, decision |-> "APPROVED", live |-> TRUE]
           j == [Lab!NoWork EXCEPT !.key = hand[t].rev]
           r == hand[t].rev
<1>1. hand[t] \in Contents /\ dest[t] \in Ways
  BY DEF CarriedTypes, HasInHand
<1>2. r \in Lab!Revisions /\ rec \in Leaves /\ row \in Granted /\ rec = [content |-> row.content, dest |-> row.dest]
  BY <1>1 DEF Contents, Ways, Leaves, Granted
<1>3. j \in Calls
  BY <1>2 DEF Calls, Lab!NoWork, Results
<1>4. /\ leave' = [leave EXCEPT ![t] = rec] /\ granted' = granted \cup {rec}
      /\ labApprovals' = [labApprovals EXCEPT ![r] = row] /\ job' = [job EXCEPT ![t] = j]
  OBVIOUS
<1> HIDE DEF rec, row, j, r
<1>5. LedgerTypes' /\ Grows
  <2>1. labApprovals' \in [Lab!Revisions -> Granted \cup {Nil}]
    BY <1>2, <1>4 DEF LedgerTypes
  <2>2. UNCHANGED <<claim, article, jobs, spent, effects, labReceipts, uncharged>>
    OBVIOUS
  <2>3. QED BY <1>4, <2>1, <2>2 DEF LedgerTypes, Grows
<1>6. Stored'
  BY <1>2, <1>4 DEF LedgerTypes, Stored
<1>7. Lab!EffectsApproved'
  BY <1>4 DEF Lab!EffectsApproved
<1>8. CarriedTypes'
  BY <1>2, <1>3, <1>4 DEF CarriedTypes, Places
<1>9. HasInHand(t)'
  <2>1. /\ labAt'[t] = "admit" /\ hand'[t] = hand[t] /\ dest'[t] = dest[t] /\ leave'[t] = rec
        /\ article' = article
    BY <1>4 DEF CarriedTypes
  <2>2. QED BY <1>4, <2>1 DEF HasInHand
<1>10. \A q \in Threads \ {t} : SameHands(q)
  BY <1>4 DEF SameHands, CarriedTypes
<1>11. QED BY <1>5, <1>6, <1>7, <1>8, <1>9, <1>10, LabTogether

(* What follows an admission: the chain goes on to publish, a caller's own job is done. *)
LEMMA AdmittedKeeps ==
  ASSUME NEW t \in Threads, LabInv, Lab!Admitted(t), LedgerTypes', Stored', Lab!EffectsApproved', Grows,
         article' = article, granted' = granted, jobs'[job[t].key] # Nil
  PROVE  LabInv'
<1>1. CASE ~ Lab!InChain(t)
  <2>1. Lab!Return(t)
    BY <1>1 DEF Lab!Admitted
  <2>2. QED BY <2>1, ReturnCarries, LabTogether DEF LabInv
<1>2. CASE Lab!InChain(t)
  <2>1. /\ labAt' = [labAt EXCEPT ![t] = "publish"]
        /\ UNCHANGED <<snap, hand, leave, dest, job>>
    BY <1>2 DEF Lab!Admitted, Lab!Move, Lab!carried
  <2>2. CarriedTypes' /\ labAt'[t] = "publish" /\ \A q \in Threads \ {t} : SameHands(q)
    BY <2>1 DEF LabInv, CarriedTypes, Places, SameHands
  <2>3. HasInHand(t)'
    BY <1>2, <2>1, <2>2 DEF LabInv, HasInHand, Lab!InChain
  <2>4. QED BY <2>2, <2>3, LabTogether
<1>3. QED BY <1>1, <1>2

LEMMA AdmitLookKeeps == ASSUME NEW t \in Threads, LabInv, Lab!AdmitLook(t) PROVE LabInv'
<1>1. /\ labAt[t] = "admit"
      /\ UNCHANGED <<claim, article, labApprovals, jobs, spent, effects, labReceipts, granted, uncharged>>
  BY DEF Lab!AdmitLook, Lab!ledger
<1>2. CASE jobs[job[t].key] = Nil
  <2>1. labAt' = [labAt EXCEPT ![t] = "charge"] /\ UNCHANGED <<snap, hand, leave, dest, job>>
    BY <1>2 DEF Lab!AdmitLook, Lab!Move, Lab!carried
  <2>2. CarriedTypes' /\ labAt'[t] = "charge" /\ \A q \in Threads \ {t} : SameHands(q)
    BY <2>1 DEF LabInv, CarriedTypes, Places, SameHands
  <2>3. HasInHand(t)'
    BY <1>1, <2>1, <2>2 DEF LabInv, HasInHand
  <2>4. QED BY <1>1, <2>2, <2>3, LabSame, LabTogether
<1>3. CASE jobs[job[t].key] # Nil /\ Lab!Admitted(t)
  BY <1>1, <1>3, LabSame, AdmittedKeeps
<1>4. CASE Lab!Return(t)
  BY <1>1, <1>4, ReturnKeeps
<1>5. QED BY <1>2, <1>3, <1>4 DEF Lab!AdmitLook

LEMMA NewJobType ==
  ASSUME NEW p \in {"article", "other"} PROVE Lab!NewJob(p) \in Works /\ Lab!NewJob(p) # Nil
<1>1. Lab!NewJob(p) \in Works
  BY DEF Lab!NewJob, Works, Results
<1>2. QED BY <1>1, LabNulls

LEMMA AdmitChargeKeeps == ASSUME NEW t \in Threads, LabInv, Lab!AdmitCharge(t) PROVE LabInv'
<1>1. UNCHANGED <<claim, article, labApprovals, effects, labReceipts, granted, uncharged>>
  BY DEF Lab!AdmitCharge
<1>2. CASE Lab!WithinCap(spent)
  <2> DEFINE w == Lab!NewJob(job[t].payload)
             k == job[t].key
  <2>1. jobs' = [jobs EXCEPT ![k] = w] /\ spent' = spent + 1 /\ Lab!Admitted(t)
    BY <1>2 DEF Lab!AdmitCharge
  <2>2. k \in Lab!Revisions /\ job[t].payload \in {"article", "other"}
    BY DEF LabInv, CarriedTypes, Calls
  <2>3. w \in Works /\ w # Nil
    BY <2>2, NewJobType
  <2> HIDE DEF w, k
  <2>4. spent' \in 0..BudgetCap
    BY <1>2, <2>1, LabNulls DEF LabInv, LedgerTypes, Lab!WithinCap
  <2>5. jobs' \in [Lab!Revisions -> Works \cup {Nil}]
        /\ \A r \in Lab!Revisions : jobs[r] # Nil => jobs'[r] # Nil
    BY <2>1, <2>2, <2>3 DEF LabInv, LedgerTypes
  <2>6. LedgerTypes' /\ Stored' /\ Grows
    BY <1>1, <2>4, <2>5 DEF LabInv, LedgerTypes, Stored, Grows
  <2>7. Lab!EffectsApproved'
    BY <1>1 DEF LabInv, Lab!EffectsApproved
  <2>8. jobs'[k] # Nil
    BY <2>1, <2>2, <2>3 DEF LabInv, LedgerTypes
  <2>9. QED BY <1>1, <2>1, <2>6, <2>7, <2>8, AdmittedKeeps DEF k
<1>3. CASE ~ Lab!WithinCap(spent)
  BY <1>1, <1>3, ReturnKeeps DEF Lab!AdmitCharge
<1>4. QED BY <1>2, <1>3

LEMMA SubmitJobKeeps == ASSUME NEW t \in Threads, LabInv, Lab!SubmitJob(t) PROVE LabInv'
<1> USE DEF Lab!SubmitJob, Lab!Move, Lab!ledger, LabInv
<1>1. PICK k \in Lab!Revisions, p \in {"article", "other"} :
        job' = [job EXCEPT ![t] = [Lab!NoWork EXCEPT !.key = k, !.payload = p]]
  OBVIOUS
<1>2. [Lab!NoWork EXCEPT !.key = k, !.payload = p] \in Calls
  BY DEF Lab!NoWork, Calls, Results
<1>3. CarriedTypes' /\ \A q \in Threads \ {t} : SameHands(q)
  BY <1>1, <1>2 DEF CarriedTypes, Places, SameHands
<1>4. HasInHand(t)'
  <2>1. labAt'[t] = "admit" /\ hand'[t] = hand[t] /\ leave'[t] = leave[t] /\ dest'[t] = dest[t]
        /\ article' = article /\ granted' = granted
    BY DEF CarriedTypes
  <2>2. QED BY <2>1 DEF HasInHand
<1>5. QED BY <1>3, <1>4, LabSame, LabTogether
(* The delivery is over, and its job is completed next. *)
LEMMA CompletingKeeps ==
  ASSUME NEW t \in Threads, NEW result \in Results, LabInv, Lab!Completing(t, result), LedgerTypes',
         Stored', Lab!EffectsApproved', Grows, article' = article, granted' = granted,
         jobs' = jobs, jobs[job[t].key] # Nil
  PROVE  LabInv'
<1> DEFINE j == [job[t] EXCEPT !.op = "complete", !.result = result]
<1>1. j \in Calls /\ j.key = job[t].key
  BY DEF LabInv, CarriedTypes, Calls
<1>2. /\ job' = [job EXCEPT ![t] = j] /\ labAt' = [labAt EXCEPT ![t] = "read"]
      /\ UNCHANGED <<snap, hand, leave, dest>>
  BY DEF Lab!Completing, Lab!Move, LabInv, CarriedTypes
<1> HIDE DEF j
<1>3. CarriedTypes' /\ \A q \in Threads \ {t} : SameHands(q)
  BY <1>1, <1>2 DEF LabInv, CarriedTypes, Places, SameHands
<1>4. HasInHand(t)'
  <2>1. labAt'[t] = "read" /\ job'[t] = j
    BY <1>2 DEF LabInv, CarriedTypes
  <2>2. QED BY <1>1, <1>2, <2>1 DEF LabInv, HasInHand
<1>5. QED BY <1>3, <1>4, LabTogether

LEMMA PublishKeeps == ASSUME NEW t \in Threads, LabInv, Lab!Publish(t) PROVE LabInv'
<1> DEFINE to == dest[t].to
           found == effects[<<to, hand[t].rev>>]
<1>1. /\ labAt[t] = "publish" /\ jobs[job[t].key] # Nil
      /\ UNCHANGED <<claim, article, labApprovals, jobs, spent, effects, labReceipts, granted, uncharged>>
  BY DEF Lab!Publish, Lab!ledger, LabInv, HasInHand
<1>2. CASE Lab!Return(t)
  BY <1>1, <1>2, ReturnKeeps
<1>3. CASE \E result \in Results : Lab!Completing(t, result)
  BY <1>1, <1>3, LabSame, CompletingKeeps
<1>4. CASE Lab!CoversRequest(leave[t], hand[t], to) /\ found = Nil /\ Lab!Move(t, "effect") /\ Lab!carried' = Lab!carried
  <2>1. labAt' = [labAt EXCEPT ![t] = "effect"] /\ UNCHANGED <<snap, hand, leave, dest, job>>
    BY <1>4 DEF Lab!Move, Lab!carried
  <2>2. CarriedTypes' /\ labAt'[t] = "effect" /\ \A q \in Threads \ {t} : SameHands(q)
    BY <2>1 DEF LabInv, CarriedTypes, Places, SameHands
  <2>3. leave[t] = [content |-> hand[t], dest |-> to]
    <3>1. leave[t] \in Leaves
      BY <1>4 DEF LabInv, CarriedTypes, Lab!CoversRequest
    <3>2. QED BY <1>4, <3>1 DEF Lab!CoversRequest, Leaves
  <2>4. HasInHand(t)'
    BY <1>1, <2>1, <2>2, <2>3 DEF LabInv, HasInHand
  <2>5. QED BY <1>1, <2>2, <2>4, LabSame, LabTogether
<1>5. {"DRY_RUN", "UNKNOWN", "SCHEDULED"} \subseteq Results
  BY DEF Results
<1>6. QED BY <1>2, <1>3, <1>4, <1>5 DEF Lab!Publish

LEMMA PutEffectKeeps == ASSUME NEW t \in Threads, LabInv, Lab!PutEffect(t) PROVE LabInv'
<1> DEFINE q == <<dest[t].to, hand[t].rev>>
<1>1. /\ labAt[t] = "effect" /\ hand[t] \in Contents /\ dest[t] \in Ways /\ jobs[job[t].key] # Nil
      /\ leave[t] = [content |-> hand[t], dest |-> dest[t].to] /\ hand[t].snap = "ELIGIBLE"
      /\ UNCHANGED <<claim, article, labApprovals, jobs, spent, labReceipts, granted, uncharged>>
  BY DEF Lab!PutEffect, LabInv, HasInHand, CarriedTypes
<1>2. q \in Lab!Requests /\ q[1] = dest[t].to
  BY <1>1 DEF Contents, Ways, Lab!Requests
<1>3. [content |-> hand[t], dest |-> q[1]] \in granted
  <2>1. leave[t] # Nil
    <3>1. leave[t] \in Leaves
      BY <1>1 DEF Leaves, Ways
    <3>2. QED BY <3>1, LabNulls
  <2>2. QED BY <1>1, <1>2, <2>1 DEF LabInv, HasInHand
<1>4. PICK e \in {hand[t], Drift} : effects' = [effects EXCEPT ![q] = e]
  BY DEF Lab!PutEffect
<1>5. e # Nil /\ e \in Contents \cup {Drift} /\ (e # Drift => e = hand[t])
  BY <1>1, <1>4, LabNulls
<1> HIDE DEF q
<1>6. effects' \in [Lab!Requests -> Contents \cup {Nil, Drift}] /\ effects'[q] = e
      /\ \A o \in Lab!Requests \ {q} : effects'[o] = effects[o]
  BY <1>2, <1>4, <1>5 DEF LabInv, LedgerTypes
<1>7. LedgerTypes' /\ Stored' /\ Grows
  <2>1. LedgerTypes'
    BY <1>1, <1>6 DEF LabInv, LedgerTypes
  <2>2. Stored'
    BY <1>1 DEF LabInv, Stored
  <2>3. QED BY <1>1, <1>5, <1>6, <2>1, <2>2 DEF LabInv, Grows
<1>8. Lab!EffectsApproved'
  <2>1. ASSUME NEW o \in Lab!Requests, effects'[o] \notin {Nil, Drift}
        PROVE  [content |-> effects'[o], dest |-> o[1]] \in granted /\ effects'[o].snap = "ELIGIBLE"
    BY <1>1, <1>3, <1>5, <1>6, <2>1 DEF LabInv, Lab!EffectsApproved
  <2>2. ASSUME NEW r \in Lab!Revisions, labReceipts[r] # Nil
        PROVE  /\ effects'[<<labReceipts[r].dest, r>>] # Nil
               /\ [content |-> labReceipts[r].content, dest |-> labReceipts[r].dest] \in granted
    <3>1. <<labReceipts[r].dest, r>> \in Lab!Requests
      BY <2>2 DEF LabInv, LedgerTypes, Delivered, Lab!Requests
    <3>2. QED BY <1>5, <1>6, <2>2, <3>1 DEF LabInv, Lab!EffectsApproved
  <2>3. QED BY <1>1, <2>1, <2>2 DEF Lab!EffectsApproved
<1>9. CASE Lab!Return(t)
  BY <1>7, <1>8, <1>9, ReturnCarries, LabTogether DEF LabInv
<1>10. CASE effects' = [effects EXCEPT ![q] = hand[t]] /\ Lab!Move(t, "receipt") /\ Lab!carried' = Lab!carried
  <2>1. labAt' = [labAt EXCEPT ![t] = "receipt"] /\ UNCHANGED <<snap, hand, leave, dest, job>>
    BY <1>10 DEF Lab!Move, Lab!carried
  <2>2. CarriedTypes' /\ labAt'[t] = "receipt" /\ \A p \in Threads \ {t} : SameHands(p)
    BY <2>1 DEF LabInv, CarriedTypes, Places, SameHands
  <2>3. HasInHand(t)'
    <3>1. effects'[<<dest'[t].to, hand'[t].rev>>] # Nil
      BY <1>5, <1>6, <2>1 DEF q
    <3>2. QED BY <1>1, <2>1, <2>2, <3>1 DEF LabInv, HasInHand
  <2>4. QED BY <1>7, <1>8, <2>2, <2>3, LabTogether
<1>11. QED BY <1>9, <1>10 DEF Lab!PutEffect, q

LEMMA PutReceiptKeeps == ASSUME NEW t \in Threads, LabInv, Lab!PutReceipt(t) PROVE LabInv'
<1> DEFINE row == [content |-> hand[t], dest |-> dest[t].to, status |-> "SCHEDULED"]
           r == hand[t].rev
<1>1. /\ labAt[t] = "receipt" /\ hand[t] \in Contents /\ dest[t] \in Ways /\ jobs[job[t].key] # Nil
      /\ leave[t] = [content |-> hand[t], dest |-> dest[t].to]
      /\ effects[<<dest[t].to, r>>] # Nil
      /\ UNCHANGED <<claim, article, labApprovals, jobs, spent, effects, granted, uncharged>>
  BY DEF Lab!PutReceipt, LabInv, HasInHand, CarriedTypes
<1>2. row \in Delivered /\ r \in Lab!Revisions /\ row.dest = dest[t].to /\ row.content = hand[t]
  BY <1>1 DEF Contents, Ways, Delivered
<1>3. [content |-> row.content, dest |-> row.dest] \in granted
  <2>1. leave[t] # Nil
    <3>1. leave[t] \in Leaves
      BY <1>1 DEF Leaves, Ways
    <3>2. QED BY <3>1, LabNulls
  <2>2. QED BY <1>1, <1>2, <2>1 DEF LabInv, HasInHand
<1>4. labReceipts' = [labReceipts EXCEPT ![r] = row] /\ Lab!Completing(t, "SCHEDULED")
  BY DEF Lab!PutReceipt
<1>5. effects[<<row.dest, r>>] # Nil
  BY <1>1, <1>2
<1> HIDE DEF row, r
<1>6. labReceipts' \in [Lab!Revisions -> Delivered \cup {Nil}] /\ labReceipts'[r] = row
      /\ \A s \in Lab!Revisions \ {r} : labReceipts'[s] = labReceipts[s]
  BY <1>2, <1>4 DEF LabInv, LedgerTypes
<1>7. LedgerTypes' /\ Stored' /\ Grows
  BY <1>1, <1>6 DEF LabInv, LedgerTypes, Stored, Grows
<1>8. Lab!EffectsApproved'
  BY <1>1, <1>2, <1>3, <1>5, <1>6 DEF LabInv, Lab!EffectsApproved
<1>9. QED BY <1>1, <1>4, <1>7, <1>8, CompletingKeeps DEF Results

LEMMA CallRuntimeKeeps == ASSUME NEW t \in Threads, LabInv, Lab!CallRuntime(t) PROVE LabInv'
<1> USE DEF Lab!CallRuntime, Lab!Move, Lab!ledger, LabInv
<1>1. PICK k \in Lab!Revisions, o \in {"complete", "cancel", "bump"} :
        /\ jobs[k] # Nil
        /\ job' = [job EXCEPT ![t] = [Lab!NoWork EXCEPT !.key = k, !.op = o,
                                        !.result = IF o = "complete" THEN "other" ELSE "none"]]
  OBVIOUS
<1> DEFINE j == [Lab!NoWork EXCEPT !.key = k, !.op = o,
                                   !.result = IF o = "complete" THEN "other" ELSE "none"]
<1>2. j \in Calls /\ j.key = k
  BY DEF Lab!NoWork, Calls, Results
<1>3. job' = [job EXCEPT ![t] = j]
  BY <1>1
<1> HIDE DEF j
<1>4. CarriedTypes' /\ \A q \in Threads \ {t} : SameHands(q)
  BY <1>2, <1>3 DEF CarriedTypes, Places, SameHands
<1>5. HasInHand(t)'
  <2>1. /\ labAt'[t] = "read" /\ hand'[t] = hand[t] /\ leave'[t] = leave[t] /\ dest'[t] = dest[t]
        /\ job'[t] = j /\ article' = article /\ granted' = granted /\ jobs' = jobs
    BY <1>3 DEF CarriedTypes
  <2>2. QED BY <1>1, <1>2, <2>1 DEF HasInHand
<1>6. QED BY <1>4, <1>5, LabSame, LabTogether

LEMMA ReadJobKeeps == ASSUME NEW t \in Threads, LabInv, Lab!ReadJob(t) PROVE LabInv'
<1> DEFINE found == jobs[job[t].key]
           j == [job[t] EXCEPT !.copy = found]
<1>1. /\ labAt[t] = "read" /\ found # Nil
      /\ UNCHANGED <<claim, article, labApprovals, jobs, spent, effects, labReceipts, granted, uncharged>>
  BY DEF Lab!ReadJob, Lab!ledger, LabInv, HasInHand
<1>2. CASE Lab!Return(t)
  BY <1>1, <1>2, ReturnKeeps
<1>3. CASE ~ Lab!Return(t)
  <2>1. job[t] \in Calls /\ found \in Works
    BY <1>1 DEF LabInv, CarriedTypes, LedgerTypes, Calls
  <2>2. j \in Calls /\ j.copy = found /\ j.key = job[t].key
    BY <2>1 DEF Calls
  <2>3. job' = [job EXCEPT ![t] = j] /\ labAt' = [labAt EXCEPT ![t] = "put"] /\ UNCHANGED <<snap, hand, leave, dest>>
    BY <1>3 DEF Lab!ReadJob, Lab!Move, LabInv, CarriedTypes
  <2> HIDE DEF j
  <2>4. CarriedTypes' /\ labAt'[t] = "put" /\ job'[t] = j /\ \A q \in Threads \ {t} : SameHands(q)
    BY <2>2, <2>3 DEF LabInv, CarriedTypes, Places, SameHands
  <2>5. HasInHand(t)'
    BY <1>1, <2>2, <2>3, <2>4 DEF LabInv, HasInHand
  <2>6. QED BY <1>1, <2>4, <2>5, LabSame, LabTogether
<1>4. QED BY <1>2, <1>3

LEMMA StaleAttemptKeeps == ASSUME NEW t \in Threads, LabInv, Lab!StaleAttempt(t) PROVE LabInv'
BY ReturnKeeps DEF Lab!StaleAttempt, Lab!ledger

LEMMA RestKeeps == ASSUME NEW t \in Threads, LabInv, Lab!Rest(t) PROVE LabInv'
BY ReturnKeeps DEF Lab!Rest, Lab!ledger

LEMMA EvidenceBlockedKeeps == ASSUME NEW t \in Threads, LabInv, Lab!EvidenceBlocked(t) PROVE LabInv'
BY ReturnKeeps DEF Lab!EvidenceBlocked, Lab!ledger
LEMMA ChangedType ==
  ASSUME NEW w \in Works, NEW o \in {"complete", "cancel", "bump"}, NEW result \in Results
  PROVE  Lab!Changed(w, o, result) \in Works /\ Lab!Changed(w, o, result) # Nil
<1>1. Lab!Changed(w, o, result) \in Works
  <2>1. CASE o = "complete"
    <3>1. Lab!Changed(w, o, result) = [w EXCEPT !.status = "SUCCEEDED", !.result = result]
      BY <2>1 DEF Lab!Changed
    <3>2. QED BY <3>1 DEF Works
  <2>2. CASE o = "cancel"
    <3>1. Lab!Changed(w, o, result) = [w EXCEPT !.status = "CANCELLED"]
      BY <2>2 DEF Lab!Changed
    <3>2. QED BY <3>1 DEF Works
  <2>3. CASE o = "bump"
    <3>1. Lab!Changed(w, o, result) = [w EXCEPT !.attempt = @ + 1, !.live = TRUE]
      BY <2>3 DEF Lab!Changed
    <3>2. w.attempt + 1 \in Nat
      BY DEF Works
    <3>3. QED BY <3>1, <3>2 DEF Works
  <2>4. QED BY <2>1, <2>2, <2>3
<1>2. QED BY <1>1, LabNulls

LEMMA PutJobKeeps == ASSUME NEW t \in Threads, LabInv, Lab!PutJob(t) PROVE LabInv'
<1> DEFINE k == job[t].key
           w == Lab!Changed(job[t].copy, job[t].op, job[t].result)
           j == [Lab!NoWork EXCEPT !.key = job[t].key]
<1>1. /\ labAt[t] = "put" /\ jobs' = [jobs EXCEPT ![k] = w]
      /\ UNCHANGED <<claim, article, labApprovals, spent, effects, labReceipts, granted, uncharged>>
  BY DEF Lab!PutJob
<1>2. k \in Lab!Revisions /\ j \in Calls
  BY DEF LabInv, CarriedTypes, Calls, Lab!NoWork, Results
<1>3. w \in Works /\ w # Nil
  <2>1. /\ job[t].copy \in Works /\ job[t].op \in {"complete", "cancel", "bump"}
        /\ job[t].result \in Results
    BY <1>1 DEF LabInv, CarriedTypes, HasInHand, Calls
  <2>2. QED BY <2>1, ChangedType
<1>4. \/ Lab!Return(t)
      \/ /\ Lab!InChain(t) /\ labAt' = [labAt EXCEPT ![t] = "done"] /\ job' = [job EXCEPT ![t] = j]
         /\ UNCHANGED <<snap, hand, leave, dest>>
  BY DEF Lab!PutJob, Lab!Move
<1> HIDE DEF k, w, j
<1>5. jobs' \in [Lab!Revisions -> Works \cup {Nil}]
      /\ \A r \in Lab!Revisions : jobs[r] # Nil => jobs'[r] # Nil
  BY <1>1, <1>2, <1>3 DEF LabInv, LedgerTypes
<1>6. LedgerTypes' /\ Stored' /\ Grows
  BY <1>1, <1>5 DEF LabInv, LedgerTypes, Stored, Grows
<1>7. Lab!EffectsApproved'
  BY <1>1 DEF LabInv, Lab!EffectsApproved
<1>8. CASE Lab!Return(t)
  BY <1>6, <1>7, <1>8, ReturnCarries, LabTogether DEF LabInv
<1>9. CASE /\ Lab!InChain(t) /\ labAt' = [labAt EXCEPT ![t] = "done"] /\ job' = [job EXCEPT ![t] = j]
           /\ UNCHANGED <<snap, hand, leave, dest>>
  <2>1. CarriedTypes' /\ labAt'[t] = "done" /\ \A q \in Threads \ {t} : SameHands(q)
    BY <1>2, <1>9 DEF LabInv, CarriedTypes, Places, SameHands
  <2>2. HasInHand(t)'
    BY <1>1, <1>9, <2>1 DEF LabInv, HasInHand, Lab!InChain
  <2>3. QED BY <1>6, <1>7, <2>1, <2>2, LabTogether
<1>10. QED BY <1>4, <1>8, <1>9

LEMMA RedeliverKeeps == ASSUME NEW t \in Threads, LabInv, Lab!Redeliver(t) PROVE LabInv'
<1> DEFINE r == hand[t].rev
           row == IF labApprovals[r].live THEN labApprovals[r] ELSE [labApprovals[r] EXCEPT !.decision = "REVOKED"]
           l == IF row.decision = "REVOKED" THEN Nil ELSE [content |-> row.content, dest |-> row.dest]
<1>1. /\ labAt[t] = "done" /\ hand[t] # Nil /\ r \in Lab!Revisions
      /\ UNCHANGED <<claim, article, jobs, spent, effects, labReceipts, granted, uncharged, snap, hand, job>>
      /\ labAt' = [labAt EXCEPT ![t] = "admit"]
  BY DEF Lab!Redeliver, Lab!Move, LabInv, HasInHand, CarriedTypes, Contents
<1>2. PICK d \in Destinations : dest' = [dest EXCEPT ![t] = [to |-> d, mode |-> "STAGING_DRAFT"]]
  BY DEF Lab!Redeliver
<1> DEFINE way == [to |-> d, mode |-> "STAGING_DRAFT"]
<1>3. way \in Ways /\ way # Nil
  <2>1. way \in Ways
    BY DEF Ways
  <2>2. QED BY <2>1, LabNulls
<1>4. dest' = [dest EXCEPT ![t] = way]
  BY <1>2
<1> HIDE DEF way
<1>5. \/ UNCHANGED <<leave, labApprovals>>
      \/ /\ labApprovals[r] # Nil /\ labApprovals' = [labApprovals EXCEPT ![r] = row]
         /\ leave' = [leave EXCEPT ![t] = l]
  BY DEF Lab!Redeliver
<1>6. labApprovals[r] # Nil =>
        /\ row \in Granted /\ row.content = labApprovals[r].content /\ row.dest = labApprovals[r].dest
        /\ l # Nil => l \in Leaves /\ l \in granted
  <2> SUFFICES ASSUME labApprovals[r] # Nil
               PROVE  /\ row \in Granted /\ row.content = labApprovals[r].content
                      /\ row.dest = labApprovals[r].dest /\ (l # Nil => l \in Leaves /\ l \in granted)
    OBVIOUS
  <2>1. labApprovals[r] \in Granted
    BY <1>1 DEF LabInv, LedgerTypes
  <2>2. row \in Granted /\ row.content = labApprovals[r].content /\ row.dest = labApprovals[r].dest
    BY <2>1 DEF Granted
  <2>3. [content |-> row.content, dest |-> row.dest] \in Leaves
    BY <2>2 DEF Granted, Leaves
  <2>4. [content |-> row.content, dest |-> row.dest] \in granted
    BY <1>1, <2>2 DEF LabInv, Stored
  <2>5. QED BY <2>2, <2>3, <2>4
<1> HIDE DEF row, l, r
<1>7. /\ labApprovals' \in [Lab!Revisions -> Granted \cup {Nil}]
      /\ \A s \in Lab!Revisions : labApprovals'[s] # Nil =>
           /\ labApprovals[s] # Nil
           /\ labApprovals'[s].content = labApprovals[s].content
           /\ labApprovals'[s].dest = labApprovals[s].dest
  BY <1>1, <1>5, <1>6 DEF LabInv, LedgerTypes
<1>8. LedgerTypes' /\ Grows
  BY <1>1, <1>7 DEF LabInv, LedgerTypes, Grows
<1>9. Stored'
  BY <1>1, <1>7 DEF LabInv, Stored
<1>10. Lab!EffectsApproved'
  BY <1>1 DEF LabInv, Lab!EffectsApproved
<1>11. leave' \in [Threads -> Leaves \cup {Nil}] /\ (leave'[t] # Nil => leave'[t] \in granted)
       /\ \A q \in Threads \ {t} : leave'[q] = leave[q]
  BY <1>5, <1>6 DEF LabInv, CarriedTypes, HasInHand
<1>12. CarriedTypes' /\ \A q \in Threads \ {t} : SameHands(q)
  BY <1>1, <1>3, <1>4, <1>11 DEF LabInv, CarriedTypes, Places, SameHands
<1>13. HasInHand(t)'
  <2>1. labAt'[t] = "admit" /\ dest'[t] = way
    BY <1>1, <1>4 DEF LabInv, CarriedTypes
  <2>2. QED BY <1>1, <1>3, <1>11, <2>1 DEF LabInv, HasInHand
<1>14. QED BY <1>8, <1>9, <1>10, <1>12, <1>13, LabTogether

LEMMA MutateKeeps == ASSUME NEW t \in Threads, LabInv, Lab!Mutate(t) PROVE LabInv'
<1> DEFINE a == [article EXCEPT !.rev = @ + 1, !.title = "changed"]
           j == [job[t] EXCEPT !.key = a.rev]
           way == [dest[t] EXCEPT !.mode = "STAGING_DRAFT"]
<1>1. /\ labAt[t] = "done" /\ hand[t] # Nil /\ article # Nil /\ dest[t] # Nil /\ article.rev < MaxRevision
      /\ UNCHANGED <<claim, labApprovals, jobs, spent, effects, labReceipts, granted, uncharged, snap, leave>>
  BY DEF Lab!Mutate, LabInv, HasInHand
<1>2. article \in Contents /\ dest[t] \in Ways /\ article.snap = "ELIGIBLE" /\ job[t] \in Calls
  BY <1>1 DEF LabInv, LedgerTypes, CarriedTypes, Stored
<1>3. a \in Contents /\ a.snap = "ELIGIBLE" /\ a # Nil
  <2>1. article.rev + 1 \in Lab!Revisions
    BY <1>1, <1>2, LabNulls DEF Contents, Lab!Revisions
  <2>2. a \in Contents /\ a.snap = "ELIGIBLE"
    BY <1>2, <2>1 DEF Contents
  <2>3. QED BY <2>2, LabNulls
<1>4. way \in Ways /\ way # Nil
  <2>1. way \in Ways
    BY <1>2 DEF Ways
  <2>2. QED BY <2>1, LabNulls
<1>5. j \in Calls
  BY <1>2, <1>3 DEF Calls, Contents
<1>6. /\ article' = a /\ hand' = [hand EXCEPT ![t] = a] /\ job' = [job EXCEPT ![t] = j]
      /\ dest' = [dest EXCEPT ![t] = way]
  BY DEF Lab!Mutate, LabInv, CarriedTypes
<1>7. PICK s \in {"approve", "admit"} : labAt' = [labAt EXCEPT ![t] = s]
  BY DEF Lab!Mutate, Lab!Move
<1> HIDE DEF a, j, way
<1>8. LedgerTypes' /\ Stored' /\ Grows
  BY <1>1, <1>3, <1>6 DEF LabInv, LedgerTypes, Stored, Grows
<1>9. Lab!EffectsApproved'
  BY <1>1 DEF LabInv, Lab!EffectsApproved
<1>10. CarriedTypes' /\ \A q \in Threads \ {t} : SameHands(q)
  BY <1>1, <1>3, <1>4, <1>5, <1>6, <1>7 DEF LabInv, CarriedTypes, Places, SameHands
<1>11. HasInHand(t)'
  <2>1. labAt'[t] \in {"approve", "admit"} /\ hand'[t] = a /\ dest'[t] = way /\ leave'[t] = leave[t]
    BY <1>1, <1>6, <1>7 DEF LabInv, CarriedTypes
  <2>2. QED BY <1>1, <1>3, <1>4, <1>6, <2>1 DEF LabInv, HasInHand
<1>12. QED BY <1>8, <1>9, <1>10, <1>11, LabTogether

-----------------------------------------------------------------------------
(* The driver's acts that touch no thread. *)

LEMMA QuietKeeps ==
  ASSUME LabInv, Lab!Quiet, LedgerTypes', Stored', Lab!EffectsApproved', Grows
  PROVE  LabInv'
<1>1. UNCHANGED <<labAt, snap, hand, leave, dest, job>>
  BY DEF Lab!Quiet, Lab!carried
<1>2. CarriedTypes' /\ \A q \in Threads : SameHands(q)
  BY <1>1 DEF LabInv, CarriedTypes, SameHands
<1>3. QED BY <1>2, CarriesOn DEF LabInv

LEMMA SetStatusKeeps == ASSUME LabInv, Lab!SetStatus PROVE LabInv'
<1> USE DEF Lab!SetStatus, Lab!Quiet
<1>1. LedgerTypes'
  BY DEF LabInv, LedgerTypes
<1>2. Stored' /\ Grows
  BY DEF LabInv, Stored, Grows
<1>3. Lab!EffectsApproved'
  BY DEF LabInv, Lab!EffectsApproved
<1>4. QED BY <1>1, <1>2, <1>3, QuietKeeps

LEMMA SetFaultKeeps == ASSUME LabInv, Lab!SetFault PROVE LabInv'
BY LabSame, QuietKeeps DEF Lab!SetFault, Lab!Quiet, Lab!ledger

LEMMA RevokeKeeps == ASSUME NEW r \in Lab!Revisions, LabInv, Lab!Revoke(r) PROVE LabInv'
<1> USE DEF Lab!Revoke, Lab!Quiet
<1> DEFINE row == [labApprovals[r] EXCEPT !.decision = "REVOKED"]
<1>1. /\ labApprovals[r] \in Granted
      /\ row \in Granted /\ row.content = labApprovals[r].content /\ row.dest = labApprovals[r].dest
  BY DEF LabInv, LedgerTypes, Granted
<1>2. labApprovals' = [labApprovals EXCEPT ![r] = row]
  BY DEF LabInv, LedgerTypes
<1> HIDE DEF row
<1>3. labApprovals' \in [Lab!Revisions -> Granted \cup {Nil}] /\ labApprovals'[r] = row
      /\ \A s \in Lab!Revisions \ {r} : labApprovals'[s] = labApprovals[s]
  BY <1>1, <1>2 DEF LabInv, LedgerTypes
<1>4. LedgerTypes' /\ Grows
  BY <1>3 DEF LabInv, LedgerTypes, Grows
<1>5. Stored'
  BY <1>1, <1>3 DEF LabInv, Stored
<1>6. Lab!EffectsApproved'
  BY DEF LabInv, Lab!EffectsApproved
<1>7. QED BY <1>4, <1>5, <1>6, QuietKeeps

LEMMA RollbackOwnKeeps == ASSUME NEW r \in Lab!Revisions, LabInv, Lab!RollbackOwn(r) PROVE LabInv'
<1> USE DEF Lab!RollbackOwn, Lab!Quiet
<1> DEFINE row == [labReceipts[r] EXCEPT !.status = "CANCELLED"]
<1>1. /\ labReceipts[r] \in Delivered
      /\ row \in Delivered /\ row.content = labReceipts[r].content /\ row.dest = labReceipts[r].dest
  BY DEF LabInv, LedgerTypes, Delivered
<1>2. labReceipts' = [labReceipts EXCEPT ![r] = row] /\ labReceipts[r] # Nil
  BY DEF LabInv, LedgerTypes
<1> HIDE DEF row
<1>3. labReceipts' \in [Lab!Revisions -> Delivered \cup {Nil}] /\ labReceipts'[r] = row
      /\ \A s \in Lab!Revisions \ {r} : labReceipts'[s] = labReceipts[s]
  BY <1>1, <1>2 DEF LabInv, LedgerTypes
<1>4. LedgerTypes' /\ Stored' /\ Grows
  BY <1>3 DEF LabInv, LedgerTypes, Stored, Grows
<1>5. UNCHANGED <<effects, granted>>
  OBVIOUS
<1>6. Lab!EffectsApproved'
  BY <1>1, <1>2, <1>3, <1>5 DEF LabInv, Lab!EffectsApproved
<1>7. QED BY <1>4, <1>6, QuietKeeps

(* Time passes for the jobs stored and for the copies in hand. *)
LEMMA AdvanceKeeps == ASSUME LabInv, Lab!Advance PROVE LabInv'
<1> USE DEF Lab!Advance
<1>1. UNCHANGED <<claim, article, spent, effects, labReceipts, labAt, snap, hand, leave, dest, granted, uncharged>>
  OBVIOUS
<1>2. /\ jobs' \in [Lab!Revisions -> Works \cup {Nil}]
      /\ \A r \in Lab!Revisions : jobs[r] # Nil => jobs'[r] # Nil
  <2>1. ASSUME NEW r \in Lab!Revisions, jobs[r] # Nil
        PROVE  [jobs[r] EXCEPT !.live = FALSE] \in Works
    BY <2>1 DEF LabInv, LedgerTypes, Works
  <2>2. jobs' = [r \in Lab!Revisions |-> IF jobs[r] = Nil THEN Nil ELSE [jobs[r] EXCEPT !.live = FALSE]]
    OBVIOUS
  <2>3. QED BY <2>1, <2>2, LabNulls
<1>3. /\ job' \in [Threads -> Calls]
      /\ \A q \in Threads : job'[q].key = job[q].key /\ (job[q].copy # Nil => job'[q].copy # Nil)
  <2>1. ASSUME NEW q \in Threads, job[q].copy # Nil
        PROVE  /\ [job[q] EXCEPT !.copy.live = FALSE] \in Calls
               /\ [job[q] EXCEPT !.copy.live = FALSE].key = job[q].key
               /\ [job[q] EXCEPT !.copy.live = FALSE].copy # Nil
    <3> DEFINE c == [job[q].copy EXCEPT !.live = FALSE]
    <3>1. job[q] \in Calls /\ job[q].copy \in Works
      BY <2>1 DEF LabInv, CarriedTypes, Calls
    <3>2. c \in Works
      BY <3>1 DEF Works
    <3>3. [job[q] EXCEPT !.copy.live = FALSE] = [job[q] EXCEPT !.copy = c]
      BY <3>1 DEF Calls
    <3> HIDE DEF c
    <3>4. QED BY <3>1, <3>2, <3>3, LabNulls DEF Calls
  <2>2. job' = [q \in Threads |-> IF job[q].copy = Nil THEN job[q] ELSE [job[q] EXCEPT !.copy.live = FALSE]]
    OBVIOUS
  <2>3. \A q \in Threads : job[q] \in Calls
    BY DEF LabInv, CarriedTypes
  <2>4. QED BY <2>1, <2>2, <2>3
<1>4. /\ labApprovals' \in [Lab!Revisions -> Granted \cup {Nil}]
      /\ \A s \in Lab!Revisions : labApprovals'[s] # Nil =>
           /\ labApprovals[s] # Nil
           /\ labApprovals'[s].content = labApprovals[s].content
           /\ labApprovals'[s].dest = labApprovals[s].dest
  <2>1. CASE UNCHANGED labApprovals
    BY <2>1 DEF LabInv, LedgerTypes
  <2>2. CASE labApprovals' = [r \in Lab!Revisions |->
               IF labApprovals[r] = Nil THEN Nil ELSE [labApprovals[r] EXCEPT !.live = FALSE]]
    <3>1. ASSUME NEW r \in Lab!Revisions, labApprovals[r] # Nil
          PROVE  /\ [labApprovals[r] EXCEPT !.live = FALSE] \in Granted
                 /\ [labApprovals[r] EXCEPT !.live = FALSE].content = labApprovals[r].content
                 /\ [labApprovals[r] EXCEPT !.live = FALSE].dest = labApprovals[r].dest
      BY <3>1 DEF LabInv, LedgerTypes, Granted
    <3>2. QED BY <2>2, <3>1
  <2>3. QED BY <2>1, <2>2
<1>5. LedgerTypes' /\ Grows
  BY <1>1, <1>2, <1>4 DEF LabInv, LedgerTypes, Grows
<1>6. Stored'
  BY <1>1, <1>4 DEF LabInv, Stored
<1>7. Lab!EffectsApproved'
  BY <1>1 DEF LabInv, Lab!EffectsApproved
<1>8. CarriedTypes'
  BY <1>1, <1>3 DEF LabInv, CarriedTypes
<1>9. ASSUME NEW q \in Threads PROVE HasInHand(q)'
  <2>1. job[q].key \in Lab!Revisions
    BY DEF LabInv, CarriedTypes, Calls
  <2>2. QED BY <1>1, <1>2, <1>3, <2>1 DEF LabInv, HasInHand
<1>10. QED BY <1>5, <1>6, <1>7, <1>8, <1>9 DEF LabInv

LEMMA KillKeeps == ASSUME LabInv, Lab!Kill PROVE LabInv'
<1>1. /\ UNCHANGED <<claim, article, labApprovals, spent, effects, labReceipts, granted>>
      /\ labAt' = [t \in Threads |-> "idle"] /\ snap' = [t \in Threads |-> "ELIGIBLE"]
      /\ hand' = [t \in Threads |-> Nil] /\ leave' = [t \in Threads |-> Nil]
      /\ dest' = [t \in Threads |-> Nil] /\ job' = [t \in Threads |-> Lab!NoWork]
  BY DEF Lab!Kill
<1>2. jobs' \in [Lab!Revisions -> Works \cup {Nil}] /\ uncharged' \in Nat
  <2>1. CASE UNCHANGED <<jobs, uncharged>>
    BY <2>1 DEF LabInv, LedgerTypes
  <2>2. ASSUME NEW t \in Threads, jobs' = [jobs EXCEPT ![job[t].key] = Lab!NewJob(job[t].payload)],
               uncharged' = uncharged + 1
        PROVE  jobs' \in [Lab!Revisions -> Works \cup {Nil}] /\ uncharged' \in Nat
    <3>1. job[t].payload \in {"article", "other"}
      BY DEF LabInv, CarriedTypes, Calls
    <3>2. Lab!NewJob(job[t].payload) \in Works
      BY <3>1, NewJobType
    <3>3. jobs' \in [Lab!Revisions -> Works \cup {Nil}]
      BY <2>2, <3>2 DEF LabInv, LedgerTypes
    <3>4. uncharged' \in Nat
      BY <2>2 DEF LabInv, LedgerTypes
    <3>5. QED BY <3>3, <3>4
  <2>3. QED BY <2>1, <2>2 DEF Lab!Kill
<1>3. LedgerTypes'
  BY <1>1, <1>2 DEF LabInv, LedgerTypes
<1>4. Stored'
  BY <1>1 DEF LabInv, Stored
<1>5. Lab!EffectsApproved'
  BY <1>1 DEF LabInv, Lab!EffectsApproved
<1>6. CarriedTypes'
  <2>1. Lab!NoWork \in Calls
    BY LabNulls DEF Lab!NoWork, Calls, Lab!Revisions, Results
  <2>2. labAt' \in [Threads -> Places] /\ snap' \in [Threads -> Lab!Statuses]
    BY <1>1 DEF Places, Lab!Statuses
  <2>3. hand' \in [Threads -> Contents \cup {Nil}] /\ leave' \in [Threads -> Leaves \cup {Nil}]
        /\ dest' \in [Threads -> Ways \cup {Nil}]
    BY <1>1
  <2>4. job' \in [Threads -> Calls]
    BY <1>1, <2>1
  <2>5. QED BY <2>2, <2>3, <2>4 DEF CarriedTypes
<1>7. \A q \in Threads : HasInHand(q)'
  BY <1>1 DEF HasInHand
<1>8. QED BY <1>3, <1>4, <1>5, <1>6, <1>7 DEF LabInv
LEMMA LabStep == ASSUME LabInv, Lab!LabNext PROVE LabInv'
<1>1. ASSUME NEW t \in Threads,
             \/ Lab!Query(t) \/ Lab!Draft(t) \/ Lab!EvidenceBlocked(t) \/ Lab!Approve(t)
             \/ Lab!AdmitLook(t) \/ Lab!AdmitCharge(t) \/ Lab!SubmitJob(t)
      PROVE  LabInv'
  BY <1>1, QueryKeeps, DraftKeeps, EvidenceBlockedKeeps, ApproveKeeps, AdmitLookKeeps,
     AdmitChargeKeeps, SubmitJobKeeps
<1>2. ASSUME NEW t \in Threads,
             \/ Lab!Publish(t) \/ Lab!PutEffect(t) \/ Lab!PutReceipt(t)
             \/ Lab!CallRuntime(t) \/ Lab!ReadJob(t) \/ Lab!StaleAttempt(t) \/ Lab!PutJob(t)
             \/ Lab!Rest(t) \/ Lab!Redeliver(t) \/ Lab!Mutate(t)
      PROVE  LabInv'
  BY <1>2, PublishKeeps, PutEffectKeeps, PutReceiptKeeps, CallRuntimeKeeps, ReadJobKeeps,
     StaleAttemptKeeps, PutJobKeeps, RestKeeps, RedeliverKeeps, MutateKeeps
<1>3. CASE Lab!SetStatus \/ Lab!SetFault \/ Lab!Advance \/ Lab!Kill
  BY <1>3, SetStatusKeeps, SetFaultKeeps, AdvanceKeeps, KillKeeps
<1>4. ASSUME NEW r \in Lab!Revisions, Lab!Revoke(r) \/ Lab!RollbackOwn(r) PROVE LabInv'
  BY <1>4, RevokeKeeps, RollbackOwnKeeps
<1>5. QED BY <1>1, <1>2, <1>3, <1>4 DEF Lab!LabNext

LEMMA LabStutter == ASSUME LabInv, UNCHANGED Lab!lab PROVE LabInv'
<1> USE DEF Lab!lab, Lab!ledger, Lab!carried
<1>1. LedgerTypes' /\ Stored' /\ Lab!EffectsApproved' /\ Grows
  BY LabSame
<1>2. CarriedTypes' /\ \A q \in Threads : SameHands(q)
  BY DEF LabInv, CarriedTypes, SameHands
<1>3. QED BY <1>1, <1>2, CarriesOn DEF LabInv

-----------------------------------------------------------------------------
(* The budget covers the jobs there are, save those a death left uncharged. *)
Existing == {r \in Lab!Revisions : jobs[r] # Nil}
Covered  == Cardinality(Existing) <= spent + uncharged

LEMMA ExistingFinite == IsFiniteSet(Existing) /\ Cardinality(Existing) \in Nat
<1>1. IsFiniteSet(Lab!Revisions)
  BY LabNulls, FS_Interval DEF Lab!Revisions
<1>2. Existing \subseteq Lab!Revisions
  BY DEF Existing
<1>3. QED BY <1>1, <1>2, FS_Subset, FS_CardinalityType

LEMMA SameCovered ==
  ASSUME Covered, Existing' = Existing, UNCHANGED <<spent, uncharged>> PROVE Covered'
BY DEF Covered

LEMMA OneMore ==
  ASSUME NEW S, NEW T, NEW k, NEW n \in Nat,
         IsFiniteSet(S), Cardinality(S) <= n, T \subseteq S \cup {k}
  PROVE  Cardinality(T) <= n + 1
<1>1. IsFiniteSet(S \cup {k})
  BY FS_AddElement
<1>2. Cardinality(S \cup {k}) <= n + 1 /\ Cardinality(S \cup {k}) \in Nat
  <2>1. Cardinality(S) \in Nat
    BY FS_CardinalityType
  <2>2. CASE k \in S
    <3>1. S \cup {k} = S
      BY <2>2
    <3>2. QED BY <2>1, <3>1
  <2>3. CASE k \notin S
    <3>1. Cardinality(S \cup {k}) = Cardinality(S) + 1
      BY <2>3, FS_AddElement
    <3>2. QED BY <2>1, <3>1
  <2>4. QED BY <2>2, <2>3
<1>3. Cardinality(T) <= Cardinality(S \cup {k}) /\ Cardinality(T) \in Nat
  BY <1>1, FS_Subset, FS_CardinalityType
<1>4. QED BY <1>2, <1>3

(* A job that is admitted is charged, or counted as one that was not. *)
LEMMA OneMoreCovered ==
  ASSUME LabInv, Covered, NEW k, NEW w, jobs' = [jobs EXCEPT ![k] = w],
         spent' + uncharged' = spent + uncharged + 1
  PROVE  Covered'
<1>1. Existing' \subseteq Existing \cup {k}
  <2>1. \A r \in Lab!Revisions \ {k} : jobs'[r] = jobs[r]
    BY DEF LabInv, LedgerTypes
  <2>2. QED BY <2>1 DEF Existing
<1>2. spent + uncharged \in Nat
  BY LabNulls DEF LabInv, LedgerTypes
<1>3. IsFiniteSet(Existing) /\ Cardinality(Existing) <= spent + uncharged
  BY ExistingFinite DEF Covered
<1>4. Cardinality(Existing') <= (spent + uncharged) + 1
  BY <1>1, <1>2, <1>3, OneMore
<1>5. QED BY <1>4 DEF Covered

LEMMA LabCovered == ASSUME LabInv, LabInv', Covered, Lab!LabNext PROVE Covered'
<1>1. CASE UNCHANGED <<jobs, spent, uncharged>>
  BY <1>1, SameCovered DEF Existing
<1>2. ASSUME NEW t \in Threads, Lab!AdmitCharge(t), ~ UNCHANGED <<jobs, spent, uncharged>> PROVE Covered'
  <2>1. jobs' = [jobs EXCEPT ![job[t].key] = Lab!NewJob(job[t].payload)] /\ spent' = spent + 1
        /\ uncharged' = uncharged
    BY <1>2 DEF Lab!AdmitCharge
  <2>2. spent \in Nat /\ uncharged \in Nat
    BY LabNulls DEF LabInv, LedgerTypes
  <2>3. spent' + uncharged' = spent + uncharged + 1
    BY <2>1, <2>2
  <2>4. QED BY <2>1, <2>3, OneMoreCovered
<1>3. ASSUME NEW t \in Threads, Lab!PutJob(t) PROVE Covered'
  <2>1. jobs' = [jobs EXCEPT ![job[t].key] = Lab!Changed(job[t].copy, job[t].op, job[t].result)]
        /\ UNCHANGED <<spent, uncharged>> /\ labAt[t] = "put"
    BY <1>3 DEF Lab!PutJob
  <2>2. jobs[job[t].key] # Nil /\ job[t].key \in Lab!Revisions
    BY <2>1 DEF LabInv, HasInHand, CarriedTypes, Calls
  <2>3. Lab!Changed(job[t].copy, job[t].op, job[t].result) # Nil
    <3>1. /\ job[t].copy \in Works /\ job[t].op \in {"complete", "cancel", "bump"}
          /\ job[t].result \in Results
      BY <2>1 DEF LabInv, CarriedTypes, HasInHand, Calls
    <3>2. QED BY <3>1, ChangedType
  <2>4. Existing' = Existing
    BY <2>1, <2>2, <2>3 DEF Existing, LabInv, LedgerTypes
  <2>5. QED BY <2>1, <2>4, SameCovered
<1>4. CASE Lab!Advance
  <2>1. jobs' = [r \in Lab!Revisions |-> IF jobs[r] = Nil THEN Nil ELSE [jobs[r] EXCEPT !.live = FALSE]]
        /\ UNCHANGED <<spent, uncharged>>
    BY <1>4 DEF Lab!Advance
  <2>2. \A r \in Lab!Revisions : jobs[r] # Nil => [jobs[r] EXCEPT !.live = FALSE] # Nil
    <3>1. ASSUME NEW r \in Lab!Revisions, jobs[r] # Nil PROVE [jobs[r] EXCEPT !.live = FALSE] \in Works
      BY <3>1 DEF LabInv, LedgerTypes, Works
    <3>2. QED BY <3>1, LabNulls
  <2>3. Existing' = Existing
    BY <2>1, <2>2 DEF Existing
  <2>4. QED BY <2>1, <2>3, SameCovered
<1>5. CASE Lab!Kill /\ ~ UNCHANGED <<jobs, spent, uncharged>>
  <2>1. PICK t \in Threads :
          jobs' = [jobs EXCEPT ![job[t].key] = Lab!NewJob(job[t].payload)] /\ uncharged' = uncharged + 1
    BY <1>5 DEF Lab!Kill
  <2>2. spent' = spent /\ spent \in Nat /\ uncharged \in Nat
    BY <1>5, LabNulls DEF Lab!Kill, LabInv, LedgerTypes
  <2>3. spent' + uncharged' = spent + uncharged + 1
    BY <2>1, <2>2
  <2>4. QED BY <2>1, <2>3, OneMoreCovered
<1>6. CASE Lab!SetStatus \/ Lab!SetFault \/ \E r \in Lab!Revisions : Lab!Revoke(r) \/ Lab!RollbackOwn(r)
  <2>1. UNCHANGED <<jobs, spent, uncharged>>
    BY <1>6 DEF Lab!SetStatus, Lab!SetFault, Lab!Revoke, Lab!RollbackOwn, Lab!Quiet, Lab!ledger
  <2>2. QED BY <1>1, <2>1
<1>7. ASSUME NEW t \in Threads,
             \/ Lab!Query(t) \/ Lab!Draft(t) \/ Lab!EvidenceBlocked(t) \/ Lab!Approve(t)
             \/ Lab!AdmitLook(t) \/ Lab!SubmitJob(t)
             \/ Lab!Publish(t) \/ Lab!PutEffect(t) \/ Lab!PutReceipt(t)
             \/ Lab!CallRuntime(t) \/ Lab!ReadJob(t) \/ Lab!StaleAttempt(t)
             \/ Lab!Rest(t) \/ Lab!Redeliver(t) \/ Lab!Mutate(t)
      PROVE  Covered'
  <2>1. UNCHANGED <<jobs, spent, uncharged>>
    BY <1>7 DEF Lab!Query, Lab!Draft, Lab!EvidenceBlocked, Lab!Approve, Lab!AdmitLook, Lab!SubmitJob,
       Lab!Publish, Lab!PutEffect, Lab!PutReceipt, Lab!CallRuntime, Lab!ReadJob, Lab!StaleAttempt,
       Lab!Rest, Lab!Redeliver, Lab!Mutate, Lab!ledger
  <2>2. QED BY <1>1, <2>1
<1>8. QED BY <1>1, <1>2, <1>3, <1>4, <1>5, <1>6, <1>7 DEF Lab!LabNext

LEMMA LabInvSound == ASSUME LabInv, Covered PROVE Lab!LabSound
<1>1. Lab!BudgetCovers
  <2>1. Lab!Cardinality(Existing) <= spent + uncharged
    BY DEF Covered, Lab!Cardinality, Cardinality
  <2>2. QED BY <2>1, LabNulls DEF Lab!BudgetCovers, LabInv, LedgerTypes, Existing
<1>2. QED BY <1>1 DEF LabInv, Lab!LabSound

(* Whatever the threads of the lab do at the same time, a draft in the CMS and a receipt for
   one were approved for that content and destination and rest on eligible evidence; and the
   budget is never exceeded and covers every job, but those of processes killed between the
   two writes (CmsSimulator.publish, WriterSimulator.draft, RuntimeSimulator.admit). *)
THEOREM LabIsSound == Lab!LabSpec => []LabSound
<1>1. Lab!LabInit => LabInv /\ Covered
  <2> SUFFICES ASSUME Lab!LabInit PROVE LabInv /\ Covered
    OBVIOUS
  <2>1. Existing = {}
    BY DEF Existing, Lab!LabInit
  <2>2. Cardinality(Existing) = 0 /\ spent = 0 /\ uncharged = 0
    BY <2>1, FS_EmptySet DEF Lab!LabInit
  <2>3. QED BY <2>2, LabInitInv DEF Covered
<1>2. LabInv /\ Covered /\ [Lab!LabNext]_(Lab!lab) => (LabInv /\ Covered)'
  <2>1. LabInv /\ Covered /\ UNCHANGED Lab!lab => Covered'
    BY SameCovered DEF Existing, Lab!lab, Lab!ledger
  <2>2. QED BY <2>1, LabStep, LabStutter, LabCovered
<1>3. LabInv /\ Covered => LabSound
  BY LabInvSound DEF LabSound
<1>4. QED BY <1>1, <1>2, <1>3, PTL DEF Lab!LabSpec
=============================================================================
