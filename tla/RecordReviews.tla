---------------------------- MODULE RecordReviews ----------------------------
(* The three reviews of records side by side, for a model to run one of them:  *)
(* Remediation (v162), SemanticReview (v164) and CompleteRecord (v165) have    *)
(* variables of the same names for the same things, and `reviewing` says whose *)
(* they are.                                                                   *)
EXTENDS Integers, FiniteSets

CONSTANTS Entities, Values,                    \* as in each of them
          IssuesOf, Pages, MaxCanary, MaxChanges, \* v162
          Proposable, MaxReviews,              \* v164
          Legacy, MaxBuilt, MaxReceipts,       \* v165
          MaxEdits                             \* v164 and v165

VARIABLES reviewing,
          records, edits,                                              \* v164 and v165
          issues, built, receipts, registry, projected,                \* v165
          adjudications, active, loaded, out, given,                   \* v164
          pageOf, pages, evidence, saved, plan, canary, writing, changes \* v162

own165 == <<issues, built, receipts, registry, projected>>
own164 == <<adjudications, active, loaded, out, given>>
own162 == <<pageOf, pages, evidence, saved, plan, canary, writing, changes>>
reviewVars == <<reviewing, records, edits, own165, own164, own162>>

V162 == INSTANCE Remediation

V164 == INSTANCE SemanticReview WITH Candidates <- Proposable, reviews <- given

(* v165 gives every record the two kinds of issue there are. *)
V165 == INSTANCE CompleteRecord WITH Kinds <- V162!Kinds

(* The issues are of those kinds, and a value is neither the baseline's nor a blank. *)
ASSUME ReviewsAssumption ==
  /\ MaxCanary \in Nat
  /\ IssuesOf \in [Entities -> SUBSET V162!Kinds]
  /\ Values \cap {"legacy", "-", "none"} = {}

(* What belongs to a review that is not under way. *)
Idle165 == issues = 0 /\ built = {} /\ receipts = {} /\ registry = 0 /\ projected = <<>>
Idle164 == adjudications = {} /\ active = FALSE /\ loaded = 0 /\ out = 0 /\ given = 0
Idle162 == pageOf = 0 /\ pages = 0 /\ evidence = 0 /\ saved = 0 /\ plan = 0 /\ canary = {} /\ writing = 0 /\ changes = 0

ReviewsInit ==
  \/ reviewing = "v162" /\ V162!RemediationInit /\ records = 0 /\ edits = 0 /\ Idle164 /\ Idle165
  \/ reviewing = "v164" /\ V164!SemanticInit /\ Idle162 /\ Idle165
  \/ reviewing = "v165" /\ V165!CompleteInit /\ Idle162 /\ Idle164
  \/ reviewing = "none" /\ records = 0 /\ edits = 0 /\ Idle162 /\ Idle164 /\ Idle165

ReviewsNext ==
  \/ reviewing = "v162" /\ V162!RemediationNext /\ UNCHANGED <<reviewing, records, edits, own164, own165>>
  \/ reviewing = "v164" /\ V164!SemanticNext /\ UNCHANGED <<reviewing, own162, own165>>
  \/ reviewing = "v165" /\ V165!CompleteNext /\ UNCHANGED <<reviewing, own162, own164>>

ReviewsSpec == ReviewsInit /\ [][ReviewsNext]_reviewVars

-----------------------------------------------------------------------------
(* What a review lets through is what was reviewed, on the records as they were *)
(* then: see Remediation, SemanticReview and CompleteRecord.                    *)
ReviewsSound ==
  /\ reviewing = "v162" => V162!RemedySound
  /\ reviewing = "v164" => V164!ReadySound
  /\ reviewing = "v165" => V165!CompleteSound
=============================================================================
