------------------------------ MODULE Remediation ------------------------------
(* The v162 remediation (v162_remediation/core.py, v162/run_remediation.py): from the
   baseline versions, saved reviews of the pages and reviewed evidence, compute says for
   each record whether a canary may write its typed fields.  Nothing of this repository
   writes them; an executor that looks at the before image first is external. *)
EXTENDS Integers, FiniteSets

CONSTANTS Entities, Pages,
          IssuesOf,         \* per entity: the kinds of issue its baseline version has
          Values,           \* what evidence can say
          MaxCanary,        \* 3 in the code
          MaxChanges        \* bound: edits by humans and of the evidence

Kinds == {"object_value", "condition_ast"}
Fields == {"Object Value", "Condition AST", "Claim Version ID"}
Says == [f \in Fields |-> CASE f = "Object Value" -> {"object_value"}
                            [] f = "Condition AST" -> {"condition_ast"}
                            [] OTHER -> Kinds]
Blank == [k \in Kinds |-> "-"]

VARIABLES
  pageOf,   \* the mapping of the baseline plan
  pages,    \* fields, whether on hold, and whether where it belongs
  evidence, \* per entity and kind: the value it binds, or none that counts
  saved,    \* the reviews as saved
  plan, canary,
  writing,  \* the executor's record and the fields left
  changes

remedy == <<pageOf, pages, evidence, saved, plan, canary, writing, changes>>

Baseline(e) == [k \in Kinds |-> "legacy"]
Idle == [entity |-> "none", fields |-> {}, delta |-> [f \in {} |-> "none"]]
Unplanned == [class |-> "NONE", payload |-> [k \in Kinds |-> "legacy"],
              delta |-> [f \in {} |-> "none"], before |-> [f \in {} |-> "none"]]

RemediationInit ==
  /\ pageOf \in [Entities -> Pages]
  /\ pages = [g \in Pages |-> [fields |-> [f \in Fields |-> Blank], hold |-> FALSE, placed |-> TRUE]]
  /\ evidence = [e \in Entities |-> [k \in Kinds |-> "none"]]
  /\ saved = pages
  /\ plan = [e \in Entities |-> Unplanned] /\ canary = {}
  /\ writing = Idle /\ changes = 0

(* resolve: only evidence bound to the entity, its version and the field, whole,
   verified and authoritative, answers an issue. *)
Answers(e, k) == k \in IssuesOf[e] /\ evidence[e][k] \in Values

Payload(e) == [k \in Kinds |-> IF Answers(e, k) THEN evidence[e][k] ELSE Baseline(e)[k]]
Unresolved(e) == {k \in IssuesOf[e] : ~ Answers(e, k)}

(* The fields a version is written in; its id is a hash of the whole payload. *)
Written(p) == [f \in Fields |-> [k \in Kinds |-> IF k \in Says[f] THEN p[k] ELSE "-"]]

(* The fields of the page that are not yet what the new version says. *)
Delta(e) ==
  LET new == Written(Payload(e))
      old == saved[pageOf[e]].fields
  IN [f \in {g \in Fields : Payload(e) # Baseline(e) /\ old[g] # new[g]} |-> new[f]]

(* Formatting of what a field already holds is not known here: it must be empty. *)
BeforeAny(e) == TRUE
BeforeEmpty(e) == \A f \in DOMAIN Delta(e) : saved[pageOf[e]].fields[f] = Blank

Sole(e) == \A d \in Entities : pageOf[d] = pageOf[e] => d = e

(* plan_records *)
Class(e) ==
  CASE saved[pageOf[e]].hold -> "BLOCKED_HUMAN_DECISION"
    [] ~ saved[pageOf[e]].hold /\ (~ Sole(e) \/ ~ saved[pageOf[e]].placed \/ Unresolved(e) # {})
         -> "BLOCKED_DATA_QUALITY"
    [] OTHER -> IF DOMAIN Delta(e) = {} THEN "UNCHANGED"
                ELSE IF BeforeEmpty(e) THEN "ELIGIBLE_CANARY" ELSE "BLOCKED_DATA_QUALITY"

Eligible == {e \in Entities : Class(e) = "ELIGIBLE_CANARY"}

(* The first of them, in their order. *)
Compute ==
  /\ plan' = [e \in Entities |->
       [class |-> Class(e), payload |-> Payload(e), delta |-> Delta(e),
        before |-> [f \in DOMAIN Delta(e) |-> saved[pageOf[e]].fields[f]]]]
  /\ \E c \in SUBSET Eligible :
       /\ Cardinality(c) <= MaxCanary /\ (c = Eligible \/ Cardinality(c) = MaxCanary)
       /\ canary' = c
  /\ UNCHANGED <<pageOf, pages, evidence, saved, writing, changes>>

(* The reviews are read from Notion and saved. *)
SaveReviews ==
  /\ saved' = pages
  /\ UNCHANGED <<pageOf, pages, evidence, plan, canary, writing, changes>>

Changes ==
  /\ changes < MaxChanges /\ changes' = changes + 1
  /\ \/ /\ \E e \in Entities, k \in Kinds, v \in Values \cup {"none"} :
             k \in IssuesOf[e] /\ evidence' = [evidence EXCEPT ![e][k] = v]
        /\ UNCHANGED pages
     \/ /\ UNCHANGED evidence
        /\ \E g \in Pages :
             \/ pages' = [pages EXCEPT ![g].hold = ~ @]
             \/ pages' = [pages EXCEPT ![g].placed = ~ @]
  /\ UNCHANGED <<pageOf, saved, plan, canary, writing>>

-----------------------------------------------------------------------------
(* External: an executor of the canary.  It compares the before image of a record, then
   writes its fields one by one, and may die. *)
StartRecord(e) ==
  /\ writing = Idle /\ e \in canary
  /\ \A f \in DOMAIN plan[e].before : pages[pageOf[e]].fields[f] = plan[e].before[f]
  /\ writing' = [entity |-> e, fields |-> DOMAIN plan[e].delta, delta |-> plan[e].delta]
  /\ UNCHANGED <<pageOf, pages, evidence, saved, plan, canary, changes>>

WriteField ==
  /\ \E f \in writing.fields :
       /\ pages' = [pages EXCEPT ![pageOf[writing.entity]].fields[f] = writing.delta[f]]
       /\ writing' = IF writing.fields = {f} THEN Idle ELSE [writing EXCEPT !.fields = @ \ {f}]
  /\ UNCHANGED <<pageOf, evidence, saved, plan, canary, changes>>

ExecutorDies ==
  /\ writing # Idle /\ changes < MaxChanges /\ changes' = changes + 1
  /\ writing' = Idle
  /\ UNCHANGED <<pageOf, pages, evidence, saved, plan, canary>>

RemediationNext ==
  \/ Compute \/ SaveReviews \/ Changes
  \/ \E e \in Entities : StartRecord(e)
  \/ WriteField \/ ExecutorDies

RemediationSpec == RemediationInit /\ [][RemediationNext]_remedy

-----------------------------------------------------------------------------
(* Whatever evidence replaced what, and wherever an executor died, the fields of a page
   are never of two versions: some payload has all of them.  It is what the plans make
   of an executor that honours before_image_hash; one that does not is not covered. *)
NoMixedVersions ==
  \A e \in Entities :
    \E p \in [Kinds -> Values \cup {"legacy"}] :
      \A f \in Fields : pages[pageOf[e]].fields[f] \in {Blank, Written(p)[f]}

(* gate_readiness never trips: the canary is small, its pages are distinct, and each
   record has a delta and a class that allows it. *)
CanarySound ==
  /\ Cardinality(canary) <= MaxCanary
  /\ \A e \in canary :
       /\ plan[e].class = "ELIGIBLE_CANARY" /\ DOMAIN plan[e].delta # {}
       /\ \A k \in IssuesOf[e] : plan[e].payload[k] # "legacy"
       /\ \A d \in canary : pageOf[d] = pageOf[e] => d = e

RemedySound == NoMixedVersions /\ CanarySound
=============================================================================
