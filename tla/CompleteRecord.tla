---------------------------- MODULE CompleteRecord ----------------------------
(* Complete-record proposals of v165 (v165_complete_record/core.py): a proposal is
   built from a record and the records it depends on, reviewed outside, and projected
   onto the records and the issue ledger.  Humans edit the records meanwhile, and the
   registry of trusted people is replaced.  A hash stands for what it is made from. *)
EXTENDS Integers, FiniteSets, Sequences

CONSTANTS Entities, Kinds,   \* every record has one issue of each kind
          Values,            \* semantic payloads a record may be given
          Legacy,            \* the payload every record starts with
          MaxBuilt, MaxReceipts, MaxEdits \* bounds: proposals, receipts, edits by humans

VARIABLES
  records,   \* per entity: payload (its version), decision, reviewer note
  issues,    \* per entity and kind: status and the version the issue is about
  built,     \* proposals
  receipts,  \* adjudications: the proposal and the registry they name
  registry,  \* revision of the registry of people
  projected, \* history: the proposals projected, in order
  edits

record == <<records, issues, built, receipts, registry, projected, edits>>

CompleteInit ==
  /\ records = [e \in Entities |-> [value |-> Legacy, decision |-> "PENDING", note |-> 0]]
  /\ issues \in [Entities -> [Kinds -> [status : {"NEEDS_REVIEW", "HOLD"}, version : {Legacy}]]]
  /\ built = {} /\ receipts = {} /\ registry = 1 /\ projected = <<>> /\ edits = 0

(* The records a proposal leans on: v165 gives each target the other one. *)
Others(e) == [d \in Entities \ {e} |-> records[d]]

(* A proposal without a target is a draft; it is complete when every assessment is,
   every field of it has support, and it has no blockers.  Whether its quotations are
   in the sources is looked at later. *)
BuildProposal(e) ==
  /\ Cardinality(built) < MaxBuilt
  /\ \E v \in Values, s \in {"draft", "misquoted", "complete"} :
       built' = built \cup
         {[entity |-> e, base |-> records[e].value, target |-> v, before |-> records[e],
           kinds |-> DOMAIN issues[e], needs |-> Others(e), status |-> s]}
  /\ UNCHANGED <<records, issues, receipts, registry, projected, edits>>

(* A reviewer's receipt names the proposal and the registry.  One whose people, roles,
   scopes, dates, decision or checks do not hold up is as good as none. *)
Adjudicate(p) ==
  /\ Cardinality(receipts) < MaxReceipts
  /\ receipts' = receipts \cup {[proposal |-> p, registry |-> registry]}
  /\ UNCHANGED <<records, issues, built, registry, projected, edits>>

Edit ==
  /\ edits < MaxEdits /\ edits' = edits + 1
  /\ \/ /\ registry' = registry + 1 /\ UNCHANGED records
     \/ /\ UNCHANGED registry
        /\ \E e \in Entities :
             \/ \E d \in {"PENDING", "HOLD"} \ {records[e].decision} :
                  records' = [records EXCEPT ![e].decision = d]
             \/ records' = [records EXCEPT ![e].note = @ + 1]
  /\ UNCHANGED <<issues, built, receipts, projected>>

-----------------------------------------------------------------------------
(* project *)

DependenciesAny(p) == TRUE
DependenciesHold(p) == \A d \in DOMAIN p.needs : records[d] = p.needs[d]

(* validate_bundle: the record and its issues are the ones the proposal was built on. *)
Current(p) ==
  /\ records[p.entity].value = p.base
  /\ records[p.entity] = p.before
  /\ p.kinds = DOMAIN issues[p.entity]
  /\ \A k \in Kinds : issues[p.entity][k].version = records[p.entity].value

BundleValid(p) ==
  /\ Current(p)
  /\ p.status = "complete"
  /\ p.target # records[p.entity].value

(* validate_receipts *)
ReceiptsValid(p) ==
  [proposal |-> p, registry |-> registry] \in receipts

Resolvable(p) == \A k \in p.kinds : issues[p.entity][k].status \notin {"RESOLVED", "HOLD"}

(* The projection is returned whole, or the call raises and nothing is different.  The
   issues keep the version they were found in. *)
Project(p) ==
  /\ DependenciesHold(p)
  /\ records[p.entity].decision # "HOLD"
  /\ BundleValid(p) /\ ReceiptsValid(p) /\ Resolvable(p)
  /\ records' = [records EXCEPT ![p.entity].value = p.target]
  /\ issues' = [issues EXCEPT ![p.entity] =
                  [k \in Kinds |-> IF k \in p.kinds THEN [@[k] EXCEPT !.status = "RESOLVED"] ELSE @[k]]]
  /\ projected' = Append(projected, p)
  /\ UNCHANGED <<built, receipts, registry, edits>>

CompleteNext ==
  \/ \E e \in Entities : BuildProposal(e)
  \/ \E p \in built : Adjudicate(p) \/ Project(p)
  \/ Edit

CompleteSpec == CompleteInit /\ [][CompleteNext]_record

-----------------------------------------------------------------------------
ProjectionsOf(e) == {i \in DOMAIN projected : projected[i].entity = e}
Before(i, j) == i < j /\ i \in DOMAIN projected /\ j \in DOMAIN projected

(* Two proposals that lean on each other are never both projected on the records as
   they were at first: who reviewed the later one saw the earlier one's result. *)
NoWriteSkew ==
  \A i, j \in DOMAIN projected :
    Before(i, j) /\ projected[i].entity \in DOMAIN projected[j].needs
      => projected[j].needs[projected[i].entity].value = projected[i].target

(* A record is projected once; then its issues are all resolved and it has the payload
   that was reviewed.  Before that it has its own payload and no issue is resolved. *)
OnceAndWhole ==
  \A e \in Entities :
    /\ \A i, j \in ProjectionsOf(e) : i = j
    /\ \A k \in Kinds : issues[e][k].status = "RESOLVED" <=> ProjectionsOf(e) # {}
    /\ ProjectionsOf(e) = {} => records[e].value = Legacy
    /\ \A i \in ProjectionsOf(e) : records[e].value = projected[i].target

CompleteSound == NoWriteSkew /\ OnceAndWhole
=============================================================================
