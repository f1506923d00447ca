---------------------------- MODULE SemanticReview ----------------------------
(* The v164 analysis (v164_semantics/pipeline.py, review.py): candidate values for the
   unstructured issue of each record become proposals, reviewers adjudicate them, and
   the next run says which are ready for v162.  A run works on the assets as it loaded
   them and returns everything or raises.  A hash stands for what it is made from. *)
EXTENDS Integers, FiniteSets

CONSTANTS Candidates, \* id, entity, and whether the sources prove its value
          Entities,
          MaxReviews, MaxEdits \* bounds: adjudications given; edits by humans

VARIABLES
  records,       \* decision, note and issue state of each record
  adjudications, \* entries of the asset
  active,        \* the reviewer is in force
  loaded,        \* the assets a run works on
  out,           \* outputs of the last run
  reviews, edits

semantic == <<records, adjudications, active, loaded, out, reviews, edits>>

NoOutput == [proposals |-> {}, records |-> [e \in Entities |-> 0], reviewed |-> {}, ready |-> {}]

SemanticInit ==
  /\ records \in [Entities -> [decision : {"PENDING"}, note : {0}, state : {"NEEDS_REVIEW", "HOLD"}]]
  /\ adjudications = {} /\ active = TRUE
  /\ loaded = [on |-> FALSE, records |-> records, adjudications |-> {}, active |-> FALSE]
  /\ out = NoOutput /\ reviews = 0 /\ edits = 0

(* The proposal's hash covers the candidate and the whole record it is about. *)
ProposalOfValue(c, rs) == [candidate |-> c, entity |-> c.entity, record |-> [rs[c.entity] EXCEPT !.decision = "PENDING"]]
ProposalOf(c, rs) == [candidate |-> c, entity |-> c.entity, record |-> rs[c.entity]]

(* make_proposal: a candidate its sources do not prove is blocked, the others go on. *)
ProposalsOn(rs) == {ProposalOf(c, rs) : c \in {d \in Candidates : d.proved}}

-----------------------------------------------------------------------------
(* People *)

(* A reviewer decides on a proposal of the last outputs, as its record was then. *)
Adjudicate(p) ==
  /\ reviews < MaxReviews /\ reviews' = reviews + 1
  /\ \E d \in {"ACCEPT", "REJECT"} :
       adjudications' = adjudications \cup
         {[proposal |-> p, saw |-> out.records[p.entity], decision |-> d]}
  /\ UNCHANGED <<records, active, loaded, out, edits>>

Withdraw ==
  /\ \E a \in adjudications : adjudications' = adjudications \ {a}
  /\ UNCHANGED <<records, active, loaded, out, reviews, edits>>

Edit ==
  /\ edits < MaxEdits /\ edits' = edits + 1
  /\ \/ active' = ~ active /\ UNCHANGED records
     \/ /\ UNCHANGED active
        /\ \E e \in Entities :
             \/ \E d \in {"PENDING", "HOLD"} \ {records[e].decision} :
                  records' = [records EXCEPT ![e].decision = d]
             \/ records' = [records EXCEPT ![e].note = @ + 1]
  /\ UNCHANGED <<adjudications, loaded, out, reviews>>

-----------------------------------------------------------------------------
(* run *)

Load ==
  /\ ~ loaded.on
  /\ loaded' = [on |-> TRUE, records |-> records, adjudications |-> adjudications, active |-> active]
  /\ UNCHANGED <<records, adjudications, active, out, reviews, edits>>

Proposals == ProposalsOn(loaded.records)
Accepts == {a \in loaded.adjudications : a.decision = "ACCEPT"}

(* Every adjudication is of a proposal of this run, one to a proposal, by a reviewer in
   force, and no entity has two values accepted. *)
Answerable ==
  /\ \A a \in loaded.adjudications : a.proposal \in Proposals
  /\ \A a, b \in loaded.adjudications : a.proposal = b.proposal => a = b
  /\ loaded.adjudications # {} => loaded.active
  /\ \A a, b \in Accepts : a.proposal.entity = b.proposal.entity => a = b

Held(e) == loaded.records[e].state = "HOLD" \/ loaded.records[e].decision = "HOLD"

(* v162 is asked whether it could take the literal the issue is about. *)
Conclude ==
  /\ loaded.on /\ Answerable
  /\ \E compatible \in SUBSET Entities :
       out' = [proposals |-> Proposals, records |-> loaded.records, reviewed |-> loaded.adjudications,
               ready |-> {a \in Accepts : ~ Held(a.proposal.entity) /\ a.proposal.entity \in compatible}]
  /\ loaded' = [loaded EXCEPT !.on = FALSE]
  /\ UNCHANGED <<records, adjudications, active, reviews, edits>>

(* One stale adjudication refuses the whole run; so does a baseline that changed. *)
Raises ==
  /\ loaded.on
  /\ loaded' = [loaded EXCEPT !.on = FALSE]
  /\ UNCHANGED <<records, adjudications, active, out, reviews, edits>>

SemanticNext ==
  \/ \E p \in out.proposals : Adjudicate(p)
  \/ Withdraw \/ Edit \/ Load \/ Conclude \/ Raises

SemanticSpec == SemanticInit /\ [][SemanticNext]_semantic

-----------------------------------------------------------------------------
(* What a run hands to v162 is what a reviewer accepted having seen the record as the
   run found it, at most one value to a record, and none for a record a human or the
   ledger holds (or rejected: a hold stands for both); among the adjudications the run
   worked on there is none that rejects the proposal. *)
ReadySound ==
  \A a \in out.ready :
    /\ a.decision = "ACCEPT" /\ a.saw = out.records[a.proposal.entity]
    /\ out.records[a.proposal.entity].decision # "HOLD"
    /\ out.records[a.proposal.entity].state # "HOLD"
    /\ \A b \in out.reviewed :
         /\ b.proposal = a.proposal => b.decision = "ACCEPT"
         /\ b.proposal.entity = a.proposal.entity /\ b.decision = "ACCEPT" => b = a
=============================================================================
