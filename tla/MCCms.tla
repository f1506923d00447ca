-------------------------------- MODULE MCCms --------------------------------
(* TLC instance of CmsAdapter and of the evidence pipeline of EvidenceRun.  The two
   share no state, so each is explored from an initial state of the other and not in
   the product of both. *)
EXTENDS CmsAdapter, EvidenceRun, TLC

CallerSymmetry == Permutations(Callers)

(* What propose writes, two complete proposals for one issue, and one a human holds. *)
NoEvidence ==
  [id |-> "w", entity |-> "e1", complete |-> FALSE, gaps |-> TRUE, current |-> TRUE,
   held |-> FALSE, issues |-> {1}]
HandMade ==
  {[id |-> i, entity |-> IF i = "a" THEN "e1" ELSE "e2", complete |-> TRUE, gaps |-> FALSE,
    current |-> TRUE, held |-> i = "h", issues |-> {1}] : i \in {"a", "b", "h"}}

MCInit == Init /\ EvidenceInit
MCSpec ==
  /\ MCInit
  /\ [][\/ EvidenceInit /\ ~ dir["acq"].made /\ Next /\ UNCHANGED evidence
        \/ Init /\ EvidenceNext /\ UNCHANGED vars]_<<vars, evidence>>
=============================================================================
