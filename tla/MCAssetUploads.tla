---------------------------- MODULE MCAssetUploads ----------------------------
(* TLC instance of the ledgers that a restart goes back to: three uploads of *)
(* the gateway, with the queries of KnowledgeQueries beside them, and the job*)
(* ledger of Runtime; and of the RecordReviews.  They share no state, so each*)
(* is explored from an initial state of the others and not in the product of *)
(* all.                                                                      *)
EXTENDS AssetUploads, RecordReviews, Runtime, TLC

CONSTANTS u1, u2, u3, e1, e2, Claims, Keys, MaxRevision, MaxClears, Nothing

VARIABLES revision, blocked, cache, idem, stage, query, clears, clearedAt

queries ==
  <<revision, blocked, cache, idem, stage, query, clears, clearedAt>>

Queries == INSTANCE KnowledgeQueries

(* The store has a first revision, and no query is the null one. *)
ASSUME QueriesAssumption == MaxRevision \in Nat \ {0} /\ Nothing \notin Queries!Locals

(* Two projects upload the same bytes, and one of them others of the same name. *)
AskedFor ==
  [u \in Uploads |->
     [project |-> IF u = u2 THEN "beta" ELSE "alpha",
      filename |-> "a.bin",
      bytes |-> IF u = u3 THEN "y" ELSE "x"]]

(* The first record has both kinds of issue, the second one of them; of two candidates
   for a record, both are proved or one of them. *)
IssueKinds == [e \in Entities |-> IF e = e1 THEN {"object_value", "condition_ast"} ELSE {"object_value"}]

FourCandidates ==
  {[id |-> 1, entity |-> e1, proved |-> TRUE], [id |-> 2, entity |-> e1, proved |-> TRUE],
   [id |-> 3, entity |-> e2, proved |-> TRUE], [id |-> 4, entity |-> e2, proved |-> FALSE]}

ThreadSymmetry == Permutations(Threads)

MCInit == Init /\ Queries!Init /\ LedgerInit /\ ReviewsInit
MCNext ==
  \/ reviewing = "none" /\ Queries!Init /\ LedgerInit /\ Next /\ UNCHANGED <<queries, ledgerVars, reviewVars>>
  \/ reviewing = "none" /\ Init /\ LedgerInit /\ Queries!Next /\ UNCHANGED <<vars, ledgerVars, reviewVars>>
  \/ reviewing = "none" /\ Init /\ Queries!Init /\ LedgerNext /\ UNCHANGED <<vars, queries, reviewVars>>
  \/ ReviewsNext /\ UNCHANGED <<vars, queries, ledgerVars>>
MCSpec == MCInit /\ [][MCNext]_<<vars, queries, ledgerVars, reviewVars>>

(* The types of the queries, and K22 and K23: see KnowledgeQueries. *)
CacheSound == Queries!TypeOK /\ Queries!CacheSound
=============================================================================
