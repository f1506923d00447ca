------------------------------- MODULE Canonical -------------------------------
(***************************************************************************)
(* The clustering of knowledge claims (canonicalize_knowledge in           *)
(* src/src/kf_pilot/canonicalize.py): one step per pair of records, in the *)
(* order of the loops.                                                     *)
(*                                                                         *)
(* Abstractions.  Whether _relation finds two texts EQUIVALENT is a        *)
(* symmetric relation of their signatures, any one that is reflexive: it   *)
(* looks at no more than the signature has (scope, tokens of the semantic  *)
(* text, numbers, conditions).  The loop over groups of one scope is the   *)
(* loop over all pairs, as records of different scopes are UNRELATED.      *)
(* `root` is what find returns; the halving of paths does not show.  The   *)
(* other relations only go to the tables of relations and conflicts.       *)
(***************************************************************************)
EXTENDS Integers

CONSTANTS
  Count,      \* number of records
  Signatures  \* their texts, as far as the code tells them apart

Records == 1..Count

VARIABLES
  signature,   \* per record
  equivalent,  \* pairs of signatures, as sets
  root,        \* per record, find of it
  left, right  \* the pair the loops are at

clusters == <<signature, equivalent, root, left, right>>

Unjoined ==
  /\ signature \in [Records -> Signatures]
  /\ equivalent \in SUBSET {{s, t} : s, t \in Signatures}
  /\ \A s \in Signatures : {s} \in equivalent
  /\ root = [i \in Records |-> i]
  /\ left = 1 /\ right = 2

Equivalent(i, j) == {signature[i], signature[j]} \in equivalent
Members(r) == {i \in Records : root[i] = r}

(* A mutant: one equivalent pair is enough to join two clusters. *)
UnionSingle(i, j) == [k \in Records |-> IF root[k] = root[j] THEN root[i] ELSE root[k]]

(* Complete link: every member of one with every member of the other. *)
Union(i, j) ==
  IF \A k \in Members(root[i]), l \in Members(root[j]) : Equivalent(k, l)
  THEN [k \in Records |-> IF root[k] = root[j] THEN root[i] ELSE root[k]]
  ELSE root

Compare ==
  /\ left < Count
  /\ root' = IF Equivalent(left, right) THEN Union(left, right) ELSE root
  /\ IF right < Count
     THEN right' = right + 1 /\ UNCHANGED left
     ELSE left' = left + 1 /\ right' = left + 2
  /\ UNCHANGED <<signature, equivalent>>

Clustering == Unjoined /\ [][Compare]_clusters

----------------------------------------------------------------------------
Done == left = Count

(* A cluster is a clique: no two of its members are told apart. *)
CompleteLink == \A i, j \in Records : root[i] = root[j] => Equivalent(i, j)

(* No two clusters could have been one, when all pairs are done. *)
Maximal ==
  Done => \A i, j \in Records : root[i] # root[j] =>
            \E k \in Members(root[i]), l \in Members(root[j]) : ~ Equivalent(k, l)

(* The id of an item is the signature of a member: two items never share    *)
(* one, whichever members represent them, and so no approval of one can be  *)
(* taken for an approval of another.                                        *)
IdsDistinct ==
  Done => \A i, j \in Records : signature[i] = signature[j] => root[i] = root[j]

ClustersSound == CompleteLink /\ Maximal /\ IdsDistinct

=============================================================================
