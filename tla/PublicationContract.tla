-------------------------- MODULE PublicationContract --------------------------
(***************************************************************************)
(* What the CMS adapter promises a caller, without locks, statements or    *)
(* lost replies: an idempotency key is answered once and for all, a        *)
(* PUBLISHED answer stands on a draft that was made, and no two answers    *)
(* claim the same draft as their own effect.                               *)
(***************************************************************************)
EXTENDS Integers

CONSTANTS Keys, Articles, Receipt, NoReceipt

VARIABLES
  answer,  \* the receipt of each key
  claimed, \* how many answers claim a draft of each article revision as their effect
  made,    \* how many drafts were made for it
  live     \* the article revisions with a draft in the CMS

vars == <<answer, claimed, made, live>>

Init ==
  /\ answer = [k \in Keys |-> NoReceipt]
  /\ claimed = [a \in Articles |-> 0]
  /\ made = [a \in Articles |-> 0]
  /\ live = {}

Make(a) ==
  /\ a \notin live
  /\ live' = live \cup {a}
  /\ made' = [made EXCEPT ![a] = @ + 1]
  /\ UNCHANGED <<answer, claimed>>

Remove(a) ==
  /\ live' = live \ {a}
  /\ UNCHANGED <<answer, claimed, made>>

Answer(k, r) ==
  /\ answer[k] = NoReceipt
  /\ r.status = "PUBLISHED" => made[r.article] > 0
  /\ r.effects = 1 => claimed[r.article] < made[r.article]
  /\ answer' = [answer EXCEPT ![k] = r]
  /\ claimed' = [claimed EXCEPT ![r.article] = @ + r.effects]
  /\ UNCHANGED <<made, live>>

Next ==
  \/ \E a \in Articles : Make(a) \/ Remove(a)
  \/ \E k \in Keys, r \in Receipt : Answer(k, r)

Spec == Init /\ [][Next]_vars
=============================================================================
