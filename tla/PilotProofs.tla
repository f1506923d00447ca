---------------------------- MODULE PilotProofs ----------------------------
(* Theorems about the four machines of kf_pilot that MCPilot checks: ReviewLoop, Canonical,
   ShadowBridge and StagingCycle, each for every value of its constants. *)
EXTENDS ReviewLoop, Canonical, ShadowBridge, StagingCycle, FiniteSetTheorems, TLAPS

(* ReviewLoop, for any candidates, chunks, runs and faults.

   The argument.  A run looks for the card before it writes, and nothing else makes one:
   so an id has one card, the one a run found, unless its creation was sent again; then
   its cards are all of this run, and no later run gets past them.  A person's decision is
   on the card, and a write keeps it; and by the time the decisions are pulled every row
   that the run syncs has been written, so its cards bear the id of this run. *)
CardRows ==
  [id : Ids, run : RunIds, word : {"none", "APPROVED", "REJECTED"},
   decision : {"HOLD", "PENDING", "APPROVED", "REJECTED"}]
Candidates == [id : Ids, state : States]
Busy == {"extract", "find", "write", "pull"}

(* The cards, and what a run holds. *)
CardTypes ==
  /\ cards \in Seq(CardRows)
  /\ at \in {"idle"} \cup Busy
  /\ at \in Busy => run \in RunIds
  /\ rows \subseteq Candidates
  /\ sent \subseteq rows
  /\ at \in {"find", "write", "pull"} => todo \subseteq sent
  /\ at = "write" => row \in sent

(* The cards of a row bear the id of this run. *)
OfThisRun(r) == \A n \in DOMAIN cards : cards[n].id = r.id => cards[n].run = run

(* What a write rests on: the card that was found is still the only one, or there was none
   but what this very request may have made. *)
FoundInv ==
  at = "write" =>
    \/ found # 0 /\ CardsOf(row.id) = {found}
    \/ found = 0 /\ OfThisRun(row) /\ (CardsOf(row.id) = {} \/ row.id \in resent)

(* A card says what a person last said, and that only. *)
WordInv == \A n \in DOMAIN cards : cards[n].word = "APPROVED" <=> cards[n].decision = "APPROVED"

(* The rows a run has synced are on cards of this run. *)
SyncedInv ==
  /\ at = "find"  => \A r \in sent \ todo : OfThisRun(r)
  /\ at = "write" => \A r \in sent \ todo : r = row \/ OfThisRun(r)
  /\ at = "pull"  => \A r \in sent : OfThisRun(r)

ReviewInv == CardTypes /\ FoundInv /\ CardsUnique /\ WordInv /\ SyncedInv

LEMMA InitReviewInv == Init => ReviewInv
BY DEF Init, ReviewInv, CardTypes, Busy, FoundInv, CardsUnique, WordInv, SyncedInv

USE DEF locals

(* A run that ends leaves nothing that a part of the invariant is about, but the cards. *)
LEMMA EndInv ==
  ASSUME End, CardTypes, cards' \in Seq(CardRows) PROVE CardTypes' /\ FoundInv' /\ SyncedInv'
BY DEF End, CardTypes, FoundInv, SyncedInv, Busy

(* A query that does not see two cards sees none or one. *)
LEMMA OneCard ==
  ASSUME CardTypes, NEW id, ~ (Cardinality(CardsOf(id)) > 1), CardsOf(id) # {}
  PROVE  \E n \in DOMAIN cards : n # 0 /\ CardsOf(id) = {n}
<1>1. CardsOf(id) \subseteq 1..Len(cards) /\ Len(cards) \in Nat /\ DOMAIN cards = 1..Len(cards)
  BY DEF CardTypes, CardsOf
<1>2. IsFiniteSet(1..Len(cards))
  BY <1>1, FS_Interval
<1>3. IsFiniteSet(CardsOf(id))
  BY <1>1, <1>2, FS_Subset
<1>4. Cardinality(CardsOf(id)) \in Nat /\ Cardinality(CardsOf(id)) # 0
  BY <1>3, FS_CardinalityType, FS_EmptySet
<1>5. PICK n : CardsOf(id) = {n}
  <2>1. Cardinality(CardsOf(id)) = 1
    BY <1>4
  <2>2. QED BY <1>3, <2>1, FS_Singleton
<1>6. n \in 1..Len(cards) /\ n # 0
  BY <1>1, <1>5
<1>7. QED BY <1>1, <1>5, <1>6

(* What Upsert writes: the card of the row, of this run, and no word that was not there. *)
LEMMA UpsertInv ==
  ASSUME ReviewInv, at = "write", cards' = Upsert, resent \subseteq resent'
  PROVE  /\ cards' \in Seq(CardRows)
         /\ CardsUnique'
         /\ WordInv'
         /\ \A n \in DOMAIN cards' :
              cards'[n].run = run \/ (n \in DOMAIN cards /\ cards'[n] = cards[n])
         /\ \A n \in DOMAIN cards' : cards'[n].id = row.id => cards'[n].run = run
         /\ \A n \in DOMAIN cards : n \in DOMAIN cards' /\ cards'[n].id = cards[n].id
         /\ found # 0 => DOMAIN cards' = DOMAIN cards
<1> USE DEF ReviewInv
<1>1. row \in Candidates /\ run \in RunIds /\ cards \in Seq(CardRows)
  BY DEF CardTypes, Busy
<1>2. CASE found = 0 /\ OfThisRun(row) /\ (CardsOf(row.id) = {} \/ row.id \in resent)
  <2>1. cards' = Append(cards, Card(row))
    BY <1>2 DEF Upsert
  <2>2. Card(row) \in CardRows /\ Card(row).id = row.id /\ Card(row).run = run
        /\ Card(row).word # "APPROVED" /\ Card(row).decision # "APPROVED"
    BY <1>1 DEF Card, CardRows, Candidates
  <2> HIDE DEF Card
  <2>3. /\ cards' \in Seq(CardRows) /\ Len(cards') = Len(cards) + 1
        /\ DOMAIN cards' = 1..(Len(cards) + 1) /\ DOMAIN cards = 1..Len(cards)
        /\ Len(cards) \in Nat
        /\ \A n \in 1..Len(cards) : cards'[n] = cards[n]
        /\ cards'[Len(cards) + 1] = Card(row)
    BY <1>1, <2>1, <2>2
  <2>4. \A n \in DOMAIN cards : cards[n].id = row.id => cards[n].run = run /\ row.id \in resent
    BY <1>2 DEF CardsOf, OfThisRun
  <2>5. \A n \in DOMAIN cards' : \/ n \in DOMAIN cards /\ cards'[n] = cards[n]
                                 \/ n = Len(cards) + 1 /\ cards'[n] = Card(row)
    BY <2>3
  <2>6. CardsUnique'
    BY <2>2, <2>4, <2>5 DEF CardsUnique
  <2>7. WordInv'
    BY <2>2, <2>5 DEF WordInv
  <2>8. QED BY <1>2, <2>2, <2>3, <2>4, <2>5, <2>6, <2>7
<1>3. CASE found # 0 /\ CardsOf(row.id) = {found}
  <2>1. found \in DOMAIN cards /\ cards[found].id = row.id /\ found # 0
    BY <1>1, <1>3 DEF CardsOf
  <2>2. cards' = [cards EXCEPT ![found] = Merged(found)]
    BY <2>1 DEF Upsert
  <2>3. /\ Merged(found) \in CardRows /\ Merged(found).id = row.id /\ Merged(found).run = run
        /\ Merged(found).word = cards[found].word
        /\ Merged(found).decision = cards[found].decision
    <3>1. cards[found] \in CardRows
      BY <1>1, <2>1
    <3>2. QED BY <1>1, <2>1, <3>1 DEF Merged, CardRows
  <2> HIDE DEF Merged
  <2>4. /\ cards' \in Seq(CardRows) /\ DOMAIN cards' = DOMAIN cards
        /\ cards'[found] = Merged(found)
        /\ \A n \in DOMAIN cards : n # found => cards'[n] = cards[n]
    BY <1>1, <2>1, <2>2, <2>3
  <2>5. \A n \in DOMAIN cards : cards'[n].id = cards[n].id
    BY <2>1, <2>3, <2>4
  <2>6. CardsUnique'
    BY <2>4, <2>5 DEF CardsUnique
  <2>7. WordInv'
    BY <2>1, <2>3, <2>4 DEF WordInv
  <2>8. \A n \in DOMAIN cards' : cards'[n].id = row.id => n = found
    BY <1>3, <2>4, <2>5 DEF CardsOf
  <2>9. QED BY <2>3, <2>4, <2>5, <2>6, <2>7, <2>8
<1>4. QED BY <1>2, <1>3 DEF FoundInv

(* A row of the extraction is a candidate. *)
LEMMA RowInv ==
  ASSUME CardTypes, NEW id \in Ids, Row(id)
  PROVE  rows' \subseteq Candidates /\ rows \subseteq rows'
BY DEF CardTypes, Row, Candidates

(* What is pulled is what people had said of the rows that pass, and all they had said of
   those that were synced. *)
LEMMA PullInv ==
  ASSUME ReviewInv, at = "pull"
  PROVE  Said \cap {r.id : r \in sent} \subseteq Approved /\ Approved \subseteq Said
<1> USE DEF ReviewInv
<1>1. ASSUME NEW id \in Approved PROVE id \in Said
  <2>1. id \in Passed
    BY DEF Approved
  <2>2. PICK n \in DOMAIN cards : cards[n].run = run /\ cards[n].decision = "APPROVED" /\ cards[n].id = id
    BY DEF Approved
  <2>3. n \in CardsOf(id) /\ cards[n].word = "APPROVED"
    BY <2>2 DEF CardsOf, WordInv
  <2>4. QED BY <2>1, <2>3 DEF Said
<1>2. ASSUME NEW r \in sent, r.id \in Said PROVE r.id \in Approved
  <2>1. PICK n \in CardsOf(r.id) : cards[n].word = "APPROVED"
    BY <1>2 DEF Said
  <2>2. n \in DOMAIN cards /\ cards[n].id = r.id
    BY DEF CardsOf
  <2>3. cards[n].run = run /\ cards[n].decision = "APPROVED"
    BY <2>1, <2>2 DEF SyncedInv, OfThisRun, WordInv
  <2>4. r.id \in Passed
    BY <1>2 DEF Said
  <2>5. QED BY <2>2, <2>3, <2>4 DEF Approved
<1>3. QED BY <1>1, <1>2

LEMMA DecidedCard ==
  ASSUME NEW card \in CardRows, NEW d \in {"APPROVED", "REJECTED"}
  PROVE  [card EXCEPT !.decision = d, !.word = d] \in CardRows
<1> DEFINE decided == [card EXCEPT !.decision = d]
<1>1. decided \in CardRows
  BY DEF CardRows
<1>2. [decided EXCEPT !.word = d] = [card EXCEPT !.decision = d, !.word = d]
  BY Zenon
<1> HIDE DEF decided
<1>3. [decided EXCEPT !.word = d] \in CardRows
  BY <1>1 DEF CardRows
<1>4. QED BY <1>2, <1>3

LEMMA ReviewStep ==
  ASSUME ReviewInv, [Next]_vars PROVE ReviewInv'
<1> USE DEF ReviewInv
<1>1. ASSUME NEW r \in RunIds, Begin(r) PROVE ReviewInv'
  BY <1>1 DEF Begin, CardTypes, Busy, FoundInv, CardsUnique, WordInv, SyncedInv
<1>2. ASSUME at = "extract", at' = "extract", rows' \subseteq Candidates, rows \subseteq rows',
             UNCHANGED <<cards, run, sent, resent>>
      PROVE  ReviewInv'
  BY <1>2 DEF CardTypes, Busy, FoundInv, CardsUnique, WordInv, SyncedInv
<1>3. ASSUME NEW i \in Stable, Template(i) PROVE ReviewInv'
  <2>1. <<i, "same">> \in Ids
    BY DEF Ids
  <2>2. QED BY <1>2, <1>3, <2>1, RowInv DEF Template
<1>4. ASSUME NEW c \in Chunks, Cached(c) PROVE ReviewInv'
  <2>1. <<c, "cached">> \in Ids
    BY DEF Ids
  <2>2. QED BY <1>2, <1>4, <2>1, RowInv DEF Cached
<1>5. ASSUME NEW c \in Chunks, Asked(c) PROVE ReviewInv'
  <2>1. <<c, "live">> \in Ids
    BY DEF Ids
  <2>2. rows' \subseteq Candidates /\ rows \subseteq rows'
    BY <1>5, <2>1, RowInv DEF Asked, CardTypes
  <2>3. QED BY <1>2, <1>5, <2>2 DEF Asked
<1>6. ASSUME End, cards' \in Seq(CardRows), CardsUnique', WordInv' PROVE ReviewInv'
  BY <1>6, EndInv
<1>7. ASSUME End, UNCHANGED <<cards, resent>> PROVE ReviewInv'
  BY <1>6, <1>7 DEF CardTypes, CardsUnique, WordInv
<1>8. CASE Extracted
  <2>1. /\ at' = "find" /\ sent' \subseteq rows /\ todo' = sent'
        /\ UNCHANGED <<cards, run, rows, row, found, resent>> /\ at = "extract"
    BY <1>8 DEF Extracted, Heads
  <2>2. QED BY <2>1 DEF CardTypes, Busy, FoundInv, CardsUnique, WordInv, SyncedInv
<1>9. ASSUME at = "find", NEW r \in todo, Find(r) PROVE ReviewInv'
  <2>1. UNCHANGED <<cards, resent>>
    BY <1>9 DEF Find
  <2>2. CASE End
    BY <1>7, <2>1, <2>2
  <2>3. CASE /\ row' = r /\ todo' = todo \ {r} /\ at' = "write" /\ UNCHANGED <<run, rows, sent>>
             /\ found' = IF CardsOf(r.id) = {} THEN 0 ELSE CHOOSE n \in CardsOf(r.id) : TRUE
             /\ ~ (Cardinality(CardsOf(r.id)) > 1)
    <3>1. CardTypes'
      BY <1>9, <2>1, <2>3 DEF CardTypes, Busy
    <3>0. (CardsOf(row.id))' = CardsOf(r.id)
      BY <2>1, <2>3 DEF CardsOf
    <3>2. ASSUME CardsOf(r.id) = {} PROVE FoundInv'
      <4>1. found' = 0 /\ \A n \in DOMAIN cards : cards[n].id # r.id
        BY <2>3, <3>2 DEF CardsOf
      <4>2. QED BY <2>1, <2>3, <3>2, <3>0, <4>1 DEF FoundInv, OfThisRun
    <3>3. ASSUME CardsOf(r.id) # {} PROVE FoundInv'
      <4>1. PICK n \in DOMAIN cards : n # 0 /\ CardsOf(r.id) = {n}
        BY <2>3, <3>3, OneCard
      <4>2. found' = n
        BY <2>3, <4>1
      <4>3. QED BY <3>0, <4>1, <4>2 DEF FoundInv
    <3>4. FoundInv'
      BY <3>2, <3>3
    <3>5. SyncedInv'
      BY <1>9, <2>1, <2>3 DEF SyncedInv, OfThisRun
    <3>6. QED BY <2>1, <3>1, <3>4, <3>5 DEF CardsUnique, WordInv
  <2>4. QED BY <1>9, <2>2, <2>3 DEF Find
<1>10. CASE Write
  <2>1. /\ at = "write" /\ cards' = Upsert /\ at' = "find"
        /\ UNCHANGED <<run, todo, rows, sent, resent>>
    BY <1>10 DEF Write
  <2>2. CardTypes' /\ FoundInv'
    BY <2>1, UpsertInv DEF CardTypes, Busy, FoundInv
  <2>3. ASSUME NEW r \in sent \ todo PROVE OfThisRun(r)'
    <3>1. CASE r = row
      BY <2>1, <3>1, UpsertInv DEF OfThisRun
    <3>2. CASE OfThisRun(r)
      BY <2>1, <3>2, UpsertInv DEF OfThisRun
    <3>3. QED BY <2>1, <2>3, <3>1, <3>2 DEF SyncedInv
  <2>4. SyncedInv'
    BY <2>1, <2>3 DEF SyncedInv
  <2>5. QED BY <2>1, <2>2, <2>4, UpsertInv
<1>11. CASE Resend
  <2>1. /\ at = "write" /\ (cards' = cards \/ cards' = Upsert) /\ resent \subseteq resent'
        /\ cards' # cards /\ found = 0 => row.id \in resent'
        /\ UNCHANGED <<at, run, todo, rows, sent, row, found>>
    BY <1>11 DEF Resend
  <2>2. CASE cards' = cards
    BY <2>1, <2>2 DEF CardTypes, FoundInv, CardsOf, CardsUnique, WordInv, SyncedInv, OfThisRun
  <2>3. CASE cards' = Upsert /\ cards' # cards
    <3>1. /\ cards' \in Seq(CardRows) /\ CardsUnique' /\ WordInv'
          /\ \A n \in DOMAIN cards' :
               cards'[n].run = run \/ (n \in DOMAIN cards /\ cards'[n] = cards[n])
          /\ \A n \in DOMAIN cards' : cards'[n].id = row.id => cards'[n].run = run
          /\ \A n \in DOMAIN cards : n \in DOMAIN cards' /\ cards'[n].id = cards[n].id
          /\ found # 0 => DOMAIN cards' = DOMAIN cards
      BY <2>1, <2>3, UpsertInv
    <3>2. CardTypes'
      BY <2>1, <3>1 DEF CardTypes
    <3>3. FoundInv'
      <4>1. ASSUME found = 0 PROVE FoundInv'
        BY <2>1, <2>3, <3>1, <4>1 DEF FoundInv, OfThisRun
      <4>2. ASSUME found # 0 PROVE FoundInv'
        <5>1. CardsOf(row.id) = {found} /\ CardsOf(row.id)' = CardsOf(row.id)
          BY <2>1, <3>1, <4>2 DEF FoundInv, CardsOf
        <5>2. QED BY <2>1, <4>2, <5>1 DEF FoundInv
      <4>3. QED BY <4>1, <4>2
    <3>4. SyncedInv'
      BY <2>1, <3>1 DEF SyncedInv, OfThisRun
    <3>5. QED BY <3>1, <3>2, <3>3, <3>4
  <2>4. QED BY <2>1, <2>2, <2>3
<1>12. CASE Ambiguous
  <2>1. at = "write" /\ (cards' = cards \/ cards' = Upsert) /\ End /\ UNCHANGED resent
    BY <1>12 DEF Ambiguous
  <2>2. CASE cards' = cards
    BY <1>7, <2>1, <2>2
  <2>3. CASE cards' = Upsert
    BY <1>6, <2>1, <2>3, UpsertInv
  <2>4. QED BY <2>1, <2>2, <2>3
<1>13. CASE Synced
  BY <1>13 DEF Synced, CardTypes, Busy, FoundInv, CardsUnique, WordInv, SyncedInv, OfThisRun
<1>14. CASE CacheTorn \/ Pull \/ NoPull \/ Die
  <2>1. End /\ UNCHANGED <<cards, resent>>
    BY <1>14 DEF CacheTorn, Pull, NoPull, Die
  <2>2. QED BY <1>7, <2>1
<1>15. ASSUME NEW n \in DOMAIN cards, NEW d \in {"APPROVED", "REJECTED"}, Decide(n, d)
       PROVE  ReviewInv'
  <2>1. /\ cards' = [cards EXCEPT ![n].decision = d, ![n].word = d]
        /\ UNCHANGED <<at, run, todo, rows, sent, row, found, resent>>
    BY <1>15 DEF Decide
  <2>2. cards \in Seq(CardRows) /\ cards[n] \in CardRows
    BY <1>15 DEF CardTypes
  <2>3. PICK card \in CardRows : card = [cards[n] EXCEPT !.decision = d, !.word = d]
    BY <2>2, DecidedCard
  <2>4. cards' \in Seq(CardRows) /\ DOMAIN cards' = DOMAIN cards
    <3>1. cards' = [cards EXCEPT ![n] = card]
      BY <2>1, <2>2, <2>3
    <3>2. QED BY <1>15, <2>2, <3>1
  <2>5. \A m \in DOMAIN cards : cards'[m].id = cards[m].id /\ cards'[m].run = cards[m].run
    BY <2>1, <2>2 DEF CardRows
  <2>6. WordInv'
    BY <2>1, <2>2, <2>4 DEF WordInv, CardRows
  <2>7. CardTypes'
    BY <2>1, <2>4 DEF CardTypes
  <2>8. FoundInv'
    <3>1. (CardsOf(row.id))' = CardsOf(row.id)
      BY <2>1, <2>4, <2>5 DEF CardsOf
    <3>2. OfThisRun(row) => OfThisRun(row)'
      BY <2>1, <2>4, <2>5 DEF OfThisRun
    <3>3. QED BY <2>1, <3>1, <3>2 DEF FoundInv
  <2>9. SyncedInv'
    BY <2>1, <2>4, <2>5 DEF SyncedInv, OfThisRun
  <2>10. QED BY <2>1, <2>4, <2>5, <2>6, <2>7, <2>8, <2>9 DEF CardsUnique
<1>16. CASE UNCHANGED vars
  BY <1>16 DEF vars, CardTypes, FoundInv, CardsOf, CardsUnique, WordInv, SyncedInv, OfThisRun
<1>17. QED BY <1>1, <1>3, <1>4, <1>5, <1>8, <1>9, <1>10, <1>11, <1>12, <1>13, <1>14, <1>15,
              <1>16 DEF Next

LEMMA ReviewInvAlways == Spec => []ReviewInv
<1>1. Init => ReviewInv
  BY InitReviewInv
<1>2. ReviewInv /\ [Next]_vars => ReviewInv'
  BY ReviewStep
<1>3. QED BY <1>1, <1>2, PTL DEF Spec

(* No id has two cards, however runs end, but one whose creation answered 529 and was sent
   again. *)
THEOREM CardsAreUnique == Spec => []CardsUnique
<1>1. ReviewInv => CardsUnique
  BY DEF ReviewInv
<1>2. QED BY <1>1, ReviewInvAlways, PTL

(* What a run exports is what people had approved of the candidates that pass its gates,
   and all they had approved of those it synced. *)
THEOREM ExportsAreFaithful == Spec => ExportFaithful
<1>1. ReviewInv /\ [Next]_vars =>
        [Pull => Said \cap {r.id : r \in sent} \subseteq exported' /\ exported' \subseteq Said]_vars
  <2> SUFFICES ASSUME ReviewInv, Pull
               PROVE  Said \cap {r.id : r \in sent} \subseteq exported' /\ exported' \subseteq Said
    OBVIOUS
  <2>1. at = "pull" /\ exported' = Approved
    BY DEF Pull
  <2>2. QED BY <2>1, PullInv
<1>2. QED BY <1>1, ReviewInvAlways, PTL DEF Spec, ExportFaithful

-----------------------------------------------------------------------------
(* Proofs about Canonical, for any number of records and of texts: clusters   *)
(* are cliques, no two could have been one, and no two hold the same text.    *)
(*                                                                           *)
(* The last is the one that takes an argument.  Two records of one signature  *)
(* are related alike to everything, but a cluster is joined greedily and      *)
(* takes one of them before the other.  TwinsTogether says what keeps them    *)
(* together: until the loops are through with them they are in one cluster,   *)
(* or each is alone and what kept the first out keeps the second out, or the  *)
(* first is in the cluster being built and the second, alone, comes next.     *)

ClusterTypes ==
  /\ signature \in [Records -> Signatures]
  /\ root \in [Records -> Records]
  /\ left \in Nat /\ right \in Nat
  /\ left >= 1 /\ left < right /\ right <= Count + 1
  /\ left < Count => right <= Count
  /\ left <= Count
  /\ \A s \in Signatures : {s} \in equivalent

(* The pairs the loops have been through. *)
Compared(i, j) == i < j /\ (i < left \/ (i = left /\ j < right))

(* A pair seen is in one cluster, or two members keep their clusters apart. *)
Apart ==
  \A i, j \in Records : Compared(i, j) /\ root[i] # root[j] =>
    \E k, l \in Records : root[k] = root[i] /\ root[l] = root[j] /\ ~ Equivalent(k, l)

Alone(i) == \A k \in Records : root[k] = root[i] => k = i

Twins(i, j) == i < j /\ signature[i] = signature[j]

(* Neither twin is in a cluster yet; what kept the first out of the one     *)
(* being built is in it.                                                    *)
Waiting(i, j) ==
  /\ Alone(i) /\ Alone(j)
  /\ ~ Compared(i, j)
  /\ left < i /\ i < right /\ right <= j =>
       \E k \in Records : root[k] = root[left] /\ ~ Equivalent(k, i)

(* The first twin is in the cluster being built, and the second's turn is   *)
(* still to come.                                                           *)
Following(i, j) ==
  /\ Alone(j)
  /\ left <= i /\ i < right /\ right <= j
  /\ root[i] = root[left]

TwinsTogether ==
  \A i, j \in Records :
    Twins(i, j) => root[i] = root[j] \/ Waiting(i, j) \/ Following(i, j)

ClusterInv == ClusterTypes /\ CompleteLink /\ Apart /\ TwinsTogether

----------------------------------------------------------------------------
LEMMA InitClusterInv == ASSUME Count \in Nat \ {0}, Unjoined PROVE ClusterInv
<1> USE DEF Unjoined, Records
<1>1. ClusterTypes
  BY DEF ClusterTypes
<1>2. CompleteLink
  <2> SUFFICES ASSUME NEW i \in Records, NEW j \in Records, root[i] = root[j]
               PROVE Equivalent(i, j)
    BY DEF CompleteLink
  <2>1. i = j
    OBVIOUS
  <2>2. signature[i] \in Signatures /\ {signature[i]} \in equivalent
    OBVIOUS
  <2>3. {signature[i], signature[j]} = {signature[i]}
    BY <2>1
  <2> QED BY <2>2, <2>3 DEF Equivalent
<1>3. Apart
  BY DEF Apart, Compared
<1>4. TwinsTogether
  <2>1. \A i, j \in Records : root[i] = root[j] <=> i = j
    OBVIOUS
  <2>2. ASSUME NEW i \in Records, NEW j \in Records, Twins(i, j)
        PROVE  Waiting(i, j)
    <3>1. i \in Int /\ j \in Int /\ i >= 1 /\ i < j
      BY <2>2 DEF Twins
    <3>2. ~ Compared(i, j) /\ ~ (left < i /\ i < right)
      BY <3>1 DEF Compared
    <3> QED BY <2>1, <3>2 DEF Waiting, Alone
  <2> QED BY <2>2 DEF TwinsTogether
<1> QED BY <1>1, <1>2, <1>3, <1>4 DEF ClusterInv

(* What one step does to the clusters. *)
Joins ==
  /\ Equivalent(left, right)
  /\ \A k, l \in Records : root[k] = root[left] /\ root[l] = root[right] => Equivalent(k, l)

LEMMA CompareCases ==
  ASSUME Count \in Nat \ {0}, ClusterTypes, Compare
  PROVE  /\ left \in Records /\ right \in Records
         /\ Joins => root' = [k \in Records |-> IF root[k] = root[right] THEN root[left] ELSE root[k]]
         /\ ~ Joins => root' = root
<1>1. left \in Records /\ right \in Records
  BY DEF ClusterTypes, Compare, Records
<1>2. Joins <=> /\ Equivalent(left, right)
                /\ \A k \in Members(root[left]), l \in Members(root[right]) : Equivalent(k, l)
  BY DEF Joins, Members
<1> QED BY <1>1, <1>2 DEF Compare, Union

LEMMA JoinFacts ==
  ASSUME Count \in Nat \ {0}, ClusterTypes, Compare
  PROVE  /\ \A k, l \in Records : root[k] = root[l] => root'[k] = root'[l]
         /\ \A k \in Records : root[k] # root[right] => root'[k] = root[k]
         /\ root'[left] = root[left]
         /\ Joins => root'[left] = root'[right]
         /\ \A k, l \in Records : root'[k] = root'[l] /\ root[k] # root[l] =>
              /\ Joins
              /\ \/ root[k] = root[left] /\ root[l] = root[right]
                 \/ root[k] = root[right] /\ root[l] = root[left]
<1>1. CASE Joins
  <2>1. \A k \in Records : root'[k] = IF root[k] = root[right] THEN root[left] ELSE root[k]
    BY <1>1, CompareCases
  <2> QED BY <1>1, <2>1, CompareCases
<1>2. CASE ~ Joins
  BY <1>2, CompareCases
<1> QED BY <1>1, <1>2

LEMMA ClusterTypeStep ==
  ASSUME Count \in Nat \ {0}, ClusterTypes, Compare PROVE ClusterTypes'
<1>1. root' \in [Records -> Records]
  BY CompareCases DEF ClusterTypes
<1>2. /\ left' \in Nat /\ right' \in Nat
      /\ left' >= 1 /\ left' < right' /\ right' <= Count + 1
      /\ left' < Count => right' <= Count
      /\ left' <= Count
  BY DEF ClusterTypes, Compare
<1>3. Records' = Records
  BY DEF Records
<1> QED BY <1>1, <1>2, <1>3 DEF ClusterTypes, Compare

LEMMA CliqueStep ==
  ASSUME Count \in Nat \ {0}, ClusterTypes, CompleteLink, Compare PROVE CompleteLink'
<1> SUFFICES ASSUME NEW i \in Records, NEW j \in Records, root'[i] = root'[j]
             PROVE Equivalent(i, j)
  BY DEF CompleteLink, Equivalent, Compare
<1>1. root[i] = root[j] => Equivalent(i, j)
  BY DEF CompleteLink
<1>2. \A k, l \in Records : Equivalent(k, l) => Equivalent(l, k)
  <2> SUFFICES ASSUME NEW k \in Records, NEW l \in Records PROVE {signature[k], signature[l]} = {signature[l], signature[k]}
    BY DEF Equivalent
  <2> QED OBVIOUS
<1>3. CASE ~ Joins
  BY <1>1, <1>3, CompareCases
<1>4. CASE Joins
  BY <1>1, <1>2, <1>4, CompareCases DEF Joins
<1> QED BY <1>3, <1>4

LEMMA ApartStep ==
  ASSUME Count \in Nat \ {0}, ClusterTypes, CompleteLink, Apart, Compare PROVE Apart'
<1> SUFFICES ASSUME NEW i \in Records, NEW j \in Records, Compared(i, j)', root'[i] # root'[j]
             PROVE \E k, l \in Records : root'[k] = root'[i] /\ root'[l] = root'[j] /\ ~ Equivalent(k, l)
  <2>1. signature' = signature /\ equivalent' = equivalent
    BY DEF Compare
  <2> QED BY <2>1, ZenonT(40) DEF Apart, Equivalent, Compared
<1>1. \A k, l \in Records : root[k] = root[l] => root'[k] = root'[l]
  BY JoinFacts
<1>2. CASE Compared(i, j)
  <2>1. PICK k, l \in Records : root[k] = root[i] /\ root[l] = root[j] /\ ~ Equivalent(k, l)
    BY <1>1, <1>2 DEF Apart
  <2> QED BY <1>1, <2>1
<1>3. CASE ~ Compared(i, j)
  <2>0. i \in Int /\ j \in Int /\ j <= Count /\ left \in Int /\ right \in Int
        /\ left < right /\ left < Count /\ right <= Count
    BY DEF Records, ClusterTypes, Compare
  <2>1. i = left /\ j = right
    BY <1>3, <2>0 DEF Compared, Compare
  <2>2. ~ Joins
    <3> SUFFICES ASSUME Joins PROVE FALSE
      OBVIOUS
    <3> QED BY <2>1, JoinFacts
  <2>3. PICK k, l \in Records : root[k] = root[i] /\ root[l] = root[j] /\ ~ Equivalent(k, l)
    BY <2>1, <2>2 DEF Joins
  <2> QED BY <1>1, <2>3
<1> QED BY <1>2, <1>3

LEMMA TwinsStep ==
  ASSUME Count \in Nat \ {0}, ClusterTypes, CompleteLink, TwinsTogether, Compare
  PROVE  TwinsTogether'
<1> SUFFICES ASSUME NEW i \in Records, NEW j \in Records, Twins(i, j)
             PROVE  root'[i] = root'[j] \/ Waiting(i, j)' \/ Following(i, j)'
  BY DEF TwinsTogether, Twins, Compare
<1>1. /\ i \in Int /\ j \in Int /\ i >= 1 /\ i < j /\ j <= Count
      /\ left \in Records /\ right \in Records
      /\ left \in Int /\ right \in Int /\ left < right /\ left < Count /\ right <= Count
  BY CompareCases DEF Twins, Records, ClusterTypes, Compare
(* Twins are related alike, to each other too. *)
<1>3. \A k \in Records : Equivalent(k, i) <=> Equivalent(k, j)
  BY DEF Equivalent, Twins
<1>4. Equivalent(i, j)
  <2>1. {signature[i], signature[j]} = {signature[i]}
    BY DEF Twins
  <2> QED BY <2>1 DEF Equivalent, ClusterTypes
<1>5. CASE root[i] = root[j]
  BY <1>5, JoinFacts
<1>6. Compared(i, j)' => Compared(i, j) \/ (left = i /\ right = j)
  BY <1>1 DEF Compared, Compare
<1>7. \/ left' = left /\ right' = right + 1 /\ right < Count
      \/ left' = left + 1 /\ right' = left + 2 /\ right = Count
  BY <1>1 DEF Compare
<1>8. \A m \in Records : Alone(m) /\ left # m /\ right # m =>
        \A k \in Records : root'[k] = root'[m] => k = m
  BY <1>1, JoinFacts DEF Alone
<1>9. CASE Waiting(i, j) /\ root[i] # root[j]
  <2>1. Alone(i) /\ Alone(j) /\ ~ Compared(i, j) /\ left <= i /\ left # j
    BY <1>1, <1>9 DEF Waiting, Compared
  <2>2. CASE left = i /\ right = j
    <3>1. Joins
      BY <1>4, <2>1, <2>2, <1>1 DEF Joins, Alone
    <3> QED BY <3>1, <2>2, JoinFacts
  <2>3. CASE left = i /\ right # j
    <3>1. right < j /\ left' = left /\ right' = right + 1
      BY <1>1, <1>7, <2>1, <2>3 DEF Compared
    <3>2. Alone(j)'
      BY <1>8, <2>1, <2>3 DEF Alone
    <3> QED BY <1>1, <2>3, <3>1, <3>2 DEF Following
  <2>4. CASE left < i /\ right = i
    <3>1. left' = left /\ right' = right + 1
      BY <1>1, <1>7, <2>4
    <3>2. Alone(j)'
      BY <1>1, <1>8, <2>1, <2>4 DEF Alone
    <3>3. CASE Joins
      BY <1>1, <2>4, <3>1, <3>2, <3>3, JoinFacts DEF Following
    <3>4. CASE ~ Joins
      <4>1. \E k \in Records : root[k] = root[left] /\ ~ Equivalent(k, i)
        BY <1>1, <2>1, <2>4, <3>4 DEF Joins, Alone
      <4>2. root' = root
        BY <3>4, CompareCases
      <4>3. ~ Compared(i, j)'
        BY <1>1, <1>6, <2>1, <2>4
      <4>4. (\E k \in Records : root[k] = root[left] /\ ~ Equivalent(k, i))'
        BY <4>1, <4>2, <3>1 DEF Equivalent, Compare
      <4> QED BY <2>1, <4>2, <4>3, <4>4 DEF Waiting, Alone
    <3> QED BY <3>3, <3>4
  <2>5. CASE left < i /\ right = j
    <3>1. ~ Joins
      BY <1>1, <1>3, <1>9, <2>5 DEF Joins, Waiting
    <3>2. root' = root
      BY <3>1, CompareCases
    <3>3. ~ Compared(i, j)'
      BY <1>1, <1>6, <2>1, <2>5
    <3>4. ~ (left' < i /\ i < right' /\ right' <= j)
      BY <1>1, <1>7, <2>5
    <3> QED BY <2>1, <3>2, <3>3, <3>4 DEF Waiting, Alone
  <2>6. CASE left < i /\ right # i /\ right # j
    <3>1. Alone(i)' /\ Alone(j)'
      BY <1>8, <2>1, <2>6, <1>1 DEF Alone
    <3>2. ~ Compared(i, j)'
      BY <1>1, <1>6, <2>1, <2>6
    <3>3. ASSUME left' < i /\ i < right' /\ right' <= j
          PROVE  (\E k \in Records : root[k] = root[left] /\ ~ Equivalent(k, i))'
      <4>1. left' = left /\ i < right /\ right <= j
        BY <1>1, <1>7, <2>6, <3>3
      <4>2. PICK k \in Records : root[k] = root[left] /\ ~ Equivalent(k, i)
        BY <1>9, <2>6, <4>1 DEF Waiting
      <4>3. root'[k] = root'[left']
        BY <1>1, <4>1, <4>2, JoinFacts
      <4>4. signature' = signature /\ equivalent' = equivalent
        BY DEF Compare
      <4> QED BY <4>2, <4>3, <4>4 DEF Equivalent
    <3> QED BY <3>1, <3>2, <3>3 DEF Waiting
  <2> QED BY <1>1, <2>1, <2>2, <2>3, <2>4, <2>5, <2>6
<1>10. CASE Following(i, j) /\ root[i] # root[j]
  <2>1. CASE right = j
    <3>1. \A k \in Records : root[k] = root[left] => Equivalent(k, j)
      BY <1>3, <1>10, <1>1 DEF Following, CompleteLink
    <3>2. Joins
      BY <3>1, <2>1, <1>1, <1>10 DEF Joins, Following, Alone
    <3> QED BY <3>2, <2>1, <1>1, <1>10, JoinFacts DEF Following
  <2>2. CASE right # j
    <3>1. left' = left /\ right' = right + 1 /\ right < j /\ left # j
      BY <1>1, <1>7, <1>10, <2>2 DEF Following
    <3>2. Alone(j)'
      BY <1>8, <1>10, <2>2, <3>1 DEF Alone, Following
    <3>3. root'[i] = root'[left]
      BY <1>1, <1>10, JoinFacts DEF Following
    <3> QED BY <1>1, <1>10, <3>1, <3>2, <3>3 DEF Following
  <2> QED BY <2>1, <2>2
<1> QED BY <1>5, <1>9, <1>10 DEF TwinsTogether

LEMMA ClusterInvHolds == ASSUME Count \in Nat \ {0} PROVE Clustering => []ClusterInv
<1>1. Unjoined => ClusterInv
  BY InitClusterInv
<1>2. ClusterInv /\ [Compare]_clusters => ClusterInv'
  <2> SUFFICES ASSUME ClusterInv, [Compare]_clusters PROVE ClusterInv'
    OBVIOUS
  <2>1. CASE Compare
    BY <2>1, ClusterTypeStep, CliqueStep, ApartStep, TwinsStep DEF ClusterInv
  <2>2. CASE UNCHANGED clusters
    BY <2>2, ZenonT(40) DEF ClusterInv, ClusterTypes, CompleteLink, Apart, TwinsTogether, Waiting, Following, Alone,
                Compared, Twins, Equivalent, clusters
  <2> QED BY <2>1, <2>2
<1> QED BY <1>1, <1>2, PTL DEF Clustering

----------------------------------------------------------------------------
(* Whatever the texts: no two members of a cluster are told apart, and when *)
(* all pairs are done no two clusters could have been one and no text is in *)
(* two of them, so that no two knowledge items share an id.                 *)
THEOREM ClustersAreSound == ASSUME Count \in Nat \ {0} PROVE Clustering => []ClustersSound
<1>1. ClusterInv => ClustersSound
  <2> SUFFICES ASSUME ClusterInv PROVE CompleteLink /\ Maximal /\ IdsDistinct
    BY DEF ClustersSound
  <2>1. CompleteLink
    BY DEF ClusterInv
  <2>2. Maximal
    <3> SUFFICES ASSUME Done, NEW i \in Records, NEW j \in Records, root[i] # root[j]
                 PROVE  \E k \in Members(root[i]), l \in Members(root[j]) : ~ Equivalent(k, l)
      BY DEF Maximal
    <3>1. \A k, l \in Records : k < l => Compared(k, l)
      BY DEF Done, Compared, ClusterInv, ClusterTypes, Records
    <3>2. i < j \/ j < i
      BY DEF Records
    <3>3. \A k, l \in Records : Equivalent(k, l) => Equivalent(l, k)
      <4> SUFFICES ASSUME NEW k \in Records, NEW l \in Records
                   PROVE  {signature[k], signature[l]} = {signature[l], signature[k]}
        BY DEF Equivalent
      <4> QED OBVIOUS
    <3>4. \E k, l \in Records : root[k] = root[i] /\ root[l] = root[j] /\ ~ Equivalent(k, l)
      BY <3>1, <3>2, <3>3 DEF ClusterInv, Apart
    <3> QED BY <3>4 DEF Members
  <2>3. IdsDistinct
    <3> SUFFICES ASSUME Done, NEW i \in Records, NEW j \in Records, signature[i] = signature[j],
                        i < j
                 PROVE  root[i] = root[j]
      BY DEF IdsDistinct, Records
    <3>1. Twins(i, j)
      BY DEF Twins
    <3>2. ~ Waiting(i, j) /\ ~ Following(i, j)
      BY DEF Waiting, Following, Compared, Done, ClusterInv, ClusterTypes, Records
    <3> QED BY <3>1, <3>2 DEF ClusterInv, TwinsTogether
  <2> QED BY <2>1, <2>2, <2>3
<1> QED BY <1>1, ClusterInvHolds, PTL

-----------------------------------------------------------------------------
(* Proofs about ShadowBridge, for any number of processes, contracts, digests *)
(* and deaths: DUPLICATE_NOOP is answered for what was done, and a job that   *)
(* is APPLIED is projected again only by a run that read its row before.      *)
(*                                                                           *)
(* The argument.  One run at most takes a job through its first states, the   *)
(* one that admitted it; a job's end, its projection and its mark are final;  *)
(* so what a replay has read of the row is still so when it acts on it,       *)
(* except that the mark may have been set since, and then the run is overdue. *)

Hashes == Receipts \cup {NoReceipt}
LedgerStates == {"NONE", "ADMITTED", "CLAIMED", "SUCCEEDED"}
LedgerRows == [state : LedgerStates, digest : Digests \cup {NoReceipt}, applied : BOOLEAN, sha : Hashes]
First == {"reserve", "claim", "attempt", "finalize"}
Reading == {"load", "sha", "replay"}
Writing == {"open", "write", "hash", "mark"}
RunnerSteps == {"idle", "admit", "get", "project"} \cup First \cup Reading \cup Writing

BridgeTypes ==
  /\ jobs \in [Contracts -> LedgerRows]
  /\ receipt \in Hashes
  /\ stage \in [Runners -> RunnerSteps]
  /\ order \in [Runners -> Hashes]
  /\ \A r \in Runners : stage[r] # "idle" => order[r] \in Receipts
  /\ seen \in [Runners -> [row : LedgerRows, loaded : Hashes, sha : Hashes]]
  /\ projected \subseteq Contracts
  /\ overdue \subseteq Runners
  /\ noops \subseteq Receipts

(* Only one run takes a job through its first states. *)
FirstInv ==
  \A r \in Runners : stage[r] \in First =>
    /\ Job(r).state \in {"ADMITTED", "CLAIMED"}
    /\ \A u \in Runners : stage[u] \in First /\ order[u][1] = order[r][1] => u = r

(* Past the admission a run has a job, and of its own digest. *)
DigestInv ==
  \A r \in Runners : stage[r] \notin {"idle", "admit"} =>
    Job(r).state # "NONE" /\ Job(r).digest = order[r][2]

(* What a replay has read is still so, or the mark came since. *)
ReadInv ==
  \A r \in Runners : stage[r] \in Reading =>
    /\ seen[r].row.state = "SUCCEEDED" => Job(r).state = "SUCCEEDED"
    /\ seen[r].row.applied => Job(r).applied
    /\ Job(r).applied /\ ~ seen[r].row.applied => r \in overdue

ProjectInv ==
  \A r \in Runners :
    /\ stage[r] \in Writing \cup {"project"} => Job(r).state = "SUCCEEDED"
    /\ stage[r] \in Writing => order[r][1] \in projected
    /\ stage[r] = "project" /\ Job(r).applied => r \in overdue

AppliedInv ==
  \A c \in Contracts : jobs[c].applied => jobs[c].state = "SUCCEEDED" /\ c \in projected

BridgeSound == BridgeTypes /\ FirstInv /\ DigestInv /\ ReadInv /\ ProjectInv /\ AppliedInv /\ NoopDone

----------------------------------------------------------------------------
(* What follows at once from what a run has in hand. *)
LEMMA OrderType ==
  ASSUME BridgeTypes, NEW r \in Runners, stage[r] # "idle"
  PROVE  order[r][1] \in Contracts /\ order[r][2] \in Digests
BY DEF BridgeTypes, Receipts

LEMMA InitBridgeSound == BridgeInit => BridgeSound
BY DEF BridgeInit, BridgeSound, BridgeTypes, FirstInv, DigestInv, ReadInv, ProjectInv, AppliedInv, NoopDone, Job, Goto, Return, LedgerRows, LedgerStates, First, Reading, Writing, RunnerSteps, Hashes, NoJob, Nowhere, durable, inHand, ghosts

(* The ledger's first states are set by the one run that admitted the job. *)
LEMMA LedgerInv ==
  ASSUME BridgeSound, NEW r \in Runners, NEW from \in First, NEW state \in LedgerStates, NEW to \in First \cup {"project"},
         Ledger(r, from, state, to), 
         IF to = "project" THEN state = "SUCCEEDED" ELSE state \in {"ADMITTED", "CLAIMED"}
  PROVE  BridgeSound'
<1> DEFINE c == order[r][1]
<1>1. c \in Contracts /\ order[r][2] \in Digests /\ stage[r] \in First /\ stage[r] # "idle"
  BY OrderType DEF BridgeSound, Ledger, First
<1>2. jobs[c].state \in {"ADMITTED", "CLAIMED"} /\ ~ jobs[c].applied
  BY <1>1 DEF BridgeSound, FirstInv, AppliedInv, Job
<1>3. jobs' = [jobs EXCEPT ![c].state = state] /\ stage' = [stage EXCEPT ![r] = to]
  BY DEF Ledger, Goto
<1>4. UNCHANGED <<receipt, order, seen, projected, overdue, noops, stops>>
  BY DEF Ledger, ghosts
<1>5. \A d \in Contracts : d # c => jobs'[d] = jobs[d]
  BY <1>1, <1>3 DEF BridgeSound, BridgeTypes
<1>6. jobs'[c].state = state /\ jobs'[c].applied = jobs[c].applied /\ jobs'[c].digest = jobs[c].digest
  BY <1>1, <1>3 DEF BridgeSound, BridgeTypes, LedgerRows
<1>7. \A u \in Runners : u # r => stage'[u] = stage[u]
  BY <1>3 DEF BridgeSound, BridgeTypes
<1>8. stage'[r] = to
  BY <1>3 DEF BridgeSound, BridgeTypes
<1>9. BridgeTypes'
  BY <1>1, <1>3, <1>4 DEF BridgeSound, BridgeTypes, LedgerRows, RunnerSteps, First
<1>10. FirstInv'
  BY <1>1, <1>4, <1>5, <1>6, <1>7, <1>8, OrderType DEF BridgeSound, FirstInv, Job, First
<1>11. DigestInv'
  BY <1>1, <1>2, <1>4, <1>5, <1>6, <1>7, <1>8, OrderType DEF BridgeSound, DigestInv, Job, First
<1>12. ReadInv'
  BY <1>1, <1>2, <1>4, <1>5, <1>6, <1>7, <1>8, OrderType DEF BridgeSound, ReadInv, Job, First, Reading
<1>13. ProjectInv'
  BY <1>1, <1>2, <1>4, <1>5, <1>6, <1>7, <1>8, OrderType DEF BridgeSound, ProjectInv, Job, First, Writing
<1>14. AppliedInv'
  BY <1>1, <1>2, <1>4, <1>5, <1>6 DEF BridgeSound, AppliedInv
<1>15. NoopDone'
  BY <1>1, <1>2, <1>4, <1>5, <1>6 DEF BridgeSound, BridgeTypes, NoopDone, Receipts
<1> QED
  BY <1>9, <1>10, <1>11, <1>12, <1>13, <1>14, <1>15 DEF BridgeSound

LEMMA AdmitNewInv ==
  ASSUME BridgeSound, NEW r \in Runners, AdmitNew(r)
  PROVE  BridgeSound'
<1> DEFINE c == order[r][1]
<1>1. c \in Contracts /\ order[r][2] \in Digests /\ stage[r] = "admit" /\ jobs[c].state = "NONE"
  BY OrderType DEF BridgeSound, AdmitNew, Job
<1>3. stage' = [stage EXCEPT ![r] = "reserve"] /\ UNCHANGED <<receipt, order, seen, projected, overdue, noops, stops>>
  BY DEF AdmitNew, Goto, ghosts
<1>4. jobs'[c] = [state |-> "ADMITTED", digest |-> order[r][2], applied |-> FALSE, sha |-> NoReceipt]
  BY <1>1 DEF AdmitNew, BridgeSound, BridgeTypes, NoJob
<1>5. \A d \in Contracts : d # c => jobs'[d] = jobs[d]
  BY <1>1 DEF AdmitNew, BridgeSound, BridgeTypes
<1>7. \A u \in Runners : stage'[u] = IF u = r THEN "reserve" ELSE stage[u]
  BY <1>3 DEF BridgeSound, BridgeTypes
<1>8. \A u \in Runners : stage[u] \notin {"idle", "admit"} => order[u][1] # c
  BY <1>1 DEF BridgeSound, DigestInv, Job
<1>9. BridgeTypes'
  <2>1. jobs' = [d \in Contracts |-> IF d = c THEN jobs'[c] ELSE jobs[d]]
    BY <1>1, <1>4 DEF AdmitNew, BridgeSound, BridgeTypes, NoJob
  <2>2. jobs'[c] \in LedgerRows
    BY <1>1, <1>4 DEF LedgerRows, LedgerStates, Hashes
  <2>3. jobs' \in [Contracts -> LedgerRows]
    BY <2>1, <2>2, <1>1 DEF BridgeSound, BridgeTypes
  <2> QED
    BY <2>3, <1>1, <1>3, <1>7 DEF BridgeSound, BridgeTypes, RunnerSteps, First
<1>10. FirstInv'
  BY <1>1, <1>3, <1>4, <1>5, <1>7, <1>8, OrderType DEF BridgeSound, FirstInv, Job, First
<1>11. DigestInv'
  BY <1>1, <1>3, <1>4, <1>5, <1>7, <1>8, OrderType DEF BridgeSound, DigestInv, Job
<1>12. ReadInv'
  BY <1>1, <1>3, <1>4, <1>5, <1>7, <1>8, OrderType DEF BridgeSound, ReadInv, Job, Reading
<1>13. ProjectInv'
  BY <1>1, <1>3, <1>4, <1>5, <1>7, <1>8, OrderType DEF BridgeSound, ProjectInv, Job, Writing
<1>14. AppliedInv'
  BY <1>1, <1>3, <1>4, <1>5 DEF BridgeSound, AppliedInv
<1>15. NoopDone'
  BY <1>1, <1>3, <1>4, <1>5 DEF BridgeSound, BridgeTypes, NoopDone, Receipts
<1> QED
  BY <1>9, <1>10, <1>11, <1>12, <1>13, <1>14, <1>15 DEF BridgeSound

LEMMA MarkInv ==
  ASSUME NoReceipt \notin Receipts, BridgeSound, NEW r \in Runners, Mark(r)
  PROVE  BridgeSound'
<1> DEFINE c == order[r][1]
<1>1. c \in Contracts /\ stage[r] = "mark" /\ jobs[c].state = "SUCCEEDED" /\ c \in projected
  BY OrderType DEF BridgeSound, Mark, ProjectInv, Writing, Job
<1>2. UNCHANGED <<receipt, projected, noops, stops>>
  BY DEF Mark
<1>3. jobs'[c].state = "SUCCEEDED" /\ jobs'[c].applied /\ jobs'[c].digest = jobs[c].digest
  BY <1>1 DEF Mark, BridgeSound, BridgeTypes, LedgerRows
<1>4. \A d \in Contracts : d # c => jobs'[d] = jobs[d]
  BY <1>1 DEF Mark, BridgeSound, BridgeTypes
<1>5. stage'[r] = "idle" /\ \A u \in Runners : u # r => stage'[u] = stage[u] /\ order'[u] = order[u] /\ seen'[u] = seen[u]
  BY DEF Mark, Goto, BridgeSound, BridgeTypes
<1>6. \A u \in Runners : u # r => (u \in overdue => u \in overdue')
  BY DEF Mark
<1>7. \A u \in Runners : u # r /\ stage[u] \notin {"idle", "admit", "get"} /\ order[u][1] = c => u \in overdue'
  BY DEF Mark, BridgeSound, BridgeTypes
<1>9. BridgeTypes'
  <2>1. jobs' \in [Contracts -> LedgerRows]
    BY <1>1, ZenonT(40) DEF Mark, BridgeSound, BridgeTypes, LedgerRows
  <2>2. /\ stage' \in [Runners -> RunnerSteps] /\ order' \in [Runners -> Hashes] /\ overdue' \subseteq Runners
        /\ seen' \in [Runners -> [row : LedgerRows, loaded : Hashes, sha : Hashes]]
    BY DEF Mark, Goto, BridgeSound, BridgeTypes, Nowhere, NoJob, LedgerRows, LedgerStates, Hashes, RunnerSteps
  <2> QED
    BY <2>1, <2>2, <1>2, <1>5 DEF BridgeSound, BridgeTypes
<1>10. FirstInv'
  BY <1>1, <1>3, <1>4, <1>5, OrderType DEF BridgeSound, FirstInv, Job, First
<1>11. DigestInv'
  BY <1>1, <1>3, <1>4, <1>5, OrderType DEF BridgeSound, DigestInv, Job
<1>12. ReadInv'
  BY <1>1, <1>3, <1>4, <1>5, <1>6, <1>7, OrderType DEF BridgeSound, ReadInv, Job, Reading
<1>13. ProjectInv'
  BY <1>1, <1>2, <1>3, <1>4, <1>5, <1>6, <1>7, OrderType DEF BridgeSound, ProjectInv, Job, Writing
<1>14. AppliedInv'
  BY <1>1, <1>2, <1>3, <1>4 DEF BridgeSound, AppliedInv
<1>15. NoopDone'
  BY <1>1, <1>2, <1>3, <1>4 DEF BridgeSound, BridgeTypes, NoopDone, Receipts
<1> QED
  BY <1>9, <1>10, <1>11, <1>12, <1>13, <1>14, <1>15 DEF BridgeSound

(* A run that only reads into its inHand. *)
LEMMA SeenInv ==
  ASSUME BridgeSound, NEW r \in Runners, NEW v \in [row : LedgerRows, loaded : Hashes, sha : Hashes],
         NEW from \in RunnerSteps, NEW to \in {"load", "sha", "replay", "mark"},
         stage[r] = from, from \in {"get", "load", "sha", "hash"},
         from = "hash" <=> to = "mark",
         IF from = "get" THEN v.row = Job(r) ELSE v.row = seen[r].row,
         seen' = [seen EXCEPT ![r] = v], Goto(r, to), UNCHANGED <<durable, order, ghosts>>
  PROVE  BridgeSound'
<1>1. UNCHANGED <<jobs, receipt, order, projected, overdue, noops, stops>>
  BY DEF durable, ghosts
<1>2. \A u \in Runners : stage'[u] = IF u = r THEN to ELSE stage[u]
  BY DEF Goto, BridgeSound, BridgeTypes
<1>3. \A u \in Runners : seen'[u] = IF u = r THEN v ELSE seen[u]
  BY DEF BridgeSound, BridgeTypes
<1>4. BridgeTypes'
  BY <1>1, <1>2 DEF BridgeSound, BridgeTypes, Goto, RunnerSteps, First, Reading, Writing
<1>5. FirstInv' /\ DigestInv' /\ ProjectInv' /\ AppliedInv' /\ NoopDone'
  BY <1>1, <1>2 DEF BridgeSound, FirstInv, DigestInv, ProjectInv, AppliedInv, NoopDone, Job, First, Writing
<1>6. ReadInv'
  BY <1>1, <1>2, <1>3 DEF BridgeSound, ReadInv, Job, Reading
<1> QED
  BY <1>4, <1>5, <1>6 DEF BridgeSound

LEMMA GetInv ==
  ASSUME BridgeSound, NEW r \in Runners, Get(r)
  PROVE  BridgeSound'
<1> DEFINE v == [seen[r] EXCEPT !.row = Job(r)]
<1>1. v \in [row : LedgerRows, loaded : Hashes, sha : Hashes]
  BY OrderType DEF Get, BridgeSound, BridgeTypes, Job
<1>2. seen' = [seen EXCEPT ![r] = v]
  BY DEF Get, BridgeSound, BridgeTypes
<1>3. v.row = Job(r)
  BY DEF BridgeSound, BridgeTypes
<1> QED
  BY <1>1, <1>2, <1>3, SeenInv DEF Get, RunnerSteps, First, Reading, Writing

LEMMA LoadInv ==
  ASSUME BridgeSound, NEW r \in Runners, Load(r)
  PROVE  BridgeSound'
<1> DEFINE v == [seen[r] EXCEPT !.loaded = receipt]
<1>1. v \in [row : LedgerRows, loaded : Hashes, sha : Hashes]
  BY OrderType DEF Load, BridgeSound, BridgeTypes, Job
<1>2. seen' = [seen EXCEPT ![r] = v]
  BY DEF Load, BridgeSound, BridgeTypes
<1>3. v.row = seen[r].row
  BY DEF BridgeSound, BridgeTypes
<1> QED
  BY <1>1, <1>2, <1>3, SeenInv DEF Load, RunnerSteps, First, Reading, Writing

LEMMA ShaInv ==
  ASSUME BridgeSound, NEW r \in Runners, Sha(r)
  PROVE  BridgeSound'
<1> DEFINE v == [seen[r] EXCEPT !.sha = receipt]
<1>1. v \in [row : LedgerRows, loaded : Hashes, sha : Hashes]
  BY OrderType DEF Sha, BridgeSound, BridgeTypes, Job
<1>2. seen' = [seen EXCEPT ![r] = v]
  BY DEF Sha, BridgeSound, BridgeTypes
<1>3. v.row = seen[r].row
  BY DEF BridgeSound, BridgeTypes
<1> QED
  BY <1>1, <1>2, <1>3, SeenInv DEF Sha, RunnerSteps, First, Reading, Writing

LEMMA HashInv ==
  ASSUME BridgeSound, NEW r \in Runners, Hash(r)
  PROVE  BridgeSound'
<1> DEFINE v == [seen[r] EXCEPT !.sha = receipt]
<1>1. v \in [row : LedgerRows, loaded : Hashes, sha : Hashes]
  BY OrderType DEF Hash, BridgeSound, BridgeTypes, Job
<1>2. seen' = [seen EXCEPT ![r] = v]
  BY DEF Hash, BridgeSound, BridgeTypes
<1>3. v.row = seen[r].row
  BY DEF BridgeSound, BridgeTypes
<1> QED
  BY <1>1, <1>2, <1>3, SeenInv DEF Hash, RunnerSteps, First, Reading, Writing

(* Every step keeps the invariant. *)
LEMMA NextInv ==
  ASSUME NoReceipt \notin Receipts, BridgeSound, [BridgeNext]_bridge
  PROVE  BridgeSound'
<1>0. CASE UNCHANGED bridge
  BY <1>0 DEF bridge, BridgeSound, BridgeTypes, FirstInv, DigestInv, ReadInv, ProjectInv, AppliedInv, NoopDone, Job, durable, inHand, ghosts
<1> SUFFICES ASSUME NEW r \in Runners,
      \/ \E o \in Receipts : Run(r, o)
      \/ AdmitNew(r) \/ AdmitHit(r) \/ AdmitConflict(r)
      \/ Reserve(r) \/ Claim(r) \/ Attempt(r) \/ Finalize(r)
      \/ Get(r) \/ Load(r) \/ Sha(r) \/ ReplayNoop(r) \/ ReplayHeld(r) \/ ReplayResume(r)
      \/ Project(r) \/ Open(r) \/ WriteReceipt(r) \/ Hash(r) \/ Mark(r)
      \/ Stop(r)
    PROVE BridgeSound'
  BY <1>0 DEF BridgeNext
<1>1. CASE \E o \in Receipts : Run(r, o)
  BY <1>1 DEF Run, Receipts, BridgeSound, BridgeTypes, FirstInv, DigestInv, ReadInv, ProjectInv, AppliedInv, NoopDone, Job, Goto, Return, LedgerRows, LedgerStates, First, Reading, Writing, RunnerSteps, Hashes, NoJob, Nowhere, durable, inHand, ghosts
<1>2. CASE AdmitNew(r)
  BY <1>2, AdmitNewInv
<1>3. CASE AdmitHit(r)
  BY <1>3 DEF AdmitHit, Receipts, BridgeSound, BridgeTypes, FirstInv, DigestInv, ReadInv, ProjectInv, AppliedInv, NoopDone, Job, Goto, Return, LedgerRows, LedgerStates, First, Reading, Writing, RunnerSteps, Hashes, NoJob, Nowhere, durable, inHand, ghosts
<1>4. CASE AdmitConflict(r)
  BY <1>4 DEF AdmitConflict, Receipts, BridgeSound, BridgeTypes, FirstInv, DigestInv, ReadInv, ProjectInv, AppliedInv, NoopDone, Job, Goto, Return, LedgerRows, LedgerStates, First, Reading, Writing, RunnerSteps, Hashes, NoJob, Nowhere, durable, inHand, ghosts
<1>5. CASE Reserve(r)
  BY <1>5, LedgerInv DEF Reserve, First, LedgerStates
<1>6. CASE Claim(r)
  BY <1>6, LedgerInv DEF Claim, First, LedgerStates
<1>7. CASE Attempt(r)
  BY <1>7, LedgerInv DEF Attempt, First, LedgerStates
<1>8. CASE Finalize(r)
  BY <1>8, LedgerInv DEF Finalize, First, LedgerStates
<1>9. CASE Get(r)
  BY <1>9, GetInv
<1>10. CASE Load(r)
  BY <1>10, LoadInv
<1>11. CASE Sha(r)
  BY <1>11, ShaInv
<1>12. CASE ReplayNoop(r)
  BY <1>12 DEF ReplayNoop, Receipts, Proved, BridgeSound, BridgeTypes, FirstInv, DigestInv, ReadInv, ProjectInv, AppliedInv, NoopDone, Job, Goto, Return, LedgerRows, LedgerStates, First, Reading, Writing, RunnerSteps, Hashes, NoJob, Nowhere, durable, inHand, ghosts
<1>13. CASE ReplayHeld(r)
  BY <1>13 DEF ReplayHeld, Receipts, Proved, BridgeSound, BridgeTypes, FirstInv, DigestInv, ReadInv, ProjectInv, AppliedInv, NoopDone, Job, Goto, Return, LedgerRows, LedgerStates, First, Reading, Writing, RunnerSteps, Hashes, NoJob, Nowhere, durable, inHand, ghosts
<1>14. CASE ReplayResume(r)
  BY <1>14 DEF ReplayResume, Receipts, Proved, BridgeSound, BridgeTypes, FirstInv, DigestInv, ReadInv, ProjectInv, AppliedInv, NoopDone, Job, Goto, Return, LedgerRows, LedgerStates, First, Reading, Writing, RunnerSteps, Hashes, NoJob, Nowhere, durable, inHand, ghosts
<1>15. CASE Project(r)
  BY <1>15 DEF Project, Receipts, BridgeSound, BridgeTypes, FirstInv, DigestInv, ReadInv, ProjectInv, AppliedInv, NoopDone, Job, Goto, Return, LedgerRows, LedgerStates, First, Reading, Writing, RunnerSteps, Hashes, NoJob, Nowhere, durable, inHand, ghosts
<1>16. CASE Open(r)
  BY <1>16 DEF Open, Receipts, BridgeSound, BridgeTypes, FirstInv, DigestInv, ReadInv, ProjectInv, AppliedInv, NoopDone, Job, Goto, Return, LedgerRows, LedgerStates, First, Reading, Writing, RunnerSteps, Hashes, NoJob, Nowhere, durable, inHand, ghosts
<1>17. CASE WriteReceipt(r)
  BY <1>17 DEF WriteReceipt, Receipts, BridgeSound, BridgeTypes, FirstInv, DigestInv, ReadInv, ProjectInv, AppliedInv, NoopDone, Job, Goto, Return, LedgerRows, LedgerStates, First, Reading, Writing, RunnerSteps, Hashes, NoJob, Nowhere, durable, inHand, ghosts
<1>18. CASE Hash(r)
  BY <1>18, HashInv
<1>19. CASE Mark(r)
  BY <1>19, MarkInv
<1>20. CASE Stop(r)
  BY <1>20 DEF Stop, Receipts, BridgeSound, BridgeTypes, FirstInv, DigestInv, ReadInv, ProjectInv, AppliedInv, NoopDone, Job, Goto, Return, LedgerRows, LedgerStates, First, Reading, Writing, RunnerSteps, Hashes, NoJob, Nowhere, durable, inHand, ghosts
<1> QED
  BY <1>1, <1>2, <1>3, <1>4, <1>5, <1>6, <1>7, <1>8, <1>9, <1>10, <1>11, <1>12, <1>13, <1>14, <1>15, <1>16, <1>17, <1>18, <1>19, <1>20

(* Every run of the bridge is in a state it can be in. *)
LEMMA BridgeSoundAlways == ASSUME NoReceipt \notin Receipts PROVE BridgeSpec => []BridgeSound
<1>1. BridgeSound /\ [BridgeNext]_bridge => BridgeSound'
  BY NextInv
<1> QED
  BY InitBridgeSound, <1>1, PTL DEF BridgeSpec

(* DUPLICATE_NOOP is answered only for a contract and pins whose job        *)
(* succeeded, was projected and is marked: adapter.py, _replay.             *)
THEOREM NoopsAreDone == ASSUME NoReceipt \notin Receipts PROVE BridgeSpec => []NoopDone
<1>1. BridgeSound => NoopDone
  BY DEF BridgeSound
<1> QED
  BY BridgeSoundAlways, <1>1, PTL

(* A job marked APPLIED is projected again by no run that read its row      *)
(* after the mark, whatever became of the receipt: adapter.py, _replay.     *)
THEOREM AppliedStays == ASSUME NoReceipt \notin Receipts PROVE BridgeSpec => AppliedIsFinal
<1>1. BridgeSound /\ [BridgeNext]_bridge => [\A r \in Runners :
        stage[r] = "project" /\ stage'[r] = "open" /\ Job(r).applied => r \in overdue]_bridge
  BY DEF BridgeSound, ProjectInv
<1> QED
  BY BridgeSoundAlways, <1>1, PTL DEF BridgeSpec, AppliedIsFinal

-----------------------------------------------------------------------------
(* Theorems about StagingCycle, for a plan of any length and any number of edits by
   other hands. *)

USE DEF files, world

Early == {"preflight", "snapshot", "dump", "check", "patch", "readback", "second",
          "reread", "report"}
Late  == {"undo", "recheck", "unpatch", "verify", "close"}

(* Once the first pass begins, every page has its before-image, on disk too. *)
Kept ==
  /\ turn \in Pages
  /\ pc = "snapshot" => \A p \in Pages : p < turn => image[p] \in Images
  /\ pc \in (Early \cup Late) \ {"preflight", "snapshot"} => \A p \in Pages : image[p] \in Images
  /\ pc \in (Early \cup Late) \ {"preflight", "snapshot", "dump"} => snapshot

(* What a patch relies on still holds of the page, unless another hand changed it. *)
Seeing ==
  /\ pc = "patch" => turn \in edited \/ page[turn].system = image[turn].system
  /\ pc = "recheck" => got \in {image[turn].system, "planned"}
  /\ pc = "unpatch" => turn \in edited \/ page[turn].system \in {image[turn].system, "planned"}

Restored(p) == p \in edited \/ page[p].system = image[p].system

(* The verification so far, and the report that rests on it. *)
Verified ==
  /\ pc = "verify" /\ clean => \A p \in Pages : p < turn => Restored(p)
  /\ pc = "close" /\ clean => \A p \in Pages : Restored(p)
  /\ rollback = "PASS" => pc \in {"returned", "raised"} /\ \A p \in Pages : Restored(p)

(* A lost patch leaves either the apply report or the rollback unclean. *)
Calm ==
  /\ pc \in Early => apply = "none" /\ flight = {}
  /\ pc \in Late /\ clean /\ apply = "PASS" => flight = {}
  /\ pc = "returned" => apply = "PASS" /\ rollback = "PASS" /\ flight = {}

CInv == CycleTypeOK /\ Kept /\ Seeing /\ Verified /\ Calm

LEMMA InitCInv == CycleInit => CInv
<1> SUFFICES ASSUME CycleInit PROVE CInv
  OBVIOUS
<1> USE CycleAssumption DEF CycleInit, Pages, Values, Steps
<1>1. page \in [Pages -> [system : Values, human : BOOLEAN, archived : BOOLEAN]]
  <2>1. {"before", "planned"} \subseteq Values /\ {FALSE} \subseteq BOOLEAN
    OBVIOUS
  <2>2. [system : {"before", "planned"}, human : {FALSE}, archived : {FALSE}]
          \subseteq [system : Values, human : BOOLEAN, archived : BOOLEAN]
    BY <2>1
  <2>3. QED BY <2>2
<1>2. image \in [Pages -> Images \cup {None}]
  OBVIOUS
<1>3. /\ turn \in 0..N /\ attempted \in 0..N /\ edits \in 0..MaxEdits
      /\ pc \in Steps /\ got \in Values /\ flight = {} /\ edited = {}
  OBVIOUS
<1>4. snapshot \in BOOLEAN /\ clean \in BOOLEAN
  BY Zenon
<1>5. apply = "none" /\ rollback = "none"
  OBVIOUS
<1>6. CycleTypeOK
  BY <1>1, <1>2, <1>3, <1>4, <1>5, Zenon DEF CycleTypeOK
<1>7. Kept /\ Seeing /\ Verified /\ Calm
  BY DEF Kept, Seeing, Verified, Calm, Early, Late
<1>8. QED BY <1>6, <1>7 DEF CInv

LEMMA ForwardMoves ==
  ASSUME turn \in Pages, NEW after, Forward(after)
  PROVE  /\ turn' \in Pages
         /\ \/ turn < N /\ turn' = turn + 1 /\ pc' = pc
            \/ turn = N /\ turn' = 1 /\ pc' = after
BY CycleAssumption DEF Forward, Pages

(* However a patch ends, pages and patches on their way keep their types. *)
LEMMA UnansweredType ==
  ASSUME CycleTypeOK, turn \in Pages, NEW v \in Values, Unanswered(v)
  PROVE  /\ page' \in [Pages -> [system : Values, human : BOOLEAN, archived : BOOLEAN]]
         /\ flight' \subseteq Pages \X Values
<1>1. CASE UNCHANGED <<page, flight>>
  BY <1>1 DEF CycleTypeOK
<1>2. CASE Patched(v)
  BY <1>2 DEF Patched, CycleTypeOK
<1>3. CASE UNCHANGED page /\ flight' = flight \cup {<<turn, v>>}
  BY <1>3 DEF CycleTypeOK
<1>4. QED BY <1>1, <1>2, <1>3 DEF Unanswered

LEMMA CycleTypeStep ==
  ASSUME CInv, [CycleNext]_cycle
  PROVE  CycleTypeOK' /\ Kept'
<1> USE CycleAssumption
    DEF CInv, CycleTypeOK, Kept, Pages, Steps, Early, Late, Values
<1>1. CASE Refuse
  BY <1>1 DEF Refuse
<1>2. CASE Preflight
  BY <1>2 DEF Preflight, ReadDone, Forward
<1>3. CASE Snapshot
  <2>1. Seen(turn) \in Images
    BY DEF Seen, Images
  <2>2. /\ image' = [image EXCEPT ![turn] = Seen(turn)]
        /\ pc = "snapshot" /\ Forward("dump") /\ edited' = edited \ {turn}
        /\ UNCHANGED <<attempted, got, clean, files, world>>
    BY <1>3 DEF Snapshot, ReadDone
  <2>3. image' \in [Pages -> Images \cup {None}]
    BY <2>1, <2>2
  <2>4. \A p \in Pages : p <= turn => image'[p] \in Images
    BY <2>1, <2>2
  <2>5. QED BY <2>2, <2>3, <2>4 DEF Forward
<1>4. CASE Dump
  BY <1>4 DEF Dump
<1>5. CASE Check
  BY <1>5 DEF Check, ReadDone, Forward
<1>6. CASE CheckFails
  BY <1>6 DEF CheckFails
<1>7. CASE Patch
  BY <1>7 DEF Patch, Patched
<1>8. CASE PatchFails
  <2>1. /\ pc' = "undo" /\ pc = "patch" /\ Unanswered("planned")
        /\ UNCHANGED <<image, turn, attempted, got, clean, edited, files, edits>>
    BY <1>8 DEF PatchFails
  <2>2. /\ page' \in [Pages -> [system : Values, human : BOOLEAN, archived : BOOLEAN]]
        /\ flight' \subseteq Pages \X Values
    BY <2>1, UnansweredType, "planned" \in Values
  <2>3. QED BY <2>1, <2>2
<1>9. CASE Confirm
  BY <1>9 DEF Confirm, ReadDone, Forward
<1>10. CASE ConfirmFails
  BY <1>10 DEF ConfirmFails, Abandon
<1>11. CASE Report
  BY <1>11 DEF Report, Abandon
<1>12. CASE Undo
  BY <1>12 DEF Undo, ReadDone
<1>13. CASE Recheck
  BY <1>13 DEF Recheck, ReadDone, NextUndo
<1>14. CASE Unpatch
  BY <1>14 DEF Unpatch, Patched, NextUndo, Images
<1>15. CASE Conflict
  <2>1. /\ pc \in {"undo", "recheck", "unpatch"} /\ clean' = FALSE /\ NextUndo
        /\ Unanswered(image[turn].system) \/ UNCHANGED <<page, flight>>
        /\ UNCHANGED <<image, attempted, got, edited, files, edits>>
    BY <1>15 DEF Conflict, Conflicted
  <2>2. image[turn].system \in Values
    BY <2>1 DEF Images
  <2>3. /\ page' \in [Pages -> [system : Values, human : BOOLEAN, archived : BOOLEAN]]
        /\ flight' \subseteq Pages \X Values
    BY <2>1, <2>2, UnansweredType
  <2>4. turn' \in Pages /\ pc' \in {"undo", "verify"}
    BY <2>1 DEF NextUndo
  <2>5. clean' \in BOOLEAN
    BY <2>1, Zenon
  <2>6. QED BY <2>1, <2>3, <2>4, <2>5
<1>16. CASE Verify
  BY <1>16 DEF Verify, ReadDone, Forward
<1>17. CASE VerifyFails
  <2>1. /\ pc = "verify" /\ clean' = FALSE /\ Forward("close")
        /\ UNCHANGED <<image, attempted, got, edited, files, world>>
    BY <1>17 DEF VerifyFails
  <2>2. turn' \in Pages /\ pc' \in {"verify", "close"}
    BY <2>1, ForwardMoves
  <2>3. clean' \in BOOLEAN
    BY <2>1, Zenon
  <2>4. QED BY <2>1, <2>2, <2>3
<1>18. CASE Close
  BY <1>18 DEF Close
<1>19. CASE CycleDies
  BY <1>19 DEF CycleDies, Ended
<1>20. CASE Land
  BY <1>20 DEF Land
<1>21. ASSUME NEW p \in Pages, Edit(p) PROVE CycleTypeOK' /\ Kept'
  <2>1. page' \in [Pages -> [system : Values, human : BOOLEAN, archived : BOOLEAN]]
    <3>1. ASSUME NEW v \in Values, page' = [page EXCEPT ![p].system = v]
          PROVE  page' \in [Pages -> [system : Values, human : BOOLEAN, archived : BOOLEAN]]
      BY <3>1
    <3>2. ASSUME page' = [page EXCEPT ![p].human = ~@]
          PROVE  page' \in [Pages -> [system : Values, human : BOOLEAN, archived : BOOLEAN]]
      BY <3>2
    <3>3. ASSUME page' = [page EXCEPT ![p].archived = ~@]
          PROVE  page' \in [Pages -> [system : Values, human : BOOLEAN, archived : BOOLEAN]]
      BY <3>3
    <3>4. QED BY <1>21, <3>1, <3>2, <3>3 DEF Edit
  <2>2. edits' \in 0..MaxEdits /\ edited' \subseteq Pages
    BY <1>21 DEF Edit
  <2>3. UNCHANGED <<image, pc, turn, attempted, got, clean, flight, files>>
    BY <1>21 DEF Edit
  <2>4. QED BY <2>1, <2>2, <2>3
<1>22. CASE UNCHANGED cycle
  BY <1>22 DEF cycle
<1>23. QED
  BY <1>1, <1>2, <1>3, <1>4, <1>5, <1>6, <1>7, <1>8, <1>9, <1>10, <1>11, <1>12,
     <1>13, <1>14, <1>15, <1>16, <1>17, <1>18, <1>19, <1>20, <1>21, <1>22
  DEF CycleNext

LEMMA RestoreStep ==
  ASSUME CInv, [CycleNext]_cycle
  PROVE  Seeing' /\ Verified' /\ Calm'
<1> USE CycleAssumption
    DEF CInv, CycleTypeOK, Kept, Seeing, Verified, Calm, Restored, Pages, Early, Late
<1>1. CASE Refuse
  BY <1>1 DEF Refuse
<1>2. CASE Preflight
  BY <1>2 DEF Preflight, ReadDone, Forward
<1>3. CASE Snapshot
  BY <1>3 DEF Snapshot, ReadDone, Forward
<1>4. CASE Dump
  BY <1>4 DEF Dump
<1>5. CASE Check
  BY <1>5 DEF Check, Unchanged, ReadDone, Forward
<1>6. CASE CheckFails
  BY <1>6 DEF CheckFails
<1>7. CASE Patch
  BY <1>7 DEF Patch, Patched
<1>8. CASE PatchFails
  BY <1>8 DEF PatchFails, Unanswered, Patched
<1>9. CASE Confirm
  BY <1>9 DEF Confirm, ReadDone, Forward
<1>10. CASE ConfirmFails
  BY <1>10 DEF ConfirmFails, Abandon
<1>11. CASE Report
  BY <1>11 DEF Report, Abandon
<1>12. CASE Undo
  BY <1>12 DEF Undo, ReadDone
<1>13. CASE Recheck
  BY <1>13 DEF Recheck, Unchanged, ReadDone, NextUndo
<1>14. CASE Unpatch
  BY <1>14 DEF Unpatch, Patched, NextUndo
<1>15. CASE Conflict
  BY <1>15 DEF Conflict, Unanswered, Patched, Conflicted, NextUndo
<1>16. CASE Verify
  <2>1. /\ pc = "verify" /\ Forward("close") /\ edited' = edited \ {turn}
        /\ clean' = (clean /\ page[turn].system = image[turn].system)
        /\ UNCHANGED <<image, attempted, got, files, world>>
    BY <1>16 DEF Verify, ReadDone
  <2>2. clean' => clean /\ page[turn].system = image[turn].system
    BY <2>1, Zenon
  <2>3. clean' => \A p \in Pages : p <= turn => Restored(p)'
    <3>1. SUFFICES ASSUME clean', NEW p \in Pages, p <= turn PROVE Restored(p)'
      OBVIOUS
    <3>2. CASE p = turn
      BY <2>1, <2>2, <3>1, <3>2
    <3>3. CASE p < turn
      BY <2>1, <2>2, <3>1, <3>3
    <3>4. QED BY <3>1, <3>2, <3>3
  <2>4. CASE turn < N /\ turn' = turn + 1 /\ pc' = pc
    BY <2>1, <2>2, <2>3, <2>4
  <2>5. CASE turn = N /\ turn' = 1 /\ pc' = "close"
    BY <2>1, <2>2, <2>3, <2>5
  <2>6. QED BY <2>1, <2>4, <2>5, ForwardMoves
<1>17. CASE VerifyFails
  BY <1>17 DEF VerifyFails, Forward
<1>18. CASE Close
  BY <1>18 DEF Close
<1>19. CASE CycleDies
  BY <1>19 DEF CycleDies, Ended
<1>20. CASE Land
  BY <1>20 DEF Land
<1>21. ASSUME NEW p \in Pages, Edit(p) PROVE Seeing' /\ Verified' /\ Calm'
  BY <1>21 DEF Edit
<1>22. CASE UNCHANGED cycle
  BY <1>22 DEF cycle
<1>23. QED
  BY <1>1, <1>2, <1>3, <1>4, <1>5, <1>6, <1>7, <1>8, <1>9, <1>10, <1>11, <1>12,
     <1>13, <1>14, <1>15, <1>16, <1>17, <1>18, <1>19, <1>20, <1>21, <1>22
  DEF CycleNext

LEMMA CInvAlways == CycleSpec => []CInv
<1>1. CInv /\ [CycleNext]_cycle => CInv'
  BY CycleTypeStep, RestoreStep DEF CInv
<1>2. QED
  BY <1>1, InitCInv, PTL DEF CycleSpec

(* The pages, the files and the steps of the harness keep their types. *)
THEOREM CycleTypeCorrect == CycleSpec => []CycleTypeOK
<1>1. CInv => CycleTypeOK
  BY DEF CInv
<1>2. QED BY <1>1, CInvAlways, PTL

(* A report PASS is true of every page nobody else has touched since it was read, and
   a cycle that returned PASS left no patch on its way. *)
THEOREM PassRestoredHolds == CycleSpec => []PassRestored
<1>1. CInv => PassRestored
  BY DEF CInv, Verified, Restored, Calm, PassRestored
<1>2. QED BY <1>1, CInvAlways, PTL

(* A patch replaces what the snapshot holds or the plan wrote, or what was typed
   between the read and the patch. *)
THEOREM NoEditLostHolds == CycleSpec => NoEditLost
<1>1. CInv /\ [CycleNext]_cycle => [Overwrites]_cycle
  <2> SUFFICES ASSUME CInv, NEW p \in Pages, pc \in {"patch", "unpatch"}, turn = p
               PROVE  /\ snapshot
                      /\ p \in edited \/ page[p].system \in {image[p].system, "planned"}
    BY DEF Overwrites
  <2>1. QED BY DEF CInv, Kept, Seeing, Early, Late
<1>2. QED
  BY <1>1, CInvAlways, PTL DEF CycleSpec, NoEditLost
=============================================================================
