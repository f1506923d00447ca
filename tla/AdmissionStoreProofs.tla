------------------------ MODULE AdmissionStoreProofs ------------------------
(***************************************************************************)
(* Theorems about machine admission: AdmissionStore, for any processes,    *)
(* dependencies, keys, retry cap and deaths; Acquisition, AdmissionPolicy, *)
(* InputAudit and Extraction, as MCAdmissionStore hosts them, for any      *)
(* sources, pages, limits, documents, legacy records, trees and manifests. *)
(***************************************************************************)
EXTENDS MCAdmissionStore, FiniteSetTheorems, WellFoundedInduction, TLAPS

USE DEF tables, files, locals

Calling ==
  {"lock", "seeRevoked", "show", "info", "readRevoked", "compare"} \cup Viewing \cup Locked
Revoking == {"revoke", "lookup", "blank"}

(* What a process knows at each step.  Inside commit it alone has the lock of
   its key, so what it has read or written of that key still stands. *)
Knows(w) ==
  /\ pc[w] \in Calling => job[w] \in Keys
  /\ pc[w] \in Revoking => dep[w] \in Deps
  /\ pc[w] \in Locked => holder[job[w]] = w
  /\ \A k \in Keys : holder[k] = w => pc[w] \in Locked /\ job[w] = k
  /\ pc[w] \in {"start", "produce", "mark"} => marker[job[w]] = 0
  /\ pc[w] \in {"produce", "mark"} => got[w] = attempts[job[w]] /\ got[w] # 0
  /\ pc[w] = "mark" => result[job[w]] = got[w]
  /\ pc[w] = "done" => marker[job[w]] # 0
  /\ pc[w] \in {"read", "readRevoked"} => before[w] \subseteq revoked
  /\ pc[w] \in {"readRevoked", "readResult", "compare"} => marker[job[w]] # 0
  /\ pc[w] \in {"readResult", "compare"} => job[w] \cap before[w] = {}

Consistent == TypeOK /\ CommitIntact /\ \A w \in Workers : Knows(w)

LEMMA ConsistentInit == Init => Consistent
BY RetryCapAssumption, MaxCrashesAssumption, NullAssumption
   DEF Init, Consistent, TypeOK, CommitIntact, Knows, Calling, Revoking, Locked,
       Steps, Transacting, Viewing

LEMMA ConsistentStep == Consistent /\ [Next]_vars => Consistent'
<1> SUFFICES ASSUME Consistent, [Next]_vars PROVE Consistent'
  OBVIOUS
<1> USE RetryCapAssumption, MaxCrashesAssumption, NullAssumption, KeysAssumption
    DEF Consistent, TypeOK, CommitIntact, Knows, Calling, Revoking, Locked, Steps,
        Transacting, Viewing, Goto, Rest, Leave, Unlock
<1>1. ASSUME NEW w \in Workers, NEW k \in Keys, RunBegin(w, k) PROVE Consistent'
  BY <1>1 DEF RunBegin
<1>2. ASSUME NEW w \in Workers, NEW d \in Deps, InvalidateBegin(w, d) PROVE Consistent'
  BY <1>2 DEF InvalidateBegin
<1>3. ASSUME NEW w \in Workers, LockKey(w) PROVE Consistent'
  BY <1>3 DEF LockKey
<1>4. ASSUME NEW w \in Workers, KeyBusy(w) PROVE Consistent'
  BY <1>4 DEF KeyBusy
<1>5. ASSUME NEW w \in Workers, Replay(w) PROVE Consistent'
  BY <1>5 DEF Replay
<1>6. ASSUME NEW w \in Workers, NoMarker(w) PROVE Consistent'
  BY <1>6 DEF NoMarker
<1>7. ASSUME NEW w \in Workers, StartAttempt(w) PROVE Consistent'
  BY <1>7 DEF StartAttempt
<1>8. ASSUME NEW w \in Workers, Capped(w) PROVE Consistent'
  BY <1>8 DEF Capped
<1>9. ASSUME NEW w \in Workers, ProduceFails(w) PROVE Consistent'
  BY <1>9 DEF ProduceFails
<1>10. ASSUME NEW w \in Workers, WriteResult(w) PROVE Consistent'
  BY <1>10 DEF WriteResult
<1>11. ASSUME NEW w \in Workers, WriteMarker(w) PROVE Consistent'
  BY <1>11 DEF WriteMarker
<1>12. ASSUME NEW w \in Workers, MarkDone(w) PROVE Consistent'
  BY <1>12 DEF MarkDone
<1>13. ASSUME NEW w \in Workers, See(w) PROVE Consistent'
  <2>1. CASE Marked(w, "see", "seeRevoked")
    BY <2>1 DEF Marked
  <2>2. CASE Standing(w, "seeRevoked", "seeResult")
    BY <2>2 DEF Standing
  <2>3. CASE Named(w, "seeResult", "show")
    BY <2>3 DEF Named
  <2>4. QED BY <1>13, <2>1, <2>2, <2>3 DEF See
<1>14. ASSUME NEW w \in Workers, Show(w) PROVE Consistent'
  BY <1>14 DEF Show
<1>15. ASSUME NEW w \in Workers, WriteInfo(w) PROVE Consistent'
  BY <1>15 DEF WriteInfo
<1>16. ASSUME NEW w \in Workers, Revoke(w) PROVE Consistent'
  BY <1>16 DEF Revoke
<1>17. ASSUME NEW w \in Workers, Lookup(w) PROVE Consistent'
  BY <1>17 DEF Lookup
<1>18. ASSUME NEW w \in Workers, Blank(w) PROVE Consistent'
  BY <1>18 DEF Blank
<1>19. ASSUME NEW w \in Workers, ReadBegin(w) PROVE Consistent'
  BY <1>19 DEF ReadBegin
<1>20. ASSUME NEW w \in Workers, Read(w) PROVE Consistent'
  <2>1. CASE Marked(w, "read", "readRevoked")
    BY <2>1 DEF Marked
  <2>2. CASE Standing(w, "readRevoked", "readResult")
    BY <2>2 DEF Standing, Stands
  <2>3. CASE Named(w, "readResult", "compare")
    BY <2>3 DEF Named
  <2>4. QED BY <1>20, <2>1, <2>2, <2>3 DEF Read
<1>21. ASSUME NEW w \in Workers, Compare(w) PROVE Consistent'
  BY <1>21 DEF Compare
<1>22. ASSUME NEW w \in Workers, StateBusy(w) PROVE Consistent'
  BY <1>22 DEF StateBusy
<1>23. ASSUME NEW w \in Workers, Crash(w) PROVE Consistent'
  BY <1>23 DEF Crash
<1>24. CASE UNCHANGED vars
  BY <1>24 DEF vars
<1>25. QED
  BY <1>1, <1>2, <1>3, <1>4, <1>5, <1>6, <1>7, <1>8, <1>9, <1>10, <1>11, <1>12, <1>13,
     <1>14, <1>15, <1>16, <1>17, <1>18, <1>19, <1>20, <1>21, <1>22, <1>23, <1>24
     DEF Next

LEMMA ConsistentAlways == Spec => []Consistent
BY ConsistentInit, ConsistentStep, PTL DEF Spec

(* State, files and processes stay within their types: in particular no key is
   attempted more than RetryCap times (storage.py:74), even across deaths. *)
THEOREM TypeCorrect == Spec => []TypeOK
BY ConsistentAlways, PTL DEF Consistent

(* Whatever dies, fails or finds a lock taken between the writes of commit
   (storage.py:78-82), a marker names the result on disk and a DONE task has a
   marker. *)
THEOREM CommitIntactHolds == Spec => []CommitIntact
BY ConsistentAlways, PTL DEF Consistent

(* read_current returns nothing that was revoked when it was called
   (pipeline.py:179-195, storage.py:85-95). *)
THEOREM ReadSoundHolds == Spec => []ReadSound
<1>1. Consistent => ReadSound
  BY DEF Consistent, Knows, ReadSound
<1>2. QED
  BY <1>1, ConsistentAlways, PTL

-----------------------------------------------------------------------------
LEMMA PromiseInit == Init => Promise!Init
BY DEF Init, Promise!Init

(* The first write of an attempt is its Try, the marker its Commit, and nothing
   else touches what was promised. *)
LEMMA PromiseStep == Consistent /\ [Next]_vars => [Promise!Next]_(Promise!vars)
<1> SUFFICES ASSUME Consistent, [Next]_vars PROVE [Promise!Next]_(Promise!vars)
  OBVIOUS
<1> DEFINE Still == UNCHANGED <<attempts, marker, revoked>>
<1>1. ASSUME NEW w \in Workers, StartAttempt(w) PROVE Promise!Next
  <2>1. job[w] \in Keys /\ marker[job[w]] = 0
    BY <1>1 DEF StartAttempt, Consistent, Knows, Calling, Locked
  <2>2. Promise!Try(job[w])
    BY <1>1, <2>1 DEF StartAttempt, Promise!Try
  <2>3. QED BY <2>1, <2>2 DEF Promise!Next
<1>2. ASSUME NEW w \in Workers, WriteMarker(w) PROVE Promise!Next
  <2>1. /\ job[w] \in Keys
        /\ marker[job[w]] = 0
        /\ got[w] = attempts[job[w]]
        /\ attempts[job[w]] \in Nat \ {0}
    BY <1>2, RetryCapAssumption
       DEF WriteMarker, Consistent, TypeOK, Knows, Calling, Locked
  <2>2. Promise!Commit(job[w])
    BY <1>2, <2>1 DEF WriteMarker, Promise!Commit
  <2>3. QED BY <2>1, <2>2 DEF Promise!Next
<1>3. ASSUME NEW w \in Workers, Revoke(w) PROVE Promise!Next
  <2>1. dep[w] \in Deps
    BY <1>3 DEF Revoke, Consistent, Knows, Revoking
  <2>2. Promise!Withdraw(dep[w])
    BY <1>3 DEF Revoke, Promise!Withdraw
  <2>3. QED BY <2>1, <2>2 DEF Promise!Next
<1>4. ASSUME NEW w \in Workers, NEW k \in Keys, RunBegin(w, k) PROVE Still
  BY <1>4 DEF RunBegin, tables, files
<1>5. ASSUME NEW w \in Workers, NEW d \in Deps, InvalidateBegin(w, d) PROVE Still
  BY <1>5 DEF InvalidateBegin, tables, files
<1>6. ASSUME NEW w \in Workers,
             LockKey(w) \/ KeyBusy(w) \/ Replay(w) \/ NoMarker(w) \/ Capped(w)
               \/ ProduceFails(w) \/ WriteResult(w) \/ MarkDone(w)
      PROVE Still
  BY <1>6 DEF LockKey, KeyBusy, Replay, NoMarker, Capped, ProduceFails, WriteResult,
              MarkDone, tables, files
<1>7. ASSUME NEW w \in Workers,
             See(w) \/ Show(w) \/ WriteInfo(w) \/ Lookup(w) \/ Blank(w)
               \/ ReadBegin(w) \/ Read(w) \/ Compare(w) \/ StateBusy(w) \/ Crash(w)
      PROVE Still
  BY <1>7 DEF See, Show, WriteInfo, Lookup, Blank, ReadBegin, Read, Compare,
              Marked, Standing, Named, StateBusy, Crash, tables, files
<1>8. CASE UNCHANGED vars
  BY <1>8 DEF vars, tables, files, Promise!vars
<1>9. Still => UNCHANGED Promise!vars
  BY DEF Promise!vars
<1>10. QED
  BY <1>1, <1>2, <1>3, <1>4, <1>5, <1>6, <1>7, <1>8, <1>9 DEF Next

(* The store keeps Commitments: a key is tried at most RetryCap times, its latest
   attempt becomes its result, and after that nothing is tried or committed. *)
THEOREM RefinesCommitments == Spec => ImplementsCommitments
BY ConsistentAlways, PromiseInit, PromiseStep, PTL
   DEF Spec, ImplementsCommitments, Promise!Spec

-----------------------------------------------------------------------------
(* Acquisition and what is admitted from it. *)

LEMMA WellFoundedLeast ==
  ASSUME NEW R, IsWellFoundedOn(R, Nat), NEW T, T \subseteq Nat, T # {}
  PROVE  \E x \in T : \A y \in T : ~ (<<y, x>> \in R)
BY WFMin

(* A nonempty set of numbers has a least one. *)
LEMMA LeastExists ==
  ASSUME NEW T, T \subseteq Nat, T # {} PROVE \E x \in T : \A y \in T : x <= y
<1> DEFINE R == {ss \in Nat \X Nat : ss[1] < ss[2]}
<1>1. IsWellFoundedOn(R, Nat)
  BY NatLessThanWellFounded DEF OpToRel
<1>2. \A x, y \in Nat : <<y, x>> \notin R => x <= y
  OBVIOUS
<1> HIDE DEF R
<1>3. \E x \in T : \A y \in T : ~ (<<y, x>> \in R)
  BY <1>1, WellFoundedLeast
<1>4. QED BY <1>2, <1>3

LEMMA LeastOfSome ==
  ASSUME NEW T, T \subseteq Nat, T # {} PROVE Acquire!Least(T) \in T
BY LeastExists DEF Acquire!Least

LEMMA LeastOfThree ==
  ASSUME NEW a \in Int, NEW b \in Int, NEW c \in Int
  PROVE  /\ Acquire!Least({a, b, c}) \in Int
         /\ Acquire!Least({a, b, c}) <= a
         /\ Acquire!Least({a, b, c}) <= b
         /\ Acquire!Least({a, b, c}) <= c
<1>1. \E n \in {a, b, c} : \A m \in {a, b, c} : n <= m
  <2>1. CASE a <= b /\ a <= c
    BY <2>1
  <2>2. CASE b <= a /\ b <= c
    BY <2>2
  <2>3. CASE c <= a /\ c <= b
    BY <2>3
  <2>4. QED BY <2>1, <2>2, <2>3
<1>2. QED BY <1>1 DEF Acquire!Least

LEMMA LeastOfTwo ==
  ASSUME NEW a \in Int, NEW b \in Int
  PROVE  Acquire!Least({a, b}) \in Int /\ Acquire!Least({a, b}) <= a /\ Acquire!Least({a, b}) <= b
<1>1. {a, b} = {a, b, b}
  OBVIOUS
<1>2. QED BY <1>1, LeastOfThree

InHand == {"read", "release", "last"}

AcquisitionTypes ==
  /\ manifest \in [Sources -> {"none", "FETCHED", "ACCESS_BLOCKED"}]
  /\ raw \in [Pages -> {"absent", "partial", "whole"}]
  /\ url \in [Sources -> [attempts : Nat, closed : BOOLEAN]]
  /\ requests \in [Sources -> Nat]
  /\ bytes \in Int /\ received \in Int /\ held \in Nat /\ lost \in Nat
  /\ total \in Int /\ hop \in Nat
  /\ step # "off" => Acquire!Left # {}
  /\ step = "entry" => entry \in {"FETCHED", "ACCESS_BLOCKED"}

(* A fetch that goes out has been charged as an attempt of its url. *)
Charged ==
  /\ \A s \in Sources : requests[s] <= url[s].attempts /\ url[s].attempts <= 2
  /\ step = "request" /\ hop = 0 => requests[Acquire!Current] < url[Acquire!Current].attempts

(* An allowance is in hand only between its charge and its release. *)
InAllowance == held <= Chunk /\ (held > 0 => step \in InHand)

Landed == step = "entry" /\ entry = "FETCHED" => raw[Acquire!Page] = "whole"

AcquisitionInv ==
  /\ AcquisitionTypes /\ Charged /\ InAllowance /\ Landed
  /\ Acquire!FetchedHasBytes /\ Acquire!BytesAccounted

LEMMA AcquisitionInitially == Acquire!Init => AcquisitionInv
<1> SUFFICES ASSUME Acquire!Init PROVE AcquisitionInv
  OBVIOUS
<1>1. AcquisitionTypes
  BY DEF Acquire!Init, AcquisitionTypes
<1>2. Acquire!FetchedHasBytes /\ Acquire!BytesAccounted
  BY AcquisitionAssumption DEF Acquire!Init, Acquire!FetchedHasBytes, Acquire!BytesAccounted
<1>3. QED
  BY <1>1, <1>2, AcquisitionAssumption
     DEF Acquire!Init, AcquisitionInv, Charged, InAllowance, Landed

LEMMA CurrentIsSource ==
  ASSUME AcquisitionTypes, step # "off"
  PROVE  /\ Acquire!Current \in Sources /\ manifest[Acquire!Current] = "none"
         /\ Acquire!Page \in Pages /\ Size[Acquire!Page] \in Nat
<1>1. Acquire!Left \subseteq Nat /\ Acquire!Left # {}
  BY AcquisitionAssumption DEF AcquisitionTypes, Acquire!Left
<1>2. Acquire!Current \in Acquire!Left
  BY <1>1, LeastOfSome DEF Acquire!Current
<1>3. QED BY <1>2, AcquisitionAssumption DEF Acquire!Left, Acquire!Page

(* While the manifest stands, the same source is under way. *)
LEMMA SameSource ==
  ASSUME manifest' = manifest
  PROVE  /\ Acquire!Left' = Acquire!Left /\ Acquire!Current' = Acquire!Current
         /\ Acquire!Page' = Acquire!Page
BY DEF Acquire!Left, Acquire!Current, Acquire!Page

LEMMA OneLost ==
  ASSUME NEW n \in Nat PROVE Chunk * n \in Nat /\ Chunk * (n + 1) = Chunk * n + Chunk
BY AcquisitionAssumption

LEMMA BeginKeeps == ASSUME AcquisitionInv, Acquire!Begin PROVE AcquisitionInv'
<1> USE DEF AcquisitionInv, Acquire!Begin, Acquire!durable, Acquire!ghosts
<1>1. AcquisitionTypes'
  BY SameSource DEF AcquisitionTypes
<1>2. QED
  BY <1>1 DEF Charged, InAllowance, Landed, InHand, Acquire!FetchedHasBytes, Acquire!BytesAccounted

LEMMA AttemptKeeps == ASSUME AcquisitionInv, Acquire!Attempt PROVE AcquisitionInv'
<1> USE DEF AcquisitionInv, Acquire!Attempt, Acquire!ghosts
<1> DEFINE c == Acquire!Current
<1>1. c \in Sources
  BY CurrentIsSource
<1>2. Acquire!Current' = c /\ Acquire!Left' = Acquire!Left
  BY SameSource
<1>3. /\ url' \in [Sources -> [attempts : Nat, closed : BOOLEAN]]
      /\ url'[c].attempts = url[c].attempts + 1 /\ url[c].attempts < 2
      /\ \A s \in Sources : s # c => url'[s] = url[s]
  BY <1>1 DEF AcquisitionTypes
<1>4. AcquisitionTypes'
  BY <1>2, <1>3 DEF AcquisitionTypes
<1> HIDE DEF c
<1>5. Charged'
  BY <1>1, <1>2, <1>3 DEF Charged, AcquisitionTypes
<1>6. QED
  BY <1>4, <1>5 DEF InAllowance, Landed, InHand, Acquire!FetchedHasBytes, Acquire!BytesAccounted

LEMMA RequestKeeps == ASSUME AcquisitionInv, Acquire!Request PROVE AcquisitionInv'
<1> USE DEF AcquisitionInv, Acquire!Request
<1> DEFINE c == Acquire!Current
<1>1. c \in Sources
  BY CurrentIsSource
<1>2. Acquire!Current' = c /\ Acquire!Left' = Acquire!Left
  BY SameSource
<1>3. hop' \in Nat /\ (step' = "request" => hop' # 0)
  BY DEF AcquisitionTypes
<1>4. /\ requests' \in [Sources -> Nat]
      /\ \A s \in Sources : s # c => requests'[s] = requests[s]
      /\ requests'[c] <= IF hop = 0 THEN requests[c] + 1 ELSE requests[c]
  <2>1. CASE hop = 0
    BY <1>1, <2>1 DEF AcquisitionTypes
  <2>2. CASE hop # 0
    BY <1>1, <2>2 DEF AcquisitionTypes
  <2>3. QED BY <2>1, <2>2
<1>5. AcquisitionTypes'
  BY <1>2, <1>3, <1>4 DEF AcquisitionTypes
<1> HIDE DEF c
<1>6. requests'[c] <= url[c].attempts
  <2>1. c = Acquire!Current
    BY DEF c
  <2>2. CASE hop = 0
    BY <1>1, <1>4, <2>1, <2>2 DEF Charged, AcquisitionTypes
  <2>3. CASE hop # 0
    BY <1>1, <1>4, <2>3 DEF Charged, AcquisitionTypes
  <2>4. QED BY <2>2, <2>3
<1>7. Charged'
  BY <1>3, <1>4, <1>6 DEF Charged
<1>8. QED
  BY <1>5, <1>7 DEF InAllowance, Landed, InHand, Acquire!FetchedHasBytes, Acquire!BytesAccounted

LEMMA StatusKeeps == ASSUME AcquisitionInv, Acquire!Status PROVE AcquisitionInv'
<1> USE DEF AcquisitionInv, Acquire!Status, Acquire!ghosts
<1>1. Acquire!Current \in Sources
  BY CurrentIsSource
<1>2. Acquire!Current' = Acquire!Current /\ Acquire!Left' = Acquire!Left
  BY SameSource
<1>3. /\ url' \in [Sources -> [attempts : Nat, closed : BOOLEAN]]
      /\ \A s \in Sources : url'[s].attempts = url[s].attempts
  BY <1>1 DEF AcquisitionTypes
<1>4. AcquisitionTypes'
  BY <1>2, <1>3 DEF AcquisitionTypes
<1>5. QED
  BY <1>3, <1>4
     DEF Charged, InAllowance, Landed, InHand, Acquire!FetchedHasBytes, Acquire!BytesAccounted

LEMMA AllowanceBounded ==
  ASSUME AcquisitionTypes, Acquire!Allowance > 0
  PROVE  /\ Acquire!Allowance \in Nat /\ Acquire!Allowance <= Chunk
         /\ Acquire!Allowance <= ByteCap - bytes
<1> DEFINE mine == MaxSource + 1 - total
           ours == ByteCap - bytes
<1>1. Chunk \in Int /\ mine \in Int /\ ours \in Int
  BY AcquisitionAssumption DEF AcquisitionTypes
<1>2. Acquire!Allowance = Acquire!Least({Chunk, mine, ours})
  BY DEF Acquire!Allowance
<1> HIDE DEF mine, ours
<1>3. /\ Acquire!Allowance \in Int /\ Acquire!Allowance <= Chunk
      /\ Acquire!Allowance <= ours
  BY <1>1, <1>2, LeastOfThree, Zenon
<1>4. QED BY <1>3 DEF ours

LEMMA AllowKeeps == ASSUME AcquisitionInv, Acquire!Allow PROVE AcquisitionInv'
<1> USE DEF AcquisitionInv
<1> DEFINE a == Acquire!Allowance
<1>1. a \in Nat /\ a <= Chunk /\ a <= ByteCap - bytes
  BY AllowanceBounded DEF Acquire!Allow
<1>2. /\ bytes' = bytes + a /\ held' = a /\ held = 0 /\ step = "allow" /\ step' = "read"
      /\ UNCHANGED <<manifest, raw, hops, documents, url, entry, hop, total, Acquire!ghosts>>
  BY DEF Acquire!Allow, InAllowance, InHand, AcquisitionTypes
<1> HIDE DEF a
<1> USE DEF Acquire!ghosts
<1>3. AcquisitionTypes'
  BY <1>1, <1>2, SameSource DEF AcquisitionTypes
<1>4. Acquire!BytesAccounted'
  BY <1>1, <1>2, OneLost, AcquisitionAssumption DEF Acquire!BytesAccounted, AcquisitionTypes
<1>5. Charged' /\ Landed' /\ InAllowance'
  BY <1>1, <1>2 DEF Charged, InAllowance, Landed, InHand
<1>6. QED
  BY <1>2, <1>3, <1>4, <1>5 DEF Acquire!FetchedHasBytes

LEMMA ReadKeeps == ASSUME AcquisitionInv, Acquire!Read PROVE AcquisitionInv'
<1> USE DEF AcquisitionInv
<1> DEFINE rest == Size[Acquire!Page] - total
<1>1. rest \in Int
  BY CurrentIsSource DEF Acquire!Read, AcquisitionTypes
<1>2. PICK n \in (IF rest = 0 THEN {0} ELSE 1..Acquire!Least({held, rest})) :
        /\ received' = received + n /\ total' = total + n /\ held' = held - n
        /\ step' = IF n = 0 THEN "last" ELSE "release"
  BY DEF Acquire!Read
<1>3. n \in Nat /\ n <= held
  <2>1. held \in Nat /\ held \in Int
    BY DEF AcquisitionTypes
  <2> DEFINE least == Acquire!Least({held, rest})
  <2>2. least \in Int /\ least <= held
    BY <1>1, <2>1, LeastOfTwo, Zenon
  <2>3. n \in (IF rest = 0 THEN {0} ELSE 1..least)
    BY <1>2
  <2> HIDE DEF least
  <2>4. QED BY <1>1, <2>1, <2>2, <2>3
<1> HIDE DEF rest
<1>4. UNCHANGED <<Acquire!durable, entry, hop, requests, lost, deaths>> /\ step # "off" /\ step' \in InHand
  BY <1>2 DEF Acquire!Read, InHand
<1> USE <1>4 DEF Acquire!durable
<1>5. AcquisitionTypes'
  BY <1>2, <1>3, SameSource DEF AcquisitionTypes, InHand
<1>6. Acquire!BytesAccounted'
  BY <1>2, <1>3, OneLost, AcquisitionAssumption DEF Acquire!BytesAccounted, AcquisitionTypes
<1>7. Charged' /\ Landed' /\ InAllowance'
  BY <1>2, <1>3, AcquisitionAssumption DEF Charged, InAllowance, Landed, InHand, AcquisitionTypes
<1>8. QED
  BY <1>5, <1>6, <1>7 DEF Acquire!FetchedHasBytes

LEMMA ReleaseKeeps == ASSUME AcquisitionInv, Acquire!Release PROVE AcquisitionInv'
<1> USE DEF AcquisitionInv, Acquire!ghosts
<1>1. /\ step # "off" /\ step' \in {"document", "raise", "allow"}
      /\ bytes' = bytes - held /\ held' = 0
      /\ UNCHANGED <<manifest, raw, hops, documents, url, entry, hop, total, Acquire!ghosts>>
  BY DEF Acquire!Release, Acquire!Unused
<1>2. AcquisitionTypes'
  BY <1>1, SameSource DEF AcquisitionTypes
<1>3. Acquire!BytesAccounted'
  BY <1>1, OneLost, AcquisitionAssumption DEF Acquire!BytesAccounted, AcquisitionTypes
<1>4. Charged' /\ Landed' /\ InAllowance'
  BY <1>1, AcquisitionAssumption DEF Charged, InAllowance, Landed, InHand, AcquisitionTypes
<1>5. QED
  BY <1>1, <1>2, <1>3, <1>4 DEF Acquire!FetchedHasBytes

LEMMA DocumentKeeps == ASSUME AcquisitionInv, Acquire!Document PROVE AcquisitionInv'
<1> USE DEF AcquisitionInv, Acquire!Document, Acquire!ghosts
<1>1. AcquisitionTypes'
  BY SameSource DEF AcquisitionTypes
<1>2. QED
  BY <1>1 DEF Charged, InAllowance, Landed, InHand, Acquire!FetchedHasBytes, Acquire!BytesAccounted

(* What is on disk whole stays so. *)
LEMMA FilesGrow ==
  ASSUME AcquisitionInv, NEW v \in {"partial", "whole"}, step # "off",
         v = "partial" => raw[Acquire!Page] # "whole",
         raw' = [raw EXCEPT ![Acquire!Page] = v], manifest' = manifest
  PROVE  /\ raw' \in [Pages -> {"absent", "partial", "whole"}]
         /\ raw'[Acquire!Page] = v
         /\ Acquire!FetchedHasBytes'
<1> USE DEF AcquisitionInv
<1>1. Acquire!Page \in Pages
  BY CurrentIsSource
<1>2. \A p \in Pages : raw[p] = "whole" => raw'[p] = "whole"
  BY <1>1 DEF AcquisitionTypes
<1>3. \A s \in Sources : PageOf[s] \in Pages
  BY AcquisitionAssumption
<1>4. QED
  BY <1>1, <1>2, <1>3 DEF AcquisitionTypes, Acquire!FetchedHasBytes

LEMMA KeepKeeps == ASSUME AcquisitionInv, Acquire!Keep PROVE AcquisitionInv'
<1> USE DEF AcquisitionInv, Acquire!ghosts
<1>1. /\ step = "keep"
      /\ UNCHANGED <<manifest, bytes, hops, documents, url, hop, total, held, Acquire!ghosts>>
      /\ raw[Acquire!Page] \in {"absent", "partial", "whole"}
  BY CurrentIsSource DEF Acquire!Keep, AcquisitionTypes
<1>2. Acquire!BytesAccounted' /\ (step' # "request" => Charged')
  BY <1>1, SameSource DEF Charged, Acquire!BytesAccounted
<1>3. InAllowance'
  BY <1>1, AcquisitionAssumption DEF InAllowance, InHand, AcquisitionTypes
<1>4. CASE raw[Acquire!Page] = "absent"
  <2>1. raw' = [raw EXCEPT ![Acquire!Page] = "partial"] /\ step' = "write" /\ entry' = entry
    BY <1>4 DEF Acquire!Keep
  <2>2. Acquire!FetchedHasBytes' /\ raw' \in [Pages -> {"absent", "partial", "whole"}]
    BY <1>1, <1>4, <2>1, FilesGrow
  <2>3. AcquisitionTypes'
    BY <1>1, <2>1, <2>2, SameSource DEF AcquisitionTypes
  <2>4. QED BY <1>2, <1>3, <2>1, <2>2, <2>3 DEF Landed
<1>5. CASE raw[Acquire!Page] = "partial"
  <2>1. step' = "raise" /\ UNCHANGED <<raw, entry>>
    BY <1>5 DEF Acquire!Keep
  <2>2. AcquisitionTypes'
    BY <1>1, <2>1, SameSource DEF AcquisitionTypes
  <2>3. QED BY <1>1, <1>2, <1>3, <2>1, <2>2 DEF Landed, Acquire!FetchedHasBytes
<1>6. CASE raw[Acquire!Page] = "whole"
  <2>1. step' = "entry" /\ entry' = "FETCHED" /\ UNCHANGED raw
    BY <1>6 DEF Acquire!Keep
  <2>2. AcquisitionTypes'
    BY <1>1, <2>1, SameSource DEF AcquisitionTypes
  <2>3. Landed'
    BY <1>1, <1>6, <2>1, SameSource DEF Landed
  <2>4. QED BY <1>1, <1>2, <1>3, <2>1, <2>2, <2>3 DEF Acquire!FetchedHasBytes
<1>7. QED BY <1>1, <1>4, <1>5, <1>6

LEMMA WriteKeeps == ASSUME AcquisitionInv, Acquire!Write PROVE AcquisitionInv'
<1> USE DEF AcquisitionInv, Acquire!Write, Acquire!ghosts
<1>1. /\ raw' \in [Pages -> {"absent", "partial", "whole"}]
      /\ raw'[Acquire!Page] = "whole" /\ Acquire!FetchedHasBytes'
  BY FilesGrow
<1>2. AcquisitionTypes'
  BY <1>1, SameSource DEF AcquisitionTypes
<1>3. Landed'
  BY <1>1, SameSource DEF Landed
<1>4. QED
  BY <1>1, <1>2, <1>3, SameSource, AcquisitionAssumption
     DEF Charged, InAllowance, InHand, Acquire!BytesAccounted, AcquisitionTypes

(* An allowance in hand that is given up is lost. *)
LEMMA GivenUp ==
  ASSUME AcquisitionInv, held' = 0, lost' = IF held > 0 THEN lost + 1 ELSE lost,
         UNCHANGED <<bytes, received>>
  PROVE  lost' \in Nat /\ Acquire!BytesAccounted'
<1> USE DEF AcquisitionInv
<1>1. held \in Nat /\ held <= Chunk /\ bytes \in Int /\ received \in Int /\ lost \in Nat
  BY DEF AcquisitionTypes, InAllowance
<1>2. CASE held > 0
  BY <1>1, <1>2, OneLost, AcquisitionAssumption DEF Acquire!BytesAccounted
<1>3. CASE held = 0
  BY <1>1, <1>3 DEF Acquire!BytesAccounted
<1>4. QED BY <1>1, <1>2, <1>3

LEMMA RaiseKeeps == ASSUME AcquisitionInv, Acquire!Raise PROVE AcquisitionInv'
<1> USE DEF AcquisitionInv, Acquire!Raise, Acquire!durable
<1>1. lost' \in Nat /\ Acquire!BytesAccounted'
  BY GivenUp
<1>2. AcquisitionTypes'
  BY <1>1, SameSource DEF AcquisitionTypes
<1>3. QED
  BY <1>1, <1>2, AcquisitionAssumption
     DEF Charged, InAllowance, Landed, InHand, Acquire!FetchedHasBytes

LEMMA EntryKeeps == ASSUME AcquisitionInv, Acquire!Entry PROVE AcquisitionInv'
<1> USE DEF AcquisitionInv, Acquire!Entry, Acquire!ghosts
<1>1. Acquire!Current \in Sources
  BY CurrentIsSource
<1>2. AcquisitionTypes'
  BY <1>1 DEF AcquisitionTypes
<1>3. Acquire!FetchedHasBytes'
  BY <1>1 DEF Landed, Acquire!FetchedHasBytes, Acquire!Page, AcquisitionTypes
<1>4. QED
  BY <1>2, <1>3, AcquisitionAssumption
     DEF Charged, InAllowance, Landed, InHand, Acquire!BytesAccounted, AcquisitionTypes

LEMMA DeathKeeps == ASSUME AcquisitionInv, Acquire!Death PROVE AcquisitionInv'
<1> USE DEF AcquisitionInv, Acquire!durable
<1>1. lost' \in Nat /\ Acquire!BytesAccounted'
  BY GivenUp DEF Acquire!Death
<1>2. /\ step' = "off" /\ entry' = "none" /\ hop' = 0 /\ total' = 0 /\ held' = 0
      /\ UNCHANGED <<Acquire!durable, received, requests>>
  BY DEF Acquire!Death
<1>3. AcquisitionTypes'
  BY <1>1, <1>2 DEF AcquisitionTypes
<1>4. Charged' /\ Landed' /\ Acquire!FetchedHasBytes'
  BY <1>2 DEF Charged, Landed, Acquire!FetchedHasBytes
<1>5. InAllowance'
  BY <1>2, AcquisitionAssumption DEF InAllowance
<1>6. QED
  BY <1>1, <1>3, <1>4, <1>5

LEMMA AcquisitionStep == AcquisitionInv /\ [Acquire!Next]_(Acquire!vars) => AcquisitionInv'
<1> SUFFICES ASSUME AcquisitionInv, [Acquire!Next]_(Acquire!vars) PROVE AcquisitionInv'
  OBVIOUS
<1>1. CASE Acquire!Next
  BY <1>1, BeginKeeps, AttemptKeeps, RequestKeeps, StatusKeeps, AllowKeeps, ReadKeeps,
     ReleaseKeeps, DocumentKeeps, KeepKeeps, WriteKeeps, RaiseKeeps, EntryKeeps, DeathKeeps
     DEF Acquire!Next
<1>2. CASE UNCHANGED Acquire!vars
  BY <1>2, SameSource
     DEF Acquire!vars, Acquire!durable, Acquire!locals, Acquire!ghosts, AcquisitionInv,
         AcquisitionTypes, Charged, InAllowance, Landed, Acquire!FetchedHasBytes,
         Acquire!BytesAccounted
<1>3. QED BY <1>1, <1>2

LEMMA AcquisitionKept ==
  Acquire!Spec => [](Acquire!FetchedHasBytes /\ Acquire!BudgetKept)
<1>1. AcquisitionInv => Acquire!FetchedHasBytes /\ Acquire!BudgetKept
  <2>1. ASSUME AcquisitionInv, NEW s \in Sources PROVE requests[s] <= 2
    BY <2>1 DEF AcquisitionInv, AcquisitionTypes, Charged
  <2>2. QED
    BY <2>1 DEF AcquisitionInv, Acquire!BudgetKept, Acquire!RequestsCapped
<1>2. QED
  BY <1>1, AcquisitionInitially, AcquisitionStep, PTL DEF Acquire!Spec

-----------------------------------------------------------------------------
(* What is admitted: first what a draft holds, whatever it was made from, then
   what it was made from. *)

Readable(all) ==
  \A s \in all :
    /\ s.id \in Int /\ s.mentions \in Seq(Mentions)
    /\ \A t \in all : t.id = s.id => t = s

LEMMA CandidateIsMention ==
  ASSUME NEW s, s.mentions \in Seq(Mentions), NEW c \in Policy!Candidates(s)
  PROVE  /\ c.plain \in BOOLEAN /\ c.source = s.id /\ c.scope = s.scope
         /\ c = [scope |-> c.scope, predicate |-> c.predicate, value |-> c.value,
                 plain |-> c.plain, source |-> c.source]
         /\ \E i \in 1..Len(s.mentions) :
              s.mentions[i] = [predicate |-> c.predicate, value |-> c.value, plain |-> c.plain]
<1>1. PICK i \in DOMAIN s.mentions :
        c = [scope |-> s.scope, predicate |-> s.mentions[i].predicate,
             value |-> s.mentions[i].value, plain |-> s.mentions[i].plain, source |-> s.id]
  BY DEF Policy!Candidates
<1>2. i \in 1..Len(s.mentions) /\ s.mentions[i] \in Mentions
  OBVIOUS
<1> DEFINE m == s.mentions[i]
<1>3. m.plain \in BOOLEAN /\ m = [predicate |-> m.predicate, value |-> m.value, plain |-> m.plain]
  BY <1>2, PolicyAssumption
<1> HIDE DEF m
<1>4. c = [scope |-> s.scope, predicate |-> m.predicate, value |-> m.value,
           plain |-> m.plain, source |-> s.id]
  BY <1>1 DEF m
<1>5. /\ c.scope = s.scope /\ c.predicate = m.predicate /\ c.value = m.value
      /\ c.plain = m.plain /\ c.source = s.id
  BY <1>4
<1>6. c = [scope |-> c.scope, predicate |-> c.predicate, value |-> c.value,
           plain |-> c.plain, source |-> c.source]
  BY <1>4, <1>5
<1>7. s.mentions[i] = [predicate |-> c.predicate, value |-> c.value, plain |-> c.plain]
  BY <1>3, <1>5 DEF m
<1>8. QED BY <1>2, <1>3, <1>5, <1>6, <1>7

(* The first mention of what a mention says is a candidate. *)
LEMMA MentionHasCandidate ==
  ASSUME NEW s, s.mentions \in Seq(Mentions), NEW m \in 1..Len(s.mentions)
  PROVE  \E c \in Policy!Candidates(s) :
           /\ c.scope = s.scope /\ c.predicate = s.mentions[m].predicate
           /\ c.value = s.mentions[m].value
<1> DEFINE Same(i, j) == /\ s.mentions[i].predicate = s.mentions[j].predicate
                        /\ s.mentions[i].value = s.mentions[j].value
           T == {j \in 1..Len(s.mentions) : Same(j, m)}
<1>1. T \subseteq Nat /\ m \in T
  OBVIOUS
<1>2. PICK j \in T : \A k \in T : j <= k
  <2> HIDE DEF T
  <2>1. QED BY <1>1, LeastExists
<1>3. DOMAIN s.mentions = 1..Len(s.mentions) /\ Len(s.mentions) \in Nat
  OBVIOUS
<1>4. ASSUME NEW k \in 1..(j - 1) PROVE ~ Same(k, j)
  <2>1. k \in 1..Len(s.mentions) /\ ~ (j <= k)
    BY <1>3
  <2>2. k \notin T
    <3> HIDE DEF T
    <3>1. QED BY <1>2, <2>1
  <2>3. QED BY <2>1, <2>2
<1> DEFINE c == [scope |-> s.scope, predicate |-> s.mentions[j].predicate,
                 value |-> s.mentions[j].value, plain |-> s.mentions[j].plain,
                 source |-> s.id]
<1>5. c \in Policy!Candidates(s)
  <2>1. j \in DOMAIN s.mentions
    BY <1>3
  <2>2. \A k \in 1..(j - 1) : \/ s.mentions[k].predicate # s.mentions[j].predicate
                              \/ s.mentions[k].value # s.mentions[j].value
    BY <1>4
  <2>3. QED BY <2>1, <2>2 DEF Policy!Candidates
<1>6. c.scope = s.scope /\ c.predicate = s.mentions[m].predicate /\ c.value = s.mentions[m].value
  OBVIOUS
<1> HIDE DEF c
<1>7. QED BY <1>5, <1>6

AllCandidates(all) == UNION {Policy!Candidates(s) : s \in Policy!Read(all)}

(* What a draft holds is plainly said by a document of the maker's, has no
   competitor and touches nothing held. *)
LEMMA DraftHolds ==
  ASSUME NEW all, NEW on, Readable(all), NEW c \in Policy!Draft(Policy!Generated(all, on))
  PROVE  /\ c \in AllCandidates(all) /\ c.plain = TRUE
         /\ ~ Policy!Competing(c, AllCandidates(all))
         /\ \A old \in on : ~ Policy!Touches(c, old)
         /\ \E s \in all :
              /\ s.id = c.source /\ s.kind = "oem" /\ s.scope = c.scope
              /\ s.mentions \in Seq(Mentions)
              /\ \E i \in 1..Len(s.mentions) :
                   s.mentions[i] = [predicate |-> c.predicate, value |-> c.value, plain |-> TRUE]
<1> DEFINE cs == AllCandidates(all)
           Source(d) == CHOOSE s \in all : s.id = d.source
           State(d) == IF Policy!Competing(d, cs) THEN "REVIEW_EXCEPTION"
                       ELSE Policy!Decide(d, Source(d), on)
<1>1. \E r \in Policy!Generated(all, on) : r.claim = c /\ r.state = "MACHINE_ACCEPTED"
  BY DEF Policy!Draft
<1>2. Policy!Generated(all, on) = {[claim |-> d, state |-> State(d)] : d \in cs}
  BY DEF Policy!Generated, AllCandidates
<1> HIDE DEF State
<1>3. c \in cs /\ State(c) = "MACHINE_ACCEPTED"
  BY <1>1, <1>2
<1>4. ~ Policy!Competing(c, cs) /\ Policy!Decide(c, Source(c), on) = "MACHINE_ACCEPTED"
  BY <1>3 DEF State
<1>5. PICK s \in Policy!Read(all) : c \in Policy!Candidates(s)
  BY <1>3 DEF AllCandidates
<1>6. s \in all /\ s.mentions \in Seq(Mentions) /\ \A t \in all : t.id = s.id => t = s
  BY <1>5 DEF Policy!Read, Readable
<1>7. c.plain \in BOOLEAN /\ c.source = s.id /\ c.scope = s.scope
  BY <1>5, <1>6, CandidateIsMention
<1>8. Source(c) = s
  BY <1>6, <1>7
<1> HIDE DEF Source
<1>9. Policy!Decide(c, s, on) = "MACHINE_ACCEPTED"
  BY <1>4, <1>8
<1>10. \A old \in on : ~ Policy!Touches(c, old)
  BY <1>9 DEF Policy!Decide
<1>11. s.kind = "oem" /\ c.plain = TRUE
  BY <1>7, <1>9 DEF Policy!Decide
<1>12. \E i \in 1..Len(s.mentions) :
         s.mentions[i] = [predicate |-> c.predicate, value |-> c.value, plain |-> TRUE]
  BY <1>5, <1>6, <1>11, CandidateIsMention
<1>13. QED BY <1>3, <1>4, <1>6, <1>7, <1>10, <1>11, <1>12

(* An entity is in a draft once. *)
LEMMA DraftIsUnique ==
  ASSUME NEW all, NEW on, Readable(all),
         NEW c \in Policy!Draft(Policy!Generated(all, on)),
         NEW d \in Policy!Draft(Policy!Generated(all, on)),
         c.scope = d.scope, c.predicate = d.predicate, c.value = d.value
  PROVE  c = d
<1>1. c.source <= d.source /\ d.source <= c.source
  BY DEF Policy!Draft
<1>2. ASSUME NEW e \in Policy!Draft(Policy!Generated(all, on))
      PROVE  /\ e.plain = TRUE /\ e.source \in Int
             /\ e = [scope |-> e.scope, predicate |-> e.predicate, value |-> e.value,
                     plain |-> e.plain, source |-> e.source]
  <2>1. e \in AllCandidates(all) /\ e.plain = TRUE
    BY DraftHolds
  <2>2. PICK s \in Policy!Read(all) : e \in Policy!Candidates(s)
    BY <2>1 DEF AllCandidates
  <2>3. s.mentions \in Seq(Mentions) /\ s.id \in Int
    BY <2>2 DEF Policy!Read, Readable
  <2>4. /\ e.source = s.id
        /\ e = [scope |-> e.scope, predicate |-> e.predicate, value |-> e.value,
                plain |-> e.plain, source |-> e.source]
    BY <2>2, <2>3, CandidateIsMention, Zenon
  <2>5. QED BY <2>1, <2>3, <2>4
<1>3. c.source = d.source
  <2>1. c.source \in Int /\ d.source \in Int
    BY <1>2
  <2>2. QED BY <1>1, <2>1
<1>4. c.plain = d.plain
  BY <1>2
<1>5. QED BY <1>2, <1>3, <1>4

LEMMA DraftUncontested ==
  ASSUME NEW all, NEW on, Readable(all),
         NEW c \in Policy!Draft(Policy!Generated(all, on)), c.predicate = "housing_material",
         NEW s \in Policy!Read(all), s.scope = c.scope,
         NEW m \in 1..Len(s.mentions), s.mentions[m].predicate = c.predicate
  PROVE  s.mentions[m].value = c.value
<1>1. s.mentions \in Seq(Mentions)
  BY DEF Policy!Read, Readable
<1>2. PICK d \in Policy!Candidates(s) :
        d.scope = s.scope /\ d.predicate = s.mentions[m].predicate /\ d.value = s.mentions[m].value
  BY <1>1, MentionHasCandidate
<1>3. d \in AllCandidates(all)
  BY DEF AllCandidates
<1>4. ~ Policy!Competing(c, AllCandidates(all))
  BY DraftHolds
<1>5. QED BY <1>2, <1>3, <1>4 DEF Policy!Competing

-----------------------------------------------------------------------------
(* The draft shown comes from the sources, under the holds it was made under; a run
   knows of the plan what it was when it began, and of that only what was taken off
   since can be missing from it, or from the records the run read. *)
PolicyInv ==
  /\ runs \in Nat /\ (runs = 0 => shown = {} /\ stage = "off")
  /\ sources = {} \/ sources \in Documents
  /\ shown = {} \/ shown = Policy!Draft(Policy!Generated(sources, basis))
  /\ stage = "recompute" => records = Policy!Generated(sources, read)
  /\ stage \in {"legacy", "generate", "recompute", "after"} => pinned \ lifted \subseteq plan
  /\ stage \in {"generate", "recompute", "after"} => pinned \ lifted \subseteq read
  /\ stage = "after" => basis = read
  /\ vouched # {"none"} => vouched \subseteq basis

LEMMA PolicyInitially == Policy!PolicyInit => PolicyInv
BY DEF Policy!PolicyInit, PolicyInv

LEMMA PolicyStep == PolicyInv /\ [Policy!PolicyNext]_(Policy!policy) => PolicyInv'
<1> SUFFICES ASSUME PolicyInv, [Policy!PolicyNext]_(Policy!policy) PROVE PolicyInv'
  OBVIOUS
<1> USE DEF PolicyInv
<1>1. ASSUME Policy!Raises PROVE PolicyInv'
  BY <1>1 DEF Policy!Raises, Policy!World, Policy!Draftless
<1>2. CASE Policy!Start
  <2>1. /\ runs' = runs + 1 /\ stage' = "before"
        /\ UNCHANGED <<status, damaged, initial, pinned, read, records, shown, basis,
                       vouched, events>>
        /\ IF runs = 0 THEN sources' \in Documents ELSE sources' = sources
    BY <1>2 DEF Policy!Start
  <2>2. CASE runs = 0
    BY <2>1, <2>2
  <2>3. CASE runs # 0
    BY <2>1, <2>3
  <2>4. QED BY <2>2, <2>3
<1>3. CASE Policy!Before
  <2>1. CASE Policy!Raises
    BY <1>1, <2>1
  <2>2. CASE ~ Policy!Raises
    BY <1>3, <2>2 DEF Policy!Before, Policy!Hashed, Policy!World, Policy!Draftless
  <2>3. QED BY <2>1, <2>2
<1>4. CASE Policy!ReadLegacy
  BY <1>4 DEF Policy!ReadLegacy, Policy!World, Policy!Draftless
<1>5. CASE Policy!Generate
  <2>1. CASE Policy!Raises
    BY <1>1, <2>1
  <2>2. CASE ~ Policy!Raises
    BY <1>5, <2>2 DEF Policy!Generate, Policy!World, Policy!Draftless
  <2>3. QED BY <2>1, <2>2
<1>6. CASE Policy!Preview
  <2>1. CASE Policy!Raises
    BY <1>1, <2>1
  <2>2. CASE ~ Policy!Raises
    <3>1. /\ stage = "recompute" /\ shown' = Policy!Draft(records) /\ basis' = read
          /\ stage' = "after" /\ vouched' = {"none"}
          /\ UNCHANGED <<initial, pinned, read, records, runs, sources, plan, lifted>>
      BY <1>6, <2>2 DEF Policy!Preview, Policy!World
    <3>2. shown' = Policy!Draft(Policy!Generated(sources', basis'))
      BY <3>1
    <3>3. runs # 0
      BY <3>1
    <3>4. QED BY <3>1, <3>2, <3>3
  <2>3. QED BY <2>1, <2>2
<1>7. CASE Policy!After
  <2>1. CASE Policy!Raises
    BY <1>1, <2>1
  <2>2. CASE ~ Policy!Raises
    BY <1>7, <2>2 DEF Policy!After, Policy!Hashed, Policy!World, Policy!Draftless
  <2>3. QED BY <2>1, <2>2
<1>8. CASE Policy!Happens
  <2>1. /\ plan \ lifted' \subseteq plan' /\ lifted \subseteq lifted'
        /\ UNCHANGED <<sources, initial, stage, pinned, read, records, shown, basis, vouched, runs>>
    BY <1>8 DEF Policy!Happens
  <2>2. QED BY <2>1
<1>9. CASE UNCHANGED Policy!policy
  BY <1>9 DEF Policy!policy
<1>10. QED
  BY <1>2, <1>3, <1>4, <1>5, <1>6, <1>7, <1>8, <1>9 DEF Policy!PolicyNext

LEMMA PolicyInvSound == PolicyInv => Policy!PolicySound
<1> SUFFICES ASSUME PolicyInv PROVE Policy!PolicySound
  OBVIOUS
<1>1. Readable(sources)
  BY PolicyAssumption DEF PolicyInv, Readable
<1>2. ASSUME NEW c \in shown
      PROVE c \in Policy!Draft(Policy!Generated(sources, basis))
  BY DEF PolicyInv
<1>3. Policy!Supported
  <2>1. ASSUME NEW c \in shown
        PROVE  \E s \in sources :
                 /\ s.id = c.source /\ s.kind = "oem" /\ s.scope = c.scope
                 /\ \E i \in 1..Len(s.mentions) :
                      s.mentions[i] = [predicate |-> c.predicate, value |-> c.value, plain |-> TRUE]
    BY <1>1, <1>2, DraftHolds
  <2>2. ASSUME NEW c \in shown, NEW d \in shown,
               <<c.scope, c.predicate, c.value>> = <<d.scope, d.predicate, d.value>>
        PROVE  c = d
    BY <1>1, <1>2, <2>2, DraftIsUnique
  <2>3. QED BY <2>1, <2>2 DEF Policy!Supported
<1>4. Policy!Uncontested
  BY <1>1, <1>2, DraftUncontested DEF Policy!Uncontested
<1>5. Policy!HoldsKept
  <2>1. ASSUME NEW c \in shown PROVE \A old \in basis : ~ Policy!Touches(c, old)
    BY <1>1, <1>2, DraftHolds
  <2>2. QED BY <2>1 DEF Policy!HoldsKept, PolicyInv
<1>6. QED BY <1>3, <1>4, <1>5 DEF Policy!PolicySound

(* What machine admission shows rests on whole pages, fetched within the attempts and
   bytes it may spend whatever dies (storage.py:119-170, pipeline.py:85-121), is said
   plainly by a document of the maker's that no other contradicts, and touches nothing
   that is held (policy.py:128-185, pipeline.py:130-177). *)
THEOREM AdmissionIsSound == Acquire!Spec /\ Policy!PolicySpec => []AdmittedSound
<1>1. Policy!PolicySpec => []Policy!PolicySound
  BY PolicyInitially, PolicyStep, PolicyInvSound, PTL DEF Policy!PolicySpec
<1>2. QED
  BY <1>1, AcquisitionKept, PTL DEF AdmittedSound

-----------------------------------------------------------------------------
(* The input audit.  Positions in Lists: 2 assets, 3 legacy, 4 samples, 5 pins,
   6 decisions, 7 nested manifests, 8 resolver. *)
Listed(j) == Audit!PathsOf(Audit!Lists[j])
Looking == {"look", "read", "stat", "file"}
Opening == {"again", "open", "measure"}
Inspecting(n) == auditStep \in Looking \cup Opening /\ hand.name = n
Contents == Digests \cup {"absent"}

AuditTypes ==
  /\ disk \in [Audit!Paths -> Contents] /\ past \in [Audit!Paths -> SUBSET Contents]
  /\ custody \in BOOLEAN /\ at \in 1..9 /\ changes \in Nat /\ todo \subseteq Nat
  /\ auditStep \in Looking \cup Opening \cup {"start", "pick", "root", "compare", "ended"}
  /\ verdict \in {"none", "raised", "refused", "clean", "fail"}
  /\ nested.path \in Nat /\ nested.root \in {"repo", "anchor"}
  /\ nested = [path |-> nested.path, locators |-> nested.locators, roots |-> nested.roots,
               root |-> nested.root]
  /\ hand \in [path : Nat, name : Nat, looks : Nat, exists : BOOLEAN, first : Contents, actual : Contents]
  /\ \A p \in Audit!Paths : disk[p] \in past[p]
  /\ \A b \in inputs : b[1] \in Samples

(* Where the audit is, and what it has before it. *)
Placed ==
  /\ auditStep = "start" => at = 1 /\ items = {} /\ inputs = {} /\ nested = Audit!NoManifest
  /\ verdict # "none" => auditStep = "ended"
  /\ auditStep \in Looking \cup Opening \cup {"pick", "root"} => at < 9
  /\ auditStep = "compare" \/ verdict \in {"clean", "fail"} => at = 9 /\ nested = Audit!NoManifest
  /\ auditStep = "compare" => todo \subseteq {b[1] : b \in inputs}
  /\ auditStep \in Looking \cup Opening \cup {"pick"} =>
       todo \subseteq IF nested = Audit!NoManifest THEN Listed(at) ELSE nested.locators
  /\ auditStep = "root" => nested # Audit!NoManifest
  /\ nested # Audit!NoManifest =>
       /\ at = 7 /\ nested.path \in Manifests
       /\ nested.locators \subseteq Audit!Locators(nested.path)
       /\ nested.roots \subseteq {"repo", "anchor"} /\ nested.roots # {}

AtHand ==
  /\ hand.path \in Audit!Paths
  /\ nested = Audit!NoManifest => at # 7 /\ hand.path = hand.name /\ hand.name \in Listed(at)
  /\ nested # Audit!NoManifest =>
       hand.name \in nested.locators /\ hand.path = At[nested.root][hand.name]
  /\ hand.exists => past[hand.path] \ {"absent"} # {}
  /\ hand.first \in past[hand.path] \cup {"absent"}

(* A nested manifest is in hand, the first of those left. *)
Opened ==
  /\ at = 7 /\ nested = Audit!NoManifest
  /\ hand.path = hand.name /\ hand.name \in Manifests
  /\ \A y \in todo : y > hand.name
  /\ auditStep = "again" => "absent" \in past[hand.name]
  /\ auditStep = "measure" =>
       \E d \in past[hand.name] \cap DOMAIN Entries[hand.name] : Entries[hand.name][d] = {}

(* What StrictSound asks of a path, and how far the audit has come. *)
Confirmed(j, p) ==
  IF j \in {2, 5} THEN Want[p] \in past[p]
  ELSE past[p] \ {"absent"} # {} /\ (j = 7 => "absent" \in past[p] \/ Audit!Followed(p))
Visited(j, p) ==
  \/ j < at
  \/ j = at /\ IF nested = Audit!NoManifest THEN p \notin todo /\ ~ Inspecting(p)
               ELSE p < nested.path

Sofar ==
  /\ at > 2 => ~ custody
  /\ \A j \in 2..8 : \A p \in Listed(j) : Visited(j, p) => Confirmed(j, p)
  /\ nested # Audit!NoManifest =>
       \E d \in past[nested.path] \cap DOMAIN Entries[nested.path] :
          Roots[nested.path][d] = nested.roots /\ Entries[nested.path][d] = nested.locators
  /\ nested # Audit!NoManifest /\ auditStep # "root" =>
       /\ nested.root \in nested.roots
       /\ \A l \in nested.locators \ todo :
            Inspecting(l) \/ Want[l] \in past[At[nested.root][l]]

Failing == \E i \in items : i.status \in Audit!StrictFail
Strict ==
  /\ verdict \in {"raised", "refused"} \/ Failing \/ Sofar
  /\ verdict = "clean" => ~ Failing

(* An undisturbed audit: what is in hand, filed and covered. *)
There(p) == disk[p] # "absent"
HandExact ==
  /\ auditStep = "look" =>
       /\ hand.looks \in 0..2 /\ hand.actual = "absent"
       /\ hand.looks > 0 => (hand.exists <=> There(hand.path))
       /\ hand.first = IF hand.looks = 2 THEN disk[hand.path] ELSE "absent"
       /\ ~ Audit!Thrice => hand.looks = 0
  /\ auditStep = "read" =>
       /\ There(hand.path) /\ hand.exists
       /\ Audit!Thrice => /\ hand.looks \in {1, 2} /\ hand.actual = "absent"
                          /\ hand.looks = 2 => hand.first = disk[hand.path]
  /\ auditStep \in {"stat", "file"} =>
       /\ auditStep = "stat" => There(hand.path)
       /\ (hand.exists <=> There(hand.path))
       /\ hand.first = disk[hand.path] /\ hand.actual = disk[hand.path]
  /\ auditStep \in {"open", "measure"} => There(hand.path)
  /\ auditStep = "again" => ~ There(hand.path)

ItemExact(i) ==
  /\ i.status = "HASH_VERIFIED" <=> i.path # 0 /\ i.actual # "absent" /\ i.actual = Audit!Expectation(i)
  /\ i.status \in {"PRESENT", "HASH_VERIFIED", "HASH_MISMATCH"} => i.actual = disk[i.path]
  /\ i.path \in Audit!Catalogue /\ i.status \in Audit!Missing \ {"UNSAFE_LOCATOR"} =>
       disk[i.path] = "absent"

(* What may make it raise. *)
Excused == at = 1 \/ (at = 7 /\ \E m \in Manifests : There(m) /\ ~ Audit!IsJson(m))

Quiet ==
  changes = 0 =>
    /\ verdict = "raised" => Excused
    /\ \A b \in inputs : b = <<b[1], disk[b[1]]>>
    /\ \A i \in items : ItemExact(i)
    /\ \A j \in {2, 3, 4, 5, 6, 8} : \A p \in Listed(j) :
         Visited(j, p) => \E i \in items : i.path = p
    /\ HandExact

AuditInv ==
  /\ AuditTypes /\ Placed /\ Strict /\ Quiet
  /\ auditStep \in Looking => AtHand
  /\ auditStep \in Opening => Opened

LEMMA Positions ==
  /\ Listed(1) = Samples /\ Listed(2) = Assets /\ Listed(3) = Legacy /\ Listed(4) = Samples
  /\ Listed(5) = Pins /\ Listed(6) = Decisions /\ Listed(7) = Manifests
  /\ Listed(8) = Resolver /\ Listed(9) = {}
BY DEF Listed, Audit!PathsOf, Audit!Lists

LEMMA Position ==
  ASSUME at \in 1..9
  PROVE  /\ Audit!PathsOf(Audit!List) = Listed(at)
         /\ Audit!List = "before" <=> at = 1
         /\ Audit!List = "assets" <=> at = 2
         /\ Audit!List = "nested" <=> at = 7
         /\ Audit!List = "after" <=> at = 9
         /\ Audit!List \in {"assets", "pins"} <=> at \in {2, 5}
         /\ Audit!List \in {"pins", "decisions"} <=> at \in {5, 6}
         /\ Audit!Thrice <=> at \in {5, 6, 8}
BY DEF Audit!List, Audit!Lists, Audit!Thrice, Listed

LEMMA PathsListed ==
  /\ \A j \in 1..9 : Listed(j) \subseteq Audit!Paths
  /\ \A m \in Manifests, r \in {"repo", "anchor"} : \A l \in Audit!Locators(m) : At[r][l] \in Audit!Paths
  /\ Manifests \subseteq Audit!Paths
<1>1. Manifests \subseteq Audit!Paths /\ Samples \subseteq Audit!Paths
  BY DEF Audit!Paths
<1>2. \A j \in 1..9 : Listed(j) \subseteq Audit!Paths
  BY Positions DEF Audit!Paths
<1>3. ASSUME NEW m \in Manifests, NEW r \in {"repo", "anchor"}, NEW l \in Audit!Locators(m)
      PROVE  At[r][l] \in Audit!Paths
  <2> DEFINE Reached(k, s) == {At[s][i] : i \in Audit!Locators(k)}
             Families == {Reached(k, s) : k \in Manifests, s \in {"repo", "anchor"}}
  <2>1. At[r][l] \in Reached(m, r)
    OBVIOUS
  <2>2. Reached(m, r) \in Families
    OBVIOUS
  <2>3. UNION Families \subseteq Audit!Paths
    BY DEF Audit!Paths
  <2>4. At[r][l] \in UNION Families
    <3> HIDE DEF Reached, Families
    <3>1. QED BY <2>1, <2>2
  <2>5. QED BY <2>3, <2>4
<1>4. QED BY <1>1, <1>2, <1>3

LEMMA LocatorsKnown ==
  /\ \A m \in Manifests : \A d \in DOMAIN Entries[m] :
       Entries[m][d] \subseteq Audit!Locators(m) /\ Roots[m][d] \subseteq {"repo", "anchor"}
  /\ \A m \in Manifests : \A l \in Audit!Locators(m) :
       l \in Nat /\ l \notin Manifests /\ Want[l] \in Digests
BY AuditAssumption DEF Audit!Locators

LEMMA LeastPicked ==
  ASSUME NEW T, T \subseteq Nat, T # {}
  PROVE  Audit!Min(T) \in T /\ \A y \in T : Audit!Min(T) <= y
<1>1. \E x \in T : \A y \in T : x <= y
  BY LeastExists
<1>2. QED BY <1>1 DEF Audit!Min

(* Nothing is forgotten: while the audit stays with one list and manifest, what is no
   longer before it has been vouched for. *)
LEMMA SofarStays ==
  ASSUME AuditTypes, Sofar, custody' = custody, at' = at, nested' = nested,
         at = 7 /\ nested # Audit!NoManifest =>
           /\ nested.path \in Manifests /\ nested.roots \subseteq {"repo", "anchor"}
           /\ nested.locators \subseteq Audit!Locators(nested.path),
         \A p \in Audit!Paths : past[p] \subseteq past'[p],
         \A n : n \in todo \/ Inspecting(n) => n \in todo' \/ Inspecting(n)',
         nested # Audit!NoManifest => at = 7,
         auditStep = "root" => auditStep' = "root"
  PROVE  Sofar'
<1>1. ASSUME NEW j \in 2..8, NEW p \in Listed(j), Confirmed(j, p) PROVE Confirmed(j, p)'
  <2>1. p \in Audit!Paths
    BY PathsListed
  <2>2. ASSUME j = 7, Audit!Followed(p) PROVE Audit!Followed(p)'
    <3>1. p \in Manifests
      BY <2>2, Positions
    <3>2. PICK d \in past[p] \cap DOMAIN Entries[p] :
            \/ Entries[p][d] = {}
            \/ \E r \in Roots[p][d] : \A l \in Entries[p][d] : Want[l] \in past[At[r][l]]
      BY <2>2 DEF Audit!Followed
    <3>3. ASSUME NEW r \in Roots[p][d], NEW l \in Entries[p][d] PROVE past[At[r][l]] \subseteq past'[At[r][l]]
      BY <3>1, <3>2, PathsListed, LocatorsKnown
    <3>4. d \in past'[p]
      BY <2>1, <3>2
    <3>5. QED BY <3>2, <3>3, <3>4 DEF Audit!Followed
  <2>3. QED BY <1>1, <2>1, <2>2 DEF Confirmed
<1>2. ASSUME NEW j \in 2..8, NEW p, Visited(j, p)' PROVE Visited(j, p)
  BY <1>2 DEF Visited
<1>3. \A j \in 2..8 : \A p \in Listed(j) : Visited(j, p)' => Confirmed(j, p)'
  BY <1>1, <1>2 DEF Sofar
<1>4. nested # Audit!NoManifest => nested.path \in Audit!Paths
  BY PathsListed
<1>5. nested # Audit!NoManifest =>
        \E d \in past'[nested.path] \cap DOMAIN Entries[nested.path] :
           Roots[nested.path][d] = nested.roots /\ Entries[nested.path][d] = nested.locators
  BY <1>4 DEF Sofar
<1>6. ASSUME nested # Audit!NoManifest, auditStep' # "root"
      PROVE  /\ nested.root \in nested.roots
             /\ \A l \in nested.locators \ todo' :
                  Inspecting(l)' \/ Want[l] \in past'[At[nested.root][l]]
  <2>1. \A l \in nested.locators : At[nested.root][l] \in Audit!Paths
    BY <1>6, PathsListed DEF AuditTypes
  <2>2. QED BY <1>6, <2>1 DEF Sofar
<1>7. QED BY <1>3, <1>5, <1>6 DEF Sofar

LEMMA SofarKept ==
  ASSUME AuditTypes, Placed, Strict, custody' = custody, at' = at, nested' = nested,
         verdict' = verdict, verdict = "none", items' = items,
         \A p \in Audit!Paths : past[p] \subseteq past'[p],
         \A n : n \in todo \/ Inspecting(n) => n \in todo' \/ Inspecting(n)',
         auditStep = "root" => auditStep' = "root"
  PROVE  Strict'
<1>1. Sofar => Sofar'
  BY SofarStays DEF Placed
<1>2. QED BY <1>1 DEF Strict, Failing

LEMMA Uncovered ==
  ASSUME NEW j, NEW p, at' = at, nested' = nested,
         \A n : n \in todo \/ Inspecting(n) => n \in todo' \/ Inspecting(n)',
         Visited(j, p)'
  PROVE  Visited(j, p)
BY DEF Visited

LEMMA ExcuseStays == ASSUME at' = at, disk' = disk PROVE Excused' <=> Excused
BY DEF Excused, There, Audit!IsJson

LEMMA QuietKept ==
  ASSUME Quiet, disk' = disk, changes' = changes, verdict' = verdict, inputs' = inputs,
         items' = items, at' = at, nested' = nested, changes = 0 => HandExact',
         \A n : n \in todo \/ Inspecting(n) => n \in todo' \/ Inspecting(n)'
  PROVE  Quiet'
<1>1. ASSUME NEW i \in items, ItemExact(i) PROVE ItemExact(i)'
  BY <1>1 DEF ItemExact, Audit!Expectation
<1>2. \A j \in {2, 3, 4, 5, 6, 8} : \A p \in Listed(j) : Visited(j, p)' => Visited(j, p)
  BY Uncovered
<1>3. QED BY <1>1, <1>2, ExcuseStays DEF Quiet

LEMMA ChangeKeeps == ASSUME AuditInv, NEW p \in Audit!Paths, Audit!Change(p) PROVE AuditInv'
<1>1. PICK c \in Contents :
        /\ disk' = [disk EXCEPT ![p] = c] /\ past' = [past EXCEPT ![p] = @ \cup {c}]
  BY DEF Audit!Change, Contents
<1>2. /\ auditStep \notin {"start", "ended"} /\ changes' = changes + 1
      /\ UNCHANGED <<custody, at, todo, auditStep, hand, nested, inputs, items, verdict>>
  BY DEF Audit!Change
<1>3. \A q \in Audit!Paths : past[q] \subseteq past'[q]
  BY <1>1 DEF AuditInv, AuditTypes
<1>4. AuditTypes'
  <2>1. past' \in [Audit!Paths -> SUBSET Contents] /\ disk' \in [Audit!Paths -> Contents]
    BY <1>1 DEF AuditInv, AuditTypes
  <2>2. \A q \in Audit!Paths : disk'[q] \in past'[q]
    BY <1>1 DEF AuditInv, AuditTypes
  <2>3. QED BY <1>2, <2>1, <2>2 DEF AuditInv, AuditTypes
<1>5. Placed'
  BY <1>2 DEF AuditInv, Placed
<1>6. (auditStep \in Looking => AtHand)'
  BY <1>2, <1>3 DEF AuditInv, AtHand
<1>7. Strict'
  <2>1. \A n : n \in todo \/ Inspecting(n) => n \in todo' \/ Inspecting(n)'
    BY <1>2 DEF Inspecting
  <2>2. verdict = "none"
    BY <1>2 DEF AuditInv, Placed
  <2>3. QED BY <1>2, <1>3, <2>1, <2>2, SofarKept DEF AuditInv
<1>8. Quiet'
  BY <1>2 DEF AuditInv, AuditTypes, Quiet
<1>9. (auditStep \in Opening => Opened)'
  <2>1. ASSUME auditStep \in Opening PROVE Opened'
    <3>1. Opened /\ hand.name \in Audit!Paths
      BY <2>1, PathsListed DEF AuditInv, Opened
    <3>2. QED BY <1>2, <1>3, <3>1 DEF Opened
  <2>2. QED BY <1>2, <2>1
<1>10. QED BY <1>4, <1>5, <1>6, <1>7, <1>8, <1>9 DEF AuditInv

LEMMA PickKeeps == ASSUME AuditInv, Audit!Pick PROVE AuditInv'
<1> DEFINE n == Audit!Min(todo)
<1>1. /\ auditStep = "pick" /\ auditStep' = "look" /\ todo # {} /\ todo' = todo \ {n}
      /\ UNCHANGED <<disk, custody, past, changes, at, nested, inputs, items, verdict>>
  BY DEF Audit!Pick, Audit!Tree
<1>2. /\ at = 7 => nested # Audit!NoManifest
      /\ hand' = [path |-> IF at = 7 THEN At[nested.root][n] ELSE n, name |-> n, looks |-> 0,
                  exists |-> FALSE, first |-> "absent", actual |-> "absent"]
  BY Position DEF Audit!Pick, Audit!Unseen, AuditInv, AuditTypes
<1>3. n \in todo
  BY <1>1, LeastPicked DEF AuditInv, AuditTypes
<1> HIDE DEF n
<1>4. AtHand'
  <2>1. /\ nested = Audit!NoManifest => n \in Listed(at) /\ at # 7
        /\ nested # Audit!NoManifest => /\ n \in nested.locators /\ at = 7 /\ nested.path \in Manifests
                                     /\ nested.locators \subseteq Audit!Locators(nested.path)
    BY <1>1, <1>2, <1>3 DEF AuditInv, Placed
  <2>2. hand'.path \in Audit!Paths
    BY <1>2, <2>1, PathsListed DEF AuditInv, AuditTypes
  <2>3. QED BY <1>1, <1>2, <2>1, <2>2 DEF AtHand
<1>5. AuditTypes'
  <2>1. hand'.path \in Nat
    BY <1>4, AuditAssumption DEF AtHand
  <2>2. n \in Nat
    BY <1>3 DEF AuditInv, AuditTypes
  <2>3. hand' \in [path : Nat, name : Nat, looks : Nat, exists : BOOLEAN, first : Contents, actual : Contents]
    BY <1>2, <2>1, <2>2 DEF Contents
  <2>4. QED BY <1>1, <2>3 DEF AuditInv, AuditTypes, Looking, Opening
<1>6. Placed'
  BY <1>1 DEF AuditInv, Placed, Looking, Opening
<1>7. \A k : k \in todo \/ Inspecting(k) => k \in todo' \/ Inspecting(k)'
  BY <1>1, <1>2 DEF Inspecting, Looking, Opening
<1>8. Strict'
  BY <1>1, <1>7, SofarKept DEF AuditInv, Placed
<1>9. HandExact'
  BY <1>1, <1>2 DEF HandExact
<1>10. Quiet'
  BY <1>1, <1>7, <1>9, QuietKept DEF AuditInv
<1>11. QED BY <1>1, <1>4, <1>5, <1>6, <1>8, <1>10 DEF AuditInv, Opening

(* A look or a reading changes what is known of the file in hand, nothing else. *)
LEMMA HandKeeps ==
  ASSUME AuditInv, auditStep \in Looking, auditStep' \in Looking,
         hand' \in [path : Nat, name : Nat, looks : Nat, exists : BOOLEAN, first : Contents, actual : Contents],
         hand'.path = hand.path, hand'.name = hand.name,
         hand'.exists => hand.exists \/ disk[hand.path] # "absent",
         hand'.first \in {hand.first, disk[hand.path]},
         changes = 0 => HandExact',
         UNCHANGED <<disk, custody, past, changes, at, todo, nested, inputs, items, verdict>>
  PROVE  AuditInv'
<1>1. AuditTypes'
  BY DEF AuditInv, AuditTypes
<1>2. Placed'
  BY DEF AuditInv, Placed, Looking, Opening
<1>3. AtHand'
  BY DEF AuditInv, AtHand, AuditTypes
<1>4. \A k : k \in todo \/ Inspecting(k) => k \in todo' \/ Inspecting(k)'
  BY DEF Inspecting
<1>5. Strict'
  BY <1>4, SofarKept DEF AuditInv, Placed, Looking, Opening
<1>6. Quiet'
  BY <1>4, QuietKept DEF AuditInv
<1>7. QED BY <1>1, <1>2, <1>3, <1>5, <1>6 DEF AuditInv, Looking, Opening

LEMMA LookKeeps == ASSUME AuditInv, Audit!Look PROVE AuditInv'
<1>1. /\ auditStep = "look"
      /\ UNCHANGED <<disk, custody, past, changes, at, todo, nested, inputs, items, verdict>>
  BY DEF Audit!Look, Audit!Tree
<1>2. /\ AtHand /\ AuditTypes /\ hand.path \in Audit!Paths
      /\ hand = [path |-> hand.path, name |-> hand.name, looks |-> hand.looks,
                 exists |-> hand.exists, first |-> hand.first, actual |-> hand.actual]
  BY <1>1 DEF AuditInv, AtHand, Looking, Opening, AuditTypes
<1>3. CASE Audit!Thrice
  <2>1. hand' = IF hand.looks = 0 THEN [hand EXCEPT !.looks = 1, !.exists = There(hand.path)]
                ELSE IF There(hand.path) THEN hand ELSE [hand EXCEPT !.looks = @ + 1]
    BY <1>3 DEF Audit!Look, Audit!There, There
  <2>2. auditStep' = IF hand.looks > 0 /\ There(hand.path) THEN "read"
                     ELSE IF hand.looks = 2 THEN "file" ELSE "look"
    BY <1>3 DEF Audit!Look, Audit!There, There
  <2>3. hand' \in [path : Nat, name : Nat, looks : Nat, exists : BOOLEAN, first : Contents, actual : Contents]
    <3>1. CASE hand.looks = 0
      <4>1. hand' = [path |-> hand.path, name |-> hand.name, looks |-> 1,
                     exists |-> There(hand.path), first |-> hand.first, actual |-> hand.actual]
        BY <1>2, <2>1, <3>1
      <4>2. There(hand.path) \in BOOLEAN
        BY DEF There
      <4>3. QED BY <1>2, <4>1, <4>2 DEF AuditTypes
    <3>2. CASE hand.looks # 0 /\ There(hand.path)
      BY <1>2, <2>1, <3>2 DEF AuditTypes
    <3>3. CASE hand.looks # 0 /\ ~ There(hand.path)
      BY <1>2, <2>1, <3>3 DEF AuditTypes
    <3>4. QED BY <3>1, <3>2, <3>3
  <2>4. /\ hand'.path = hand.path /\ hand'.name = hand.name /\ hand'.first = hand.first
        /\ hand'.exists => hand.exists \/ disk[hand.path] # "absent"
    BY <1>2, <2>1 DEF AuditTypes, There
  <2>5. ASSUME changes = 0 PROVE HandExact'
    <3>1. /\ hand.looks \in 0..2 /\ hand.actual = "absent"
          /\ hand.looks > 0 => (hand.exists <=> There(hand.path))
          /\ hand.first = IF hand.looks = 2 THEN disk[hand.path] ELSE "absent"
      BY <1>1, <2>5 DEF AuditInv, Quiet, HandExact
    <3>2. Audit!Thrice'
      BY <1>1, <1>3 DEF Audit!Thrice, Audit!List
    <3>3. CASE hand.looks = 0
      <4>1. auditStep' = "look" /\ hand'.looks = 1 /\ (hand'.exists <=> There(hand.path)) /\ hand'.actual = "absent"
        BY <1>2, <2>1, <2>2, <3>1, <3>3 DEF AuditTypes
      <4>2. (hand.exists <=> There(hand.path))'
        BY <1>1, <2>4, <4>1 DEF There
      <4>3. QED BY <1>1, <2>4, <3>1, <3>2, <3>3, <4>1, <4>2 DEF HandExact
    <3>4. CASE hand.looks # 0 /\ There(hand.path)
      <4>1. hand' = hand /\ auditStep' = "read" /\ hand.looks \in {1, 2}
        BY <2>1, <2>2, <3>1, <3>4
      <4>2. There(hand.path)'
        BY <1>1, <3>4, <4>1 DEF There
      <4>3. hand.looks > 0
        BY <4>1
      <4>4. (hand.exists <=> There(hand.path))
        BY <3>1, <4>3
      <4>5. hand.exists
        BY <3>4, <4>4
      <4>6. QED BY <1>1, <3>1, <4>1, <4>2, <4>5 DEF HandExact
    <3>5. CASE hand.looks # 0 /\ ~ There(hand.path)
      <4>1. /\ hand'.looks = hand.looks + 1 /\ hand'.exists = hand.exists /\ hand'.actual = "absent"
            /\ auditStep' = IF hand.looks = 2 THEN "file" ELSE "look"
        BY <1>2, <2>1, <2>2, <3>1, <3>5 DEF AuditTypes
      <4>2. disk[hand.path] = "absent" /\ hand.first = "absent"
        BY <3>1, <3>5 DEF There
      <4>3. CASE hand.looks = 1
        BY <1>1, <2>4, <3>1, <3>2, <3>5, <4>1, <4>2, <4>3 DEF HandExact, There
      <4>4. CASE hand.looks = 2
        BY <1>1, <2>4, <3>1, <3>2, <3>5, <4>1, <4>2, <4>4 DEF HandExact, There
      <4>5. QED BY <3>1, <3>5, <4>3, <4>4
    <3>6. QED BY <3>3, <3>4, <3>5
  <2>6. auditStep' \in Looking
    BY <2>2 DEF Looking, Opening
  <2>7. QED BY <1>1, <2>3, <2>4, <2>5, <2>6, HandKeeps DEF Looking, Opening
<1>4. CASE ~ Audit!Thrice
  <2>1. /\ hand' = [hand EXCEPT !.exists = There(hand.path)]
        /\ auditStep' = IF There(hand.path) THEN "read" ELSE "file"
    BY <1>4 DEF Audit!Look, Audit!There, There
  <2>2. hand' \in [path : Nat, name : Nat, looks : Nat, exists : BOOLEAN, first : Contents, actual : Contents]
    BY <2>1 DEF AuditInv, AuditTypes, There
  <2>3. /\ hand'.path = hand.path /\ hand'.name = hand.name /\ hand'.first = hand.first
        /\ (hand'.exists <=> There(hand.path)) /\ hand'.actual = hand.actual
    BY <1>2, <2>1
  <2>4. ASSUME changes = 0 PROVE HandExact'
    <3>1. hand.actual = "absent" /\ hand.first = "absent"
      BY <1>1, <1>4, <2>4 DEF AuditInv, Quiet, HandExact
    <3>2. ~ Audit!Thrice'
      BY <1>1, <1>4 DEF Audit!Thrice, Audit!List
    <3>3. There(hand.path)' = There(hand.path) /\ There(hand.path) \in BOOLEAN
      BY <1>1, <2>3 DEF There
    <3>4. CASE There(hand.path)
      BY <1>1, <2>1, <2>3, <3>1, <3>2, <3>3, <3>4 DEF HandExact
    <3>5. CASE ~ There(hand.path)
      <4>1. disk[hand.path] = "absent"
        BY <3>5 DEF There
      <4>2. QED BY <1>1, <2>1, <2>3, <3>1, <3>2, <3>3, <3>5, <4>1 DEF HandExact
    <3>6. QED BY <3>4, <3>5
  <2>5. auditStep' \in Looking
    BY <2>1 DEF Looking, Opening
  <2>6. QED BY <1>1, <2>2, <2>3, <2>4, <2>5, HandKeeps DEF Looking, Opening, There
<1>5. QED BY <1>3, <1>4

LEMMA HandReadKeeps == ASSUME AuditInv, Audit!Read PROVE AuditInv'
<1>1. /\ auditStep = "read" /\ There(hand.path)
      /\ UNCHANGED <<disk, custody, past, changes, at, todo, nested, inputs, items, verdict>>
  BY DEF Audit!Read, Audit!Tree, Audit!There, There
<1>2. /\ AtHand /\ AuditTypes /\ disk[hand.path] \in Contents
      /\ hand = [path |-> hand.path, name |-> hand.name, looks |-> hand.looks,
                 exists |-> hand.exists, first |-> hand.first, actual |-> hand.actual]
  BY <1>1 DEF AuditInv, AtHand, Looking, Opening, AuditTypes
<1> DEFINE d == disk[hand.path]
<1>3. CASE Audit!Thrice /\ hand.looks = 1
  <2>1. /\ hand' = [path |-> hand.path, name |-> hand.name, looks |-> 2,
                    exists |-> hand.exists, first |-> d, actual |-> hand.actual]
        /\ auditStep' = "look"
    BY <1>2, <1>3 DEF Audit!Read
  <2>2. ASSUME changes = 0 PROVE HandExact'
    <3>1. hand.exists /\ Audit!Thrice' /\ There(hand.path)'
      BY <1>1, <1>3, <2>1, <2>2 DEF AuditInv, Quiet, HandExact, Audit!Thrice, Audit!List, There
    <3>2. hand.actual = "absent"
      BY <1>1, <1>3, <2>2 DEF AuditInv, Quiet, HandExact
    <3>3. (hand.exists <=> There(hand.path))'
      BY <1>1, <1>2, <2>1, <3>1 DEF AuditTypes, There
    <3>4. QED BY <1>1, <2>1, <3>1, <3>2, <3>3 DEF HandExact
  <2>3. QED BY <1>1, <1>2, <2>1, <2>2, HandKeeps DEF Looking, Opening, AuditTypes
<1>4. CASE Audit!Thrice /\ hand.looks # 1
  <2>1. /\ hand' = [path |-> hand.path, name |-> hand.name, looks |-> 3,
                    exists |-> hand.exists, first |-> hand.first, actual |-> d]
        /\ auditStep' = "file"
    BY <1>2, <1>4 DEF Audit!Read
  <2>2. ASSUME changes = 0 PROVE HandExact'
    <3>1. hand.exists /\ Audit!Thrice' /\ There(hand.path)' /\ hand.looks = 2 /\ hand.first = d
      BY <1>1, <1>4, <2>1, <2>2 DEF AuditInv, Quiet, HandExact, Audit!Thrice, Audit!List, There
    <3>2. QED BY <1>1, <2>1, <3>1 DEF HandExact
  <2>3. QED BY <1>1, <1>2, <2>1, <2>2, HandKeeps DEF Looking, Opening, AuditTypes
<1>5. CASE ~ Audit!Thrice
  <2>1. /\ hand' = [path |-> hand.path, name |-> hand.name, looks |-> hand.looks,
                    exists |-> hand.exists, first |-> d, actual |-> d]
        /\ auditStep' \in {"file", "stat"}
    BY <1>2, <1>5 DEF Audit!Read
  <2>2. ASSUME changes = 0 PROVE HandExact'
    <3>1. hand.exists /\ There(hand.path)'
      BY <1>1, <2>1, <2>2 DEF AuditInv, Quiet, HandExact, There
    <3>2. QED BY <1>1, <2>1, <3>1 DEF HandExact
  <2>3. QED BY <1>1, <1>2, <2>1, <2>2, HandKeeps DEF Looking, Opening, AuditTypes
<1>6. QED BY <1>3, <1>4, <1>5

LEMMA StatKeeps == ASSUME AuditInv, Audit!Stat PROVE AuditInv'
<1>1. /\ auditStep = "stat" /\ auditStep' = "file" /\ There(hand.path)
      /\ UNCHANGED <<disk, custody, past, changes, at, todo, hand, nested, inputs, items, verdict>>
  BY DEF Audit!Stat, Audit!Tree, Audit!There, There
<1>2. changes = 0 => HandExact'
  BY <1>1 DEF AuditInv, Quiet, HandExact, There
<1>3. QED BY <1>1, <1>2, HandKeeps DEF AuditInv, AuditTypes, Looking, Opening

(* An audit that raises or is refused says nothing. *)
LEMMA VanishedKeeps == ASSUME AuditInv, Audit!Vanished PROVE AuditInv'
<1>1. /\ auditStep \in {"read", "stat", "open", "measure"} /\ ~ There(hand.path) /\ auditStep' = "ended" /\ verdict' = "raised"
      /\ UNCHANGED <<disk, custody, past, changes, at, todo, hand, nested, inputs, items>>
  BY DEF Audit!Vanished, Audit!Ends, Audit!Tree, Audit!There, There
<1>2. changes # 0
  BY <1>1 DEF AuditInv, Quiet, HandExact
<1>3. AuditTypes' /\ Placed' /\ Strict' /\ Quiet'
  <2>1. AuditTypes'
    BY <1>1 DEF AuditInv, AuditTypes
  <2>2. Placed'
    BY <1>1 DEF AuditInv, Placed, Looking, Opening
  <2>3. Strict' /\ Quiet'
    BY <1>1, <1>2 DEF Strict, Quiet
  <2>4. QED BY <2>1, <2>2, <2>3
<1>4. QED BY <1>1, <1>3 DEF AuditInv, Looking, Opening

LEMMA MutatedKeeps == ASSUME AuditInv, Audit!Mutated PROVE AuditInv'
<1> DEFINE p == Audit!Min(todo)
<1>1. /\ auditStep = "compare" /\ todo # {} /\ <<p, disk[p]>> \notin inputs
      /\ auditStep' = "ended" /\ verdict' = "raised"
      /\ UNCHANGED <<disk, custody, past, changes, at, todo, hand, nested, inputs, items>>
  BY DEF Audit!Mutated, Audit!Ends, Audit!Tree
<1>2. p \in todo
  BY <1>1, LeastPicked DEF AuditInv, AuditTypes
<1> HIDE DEF p
<1>3. PICK b \in inputs : b[1] = p
  BY <1>1, <1>2 DEF AuditInv, Placed
<1>4. changes # 0
  BY <1>1, <1>3 DEF AuditInv, Quiet
<1>5. AuditTypes'
  BY <1>1 DEF AuditInv, AuditTypes
<1>6. Placed'
  BY <1>1 DEF AuditInv, Placed, Looking, Opening
<1>7. Strict' /\ Quiet'
  BY <1>1, <1>4 DEF Strict, Quiet
<1>8. QED BY <1>1, <1>5, <1>6, <1>7 DEF AuditInv, Looking, Opening

LEMMA CompareKeeps == ASSUME AuditInv, Audit!Compare PROVE AuditInv'
<1>1. /\ auditStep = "compare" /\ auditStep' = "compare" /\ todo' \subseteq todo
      /\ UNCHANGED <<disk, custody, past, changes, at, hand, nested, inputs, items, verdict>>
  BY DEF Audit!Compare, Audit!Tree
<1>2. AuditTypes' /\ Placed'
  BY <1>1 DEF AuditInv, AuditTypes, Placed, Looking, Opening
<1>3. at = 9 /\ nested = Audit!NoManifest /\ verdict = "none"
  BY <1>1 DEF AuditInv, Placed
<1>4. \A p : \A j \in 2..8 : Visited(j, p)' <=> Visited(j, p)
  BY <1>1, <1>3 DEF Visited
<1>5. Strict'
  <2>1. ASSUME NEW j \in 2..8, NEW p PROVE Confirmed(j, p)' <=> Confirmed(j, p)
    BY <1>1 DEF Confirmed, Audit!Followed
  <2>2. Sofar => Sofar'
    BY <1>1, <1>3, <1>4, <2>1 DEF Sofar
  <2>3. QED BY <1>1, <2>2 DEF AuditInv, Strict, Failing
<1>6. Quiet'
  <2>1. ASSUME NEW i \in items, ItemExact(i) PROVE ItemExact(i)'
    BY <1>1, <2>1 DEF ItemExact, Audit!Expectation
  <2>2. HandExact'
    BY <1>1 DEF HandExact
  <2>3. QED BY <1>1, <1>4, ExcuseStays, <2>1, <2>2 DEF AuditInv, Quiet
<1>7. QED BY <1>1, <1>2, <1>5, <1>6 DEF AuditInv, Looking, Opening

LEMMA DeliverKeeps == ASSUME AuditInv, Audit!Deliver PROVE AuditInv'
<1>1. /\ auditStep = "compare" /\ auditStep' = "ended"
      /\ verdict' = "refused" \/ verdict' = IF Failing THEN "fail" ELSE "clean"
      /\ UNCHANGED <<disk, custody, past, changes, at, todo, hand, nested, inputs, items>>
  BY DEF Audit!Deliver, Audit!Ends, Audit!Tree, Audit!StrictExit, Failing
<1>2. at = 9 /\ nested = Audit!NoManifest /\ verdict = "none"
  BY <1>1 DEF AuditInv, Placed
<1>3. AuditTypes'
  BY <1>1 DEF AuditInv, AuditTypes
<1>4. Placed'
  BY <1>1, <1>2 DEF AuditInv, Placed, Looking, Opening
<1>5. \A p : \A j \in 2..8 : Visited(j, p)' <=> Visited(j, p)
  BY <1>1, <1>2 DEF Visited
<1>6. Strict'
  <2>1. ASSUME NEW j \in 2..8, NEW p PROVE Confirmed(j, p)' <=> Confirmed(j, p)
    BY <1>1 DEF Confirmed, Audit!Followed
  <2>2. Sofar => Sofar'
    BY <1>1, <1>2, <1>5, <2>1 DEF Sofar
  <2>3. Failing' <=> Failing
    BY <1>1 DEF Failing
  <2>4. QED BY <1>1, <1>2, <2>2, <2>3 DEF AuditInv, Strict
<1>7. Quiet'
  <2>1. ASSUME NEW i \in items, ItemExact(i) PROVE ItemExact(i)'
    BY <1>1, <2>1 DEF ItemExact, Audit!Expectation
  <2>2. HandExact'
    BY <1>1 DEF HandExact
  <2>3. verdict' # "raised"
    BY <1>1
  <2>4. QED BY <1>1, <1>5, <2>1, <2>2, <2>3 DEF AuditInv, Quiet
<1>8. QED BY <1>1, <1>3, <1>4, <1>6, <1>7 DEF AuditInv, Looking, Opening

LEMMA AuditInitially == Audit!AuditInit => AuditInv
<1> SUFFICES ASSUME Audit!AuditInit PROVE AuditInv
  OBVIOUS
<1>1. AuditTypes
  <2>1. /\ disk \in [Audit!Paths -> Contents] /\ past \in [Audit!Paths -> SUBSET Contents]
        /\ \A p \in Audit!Paths : disk[p] \in past[p]
    BY DEF Audit!AuditInit, Contents
  <2>2. hand \in [path : Nat, name : Nat, looks : Nat, exists : BOOLEAN, first : Contents, actual : Contents]
    BY DEF Audit!AuditInit, Audit!Unseen, Contents
  <2>3. /\ nested.path \in Nat /\ nested.root \in {"repo", "anchor"}
        /\ nested = [path |-> nested.path, locators |-> nested.locators, roots |-> nested.roots,
                     root |-> nested.root]
    BY DEF Audit!AuditInit, Audit!NoManifest
  <2>4. /\ custody = FALSE /\ at = 1 /\ changes = 0 /\ todo = {} /\ inputs = {}
        /\ auditStep = "start" /\ verdict = "none"
    BY DEF Audit!AuditInit
  <2>5. custody \in BOOLEAN /\ auditStep \in Looking \cup Opening \cup {"start", "pick", "root", "compare", "ended"}
    BY <2>4
  <2>6. QED BY <2>1, <2>2, <2>3, <2>4, <2>5 DEF AuditTypes
<1>2. Placed
  BY DEF Audit!AuditInit, Placed, Looking, Opening
<1>3. ASSUME NEW j \in 2..8, NEW p PROVE ~ Visited(j, p)
  BY DEF Audit!AuditInit, Visited
<1>4. Strict
  BY <1>3 DEF Audit!AuditInit, Strict, Sofar
<1>5. Quiet
  BY <1>3 DEF Audit!AuditInit, Quiet, HandExact
<1>6. QED BY <1>1, <1>2, <1>4, <1>5 DEF AuditInv, Audit!AuditInit, Looking, Opening

LEMMA StartKeeps == ASSUME AuditInv, Audit!Start PROVE AuditInv'
<1>0. Audit!PathsOf("before") = Samples
  BY DEF Audit!PathsOf
<1>1. /\ auditStep = "start" /\ auditStep' = "pick" /\ custody' \in BOOLEAN /\ todo' = Samples
      /\ UNCHANGED <<at, hand, nested, inputs, items, verdict, changes>>
  <2>1. custody' \in BOOLEAN
    BY DEF Audit!Start
  <2>2. todo' = Samples
    BY <1>0, Zenon DEF Audit!Start
  <2>3. /\ auditStep = "start" /\ auditStep' = "pick"
        /\ UNCHANGED <<at, hand, nested, inputs, items, verdict, changes>>
    BY DEF Audit!Start
  <2>4. QED BY <2>1, <2>2, <2>3
<1>2. PICK odd \in SUBSET Audit!Paths :
        \E o \in [odd -> (Digests \cup {"absent"}) \ {Usual}] :
          disk' = [p \in Audit!Paths |-> IF p \in odd THEN o[p] ELSE Usual]
  BY DEF Audit!Start
<1>3. disk' \in [Audit!Paths -> Contents]
  <2>1. PICK o \in [odd -> (Digests \cup {"absent"}) \ {Usual}] :
          disk' = [p \in Audit!Paths |-> IF p \in odd THEN o[p] ELSE Usual]
    BY <1>2
  <2>2. QED BY <2>1, AuditAssumption DEF Contents
<1>4. at = 1 /\ items = {} /\ inputs = {} /\ nested = Audit!NoManifest /\ verdict = "none"
  BY <1>1 DEF AuditInv, Placed
<1>5. AuditTypes'
  <2>1. /\ past' \in [Audit!Paths -> SUBSET Contents]
        /\ \A p \in Audit!Paths : disk'[p] \in past'[p]
    <3>1. past' = [p \in Audit!Paths |-> {disk'[p]}]
      BY DEF Audit!Start
    <3>2. \A p \in Audit!Paths : {disk'[p]} \in SUBSET Contents
      BY <1>3
    <3>3. past' \in [Audit!Paths -> SUBSET Contents]
      BY <3>1, <3>2
    <3>4. \A p \in Audit!Paths : disk'[p] \in past'[p]
      BY <3>1
    <3>5. QED BY <3>3, <3>4
  <2>2. Samples \subseteq Nat
    <3>1. Listed(1) \subseteq Audit!Paths
      BY PathsListed
    <3>2. QED BY <3>1, Positions, AuditAssumption
  <2>3. QED BY <1>1, <1>3, <1>4, <2>1, <2>2 DEF AuditInv, AuditTypes
<1>6. Placed'
  BY <1>1, <1>4, Positions DEF Placed, Looking, Opening
<1>7. ASSUME NEW j \in 2..8, NEW p PROVE ~ Visited(j, p)'
  BY <1>1, <1>4 DEF Visited
<1>8. Strict'
  BY <1>1, <1>4, <1>7 DEF Strict, Sofar
<1>9. Quiet'
  BY <1>1, <1>4, <1>7 DEF Quiet, HandExact
<1>10. QED BY <1>1, <1>5, <1>6, <1>8, <1>9 DEF AuditInv, Looking, Opening

(* A file of the first list goes to the sample inputs; nothing is vouched for yet. *)
LEMMA SampledKeeps == ASSUME AuditInv, Audit!File, at = 1 PROVE AuditInv'
<1>1. /\ auditStep = "file" /\ auditStep' = "pick" /\ hand' = Audit!Unseen
      /\ inputs' \subseteq inputs \cup {<<hand.path, hand.actual>>}
      /\ UNCHANGED <<disk, custody, past, changes, at, todo, nested, items, verdict>>
  BY Position DEF Audit!File, Audit!Following, Audit!Tree, AuditInv, AuditTypes
<1>2. AtHand /\ nested = Audit!NoManifest /\ hand.path \in Samples /\ verdict = "none"
  BY <1>1, Positions DEF AuditInv, AtHand, Placed, Looking, Opening
<1>3. AuditTypes'
  <2>1. hand' \in [path : Nat, name : Nat, looks : Nat, exists : BOOLEAN, first : Contents, actual : Contents]
    BY <1>1 DEF Audit!Unseen, Contents
  <2>2. \A b \in inputs' : b[1] \in Samples
    BY <1>1, <1>2 DEF AuditInv, AuditTypes
  <2>3. QED BY <1>1, <2>1, <2>2 DEF AuditInv, AuditTypes
<1>4. Placed'
  BY <1>1, <1>2 DEF AuditInv, Placed, Looking, Opening
<1>5. ASSUME NEW j \in 2..8, NEW p PROVE ~ Visited(j, p)'
  BY <1>1 DEF Visited
<1>6. Strict'
  BY <1>1, <1>2, <1>5 DEF Strict, Sofar
<1>7. Quiet'
  <2>1. ASSUME NEW i \in items, ItemExact(i) PROVE ItemExact(i)'
    BY <1>1, <2>1 DEF ItemExact, Audit!Expectation
  <2>2. HandExact'
    BY <1>1 DEF HandExact
  <2>3. ASSUME changes = 0 PROVE hand.actual = disk[hand.path]
    BY <1>1, <2>3 DEF AuditInv, Quiet, HandExact
  <2>4. QED BY <1>1, <1>2, <1>5, <2>1, <2>2, <2>3 DEF AuditInv, Quiet
<1>8. QED BY <1>1, <1>3, <1>4, <1>6, <1>7 DEF AuditInv, Looking, Opening

LEMMA FiledKeeps == ASSUME AuditInv, Audit!File, at # 1 PROVE AuditInv'
<1> DEFINE want == Audit!Expected(hand)
           status1 == Audit!StatusOf(hand.exists, hand.first, want, Audit!Absent)
           it == Audit!Item(hand.path, hand.name, status1, hand.actual)
<1>1. /\ auditStep = "file" /\ auditStep' = "pick" /\ hand' = Audit!Unseen /\ items' = items \cup {it}
      /\ UNCHANGED <<disk, custody, past, changes, at, todo, nested, inputs, verdict>>
  BY Position DEF Audit!File, Audit!Following, Audit!Keep, Audit!Tree, AuditInv, AuditTypes
<1>2. AtHand /\ verdict = "none" /\ at \in 2..8 /\ auditStep # "root" /\ AuditTypes
  BY <1>1 DEF AuditInv, Placed, Looking, Opening, AuditTypes
<1>3. /\ at \in {2, 5} => want = Want[hand.path] /\ want \in Digests /\ nested = Audit!NoManifest
      /\ at = 7 => nested # Audit!NoManifest /\ want = Want[hand.name] /\ want \in Digests
      /\ at \notin {2, 5, 7} => want = "none" /\ nested = Audit!NoManifest
  <2>1. CASE at = 7
    <3>1. nested # Audit!NoManifest /\ nested.path \in Manifests /\ hand.name \in Audit!Locators(nested.path)
      BY <1>1, <1>2, <2>1 DEF AtHand, AuditInv, Placed
    <3>2. want = Want[hand.name]
      BY <1>2, <2>1, <3>1, Position DEF Audit!Expected
    <3>3. QED BY <2>1, <3>1, <3>2, LocatorsKnown
  <2>2. CASE at \in {2, 5}
    <3>1. nested = Audit!NoManifest /\ want = Want[hand.path]
      BY <1>2, <2>2, Position DEF Audit!Expected, AuditInv, Placed
    <3>2. hand.path \in Assets \cup Pins
      BY <1>2, <2>2, <3>1, Positions DEF AtHand
    <3>3. QED BY <2>2, <3>1, <3>2, AuditAssumption
  <2>3. CASE at \notin {2, 5, 7}
    BY <1>2, <2>3, Position DEF Audit!Expected, AuditInv, Placed
  <2>4. QED BY <2>1, <2>2, <2>3
<1>4. Audit!Absent \in {"MISSING", "MISSING_EXTERNAL"}
  BY DEF Audit!Absent
<1>5. /\ it.path = hand.path /\ it.name = hand.name /\ it.list = Audit!List
      /\ it.status = status1 /\ it.actual = hand.actual
  BY DEF Audit!Item
<1>6. /\ ~ hand.exists => status1 \in {"MISSING", "MISSING_EXTERNAL"}
      /\ hand.exists /\ want = "none" => status1 = "PRESENT"
      /\ hand.exists /\ want # "none" /\ hand.first = want => status1 = "HASH_VERIFIED"
      /\ hand.exists /\ want # "none" /\ hand.first # want => status1 = "HASH_MISMATCH"
  BY <1>4 DEF Audit!StatusOf
<1> HIDE DEF want, status1, it
<1>7. AuditTypes'
  <2>1. hand' \in [path : Nat, name : Nat, looks : Nat, exists : BOOLEAN, first : Contents, actual : Contents]
    BY <1>1 DEF Audit!Unseen, Contents
  <2>2. QED BY <1>1, <2>1 DEF AuditInv, AuditTypes
<1>8. Placed'
  BY <1>1, <1>2 DEF AuditInv, Placed, Looking, Opening
<1>9. ASSUME NEW n PROVE Inspecting(n) <=> n = hand.name
  BY <1>1 DEF Inspecting, Looking, Opening
<1>10. ASSUME NEW n PROVE ~ Inspecting(n)'
  BY <1>1 DEF Inspecting, Looking, Opening
<1>11. ASSUME NEW j, NEW p, Visited(j, p)'
       PROVE  Visited(j, p) \/ (j = at /\ nested = Audit!NoManifest /\ p = hand.name)
  BY <1>1, <1>9, <1>11 DEF Visited
<1>12. Strict'
  <2>1. CASE Failing
    BY <1>1, <1>2, <2>1 DEF AuditInv, Strict, Failing
  <2>2. CASE it.status \in Audit!StrictFail
    BY <1>1, <1>2, <2>2 DEF AuditInv, Strict, Failing
  <2>3. CASE Sofar /\ it.status \notin Audit!StrictFail
    <3>1. /\ hand.exists /\ past[hand.path] \ {"absent"} # {}
          /\ want # "none" => want \in past[hand.path] \cup {"absent"}
      BY <1>2, <1>5, <1>6, <2>3 DEF Audit!StrictFail, Audit!Missing, AtHand
    <3>2. want # "none" => want \in past[hand.path]
      BY <1>3, <3>1, AuditAssumption
    <3>3. ASSUME NEW j \in 2..8, NEW p, Confirmed(j, p) PROVE Confirmed(j, p)'
      BY <1>1, <3>3 DEF Confirmed, Audit!Followed
    <3>4. ASSUME NEW n, n = hand.name, nested = Audit!NoManifest PROVE Confirmed(at, n)'
      <4>1. at # 7 /\ hand.path = n
        BY <1>2, <3>4 DEF AtHand
      <4>2. at \in {2, 5} => Want[n] \in past[n]
        BY <1>3, <3>2, <4>1, AuditAssumption
      <4>3. Confirmed(at, n)
        BY <3>1, <4>1, <4>2 DEF Confirmed
      <4>4. QED BY <1>1, <1>2, <4>3 DEF Confirmed, Audit!Followed
    <3>5. \A j \in 2..8 : \A p \in Listed(j) : Visited(j, p)' => Confirmed(j, p)'
      BY <1>1, <1>2, <1>11, <2>3, <3>3, <3>4 DEF Sofar
    <3>6. ASSUME nested # Audit!NoManifest
          PROVE  \A l \in nested.locators \ todo : Want[l] \in past[At[nested.root][l]]
      <4>1. at = 7 /\ hand.path = At[nested.root][hand.name]
        BY <1>2, <3>6 DEF AuditInv, Placed, AtHand
      <4>2. Want[hand.name] \in past[hand.path]
        BY <1>3, <3>2, <4>1, AuditAssumption
      <4>3. QED BY <1>2, <1>9, <2>3, <3>6, <4>1, <4>2 DEF Sofar
    <3>7. Sofar'
      BY <1>1, <1>2, <2>3, <3>5, <3>6 DEF Sofar
    <3>8. QED BY <1>1, <1>2, <3>7 DEF Strict
  <2>4. QED BY <1>2, <2>1, <2>2, <2>3 DEF AuditInv, Strict
<1>13. ASSUME changes = 0 PROVE ItemExact(it)
  <2>1. /\ hand.exists <=> disk[hand.path] # "absent"
        /\ hand.first = disk[hand.path] /\ hand.actual = disk[hand.path]
    BY <1>1, <1>13 DEF AuditInv, Quiet, HandExact, There
  <2>2. Audit!Expectation(it) = want
    <3>1. CASE at = 7
      <4>1. hand.name \notin Manifests
        BY <1>2, <1>3, <3>1, LocatorsKnown DEF AtHand, AuditInv, Placed
      <4>2. QED BY <1>2, <1>3, <1>5, <3>1, <4>1, Position DEF Audit!Expectation
    <3>2. CASE at # 7
      <4>1. hand.path = hand.name
        BY <1>2, <1>3, <3>2 DEF AtHand
      <4>2. QED BY <1>2, <1>3, <1>5, <3>2, <4>1, Position DEF Audit!Expectation
    <3>3. QED BY <3>1, <3>2
  <2>3. disk[hand.path] # "none" /\ hand.path # 0
    BY <1>2, AuditAssumption DEF AtHand, AuditTypes, Contents
  <2>4. QED BY <1>3, <1>5, <1>6, <2>1, <2>2, <2>3, AuditAssumption DEF ItemExact, Audit!Missing
<1>14. Quiet'
  <2>1. ASSUME NEW i, ItemExact(i) PROVE ItemExact(i)'
    BY <1>1, <2>1 DEF ItemExact, Audit!Expectation
  <2>2. HandExact'
    BY <1>1 DEF HandExact
  <2>3. nested = Audit!NoManifest => it.path = hand.name
    BY <1>2, <1>5 DEF AtHand
  <2>4. ASSUME changes = 0, NEW j \in {2, 3, 4, 5, 6, 8}, NEW p \in Listed(j), Visited(j, p)'
        PROVE  \E i \in items' : i.path = p
    BY <1>1, <1>11, <2>3, <2>4 DEF AuditInv, Quiet
  <2>5. QED BY <1>1, <1>13, ExcuseStays, <2>1, <2>2, <2>4 DEF AuditInv, Quiet
<1>15. QED BY <1>1, <1>7, <1>8, <1>12, <1>14 DEF AuditInv, Looking, Opening

LEMMA NoManifestIsNone ==
  ASSUME NEW n, n.path # 0 PROVE n # Audit!NoManifest
BY DEF Audit!NoManifest

LEMMA ManifestsPositive == \A m \in Manifests : m \in Nat /\ m # 0 /\ m \in Audit!Paths
BY PathsListed, AuditAssumption

(* A nested manifest that is not followed: it is filed, and the next one comes. *)
LEMMA ManifestFiled ==
  ASSUME AuditInv, NEW m, NEW new,
         auditStep \in Opening, m = hand.name,
         auditStep' = "pick", hand' = Audit!Unseen, items' = items \cup new,
         UNCHANGED <<disk, custody, past, changes, at, todo, nested, inputs, verdict>>,
         (\E i \in new : i.status \in Audit!StrictFail) \/ Confirmed(7, m),
         changes = 0 => \A i \in new : ItemExact(i)
  PROVE  AuditInv'
<1>1. Opened /\ at = 7 /\ nested = Audit!NoManifest /\ verdict = "none" /\ auditStep # "root"
  BY DEF AuditInv, Opened, Placed, Opening
<1>2. AuditTypes' /\ Placed' /\ HandExact'
  <2>1. hand' \in [path : Nat, name : Nat, looks : Nat, exists : BOOLEAN, first : Contents, actual : Contents]
    BY DEF Audit!Unseen, Contents
  <2>2. AuditTypes'
    BY <2>1 DEF AuditInv, AuditTypes
  <2>3. Placed'
    BY <1>1 DEF AuditInv, Placed, Looking, Opening
  <2>4. QED BY <2>2, <2>3 DEF HandExact
<1>3. ASSUME NEW j \in 2..8, NEW p, Visited(j, p)' PROVE Visited(j, p) \/ (j = 7 /\ p = m)
  BY <1>1, <1>3 DEF Visited, Inspecting, Looking, Opening
<1>4. ASSUME NEW j \in 2..8, NEW p, Confirmed(j, p) PROVE Confirmed(j, p)'
  BY <1>4 DEF Confirmed, Audit!Followed
<1>5. Strict'
  <2>1. Failing => Failing'
    BY DEF Failing
  <2>2. (\E i \in new : i.status \in Audit!StrictFail) => Failing'
    BY DEF Failing
  <2>3. ASSUME Sofar, Confirmed(7, m) PROVE Sofar'
    <3>1. \A j \in 2..8 : \A p \in Listed(j) : Visited(j, p)' => Confirmed(j, p)'
      BY <1>3, <1>4, <2>3 DEF Sofar
    <3>2. QED BY <1>1, <2>3, <3>1 DEF Sofar
  <2>4. QED BY <1>1, <2>1, <2>2, <2>3 DEF AuditInv, Strict
<1>6. Quiet'
  <2>1. ASSUME NEW i, ItemExact(i) PROVE ItemExact(i)'
    BY <2>1 DEF ItemExact, Audit!Expectation
  <2>2. ASSUME changes = 0, NEW j \in {2, 3, 4, 5, 6, 8}, NEW p \in Listed(j), Visited(j, p)'
        PROVE  \E i \in items' : i.path = p
    BY <1>3, <2>2 DEF AuditInv, Quiet
  <2>3. QED BY <1>1, <1>2, <2>1, <2>2 DEF AuditInv, Quiet
<1>7. QED BY <1>2, <1>5, <1>6 DEF AuditInv, Looking, Opening

(* While one is in hand it is not yet vouched for, and nothing is filed. *)
LEMMA OpeningKeeps ==
  ASSUME AuditInv, auditStep \in {"pick"} \cup Opening, auditStep' \in Opening,
         Opened', changes = 0 => HandExact',
         hand' \in [path : Nat, name : Nat, looks : Nat, exists : BOOLEAN, first : Contents, actual : Contents],
         todo' \subseteq todo,
         \A n : n \in todo \/ Inspecting(n) => n \in todo' \/ Inspecting(n)',
         UNCHANGED <<disk, custody, past, changes, at, nested, inputs, items, verdict>>
  PROVE  AuditInv'
<1>1. AuditTypes'
  BY DEF AuditInv, AuditTypes
<1>2. Placed'
  BY DEF AuditInv, Placed, Looking, Opening
<1>3. Strict'
  BY SofarKept DEF AuditInv, Placed, Opening
<1>4. Quiet'
  BY QuietKept DEF AuditInv
<1>5. QED BY <1>1, <1>2, <1>3, <1>4 DEF AuditInv, Looking, Opening

LEMMA OpenManifestKeeps == ASSUME AuditInv, Audit!OpenManifest PROVE AuditInv'
<1> DEFINE m == Audit!Min(todo)
<1>1. /\ auditStep = "pick" /\ todo # {} /\ nested = Audit!NoManifest /\ at = 7
      /\ todo' = todo \ {m} /\ auditStep' = IF There(m) THEN "open" ELSE "again"
      /\ hand' = [path |-> m, name |-> m, looks |-> 0, exists |-> FALSE, first |-> "absent", actual |-> "absent"]
      /\ UNCHANGED <<disk, custody, past, changes, at, nested, inputs, items, verdict>>
  BY Position DEF Audit!OpenManifest, Audit!Unseen, Audit!Tree, Audit!There, There, AuditInv, AuditTypes
<1>2. m \in todo /\ \A y \in todo : m <= y
  BY <1>1, LeastPicked DEF AuditInv, AuditTypes
<1> HIDE DEF m
<1>3. m \in Manifests /\ m \in Nat /\ disk[m] \in past[m] /\ todo \subseteq Nat
  <2>1. m \in Listed(7)
    BY <1>1, <1>2 DEF AuditInv, Placed
  <2>2. QED BY <2>1, Positions, ManifestsPositive DEF AuditInv, AuditTypes
<1>4. \A y \in todo' : y > m
  BY <1>1, <1>2, <1>3
<1>5. Opened'
  BY <1>1, <1>3, <1>4 DEF Opened, There
<1>6. HandExact'
  BY <1>1 DEF HandExact, There
<1>7. \A n : n \in todo \/ Inspecting(n) => n \in todo' \/ Inspecting(n)'
  BY <1>1 DEF Inspecting, Looking, Opening
<1>8. hand' \in [path : Nat, name : Nat, looks : Nat, exists : BOOLEAN, first : Contents, actual : Contents]
  BY <1>1, <1>3 DEF Contents
<1>9. QED BY <1>1, <1>5, <1>6, <1>7, <1>8, OpeningKeeps DEF Opening

LEMMA InHandOpened ==
  ASSUME AuditInv, auditStep \in Opening
  PROVE  /\ at = 7 /\ nested = Audit!NoManifest /\ verdict = "none" /\ Audit!List = "nested"
         /\ hand.path = hand.name /\ hand.name \in Manifests
         /\ hand.name \in Nat /\ hand.name # 0 /\ hand.name \in Audit!Paths
         /\ disk[hand.name] \in Contents /\ disk[hand.name] \in past[hand.name]
         /\ disk[hand.name] # "none"
<1>1. /\ at = 7 /\ nested = Audit!NoManifest /\ verdict = "none"
      /\ hand.path = hand.name /\ hand.name \in Manifests
  BY DEF AuditInv, Opened, Placed, Opening
<1>2. /\ hand.name \in Nat /\ hand.name # 0 /\ hand.name \in Audit!Paths
      /\ disk[hand.name] \in Contents /\ disk[hand.name] \in past[hand.name]
  BY <1>1, ManifestsPositive DEF AuditInv, AuditTypes
<1>3. Audit!List = "nested"
  BY <1>1, Position
<1>4. QED BY <1>1, <1>2, <1>3, AuditAssumption DEF Contents

(* One that has come meanwhile is passed over, and its absence is on record. *)
LEMMA LookAgainKeeps == ASSUME AuditInv, Audit!LookAgain PROVE AuditInv'
<1> DEFINE m == hand.name
           i == Audit!Item(m, m, "MISSING", "absent")
<1>1. /\ auditStep = "again" /\ hand.path = m /\ m \in Manifests /\ disk[m] \in past[m]
      /\ Audit!There(m) => items' = items
      /\ ~ Audit!There(m) => items' = items \cup {i}
      /\ auditStep' = "pick" /\ hand' = Audit!Unseen
      /\ UNCHANGED <<disk, custody, past, changes, at, todo, nested, inputs, verdict>>
  BY InHandOpened DEF Audit!LookAgain, Audit!Following, Audit!Keep, Audit!Tree, Opening
<1>2. i.path = m /\ i.status = "MISSING" /\ i.actual = "absent"
  BY DEF Audit!Item
<1> HIDE DEF m, i
<1>3. m = hand.name
  BY DEF m
<1>4. CASE Audit!There(m)
  <2>1. "absent" \in past[m]
    BY <1>1, <1>3 DEF AuditInv, Opened, Opening
  <2>2. Confirmed(7, m)
    BY <1>1, <1>4, <2>1 DEF Confirmed, Audit!There
  <2>3. items' = items \cup {}
    BY <1>1, <1>4
  <2> DEFINE none == {}
  <2>4. items' = items \cup none /\ \A k \in none : ItemExact(k)
    BY <2>3
  <2> HIDE DEF none
  <2>5. QED BY <1>1, <1>3, <2>2, <2>4, ManifestFiled DEF Opening
<1>5. CASE ~ Audit!There(m)
  <2>1. i.status \in Audit!StrictFail
    BY <1>2 DEF Audit!StrictFail, Audit!Missing
  <2>2. ItemExact(i)
    BY <1>2, <1>5 DEF ItemExact, Audit!There
  <2> DEFINE new == {i}
  <2>3. items' = items \cup new /\ (\E k \in new : k.status \in Audit!StrictFail) /\ \A k \in new : ItemExact(k)
    BY <1>1, <1>5, <2>1, <2>2
  <2> HIDE DEF new
  <2>4. QED BY <1>1, <1>3, <2>3, ManifestFiled DEF Opening
<1>6. QED BY <1>4, <1>5

LEMMA MeasureKeeps == ASSUME AuditInv, Audit!Measure PROVE AuditInv'
<1> DEFINE m == hand.name
           i == Audit!Item(m, m, "NOT_LOCATOR_MAP", disk[m])
<1>1. /\ auditStep = "measure" /\ Audit!There(m) /\ disk[m] \in past[m] /\ m # 0 /\ m \in Manifests
      /\ disk[m] # "none" /\ Audit!List = "nested"
      /\ items' = items \cup {i} /\ auditStep' = "pick" /\ hand' = Audit!Unseen
      /\ UNCHANGED <<disk, custody, past, changes, at, todo, nested, inputs, verdict>>
  BY InHandOpened DEF Audit!Measure, Audit!Following, Audit!Keep, Audit!Tree, Opening
<1>2. i.path = m /\ i.name = m /\ i.list = "nested" /\ i.status = "NOT_LOCATOR_MAP" /\ i.actual = disk[m]
  BY <1>1 DEF Audit!Item
<1> HIDE DEF m, i
<1>3. m = hand.name
  BY DEF m
<1>4. Confirmed(7, m)
  <2>1. Audit!Followed(m)
    BY <1>1, <1>3 DEF AuditInv, Opened, Opening, Audit!Followed
  <2>2. QED BY <1>1, <2>1 DEF Confirmed, Audit!There
<1>5. ItemExact(i)
  <2>1. Audit!Expectation(i) = "none"
    BY <1>1, <1>2 DEF Audit!Expectation
  <2>2. QED BY <1>1, <1>2, <2>1 DEF ItemExact, Audit!Missing
<1> DEFINE new == {i}
<1>6. items' = items \cup new /\ \A k \in new : ItemExact(k)
  BY <1>1, <1>5
<1> HIDE DEF new
<1>7. QED BY <1>1, <1>3, <1>4, <1>6, ManifestFiled DEF Opening

LEMMA ReadManifestKeeps == ASSUME AuditInv, Audit!ReadManifest PROVE AuditInv'
<1> DEFINE m == hand.name
           d == disk[m]
<1>1. /\ auditStep = "open" /\ d \in DOMAIN Entries[m] /\ d \in past[m]
      /\ at = 7 /\ nested = Audit!NoManifest /\ verdict = "none" /\ Audit!List = "nested"
      /\ hand.path = m /\ m \in Manifests /\ m \in Nat /\ m # 0
      /\ UNCHANGED <<disk, custody, past, changes, at, todo, inputs, verdict>>
  BY InHandOpened DEF Audit!ReadManifest, Audit!IsJson, Audit!Tree, Opening
<1>2. \/ /\ Entries[m][d] = {}
         /\ auditStep' = "measure" /\ UNCHANGED <<hand, nested, items>>
      \/ /\ Entries[m][d] # {}
         /\ items' = items \cup {Audit!Item(m, l, "UNSAFE_LOCATOR", "absent") : l \in Entries[m][d]}
         /\ auditStep' = "pick" /\ hand' = Audit!Unseen /\ UNCHANGED nested
      \/ /\ Entries[m][d] # {} /\ Roots[m][d] # {}
         /\ nested' = [path |-> m, locators |-> Entries[m][d], roots |-> Roots[m][d], root |-> "repo"]
         /\ auditStep' = "root" /\ hand' = Audit!Unseen /\ UNCHANGED items
  BY <1>1 DEF Audit!ReadManifest, Audit!Following
<1>3. d # "absent"
  BY <1>1, AuditAssumption
<1> HIDE DEF m, d
<1>4. m = hand.name /\ d = disk[m]
  BY DEF m, d
<1>5. CASE Entries[m][d] = {}
  <2>1. auditStep' = "measure" /\ UNCHANGED <<hand, nested, items>>
    BY <1>2, <1>5
  <2>2. Opened'
    BY <1>1, <1>4, <1>5, <2>1 DEF AuditInv, Opened, Opening
  <2>3. HandExact'
    BY <1>1, <1>3, <1>4, <2>1 DEF HandExact, There
  <2>4. \A n : n \in todo \/ Inspecting(n) => n \in todo' \/ Inspecting(n)'
    BY <1>1, <2>1 DEF Inspecting, Looking, Opening
  <2>5. QED BY <1>1, <2>1, <2>2, <2>3, <2>4, OpeningKeeps DEF AuditInv, AuditTypes, Opening
<1>6. CASE /\ Entries[m][d] # {}
           /\ items' = items \cup {Audit!Item(m, l, "UNSAFE_LOCATOR", "absent") : l \in Entries[m][d]}
           /\ auditStep' = "pick" /\ hand' = Audit!Unseen /\ UNCHANGED nested
  <2> DEFINE new == {Audit!Item(m, l, "UNSAFE_LOCATOR", "absent") : l \in Entries[m][d]}
  <2>1. \A i \in new : i.path = m /\ i.status = "UNSAFE_LOCATOR" /\ i.actual = "absent"
    BY DEF Audit!Item
  <2>2. items' = items \cup new /\ new # {}
    BY <1>6
  <2> HIDE DEF new
  <2>3. \E i \in new : i.status \in Audit!StrictFail
    BY <2>1, <2>2 DEF Audit!StrictFail, Audit!Missing
  <2>4. \A i \in new : ItemExact(i)
    BY <2>1 DEF ItemExact
  <2>5. QED BY <1>1, <1>4, <1>6, <2>2, <2>3, <2>4, ManifestFiled DEF Opening
<1>7. CASE /\ Entries[m][d] # {} /\ Roots[m][d] # {}
           /\ nested' = [path |-> m, locators |-> Entries[m][d], roots |-> Roots[m][d], root |-> "repo"]
           /\ auditStep' = "root" /\ hand' = Audit!Unseen /\ UNCHANGED items
  <2>1. Roots[m][d] \subseteq {"repo", "anchor"} /\ Entries[m][d] \subseteq Audit!Locators(m)
    BY <1>1, LocatorsKnown
  <2>2. nested' # Audit!NoManifest
    BY <1>1, <1>7, NoManifestIsNone
  <2>3. AuditTypes'
    <3>1. hand' \in [path : Nat, name : Nat, looks : Nat, exists : BOOLEAN, first : Contents, actual : Contents]
      BY <1>7 DEF Audit!Unseen, Contents
    <3>2. QED BY <1>1, <1>7, <3>1 DEF AuditInv, AuditTypes
  <2>4. Placed'
    BY <1>1, <1>7, <2>1, <2>2 DEF Placed, Looking, Opening
  <2>5. ASSUME NEW j \in 2..8, NEW p \in Listed(j), Visited(j, p)' PROVE Visited(j, p)
    <3>1. CASE j = 7
      <4>1. p \in Nat /\ p < m
        <5>1. nested'.path = m /\ at' = 7
          BY <1>1, <1>7
        <5>2. p \in Nat
          BY <3>1, Positions, ManifestsPositive
        <5>3. QED BY <2>2, <2>5, <3>1, <5>1, <5>2 DEF Visited
      <4>2. p \notin todo /\ p # hand.name
        BY <1>1, <1>4, <4>1 DEF AuditInv, Opened, Opening, AuditTypes
      <4>3. QED BY <1>1, <3>1, <4>2 DEF Visited, Inspecting
    <3>2. QED BY <1>1, <2>5, <3>1 DEF Visited
  <2>6. Strict'
    <3>1. ASSUME Sofar PROVE Sofar'
      <4>1. ASSUME NEW j \in 2..8, NEW p, Confirmed(j, p) PROVE Confirmed(j, p)'
        BY <1>1, <4>1 DEF Confirmed, Audit!Followed
      <4>2. \E e \in past'[nested'.path] \cap DOMAIN Entries[nested'.path] :
               Roots[nested'.path][e] = nested'.roots /\ Entries[nested'.path][e] = nested'.locators
        BY <1>1, <1>7
      <4>3. QED BY <1>1, <1>7, <2>5, <3>1, <4>1, <4>2 DEF Sofar
    <3>2. QED BY <1>1, <1>7, <3>1 DEF AuditInv, Strict, Failing
  <2>7. Quiet'
    <3>1. ASSUME NEW i, ItemExact(i) PROVE ItemExact(i)'
      BY <1>1, <3>1 DEF ItemExact, Audit!Expectation
    <3>2. HandExact'
      BY <1>7 DEF HandExact
    <3>3. QED BY <1>1, <1>7, <2>5, <3>1, <3>2 DEF AuditInv, Quiet
  <2>8. QED BY <1>7, <2>3, <2>4, <2>6, <2>7 DEF AuditInv, Looking, Opening
<1>8. QED BY <1>2, <1>5, <1>6, <1>7

LEMMA ChooseRootKeeps == ASSUME AuditInv, Audit!ChooseRoot PROVE AuditInv'
<1> DEFINE r == Audit!BestRoot(nested.roots)
<1>1. /\ auditStep = "root" /\ auditStep' = "pick"
      /\ nested' = [nested EXCEPT !.root = r] /\ todo' = nested.locators
      /\ UNCHANGED <<disk, custody, past, changes, at, hand, inputs, items, verdict>>
  BY DEF Audit!ChooseRoot, Audit!Tree
<1>2. /\ nested # Audit!NoManifest /\ at = 7 /\ nested.path \in Manifests
      /\ nested.locators \subseteq Audit!Locators(nested.path)
      /\ nested.roots \subseteq {"repo", "anchor"} /\ nested.roots # {} /\ verdict = "none"
  BY <1>1 DEF AuditInv, Placed
<1>3. r \in nested.roots /\ r \in {"repo", "anchor"}
  BY <1>2 DEF Audit!BestRoot
<1> HIDE DEF r
<1>4. nested' = [path |-> nested.path, locators |-> nested.locators, roots |-> nested.roots, root |-> r]
  BY <1>1 DEF AuditInv, AuditTypes
<1>5. nested' # Audit!NoManifest
  BY <1>2, <1>4, ManifestsPositive, NoManifestIsNone
<1>6. AuditTypes'
  <2>1. todo' \subseteq Nat
    BY <1>1, <1>2, LocatorsKnown
  <2>2. QED BY <1>1, <1>3, <1>4, <2>1 DEF AuditInv, AuditTypes
<1>7. Placed'
  BY <1>1, <1>2, <1>4, <1>5 DEF Placed, Looking, Opening
<1>8. ASSUME NEW j \in 2..8, NEW p, Visited(j, p)' PROVE Visited(j, p)
  BY <1>1, <1>2, <1>4, <1>5, <1>8 DEF Visited
<1>9. Strict'
  <2>1. ASSUME NEW j \in 2..8, NEW p, Confirmed(j, p) PROVE Confirmed(j, p)'
    BY <1>1, <2>1 DEF Confirmed, Audit!Followed
  <2>2. ASSUME Sofar PROVE Sofar'
    BY <1>1, <1>2, <1>3, <1>4, <1>8, <2>1, <2>2 DEF Sofar
  <2>3. QED BY <1>1, <1>2, <2>2 DEF AuditInv, Strict, Failing
<1>10. Quiet'
  <2>1. ASSUME NEW i, ItemExact(i) PROVE ItemExact(i)'
    BY <1>1, <2>1 DEF ItemExact, Audit!Expectation
  <2>2. HandExact'
    BY <1>1 DEF HandExact
  <2>3. QED BY <1>1, <1>8, ExcuseStays, <2>1, <2>2 DEF AuditInv, Quiet
<1>11. QED BY <1>1, <1>6, <1>7, <1>9, <1>10 DEF AuditInv, Looking, Opening

LEMMA CloseManifestKeeps == ASSUME AuditInv, Audit!CloseManifest PROVE AuditInv'
<1>1. /\ auditStep = "pick" /\ nested # Audit!NoManifest /\ todo = {}
      /\ todo' = {m \in Manifests : m > nested.path} /\ nested' = Audit!NoManifest
      /\ UNCHANGED <<disk, custody, past, changes, at, auditStep, hand, inputs, items, verdict>>
  BY DEF Audit!CloseManifest, Audit!Tree
<1>2. at = 7 /\ nested.path \in Manifests /\ verdict = "none"
  BY <1>1 DEF AuditInv, Placed
<1>3. AuditTypes'
  <2>1. todo' \subseteq Nat
    BY <1>1, ManifestsPositive
  <2>2. QED BY <1>1, <2>1 DEF AuditInv, AuditTypes, Audit!NoManifest
<1>4. Placed'
  BY <1>1, <1>2, Positions DEF Placed, Looking, Opening
<1>5. ASSUME NEW j \in 2..8, NEW p \in Listed(j), Visited(j, p)'
      PROVE  Visited(j, p) \/ (j = 7 /\ p = nested.path)
  <2>1. CASE j = 7
    <3>1. p \in Manifests /\ p \in Nat /\ nested.path \in Nat
      BY <1>2, <2>1, Positions, ManifestsPositive
    <3>2. ~ (p > nested.path)
      BY <1>1, <1>2, <1>5, <2>1, <3>1 DEF Visited
    <3>3. QED BY <1>1, <1>2, <2>1, <3>1, <3>2 DEF Visited
  <2>2. QED BY <1>1, <1>2, <1>5, <2>1 DEF Visited
<1>6. Strict'
  <2>1. ASSUME NEW j \in 2..8, NEW p, Confirmed(j, p) PROVE Confirmed(j, p)'
    BY <1>1, <2>1 DEF Confirmed, Audit!Followed
  <2>2. ASSUME Sofar PROVE Confirmed(7, nested.path)
    <3>1. PICK d \in past[nested.path] \cap DOMAIN Entries[nested.path] :
            Roots[nested.path][d] = nested.roots /\ Entries[nested.path][d] = nested.locators
      BY <1>1, <2>2 DEF Sofar
    <3>2. /\ nested.root \in Roots[nested.path][d]
          /\ \A l \in Entries[nested.path][d] : Want[l] \in past[At[nested.root][l]]
      BY <1>1, <2>2, <3>1 DEF Sofar, Inspecting, Looking, Opening
    <3>3. QED BY <1>2, <3>1, <3>2, AuditAssumption DEF Confirmed, Audit!Followed
  <2>3. ASSUME Sofar PROVE Sofar'
    BY <1>1, <1>2, <1>5, <2>1, <2>2, <2>3 DEF Sofar
  <2>4. QED BY <1>1, <1>2, <2>3 DEF AuditInv, Strict, Failing
<1>7. Quiet'
  <2>1. ASSUME NEW i, ItemExact(i) PROVE ItemExact(i)'
    BY <1>1, <2>1 DEF ItemExact, Audit!Expectation
  <2>2. HandExact'
    BY <1>1 DEF HandExact
  <2>3. QED BY <1>1, <1>5, ExcuseStays, <2>1, <2>2 DEF AuditInv, Quiet
<1>8. QED BY <1>1, <1>3, <1>4, <1>6, <1>7 DEF AuditInv, Looking, Opening

LEMMA ListEnds ==
  ASSUME AuditInv, Audit!NextList
  PROVE  /\ auditStep = "pick" /\ todo = {} /\ nested = Audit!NoManifest /\ at \in 1..8 /\ at' = at + 1
         /\ at = 8 => auditStep' = "compare" /\ todo' = {b[1] : b \in inputs}
         /\ at # 8 => auditStep' = "pick" /\ todo' = Listed(at')
         /\ items' = IF at = 2 THEN items \cup Audit!Drift ELSE items
         /\ UNCHANGED <<disk, custody, past, changes, hand, nested, inputs, verdict>>
<1>1. /\ auditStep = "pick" /\ todo = {} /\ nested = Audit!NoManifest /\ Audit!List # "after"
      /\ at' = at + 1
      /\ todo' = IF Audit!Lists[at + 1] = "after" THEN {b[1] : b \in inputs}
                 ELSE Audit!PathsOf(Audit!Lists[at + 1])
      /\ items' = IF Audit!List = "assets" THEN items \cup Audit!Drift ELSE items
      /\ auditStep' = IF Audit!Lists[at + 1] = "after" THEN "compare" ELSE "pick"
      /\ UNCHANGED <<disk, custody, past, changes, hand, nested, inputs, verdict>>
  BY DEF Audit!NextList, Audit!Tree
<1>2. at \in 1..8 /\ (Audit!List = "assets" <=> at = 2)
  BY <1>1, Position DEF AuditInv, AuditTypes
<1>3. Audit!Lists[at + 1] = "after" <=> at = 8
  BY <1>2 DEF Audit!Lists
<1>4. QED BY <1>1, <1>2, <1>3 DEF Listed

LEMMA DriftExact == \A i \in Audit!Drift : ItemExact(i)
<1>1. ASSUME NEW i \in Audit!Drift
      PROVE  /\ i.actual = "absent"
             /\ \/ i.status \in {"EXTRA_IN_MANIFEST", "TRACKED_NOT_IN_MANIFEST"}
                \/ i.status = "MISSING_EXTERNAL" /\ i.path = 0
  BY DEF Audit!Drift, Audit!Item
<1>2. Audit!Catalogue \subseteq Audit!Paths
  BY DEF Audit!Catalogue, Audit!Paths
<1>3. 0 \notin Audit!Catalogue
  BY <1>2, AuditAssumption
<1>4. QED BY <1>1, <1>3 DEF ItemExact, Audit!Missing

(* Without the lists it starts from, or at a nested manifest that is not JSON, it raises. *)
LEMMA ExcusedRaises ==
  ASSUME AuditInv, auditStep' = "ended", verdict' = "raised", Excused,
         UNCHANGED <<disk, custody, past, changes, at, todo, hand, nested, inputs, items>>
  PROVE  AuditInv'
<1>1. AuditTypes'
  BY DEF AuditInv, AuditTypes
<1>2. Placed' /\ Strict'
  BY DEF AuditInv, Placed, Strict, Looking, Opening
<1>3. Quiet'
  <2>1. ASSUME NEW i, ItemExact(i) PROVE ItemExact(i)'
    BY <2>1 DEF ItemExact, Audit!Expectation
  <2>2. ASSUME NEW j \in {2, 3, 4, 5, 6, 8}, NEW p, Visited(j, p)' PROVE Visited(j, p)
    BY <2>2 DEF Visited, Excused
  <2>3. Excused'
    BY DEF Excused, There, Audit!IsJson
  <2>4. HandExact'
    BY DEF HandExact
  <2>5. QED BY <2>1, <2>2, <2>3, <2>4 DEF AuditInv, Quiet
<1>4. QED BY <1>1, <1>2, <1>3 DEF AuditInv, Looking, Opening

LEMMA GarbledKeeps == ASSUME AuditInv, Audit!Garbled PROVE AuditInv'
<1>1. /\ auditStep = "open" /\ auditStep' = "ended" /\ verdict' = "raised"
      /\ There(hand.path) /\ ~ Audit!IsJson(hand.path)
      /\ UNCHANGED <<disk, custody, past, changes, at, todo, hand, nested, inputs, items>>
  BY DEF Audit!Garbled, Audit!Ends, Audit!Tree, Audit!There, There
<1>2. Excused
  BY <1>1, InHandOpened DEF Excused, Opening
<1>3. QED BY <1>1, <1>2, ExcusedRaises

LEMMA UnlistedKeeps == ASSUME AuditInv, Audit!Unlisted PROVE AuditInv'
<1>1. /\ Audit!List = "before" /\ auditStep' = "ended" /\ verdict' = "raised"
      /\ UNCHANGED <<disk, custody, past, changes, at, todo, hand, nested, inputs, items>>
  BY DEF Audit!Unlisted, Audit!Ends, Audit!Tree
<1>2. Excused
  BY <1>1, Position DEF Excused, AuditInv, AuditTypes
<1>3. QED BY <1>1, <1>2, ExcusedRaises

LEMMA NextListKeeps == ASSUME AuditInv, Audit!NextList PROVE AuditInv'
<1>1. /\ auditStep = "pick" /\ todo = {} /\ nested = Audit!NoManifest /\ at \in 1..8 /\ at' = at + 1
      /\ at = 8 => auditStep' = "compare" /\ todo' = {b[1] : b \in inputs}
      /\ at # 8 => auditStep' = "pick" /\ todo' = Listed(at')
      /\ items' = IF at = 2 THEN items \cup Audit!Drift ELSE items
      /\ UNCHANGED <<disk, custody, past, changes, hand, nested, inputs, verdict>>
  BY ListEnds
<1>2. verdict = "none"
  BY <1>1 DEF AuditInv, Placed
<1>3. todo' \subseteq Nat
  <2>1. \A j \in 1..9 : Listed(j) \subseteq Nat
    BY PathsListed, AuditAssumption
  <2>2. CASE at = 8
    BY <1>1, <2>1, <2>2, Positions DEF AuditInv, AuditTypes
  <2>3. CASE at # 8
    BY <1>1, <2>1, <2>3
  <2>4. QED BY <2>2, <2>3
<1>4. AuditTypes'
  <2>1. at' \in 1..9 /\ auditStep' \in {"pick", "compare"}
    BY <1>1
  <2>2. QED BY <1>1, <1>3, <2>1 DEF AuditInv, AuditTypes
<1>5. Placed'
  BY <1>1, <1>2 DEF Placed, Looking, Opening
<1>6. ASSUME NEW j \in 2..8, NEW p \in Listed(j), Visited(j, p)' PROVE Visited(j, p)
  <2>1. nested' = Audit!NoManifest
    BY <1>1
  <2>2. ~ (j = at' /\ p \notin todo')
    BY <1>1
  <2>3. j \in Nat /\ (j < at \/ j = at)
    BY <1>1, <1>6, <2>1, <2>2 DEF Visited
  <2>4. QED BY <1>1, <2>3 DEF Visited, Inspecting, Looking, Opening
<1>7. Failing => Failing'
  BY <1>1 DEF Failing
<1>8. Strict'
  <2>1. CASE at = 2 /\ custody
    <3>1. Audit!Item(0, 0, "MISSING_EXTERNAL", "absent") \in items'
      BY <1>1, <2>1 DEF Audit!Drift
    <3>2. Audit!Item(0, 0, "MISSING_EXTERNAL", "absent").status \in Audit!StrictFail
      BY DEF Audit!Item, Audit!StrictFail, Audit!Missing
    <3>3. QED BY <1>1, <1>2, <3>1, <3>2 DEF Strict, Failing
  <2>2. CASE ~ (at = 2 /\ custody)
    <3>1. ASSUME NEW j \in 2..8, NEW p, Confirmed(j, p) PROVE Confirmed(j, p)'
      BY <1>1, <3>1 DEF Confirmed, Audit!Followed
    <3>2. ASSUME Sofar PROVE Sofar'
      <4>1. at' > 2 => ~ custody
        BY <1>1, <2>2, <3>2 DEF Sofar
      <4>2. QED BY <1>1, <1>6, <3>1, <3>2, <4>1 DEF Sofar
    <3>3. QED BY <1>1, <1>2, <1>7, <3>2 DEF AuditInv, Strict
  <2>3. QED BY <2>1, <2>2
<1>9. Quiet'
  <2>1. ASSUME NEW i, ItemExact(i) PROVE ItemExact(i)'
    BY <1>1, <2>1 DEF ItemExact, Audit!Expectation
  <2>2. HandExact'
    BY <1>1 DEF HandExact
  <2>3. ASSUME NEW i \in items' PROVE i \in items \/ ItemExact(i)
    BY <1>1, DriftExact
  <2>4. items \subseteq items'
    BY <1>1
  <2>5. QED BY <1>1, <1>2, <1>6, <2>1, <2>2, <2>3, <2>4 DEF AuditInv, Quiet
<1>10. QED BY <1>1, <1>4, <1>5, <1>8, <1>9 DEF AuditInv, Looking, Opening

LEMMA AuditStep == AuditInv /\ [Audit!AuditNext]_(Audit!audit) => AuditInv'
<1> SUFFICES ASSUME AuditInv, [Audit!AuditNext]_(Audit!audit) PROVE AuditInv'
  OBVIOUS
<1>1. CASE Audit!Start
  BY <1>1, StartKeeps
<1>2. CASE Audit!Pick
  BY <1>2, PickKeeps
<1>3. CASE Audit!Look
  BY <1>3, LookKeeps
<1>4. CASE Audit!Read
  BY <1>4, HandReadKeeps
<1>5. CASE Audit!Stat
  BY <1>5, StatKeeps
<1>6. CASE Audit!Vanished
  BY <1>6, VanishedKeeps
<1>7. CASE Audit!File
  BY <1>7, SampledKeeps, FiledKeeps
<1>8. CASE Audit!OpenManifest
  BY <1>8, OpenManifestKeeps
<1>9. CASE Audit!ChooseRoot
  BY <1>9, ChooseRootKeeps
<1>10. CASE Audit!CloseManifest
  BY <1>10, CloseManifestKeeps
<1>11. CASE Audit!NextList
  BY <1>11, NextListKeeps
<1>12. CASE Audit!Compare
  BY <1>12, CompareKeeps
<1>13. CASE Audit!Mutated
  BY <1>13, MutatedKeeps
<1>14. CASE Audit!Deliver
  BY <1>14, DeliverKeeps
<1>15. CASE \E p \in Audit!Paths : Audit!Change(p)
  BY <1>15, ChangeKeeps
<1>16. CASE Audit!LookAgain
  BY <1>16, LookAgainKeeps
<1>17. CASE Audit!ReadManifest
  BY <1>17, ReadManifestKeeps
<1>18. CASE Audit!Garbled
  BY <1>18, GarbledKeeps
<1>19. CASE Audit!Measure
  BY <1>19, MeasureKeeps
<1>20. CASE Audit!Unlisted
  BY <1>20, UnlistedKeeps
<1>21. CASE UNCHANGED Audit!audit
  <2>1. UNCHANGED <<disk, custody, at, todo, auditStep, hand, nested, inputs, items, verdict, past, changes>>
    BY <1>21 DEF Audit!audit
  <2>2. /\ AuditTypes' /\ Placed'
        /\ (auditStep \in Looking => AtHand)' /\ (auditStep \in Opening => Opened)'
    BY <2>1 DEF AuditInv, AuditTypes, Placed, AtHand, Opened
  <2>3. \A j, p : Visited(j, p)' <=> Visited(j, p)
    BY <2>1 DEF Visited, Inspecting
  <2>4. Sofar' <=> Sofar
    BY <2>1, <2>3 DEF Sofar, Confirmed, Audit!Followed, Inspecting
  <2>5. Strict'
    BY <2>1, <2>4 DEF AuditInv, Strict, Failing
  <2>6. Quiet'
    <3>1. HandExact' <=> HandExact
      BY <2>1 DEF HandExact, There, Audit!Thrice, Audit!List
    <3>2. \A i : ItemExact(i)' <=> ItemExact(i)
      BY <2>1 DEF ItemExact, Audit!Expectation
    <3>3. Excused' <=> Excused
      BY <2>1 DEF Excused, There, Audit!IsJson
    <3>4. QED BY <2>1, <2>3, <3>1, <3>2, <3>3 DEF AuditInv, Quiet
  <2>7. QED BY <2>2, <2>5, <2>6 DEF AuditInv
<1>22. QED
  BY <1>1, <1>2, <1>3, <1>4, <1>5, <1>6, <1>7, <1>8, <1>9, <1>10, <1>11, <1>12, <1>13,
     <1>14, <1>15, <1>16, <1>17, <1>18, <1>19, <1>20, <1>21 DEF Audit!AuditNext

LEMMA AuditInvSound == AuditInv => Audit!AuditSound
<1> SUFFICES ASSUME AuditInv PROVE Audit!AuditSound
  OBVIOUS
<1>1. ASSUME verdict \in {"clean", "fail"}
      PROVE  at = 9 /\ nested = Audit!NoManifest /\ \A p : \A j \in 2..8 : Visited(j, p)
  BY <1>1 DEF AuditInv, Placed, Visited
<1>2. Audit!StrictSound
  <2> SUFFICES ASSUME verdict = "clean" PROVE Audit!StrictSound
    BY DEF Audit!StrictSound
  <2>1. Sofar
    BY DEF AuditInv, Strict
  <2>2. ~ custody /\ \A j \in 2..8 : \A p \in Listed(j) : Confirmed(j, p)
    BY <1>1, <2>1 DEF Sofar
  <2>3. \A p \in Assets \cup Pins : Want[p] \in past[p]
    BY <2>2, Positions DEF Confirmed
  <2>4. ASSUME NEW p \in Legacy \cup Samples \cup Decisions \cup Resolver \cup Manifests
        PROVE  past[p] # {"absent"}
    <3>1. past[p] \ {"absent"} # {}
      BY <2>2, Positions DEF Confirmed
    <3>2. QED BY <3>1
  <2>5. \A m \in Manifests : "absent" \in past[m] \/ Audit!Followed(m)
    BY <2>2, Positions DEF Confirmed
  <2>6. QED BY <2>2, <2>3, <2>4, <2>5 DEF Audit!StrictSound
<1>3. Audit!QuietExact
  <2> SUFFICES ASSUME changes = 0 PROVE Audit!QuietExact
    BY DEF Audit!QuietExact
  <2>1. \A i \in items : ItemExact(i)
    BY DEF AuditInv, Quiet
  <2>2. ASSUME verdict \in {"clean", "fail"} PROVE Audit!Catalogue \subseteq {i.path : i \in items}
    <3>1. \A j \in {2, 3, 4, 5, 6, 8} : \A p \in Listed(j) : \E i \in items : i.path = p
      BY <1>1, <2>2 DEF AuditInv, Quiet
    <3>2. QED BY <3>1, Positions DEF Audit!Catalogue
  <2>3. QED BY <2>1, <2>2 DEF Audit!QuietExact, ItemExact
<1>4. Audit!QuietEnds
  <2>1. (Audit!List = "before" <=> at = 1) /\ (Audit!List = "nested" <=> at = 7)
    BY Position DEF AuditInv, AuditTypes
  <2>2. QED BY <2>1 DEF AuditInv, Quiet, Excused, There, Audit!QuietEnds, Audit!There
<1>5. QED BY <1>2, <1>3, <1>4 DEF Audit!AuditSound

(* A strict audit that passes is right about every listed path, and about the locators of
   every nested manifest that was never absent, although the tree changes while it runs;
   one that nobody disturbs reports every path of the catalogue as it is on disk, and
   raises only without the lists it starts from or at a nested manifest that is not JSON
   (j1_input_audit.py:205-292, :395-501, :696-746). *)
THEOREM AuditIsSound == Audit!AuditSpec => []AuditSound
BY AuditInitially, AuditStep, AuditInvSound, PTL DEF Audit!AuditSpec, AuditSound

-----------------------------------------------------------------------------
(* The extraction.  What a table of metrics is worth, and what may be kept of an output. *)
Counted(rows) ==
  /\ \A r \in rows : r.ocr \in Nat
  /\ IsFiniteSet(Extract!OcrPages(rows)) /\ Extract!Recorded(rows) <= OcrLimit
Backed(rows, pieces, s) ==
  \A r \in rows : r.units \subseteq {e.unit : e \in pieces} /\ r.file = FileOf[s][r.id]

Worth(o) ==
  /\ Counted(o.metrics)
  /\ \A r \in o.metrics :
       /\ "evidence" \notin o.torn => r.units \subseteq {e.unit : e \in o.evidence}
       /\ r.file = FileOf[o.snap][r.id]
  /\ o.manifest = "COMPLETED" => Extract!Ids \subseteq Extract!Completed(o.metrics) \cup o.errors
  /\ o.torn = {} /\ o.manifest = "none" => o.metrics = {} /\ o.evidence = {}

ExtractTypes ==
  /\ pending \subseteq Extract!Ids /\ accepted \subseteq Extract!Ids
  /\ cur = [id |-> cur.id, units |-> cur.units, page |-> cur.page, ocr |-> cur.ocr]
  /\ cur.ocr \in Nat
  /\ out = [manifest |-> out.manifest, snap |-> out.snap, evidence |-> out.evidence,
            metrics |-> out.metrics, errors |-> out.errors, torn |-> out.torn]
  /\ out.manifest \in {"none", "RUNNING"} /\ out.torn = {}

Before == {"idle", "resume"}
InMemory ==
  /\ Counted(metrics) /\ extracted = Extract!Recorded(metrics)
  /\ Backed(metrics, evidence, snap)
  /\ pending \cap Extract!Completed(metrics) = {}
  /\ extractStep \in Before => metrics = {} /\ evidence = {}
  /\ extractStep \in Before \cup {"open"} => failed = {}
  /\ extractStep \in {"open file", "pages"} =>
       cur.id \in pending /\ (cur.ocr = 0 \/ cur.ocr + extracted <= OcrLimit)

OnDisk ==
  /\ out.metrics \subseteq metrics /\ Counted(out.metrics) /\ Backed(out.metrics, out.evidence, snap)
  /\ extractStep \in Before \cup {"open"} =>
       out.manifest = "none" /\ out.metrics = {} /\ out.evidence = {}
  /\ extractStep \notin Before \cup {"open"} => out.manifest = "RUNNING" /\ out.snap = snap
  /\ extractStep = "metrics" => evidence = {} \/ out.evidence = evidence
  /\ extractStep \in {"errors", "finish"} => out.metrics = metrics

(* Every row of the manifest is before the session, measured or among the errors. *)
RowsAccounted ==
  /\ extractStep = "idle" => out = Extract!Blank
  /\ extractStep = "resume" => Extract!Ids \subseteq accepted \cup out.errors
  /\ extractStep \notin Before =>
       Extract!Ids \subseteq pending \cup Extract!Completed(metrics) \cup failed \cup out.errors
  /\ extractStep = "finish" => pending = {} /\ failed = {}

ExtractInv == ExtractTypes /\ InMemory /\ OnDisk /\ RowsAccounted /\ Worth(saved)

LEMMA SameCardinality == \A rows : Extract!Recorded(rows) = Cardinality(Extract!OcrPages(rows))
<1>1. ASSUME NEW T PROVE Extract!Cardinality(T) = Cardinality(T)
  BY DEF Extract!Cardinality, Cardinality
<1>2. QED BY <1>1 DEF Extract!Recorded

LEMMA NothingCounted == Counted({}) /\ Extract!Recorded({}) = 0
<1>1. Extract!OcrPages({}) = {}
  BY DEF Extract!OcrPages
<1>2. QED BY <1>1, FS_EmptySet, SameCardinality, ExtractionAssumption DEF Counted

LEMMA OneMoreCounted ==
  ASSUME NEW rows, NEW r, r \notin rows, r.ocr \in Nat, Counted(rows),
         Extract!Recorded(rows) + r.ocr <= OcrLimit
  PROVE  /\ Counted(rows \cup {r})
         /\ Extract!Recorded(rows \cup {r}) = Extract!Recorded(rows) + r.ocr
<1> DEFINE own == {r} \X (1..r.ocr)
           earlier == Extract!OcrPages(rows)
<1>1. Extract!OcrPages(rows \cup {r}) = earlier \cup own
  BY DEF Extract!OcrPages
<1>2. earlier \cap own = {}
  BY DEF Extract!OcrPages
<1>3. IsFiniteSet({r}) /\ Cardinality({r}) = 1
  BY FS_Singleton
<1>4. IsFiniteSet(1..r.ocr) /\ Cardinality(1..r.ocr) = r.ocr
  BY FS_Interval
<1>5. IsFiniteSet(own) /\ Cardinality(own) = r.ocr
  BY <1>3, <1>4, FS_Product
<1>6. IsFiniteSet(earlier) /\ Cardinality(earlier) \in Nat
  BY FS_CardinalityType DEF Counted
<1> HIDE DEF own, earlier
<1>7. /\ IsFiniteSet(earlier \cup own)
      /\ Cardinality(earlier \cup own) = Cardinality(earlier) + r.ocr
  <2>1. Cardinality(earlier \cap own) = 0
    BY <1>2, FS_EmptySet, Zenon
  <2>2. /\ IsFiniteSet(earlier \cup own)
        /\ Cardinality(earlier \cup own) = Cardinality(earlier) + Cardinality(own) - Cardinality(earlier \cap own)
    BY <1>5, <1>6, FS_Union
  <2>3. QED BY <1>5, <1>6, <2>1, <2>2
<1>8. Extract!Recorded(rows) = Cardinality(earlier)
  BY SameCardinality DEF earlier
<1>9. Extract!Recorded(rows \cup {r}) = Cardinality(earlier \cup own)
  BY <1>1, SameCardinality
<1>10. QED BY <1>1, <1>7, <1>8, <1>9 DEF Counted

LEMMA CountedIsNat == ASSUME NEW rows, Counted(rows) PROVE Extract!Recorded(rows) \in Nat
BY FS_CardinalityType, SameCardinality DEF Counted

LEMMA AffordableFits ==
  ASSUME NEW n \in Nat, NEW m \in Nat, m = extracted, m <= OcrLimit, Extract!Affordable(n)
  PROVE  n + 1 + extracted <= OcrLimit
<1> DEFINE k == OcrLimit - m
<1>1. k \in Nat
  BY ExtractionAssumption
<1> HIDE DEF k
<1>2. k \in {0, k} /\ \A y \in {0, k} : k >= y
  BY <1>1
<1>3. Extract!Max({0, k}) \in {0, k} /\ \A y \in {0, k} : Extract!Max({0, k}) >= y
  BY <1>2 DEF Extract!Max
<1>4. Extract!Max({0, k}) = k
  BY <1>1, <1>3
<1>5. n < k
  BY <1>4 DEF Extract!Affordable, Extract!Budget, k
<1>6. QED BY <1>5, ExtractionAssumption DEF k

LEMMA PendingPicked ==
  ASSUME ExtractTypes, pending # {} PROVE Extract!Min(pending) \in pending
<1>1. pending \subseteq Nat
  BY ExtractionAssumption DEF ExtractTypes, Extract!Ids
<1>2. \E x \in pending : \A y \in pending : x <= y
  BY <1>1, LeastExists
<1>3. QED BY <1>2 DEF Extract!Min

(* What a session has on disk is worth as much as what it has in memory. *)
LEMMA OutIsWorth == ExtractInv => Worth(out)
<1> SUFFICES ASSUME ExtractInv PROVE Worth(out)
  OBVIOUS
<1>1. CASE extractStep \in Before \cup {"open"}
  BY <1>1 DEF ExtractInv, ExtractTypes, OnDisk, Worth
<1>2. CASE extractStep \notin Before \cup {"open"}
  BY <1>2 DEF ExtractInv, ExtractTypes, OnDisk, Worth, Backed
<1>3. QED BY <1>1, <1>2

LEMMA ExtractInitially == Extract!ExtractInit => ExtractInv
<1> SUFFICES ASSUME Extract!ExtractInit PROVE ExtractInv
  OBVIOUS
<1>1. ExtractTypes
  BY DEF Extract!ExtractInit, Extract!Blank, Extract!NoResource, ExtractTypes
<1>2. InMemory
  BY NothingCounted DEF Extract!ExtractInit, InMemory, Backed, Before
<1>3. OnDisk
  BY NothingCounted DEF Extract!ExtractInit, Extract!Blank, OnDisk, Backed, Before
<1>4. RowsAccounted
  BY DEF Extract!ExtractInit, RowsAccounted, Before
<1>5. Worth(saved)
  BY NothingCounted DEF Extract!ExtractInit, Extract!Blank, Worth
<1>6. QED BY <1>1, <1>2, <1>3, <1>4, <1>5 DEF ExtractInv

LEMMA SessionOver ==
  ASSUME ExtractInv, NEW left, Worth(left), Extract!Over(left) PROVE ExtractInv'
<1>1. /\ saved' \in {saved, left}
      /\ out' = Extract!Blank /\ snap' = 0 /\ accepted' = {} /\ extractStep' = "idle"
      /\ evidence' = {} /\ metrics' = {} /\ failed' = {} /\ extracted' = 0 /\ pending' = {}
      /\ cur' = Extract!NoResource
  BY DEF Extract!Over
<1>2. ExtractTypes'
  BY <1>1 DEF Extract!Blank, Extract!NoResource, ExtractTypes
<1>3. InMemory'
  BY <1>1, NothingCounted DEF InMemory, Backed, Before
<1>4. OnDisk'
  BY <1>1, NothingCounted DEF Extract!Blank, OnDisk, Backed, Before
<1>5. RowsAccounted'
  BY <1>1 DEF RowsAccounted, Before
<1>6. Worth(saved)'
  BY <1>1 DEF ExtractInv, Worth
<1>7. QED BY <1>2, <1>3, <1>4, <1>5, <1>6 DEF ExtractInv

LEMMA ValidateKeeps == ASSUME ExtractInv, Extract!Validate PROVE ExtractInv'
<1>1. /\ extractStep = "idle" /\ extractStep' = "resume"
      /\ accepted' \subseteq Extract!Ids
      /\ out' = [out EXCEPT !.errors = Extract!Ids \ accepted']
      /\ UNCHANGED <<saved, evidence, metrics, failed, extracted, pending, index, cur>>
  BY DEF Extract!Validate
<1>2. out = Extract!Blank /\ metrics = {} /\ evidence = {} /\ failed = {}
  BY <1>1 DEF ExtractInv, InMemory, RowsAccounted, Before
<1>3. /\ out'.manifest = "none" /\ out'.metrics = {} /\ out'.evidence = {} /\ out'.torn = {}
      /\ out'.errors = Extract!Ids \ accepted'
      /\ out' = [manifest |-> out'.manifest, snap |-> out'.snap, evidence |-> out'.evidence,
                 metrics |-> out'.metrics, errors |-> out'.errors, torn |-> out'.torn]
  BY <1>1, <1>2 DEF Extract!Blank
<1>4. ExtractTypes'
  BY <1>1, <1>3 DEF ExtractInv, ExtractTypes
<1>5. InMemory'
  BY <1>1, <1>2 DEF ExtractInv, InMemory, Backed, Before
<1>6. OnDisk'
  BY <1>1, <1>2, <1>3, NothingCounted DEF OnDisk, Backed, Before
<1>7. RowsAccounted'
  BY <1>1, <1>3 DEF RowsAccounted, Before
<1>8. QED BY <1>1, <1>4, <1>5, <1>6, <1>7 DEF ExtractInv, Worth

LEMMA ResumeKeeps == ASSUME ExtractInv, Extract!Resume PROVE ExtractInv'
<1>1. /\ extractStep = "resume" /\ extractStep' = "open" /\ Extract!Resumable(saved)
      /\ evidence' = saved.evidence /\ metrics' = saved.metrics
      /\ extracted' = Extract!Recorded(saved.metrics)
      /\ pending' = accepted \ Extract!Completed(saved.metrics)
      /\ UNCHANGED <<saved, out, snap, accepted, failed, index, cur, sessions>>
  BY DEF Extract!Resume, Extract!Spent
<1>2. /\ saved.torn = {} /\ Worth(saved)
      /\ saved.manifest # "none" => saved.snap = snap
      /\ saved.manifest = "none" => saved.metrics = {}
  BY <1>1 DEF Extract!Resumable, Extract!SameSnapshot, ExtractInv, Worth
<1>3. Backed(saved.metrics, saved.evidence, snap)
  BY <1>2 DEF Worth, Backed
<1>4. out.metrics = {} /\ out.evidence = {} /\ out.manifest = "none" /\ failed = {}
  BY <1>1 DEF ExtractInv, OnDisk, InMemory, Before
<1>5. ExtractTypes'
  BY <1>1 DEF ExtractInv, ExtractTypes
<1>6. InMemory'
  <2>1. Counted(metrics)' /\ Extract!Recorded(metrics)' = Extract!Recorded(saved.metrics)
    BY <1>1, <1>2 DEF Worth, Counted
  <2>2. Backed(metrics, evidence, snap)'
    BY <1>1, <1>3 DEF Backed
  <2>3. (pending \cap Extract!Completed(metrics))' = {}
    BY <1>1 DEF Extract!Completed
  <2>4. QED BY <1>1, <1>4, <2>1, <2>2, <2>3 DEF InMemory, Before
<1>7. OnDisk'
  BY <1>1, <1>4, NothingCounted DEF OnDisk, Backed, Before
<1>8. RowsAccounted'
  <2>1. Extract!Ids \subseteq accepted \cup out.errors
    BY <1>1 DEF ExtractInv, RowsAccounted
  <2>2. Extract!Completed(metrics)' = Extract!Completed(saved.metrics)
    BY <1>1 DEF Extract!Completed
  <2>3. QED BY <1>1, <2>1, <2>2 DEF RowsAccounted, Before
<1>9. QED BY <1>1, <1>2, <1>5, <1>6, <1>7, <1>8 DEF ExtractInv, Worth

LEMMA AfreshKeeps == ASSUME ExtractInv, Extract!Afresh PROVE ExtractInv'
<1>1. /\ extractStep = "resume" /\ extractStep' = "open" /\ pending' = accepted
      /\ UNCHANGED <<saved, out, snap, accepted, evidence, metrics, failed, extracted, index, cur, sessions>>
  BY DEF Extract!Afresh
<1>2. /\ out.metrics = {} /\ out.evidence = {} /\ out.manifest = "none" /\ failed = {}
      /\ metrics = {} /\ evidence = {}
  BY <1>1 DEF ExtractInv, OnDisk, InMemory, Before
<1>3. ExtractTypes'
  BY <1>1 DEF ExtractInv, ExtractTypes
<1>4. InMemory'
  <2>1. (pending \cap Extract!Completed(metrics))' = {}
    BY <1>1, <1>2 DEF Extract!Completed
  <2>2. QED BY <1>1, <1>2, <2>1 DEF ExtractInv, InMemory, Backed, Before
<1>5. OnDisk'
  BY <1>1, <1>2, NothingCounted DEF OnDisk, Backed, Before
<1>6. RowsAccounted'
  BY <1>1 DEF ExtractInv, RowsAccounted, Before
<1>7. QED BY <1>1, <1>3, <1>4, <1>5, <1>6 DEF ExtractInv, Worth

LEMMA ResumeRaisesKeeps == ASSUME ExtractInv, Extract!ResumeRaises PROVE ExtractInv'
BY OutIsWorth, SessionOver DEF Extract!ResumeRaises

LEMMA WriteManifestKeeps == ASSUME ExtractInv, Extract!WriteManifest PROVE ExtractInv'
<1>1. /\ extractStep = "open" /\ extractStep' = "next"
      /\ out' = [out EXCEPT !.manifest = "RUNNING", !.snap = snap]
      /\ UNCHANGED <<saved, snap, accepted, evidence, metrics, failed, extracted, pending, cur>>
  BY DEF Extract!WriteManifest, Extract!memory
<1>2. out' = [manifest |-> "RUNNING", snap |-> snap, evidence |-> out.evidence,
              metrics |-> out.metrics, errors |-> out.errors, torn |-> out.torn]
  BY <1>1 DEF ExtractInv, ExtractTypes
<1>3. ExtractTypes'
  BY <1>1, <1>2 DEF ExtractInv, ExtractTypes
<1>4. InMemory'
  BY <1>1 DEF ExtractInv, InMemory, Backed, Counted, Before
<1>5. OnDisk'
  BY <1>1, <1>2 DEF ExtractInv, OnDisk, Backed, Counted, Before
<1>6. RowsAccounted'
  BY <1>1, <1>2 DEF ExtractInv, RowsAccounted, Before
<1>7. QED BY <1>1, <1>3, <1>4, <1>5, <1>6 DEF ExtractInv, Worth, Counted

(* Looking at a resource changes what is in hand, nothing else. *)
LEMMA InspectingKeeps ==
  ASSUME ExtractInv, extractStep \in {"next", "open file", "pages"},
         extractStep' \in {"open file", "pages", "evidence"}, cur'.ocr \in Nat,
         cur' = [id |-> cur'.id, units |-> cur'.units, page |-> cur'.page, ocr |-> cur'.ocr],
         extractStep' # "evidence" =>
           cur'.id \in pending /\ (cur'.ocr = 0 \/ cur'.ocr + extracted <= OcrLimit),
         UNCHANGED <<saved, out, snap, accepted, evidence, metrics, failed, extracted, pending>>
  PROVE  ExtractInv'
<1>1. ExtractTypes'
  BY DEF ExtractInv, ExtractTypes
<1>2. InMemory'
  BY DEF ExtractInv, InMemory, Backed, Counted, Before
<1>3. OnDisk'
  BY DEF ExtractInv, OnDisk, Backed, Counted, Before
<1>4. RowsAccounted'
  BY DEF ExtractInv, RowsAccounted, Before
<1>5. QED BY <1>1, <1>2, <1>3, <1>4 DEF ExtractInv, Worth, Counted

LEMMA TakeKeeps == ASSUME ExtractInv, Extract!Take PROVE ExtractInv'
<1>1. /\ extractStep = "next" /\ pending # {} /\ extractStep' = "open file"
      /\ cur' = [id |-> Extract!Min(pending), units |-> {}, page |-> 0, ocr |-> 0]
      /\ UNCHANGED <<saved, out, snap, accepted, evidence, metrics, failed, extracted, pending>>
  BY DEF Extract!Take, Extract!NoResource
<1>2. Extract!Min(pending) \in pending
  BY <1>1, PendingPicked DEF ExtractInv
<1>3. QED BY <1>1, <1>2, InspectingKeeps

LEMMA OpenFileKeeps == ASSUME ExtractInv, Extract!OpenFile PROVE ExtractInv'
<1>1. /\ extractStep = "open file" /\ extractStep' = "pages"
      /\ UNCHANGED <<saved, out, snap, accepted, evidence, metrics, failed, extracted, pending>>
  BY DEF Extract!OpenFile
<1>2. PICK u : cur' = [cur EXCEPT !.units = u]
  BY DEF Extract!OpenFile
<1>3. cur' = [id |-> cur.id, units |-> u, page |-> cur.page, ocr |-> cur.ocr] /\ cur.ocr \in Nat
  BY <1>2 DEF ExtractInv, ExtractTypes
<1>4. cur.id \in pending /\ (cur.ocr = 0 \/ cur.ocr + extracted <= OcrLimit)
  BY <1>1 DEF ExtractInv, InMemory
<1>5. QED BY <1>1, <1>3, <1>4, InspectingKeeps

LEMMA OcrPageKeeps == ASSUME ExtractInv, Extract!OcrPage PROVE ExtractInv'
<1>1. /\ extractStep = "pages" /\ extractStep' = "pages" /\ Extract!Affordable(cur.ocr)
      /\ UNCHANGED <<saved, out, snap, accepted, evidence, metrics, failed, extracted, pending>>
  BY DEF Extract!OcrPage
<1>2. PICK u : cur' = [cur EXCEPT !.page = @ + 1, !.ocr = @ + 1, !.units = u]
  BY DEF Extract!OcrPage
<1>3. /\ cur' = [id |-> cur.id, units |-> u, page |-> cur.page + 1, ocr |-> cur.ocr + 1]
      /\ cur.ocr \in Nat
  BY <1>2 DEF ExtractInv, ExtractTypes
<1>4. cur.id \in pending
  BY <1>1 DEF ExtractInv, InMemory
<1>5. extracted \in Nat /\ extracted <= OcrLimit
  BY CountedIsNat DEF ExtractInv, InMemory, Counted
<1>6. cur.ocr + 1 + extracted <= OcrLimit
  BY <1>1, <1>3, <1>5, AffordableFits
<1>7. QED BY <1>1, <1>3, <1>4, <1>6, InspectingKeeps

LEMMA SkipPageKeeps == ASSUME ExtractInv, Extract!SkipPage PROVE ExtractInv'
<1>1. /\ extractStep = "pages" /\ extractStep' = "pages"
      /\ cur' = [cur EXCEPT !.page = @ + 1]
      /\ UNCHANGED <<saved, out, snap, accepted, evidence, metrics, failed, extracted, pending>>
  BY DEF Extract!SkipPage
<1>2. /\ cur' = [id |-> cur.id, units |-> cur.units, page |-> cur.page + 1, ocr |-> cur.ocr]
      /\ cur.ocr \in Nat
  BY <1>1 DEF ExtractInv, ExtractTypes
<1>3. cur.id \in pending /\ (cur.ocr = 0 \/ cur.ocr + extracted <= OcrLimit)
  BY <1>1 DEF ExtractInv, InMemory
<1>4. QED BY <1>1, <1>2, <1>3, InspectingKeeps

LEMMA LastCheckpointKeeps == ASSUME ExtractInv, Extract!LastCheckpoint PROVE ExtractInv'
<1>1. /\ extractStep = "next" /\ extractStep' = "evidence"
      /\ UNCHANGED <<saved, out, snap, accepted, evidence, metrics, failed, extracted, pending, cur>>
  BY DEF Extract!LastCheckpoint
<1>2. QED BY <1>1, InspectingKeeps DEF ExtractInv, ExtractTypes

(* Each row of the metrics is new, and its pieces are in the evidence. *)
LEMMA ExtractedKeeps == ASSUME ExtractInv, Extract!Extracted PROVE ExtractInv'
<1> DEFINE row == [id |-> cur.id, file |-> Extract!File(cur.id), units |-> cur.units, ocr |-> cur.ocr]
           new == {u \in cur.units : \A e \in evidence : e.unit # u}
<1>1. /\ extractStep = "pages" /\ extractStep' \in {"evidence", "next"}
      /\ evidence' = evidence \cup {[unit |-> u, under |-> cur.id] : u \in new}
      /\ metrics' = metrics \cup {row} /\ extracted' = extracted + cur.ocr
      /\ pending' = pending \ {cur.id} /\ cur' = Extract!NoResource
      /\ UNCHANGED <<saved, out, snap, accepted, failed>>
  BY DEF Extract!Extracted, Extract!Advance
<1>2. row.id = cur.id /\ row.units = cur.units /\ row.ocr = cur.ocr /\ row.file = FileOf[snap][cur.id]
  BY DEF Extract!File
<1>3. /\ cur.id \in pending /\ cur.ocr \in Nat
      /\ cur.ocr = 0 \/ cur.ocr + extracted <= OcrLimit
      /\ extracted \in Nat /\ extracted <= OcrLimit
      /\ Counted(metrics) /\ extracted = Extract!Recorded(metrics)
  BY <1>1, CountedIsNat DEF ExtractInv, ExtractTypes, InMemory, Counted
<1>4. evidence \subseteq evidence' /\ cur.units \subseteq {e.unit : e \in evidence'}
  <2>1. ASSUME NEW u \in cur.units PROVE \E e \in evidence' : e.unit = u
    <3>1. CASE \E e \in evidence : e.unit = u
      BY <1>1, <3>1
    <3>2. CASE u \in new
      <4>1. [unit |-> u, under |-> cur.id] \in evidence'
        BY <1>1, <3>2
      <4>2. QED BY <4>1
    <3>3. QED BY <2>1, <3>1, <3>2
  <2>2. QED BY <1>1, <2>1
<1> HIDE DEF row, new
<1>5. row \notin metrics
  BY <1>2, <1>3 DEF ExtractInv, InMemory, Extract!Completed
<1>6. Counted(metrics') /\ Extract!Recorded(metrics') = extracted + cur.ocr
  BY <1>1, <1>2, <1>3, <1>5, OneMoreCounted
<1>7. Backed(metrics, evidence, snap)'
  BY <1>1, <1>2, <1>4 DEF ExtractInv, InMemory, Backed
<1>8. Extract!Completed(metrics') = Extract!Completed(metrics) \cup {cur.id}
  BY <1>1, <1>2 DEF Extract!Completed
<1>9. ExtractTypes'
  BY <1>1 DEF ExtractInv, ExtractTypes, Extract!NoResource
<1>10. InMemory'
  <2>1. (pending \cap Extract!Completed(metrics))' = {}
    BY <1>1, <1>8 DEF ExtractInv, InMemory
  <2>2. Counted(metrics)' /\ (extracted = Extract!Recorded(metrics))'
    BY <1>1, <1>6 DEF Counted
  <2>3. QED BY <1>1, <1>7, <2>1, <2>2 DEF InMemory, Before
<1>11. OnDisk'
  BY <1>1 DEF ExtractInv, OnDisk, Backed, Counted, Before
<1>12. RowsAccounted'
  <2>1. Extract!Completed(metrics)' = Extract!Completed(metrics')
    BY DEF Extract!Completed
  <2>2. QED BY <1>1, <1>8, <2>1 DEF ExtractInv, RowsAccounted, Before
<1>13. QED BY <1>1, <1>9, <1>10, <1>11, <1>12 DEF ExtractInv, Worth, Counted

LEMMA ExtractFailsKeeps == ASSUME ExtractInv, Extract!ExtractFails PROVE ExtractInv'
<1>1. /\ extractStep \in {"open file", "pages"} /\ extractStep' \in {"evidence", "next"}
      /\ failed' = failed \cup {cur.id}
      /\ pending' = pending \ {cur.id} /\ cur' = Extract!NoResource
      /\ UNCHANGED <<saved, out, snap, accepted, evidence, metrics, extracted>>
  BY DEF Extract!ExtractFails, Extract!Advance
<1>2. ExtractTypes'
  BY <1>1 DEF ExtractInv, ExtractTypes, Extract!NoResource
<1>3. InMemory'
  <2>1. (pending \cap Extract!Completed(metrics))' = {}
    BY <1>1 DEF ExtractInv, InMemory, Extract!Completed
  <2>2. QED BY <1>1, <2>1 DEF ExtractInv, InMemory, Backed, Counted, Before
<1>4. OnDisk'
  BY <1>1 DEF ExtractInv, OnDisk, Backed, Counted, Before
<1>5. RowsAccounted'
  <2>1. Extract!Completed(metrics)' = Extract!Completed(metrics)
    BY <1>1 DEF Extract!Completed
  <2>2. QED BY <1>1, <2>1 DEF ExtractInv, RowsAccounted, Before
<1>6. QED BY <1>1, <1>2, <1>3, <1>4, <1>5 DEF ExtractInv, Worth, Counted

LEMMA WriteEvidenceKeeps == ASSUME ExtractInv, Extract!WriteEvidence PROVE ExtractInv'
<1>1. /\ extractStep = "evidence" /\ extractStep' = "metrics"
      /\ out' = IF evidence = {} THEN out ELSE [out EXCEPT !.evidence = evidence]
      /\ UNCHANGED <<saved, snap, accepted, evidence, metrics, failed, extracted, pending, cur>>
  BY DEF Extract!WriteEvidence, Extract!FirstTable, Extract!Filed, Extract!memory
<1>2. out' = [manifest |-> out.manifest, snap |-> out.snap,
              evidence |-> IF evidence = {} THEN out.evidence ELSE evidence,
              metrics |-> out.metrics, errors |-> out.errors, torn |-> out.torn]
  BY <1>1 DEF ExtractInv, ExtractTypes
<1>3. ExtractTypes'
  BY <1>1, <1>2 DEF ExtractInv, ExtractTypes
<1>4. InMemory'
  BY <1>1 DEF ExtractInv, InMemory, Backed, Counted, Before
<1>5. OnDisk'
  <2>1. Backed(out.metrics, evidence, snap)
    BY DEF ExtractInv, InMemory, OnDisk, Backed
  <2>2. Backed(out.metrics, out.evidence, snap)'
    BY <1>1, <1>2, <2>1 DEF ExtractInv, OnDisk, Backed
  <2>3. Counted(out.metrics)' /\ out'.metrics \subseteq metrics'
    BY <1>1, <1>2 DEF ExtractInv, OnDisk, Counted
  <2>4. QED BY <1>1, <1>2, <2>2, <2>3 DEF ExtractInv, OnDisk, Before
<1>6. RowsAccounted'
  BY <1>1, <1>2 DEF ExtractInv, RowsAccounted, Before
<1>7. QED BY <1>1, <1>3, <1>4, <1>5, <1>6 DEF ExtractInv, Worth, Counted

LEMMA WriteMetricsKeeps == ASSUME ExtractInv, Extract!WriteMetrics PROVE ExtractInv'
<1>1. /\ extractStep = "metrics" /\ extractStep' = "errors"
      /\ out' = Extract!Measured(Extract!Filed(out))
      /\ UNCHANGED <<saved, snap, accepted, evidence, metrics, failed, extracted, pending, cur>>
  BY DEF Extract!WriteMetrics, Extract!SecondTable, Extract!memory
<1> DEFINE pieces == IF evidence = {} THEN out.evidence ELSE evidence
<1>2. Extract!Filed(out) = [manifest |-> out.manifest, snap |-> out.snap, evidence |-> pieces,
                            metrics |-> out.metrics, errors |-> out.errors, torn |-> out.torn]
  BY DEF ExtractInv, ExtractTypes, Extract!Filed
<1>3. out.metrics \subseteq metrics
  BY DEF ExtractInv, OnDisk
<1>4. out' = [manifest |-> out.manifest, snap |-> out.snap, evidence |-> pieces,
              metrics |-> metrics, errors |-> out.errors, torn |-> out.torn]
  <2> HIDE DEF pieces
  <2>1. CASE metrics = {}
    BY <1>1, <1>2, <1>3, <2>1 DEF Extract!Measured
  <2>2. CASE metrics # {}
    BY <1>1, <1>2, <2>2 DEF Extract!Measured
  <2>3. QED BY <2>1, <2>2
<1>5. ExtractTypes'
  BY <1>1, <1>4 DEF ExtractInv, ExtractTypes
<1>6. InMemory'
  BY <1>1 DEF ExtractInv, InMemory, Backed, Counted, Before
<1>7. OnDisk'
  <2>1. evidence \subseteq out'.evidence
    BY <1>4
  <2>2. Backed(out.metrics, out.evidence, snap)'
    BY <1>1, <1>4, <2>1 DEF ExtractInv, InMemory, Backed
  <2>3. Counted(out.metrics)'
    BY <1>4 DEF ExtractInv, InMemory, Counted
  <2>4. QED BY <1>1, <1>4, <2>2, <2>3 DEF ExtractInv, OnDisk, Before
<1>8. RowsAccounted'
  BY <1>1, <1>4 DEF ExtractInv, RowsAccounted, Before
<1>9. QED BY <1>1, <1>5, <1>6, <1>7, <1>8 DEF ExtractInv, Worth, Counted

LEMMA AppendErrorsKeeps == ASSUME ExtractInv, Extract!AppendErrors PROVE ExtractInv'
<1>1. /\ extractStep = "errors" /\ extractStep' \in {"finish", "next"}
      /\ extractStep' = "finish" => pending = {}
      /\ out' = [out EXCEPT !.errors = @ \cup failed] /\ failed' = {}
      /\ UNCHANGED <<saved, snap, accepted, evidence, metrics, extracted, pending, cur>>
  BY DEF Extract!AppendErrors
<1>2. out' = [manifest |-> out.manifest, snap |-> out.snap, evidence |-> out.evidence,
              metrics |-> out.metrics, errors |-> out.errors \cup failed, torn |-> out.torn]
  BY <1>1 DEF ExtractInv, ExtractTypes
<1>3. ExtractTypes'
  BY <1>1, <1>2 DEF ExtractInv, ExtractTypes
<1>4. InMemory'
  BY <1>1 DEF ExtractInv, InMemory, Backed, Counted, Before
<1>5. OnDisk'
  BY <1>1, <1>2 DEF ExtractInv, OnDisk, Backed, Counted, Before
<1>6. RowsAccounted'
  <2>1. Extract!Completed(metrics)' = Extract!Completed(metrics)
    BY <1>1 DEF Extract!Completed
  <2>2. Extract!Ids \subseteq pending \cup Extract!Completed(metrics) \cup failed \cup out.errors
    BY <1>1 DEF ExtractInv, RowsAccounted, Before
  <2>3. QED BY <1>1, <1>2, <2>1, <2>2 DEF RowsAccounted, Before
<1>7. QED BY <1>1, <1>3, <1>4, <1>5, <1>6 DEF ExtractInv, Worth, Counted

(* A session that finishes has every row measured or among the errors, on disk. *)
LEMMA FinishKeeps == ASSUME ExtractInv, Extract!Finish PROVE ExtractInv'
<1> DEFINE left == [out EXCEPT !.manifest = "COMPLETED"]
<1>1. extractStep = "finish" /\ Extract!Over(left)
  BY DEF Extract!Finish
<1>2. left = [manifest |-> "COMPLETED", snap |-> out.snap, evidence |-> out.evidence,
              metrics |-> out.metrics, errors |-> out.errors, torn |-> out.torn]
  BY DEF ExtractInv, ExtractTypes
<1> HIDE DEF left
<1>3. Extract!Ids \subseteq Extract!Completed(out.metrics) \cup out.errors
  BY <1>1 DEF ExtractInv, OnDisk, RowsAccounted, Before
<1>4. Worth(out)
  BY OutIsWorth
<1>5. Worth(left)
  BY <1>2, <1>3, <1>4 DEF Worth
<1>6. QED BY <1>1, <1>5, SessionOver

LEMMA TornOutput ==
  ASSUME ExtractTypes, NEW t, NEW m, NEW e, NEW r
  PROVE  /\ [out EXCEPT !.torn = t, !.manifest = m] =
              [manifest |-> m, snap |-> out.snap, evidence |-> out.evidence,
               metrics |-> out.metrics, errors |-> out.errors, torn |-> t]
         /\ [out EXCEPT !.torn = t, !.evidence = e] =
              [manifest |-> out.manifest, snap |-> out.snap, evidence |-> e,
               metrics |-> out.metrics, errors |-> out.errors, torn |-> t]
         /\ [out EXCEPT !.torn = t, !.metrics = r] =
              [manifest |-> out.manifest, snap |-> out.snap, evidence |-> out.evidence,
               metrics |-> r, errors |-> out.errors, torn |-> t]
<1>1. out = [manifest |-> out.manifest, snap |-> out.snap, evidence |-> out.evidence,
             metrics |-> out.metrics, errors |-> out.errors, torn |-> out.torn]
  BY DEF ExtractTypes
<1>2. ASSUME NEW o, o = [out EXCEPT !.torn = t, !.manifest = m]
      PROVE  o = [manifest |-> m, snap |-> out.snap, evidence |-> out.evidence,
                  metrics |-> out.metrics, errors |-> out.errors, torn |-> t]
  BY <1>1, <1>2
<1>3. ASSUME NEW o, o = [out EXCEPT !.torn = t, !.evidence = e]
      PROVE  o = [manifest |-> out.manifest, snap |-> out.snap, evidence |-> e,
                  metrics |-> out.metrics, errors |-> out.errors, torn |-> t]
  BY <1>1, <1>3
<1>4. ASSUME NEW o, o = [out EXCEPT !.torn = t, !.metrics = r]
      PROVE  o = [manifest |-> out.manifest, snap |-> out.snap, evidence |-> out.evidence,
                  metrics |-> r, errors |-> out.errors, torn |-> t]
  BY <1>1, <1>4
<1>5. QED BY <1>2, <1>3, <1>4

LEMMA EndSessionKeeps == ASSUME ExtractInv, Extract!EndSession PROVE ExtractInv'
<1>1. Worth(out)
  BY OutIsWorth
<1>2. Worth([out EXCEPT !.torn = {"manifest"}, !.manifest = "none"])
  <2> DEFINE left == [out EXCEPT !.torn = {"manifest"}, !.manifest = "none"]
  <2>1. left = [manifest |-> "none", snap |-> out.snap, evidence |-> out.evidence,
                metrics |-> out.metrics, errors |-> out.errors, torn |-> {"manifest"}]
    BY TornOutput, Zenon DEF ExtractInv
  <2> HIDE DEF left
  <2>2. out.torn = {}
    BY DEF ExtractInv, ExtractTypes
  <2>3. Worth(left)
    BY <1>1, <2>1, <2>2 DEF Worth
  <2>4. QED BY <2>3 DEF left
<1>3. Worth([out EXCEPT !.torn = {"evidence"}, !.evidence = {}])
  <2> DEFINE left == [out EXCEPT !.torn = {"evidence"}, !.evidence = {}]
  <2>1. left = [manifest |-> out.manifest, snap |-> out.snap, evidence |-> {},
                metrics |-> out.metrics, errors |-> out.errors, torn |-> {"evidence"}]
    BY TornOutput, Zenon DEF ExtractInv
  <2> HIDE DEF left
  <2>2. Worth(left)
    BY <1>1, <2>1 DEF Worth
  <2>3. QED BY <2>2 DEF left
<1>4. Worth([out EXCEPT !.torn = {"metrics"}, !.metrics = {}])
  <2> DEFINE left == [out EXCEPT !.torn = {"metrics"}, !.metrics = {}]
  <2>1. left = [manifest |-> out.manifest, snap |-> out.snap, evidence |-> out.evidence,
                metrics |-> {}, errors |-> out.errors, torn |-> {"metrics"}]
    BY TornOutput, Zenon DEF ExtractInv
  <2>2. out.manifest # "COMPLETED"
    BY DEF ExtractInv, ExtractTypes
  <2> HIDE DEF left
  <2>3. Worth(left)
    BY <2>1, <2>2, NothingCounted DEF Worth
  <2>4. QED BY <2>3 DEF left
<1>5. QED BY <1>1, <1>2, <1>3, <1>4, SessionOver DEF Extract!EndSession

LEMMA ExtractStep == ExtractInv /\ [Extract!ExtractNext]_(Extract!extraction) => ExtractInv'
<1> SUFFICES ASSUME ExtractInv, [Extract!ExtractNext]_(Extract!extraction) PROVE ExtractInv'
  OBVIOUS
<1>1. CASE Extract!Validate
  BY <1>1, ValidateKeeps
<1>2. CASE Extract!Resume
  BY <1>2, ResumeKeeps
<1>3. CASE Extract!ResumeRaises
  BY <1>3, ResumeRaisesKeeps
<1>4. CASE Extract!Afresh
  BY <1>4, AfreshKeeps
<1>5. CASE Extract!WriteManifest
  BY <1>5, WriteManifestKeeps
<1>6. CASE Extract!Take
  BY <1>6, TakeKeeps
<1>7. CASE Extract!OpenFile
  BY <1>7, OpenFileKeeps
<1>8. CASE Extract!OcrPage
  BY <1>8, OcrPageKeeps
<1>9. CASE Extract!SkipPage
  BY <1>9, SkipPageKeeps
<1>10. CASE Extract!Extracted
  BY <1>10, ExtractedKeeps
<1>11. CASE Extract!ExtractFails
  BY <1>11, ExtractFailsKeeps
<1>12. CASE Extract!LastCheckpoint
  BY <1>12, LastCheckpointKeeps
<1>13. CASE Extract!WriteEvidence
  BY <1>13, WriteEvidenceKeeps
<1>14. CASE Extract!WriteMetrics
  BY <1>14, WriteMetricsKeeps
<1>15. CASE Extract!AppendErrors
  BY <1>15, AppendErrorsKeeps
<1>16. CASE Extract!Finish
  BY <1>16, FinishKeeps
<1>17. CASE Extract!EndSession
  BY <1>17, EndSessionKeeps
<1>18. CASE UNCHANGED Extract!extraction
  <2>1. UNCHANGED <<saved, out, snap, accepted, extractStep, evidence, metrics, failed, extracted, pending, cur>>
    BY <1>18 DEF Extract!extraction, Extract!memory
  <2>2. ExtractTypes' /\ InMemory'
    BY <2>1 DEF ExtractInv, ExtractTypes, InMemory, Backed, Counted, Extract!Completed
  <2>3. OnDisk' /\ RowsAccounted'
    BY <2>1 DEF ExtractInv, OnDisk, RowsAccounted, Backed, Counted, Extract!Completed
  <2>4. QED BY <2>1, <2>2, <2>3 DEF ExtractInv, Worth, Counted
<1>19. QED
  BY <1>1, <1>2, <1>3, <1>4, <1>5, <1>6, <1>7, <1>8, <1>9, <1>10, <1>11, <1>12, <1>13, <1>14,
     <1>15, <1>16, <1>17, <1>18 DEF Extract!ExtractNext

LEMMA ExtractInvSound == ExtractInv => Extract!ExtractionSound
<1> SUFFICES ASSUME ExtractInv PROVE Extract!ExtractionSound
  OBVIOUS
<1>1. \A o \in Extract!Outputs : Worth(o)
  BY OutIsWorth DEF Extract!Outputs, ExtractInv
<1>2. Extract!MetricsBacked
  BY <1>1 DEF Extract!MetricsBacked, Worth
<1>3. Extract!AllAccounted /\ Extract!OcrWithinLimit
  BY <1>1 DEF Extract!AllAccounted, Extract!OcrWithinLimit, Worth, Counted
<1>4. QED BY <1>2, <1>3 DEF Extract!ExtractionSound

(* Whatever session left an output and wherever it ended, its metrics rest on evidence and
   on the files of its manifest, a completed one accounts for every row, and its OCR pages
   keep the limit (10_extract_and_ocr.py over core.py). *)
THEOREM ExtractionIsSound == Extract!ExtractSpec => []ExtractionSound
BY ExtractInitially, ExtractStep, ExtractInvSound, PTL DEF Extract!ExtractSpec, ExtractionSound
=============================================================================
