--------------------------- MODULE MCAdmissionStore ---------------------------
(* TLC instance of the work that is done in batches on files: machine         *)
(* admission (AdmissionStore, and the Acquisition that comes before it), the  *)
(* Extraction of acquired files and the InputAudit of the working tree.  They *)
(* keep their state in directories of their own, so each is explored from the *)
(* initial states of the others and not in the product of all.               *)
EXTENDS AdmissionStore, Sequences, TLC

CONSTANTS Sources, Pages, PageOf, Size, Chunk, MaxSource, ByteCap, HopCap,
          MaxRedirects, MaxDeaths

VARIABLES manifest, raw, bytes, hops, documents, url, step, entry, hop, total, held,
          received, requests, lost, deaths

acquisition ==
  <<manifest, raw, bytes, hops, documents, url, step, entry, hop, total, held, received,
    requests, lost, deaths>>

Acquire == INSTANCE Acquisition

(* Sources are numbered, each serves one page, and the limits are numbers of bytes. *)
ASSUME AcquisitionAssumption ==
  /\ Sources \subseteq Nat
  /\ PageOf \in [Sources -> Pages] /\ Size \in [Pages -> Nat]
  /\ Chunk \in Nat /\ MaxSource \in Nat /\ ByteCap \in Nat

PageOfSource == <<"p", "q">>
SizeOf == [p |-> 3, q |-> 6]

-----------------------------------------------------------------------------
CONSTANTS Count, Snapshots, FileOf, Digital, Scanned, Unsupported, OcrLimit, Every,
          MaxSessions

VARIABLES saved, out, snap, accepted, extractStep, evidence, metrics, failed, extracted,
          pending, index, cur, sessions

extraction ==
  <<saved, out, snap, accepted, extractStep, evidence, metrics, failed, extracted, pending,
    index, cur, sessions>>

Extract == INSTANCE Extraction WITH step <- extractStep, total <- extracted, todo <- pending

ASSUME ExtractionAssumption == Count \in Nat /\ OcrLimit \in Nat

(* The second snapshot has another file in second place. *)
Files == <<<<"a", "a">>, <<"a", "b">>>>
DigitalPages == [a |-> 1, b |-> 0]
ScannedPages == [a |-> 2, b |-> 0]

-----------------------------------------------------------------------------
CONSTANTS Assets, Tracked, JobOwned, Legacy, Samples, Pins, Decisions, Resolver,
          Manifests, Entries, Roots, At, Want, Digests, Usual, MaxOdd, MaxChanges

VARIABLES disk, custody, at, todo, auditStep, hand, nested, inputs, items, verdict, past,
          changes

auditing ==
  <<disk, custody, at, todo, auditStep, hand, nested, inputs, items, verdict, past, changes>>

Audit == INSTANCE InputAudit WITH step <- auditStep, before <- inputs

(* Paths and locators are numbers, locators apart from manifests; whatever should be  *)
(* there has a digest, and a locator is read under the repository or the anchor.      *)
ASSUME AuditAssumption ==
  /\ Audit!Paths \subseteq Nat \ {0}
  /\ \A m \in Manifests : \A d \in DOMAIN Entries[m] :
       /\ d \in Digests
       /\ Entries[m][d] \subseteq Nat /\ Entries[m][d] \cap Manifests = {}
       /\ Roots[m][d] \subseteq {"repo", "anchor"}
       /\ \A l \in Entries[m][d] : Want[l] \in Digests
  /\ \A p \in Assets \cup Pins : Want[p] \in Digests
  /\ Usual \in Digests /\ Digests \cap {"absent", "none"} = {}

(* Manifest 5 names two locators, safe under either root; edited it is not JSON.  14 is
   no locator map, and edited one whose locator is unsafe. *)
EntriesOf == 5 :> [d |-> {11, 12}] @@ 14 :> [d |-> {}, e |-> {13}]
SafeRoots == 5 :> [d |-> {"repo", "anchor"}] @@ 14 :> [d |-> {"repo"}, e |-> {}]
Located == [repo |-> 11 :> 7 @@ 12 :> 8 @@ 13 :> 7, anchor |-> 11 :> 9 @@ 12 :> 10 @@ 13 :> 9]
WantOf == [p \in {1, 3, 11, 12, 13} |-> "d"]

-----------------------------------------------------------------------------
CONSTANTS Mentions, Documents, LegacyRecords, LegacyAbout, MaxRuns, MaxEvents

VARIABLES sources, plan, status, damaged, initial, stage, pinned, read, records, shown,
          basis, lifted, vouched, runs, events

admitting ==
  <<sources, plan, status, damaged, initial, stage, pinned, read, records, shown, basis,
    lifted, vouched, runs, events>>

Policy == INSTANCE AdmissionPolicy WITH
  Manifests <- Documents, Legacy <- LegacyRecords, About <- LegacyAbout

(* Sources have numbers of their own, and a mention says three things. *)
ASSUME PolicyAssumption ==
  /\ \A m \in Mentions :
       /\ m.plain \in BOOLEAN
       /\ m = [predicate |-> m.predicate, value |-> m.value, plain |-> m.plain]
  /\ \A all \in Documents : \A s \in all :
       /\ s.id \in Int /\ s.mentions \in Seq(Mentions)
       /\ \A t \in all : t.id = s.id => t = s

(* Mentions of two housings, one of them in a line that is not plain, and of the    *)
(* drive: up to two in the first document, which is the maker's, and one of a       *)
(* housing in the second.                                                           *)
MentionsOf ==
  {[predicate |-> "housing_material", value |-> "steel", plain |-> TRUE],
   [predicate |-> "housing_material", value |-> "steel", plain |-> FALSE],
   [predicate |-> "housing_material", value |-> "aluminum", plain |-> TRUE],
   [predicate |-> "drive_components", value |-> "gears", plain |-> TRUE]}
Texts == {<<>>} \cup {<<m>> : m \in Mentions} \cup {p \in Mentions \X Mentions : p[1] # p[2]}
DocumentSets ==
  {{[id |-> 1, scope |-> "m1", kind |-> "oem", mentions |-> t],
    [id |-> 2, scope |-> o[1], kind |-> o[2], mentions |-> u]} :
   t \in Texts, u \in {<<>>} \cup {<<m>> : m \in {n \in Mentions : n.predicate = "housing_material"}},
   o \in {<<"m1", "oem">>, <<"m1", "other">>, <<"m1", "pdf">>, <<"m2", "oem">>}}
LegacyAboutOf ==
  [l1 |-> [aliases |-> {<<"m1", "drive_components", "gears">>}, predicate |-> "none", subject |-> "none"],
   l2 |-> [aliases |-> {}, predicate |-> "housing_material", subject |-> "chain hoist"]]

-----------------------------------------------------------------------------
(* Processes are alike, and so are pins that may be swapped in every key. *)
StoreSymmetry ==
  Permutations(Workers)
  \cup {p \in Permutations(Deps) : \A k \in Keys : {p[d] : d \in k} \in Keys}

(* The audit has not begun, which is its initial state. *)
Waiting == auditStep = "start"

MCInit == Init /\ Acquire!Init /\ Extract!ExtractInit /\ Audit!AuditInit /\ Policy!PolicyInit
MCSpec ==
  /\ MCInit
  /\ [][\/ /\ Acquire!Init /\ Extract!ExtractInit /\ Waiting /\ Policy!PolicyInit
           /\ Next
           /\ UNCHANGED <<acquisition, extraction, auditing, admitting>>
        \/ /\ Init /\ Extract!ExtractInit /\ Waiting /\ Policy!PolicyInit
           /\ Acquire!Next
           /\ UNCHANGED <<vars, extraction, auditing, admitting>>
        \/ /\ Init /\ Acquire!Init /\ Waiting /\ Policy!PolicyInit
           /\ Extract!ExtractNext
           /\ UNCHANGED <<vars, acquisition, auditing, admitting>>
        \/ /\ Init /\ Acquire!Init /\ Extract!ExtractInit /\ Policy!PolicyInit
           /\ Audit!AuditNext
           /\ UNCHANGED <<vars, acquisition, extraction, admitting>>
        \/ /\ Init /\ Acquire!Init /\ Extract!ExtractInit /\ Waiting
           /\ Policy!PolicyNext
           /\ UNCHANGED <<vars, acquisition, extraction, auditing>>
     ]_<<vars, acquisition, extraction, auditing, admitting>>

(* A FETCHED source has its whole page on disk, at most two fetches of a url  *)
(* go out, and the byte budget covers every byte read (see Acquisition); and  *)
(* what is admitted from such pages is supported, uncontested and not held    *)
(* (see AdmissionPolicy).                                                     *)
AdmittedSound == Acquire!FetchedHasBytes /\ Acquire!BudgetKept /\ Policy!PolicySound

(* What an extraction reports is what it wrote, every resource is accounted   *)
(* for, and its recorded OCR pages keep to the limit: see Extraction.         *)
ExtractionSound == Extract!ExtractionSound

(* A strict audit that passes is right although the tree changes under it,    *)
(* and an undisturbed one reports what is there: see InputAudit.              *)
AuditSound == Audit!AuditSound
=============================================================================
