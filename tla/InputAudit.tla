------------------------------ MODULE InputAudit ------------------------------
(* The input audit of job J1: an inventory of the working tree against the
   manifest of migrated assets, the catalogue of runtime paths and the nested
   locator manifests.  Every look at a listed file (is it there, its bytes, its size)
   is a step of its own, and somebody else may change the tree between two; only the
   root of a manifest's locators is chosen in one step.  Paths are numbers, in the
   order the lists give them; a file's bytes are its digest, and a locator is a name
   together with the digest its manifest expects. *)
EXTENDS Integers, FiniteSets, Sequences, FiniteSetsExt

CONSTANTS Assets, Tracked, JobOwned,       \* destination GITHUB; git ls-files; J1's own files
          Legacy, Samples, Pins, Decisions, Resolver,  \* the runtime catalogue
          Manifests,    \* nested manifests
          Entries,      \* manifest -> a digest of it that is JSON -> the locators it maps
          Roots,        \* the same -> the roots under which every locator is safe
          At,           \* root -> locator -> path
          Want,         \* expected digest: of assets and pins by path, of locators by locator
          Digests,
          Usual,        \* the digest most files have
          MaxOdd,       \* bound: files that are absent or have another, at the start
          MaxChanges    \* bound: changes to the tree during one audit

Locators(m) == UNION {Entries[m][d] : d \in DOMAIN Entries[m]}

Paths == Assets \cup Legacy \cup Samples \cup Pins \cup Decisions \cup Resolver \cup Manifests
         \cup UNION {{At[r][l] : l \in Locators(m)} : m \in Manifests, r \in {"repo", "anchor"}}

(* The lists of main and build_report, in their order. *)
Lists == <<"before", "assets", "legacy", "samples", "pins", "decisions", "nested", "resolver", "after">>

PathsOf(list) ==
  CASE list \in {"before", "samples"} -> Samples [] list = "assets" -> Assets
    [] list = "legacy" -> Legacy [] list = "pins" -> Pins [] list = "decisions" -> Decisions
    [] list = "nested" -> Manifests [] list = "resolver" -> Resolver [] OTHER -> {}

VARIABLES
  disk,     \* the tree
  custody,  \* does the manifest name assets in external custody?
  at,       \* position in Lists
  todo,     \* paths or locators of the list still to be visited
  step,
  hand,     \* what is being looked at, and what was seen of it
  nested,   \* the nested manifest in hand, its locators and the root they are read under
  before,   \* digests of the sample inputs at the start
  items,    \* inventory
  verdict,  \* how the audit ended
  past,     \* history: contents each path has had since it began
  changes

audit == <<disk, custody, at, todo, step, hand, nested, before, items, verdict, past, changes>>

Missing == {"MISSING", "MISSING_EXTERNAL", "UNSAFE_LOCATOR", "BLOCKED_INPUT"}
StrictFail == Missing \cup {"HASH_MISMATCH"}

Unseen == [path |-> 0, name |-> 0, looks |-> 0, exists |-> FALSE, first |-> "absent", actual |-> "absent"]
NoManifest == [path |-> 0, locators |-> {}, roots |-> {}, root |-> "repo"]
There(p) == disk[p] # "absent"

AuditInit ==
  /\ disk = [p \in Paths |-> "absent"] /\ custody = FALSE
  /\ at = 1 /\ todo = {} /\ step = "start" /\ hand = Unseen /\ nested = NoManifest
  /\ before = {} /\ items = {} /\ verdict = "none"
  /\ past = [p \in Paths |-> {disk[p]}] /\ changes = 0

List == Lists[at]
Expected(h) == IF List \in {"assets", "pins"} THEN Want[h.path]
               ELSE IF List = "nested" /\ nested # NoManifest THEN Want[h.name] ELSE "none"
Absent == IF List \in {"pins", "decisions"} THEN "MISSING_EXTERNAL" ELSE "MISSING"

StatusUnmatched(exists, actual, want, absent) ==
  CASE ~ exists -> absent [] want = "none" -> "PRESENT" [] OTHER -> "HASH_VERIFIED"

(* file_status *)
StatusOf(exists, actual, want, absent) ==
  CASE ~ exists -> absent
    [] exists /\ want = "none" -> "PRESENT"
    [] exists /\ want # "none" -> IF actual = want THEN "HASH_VERIFIED" ELSE "HASH_MISMATCH"

Item(p, name, status, actual) ==
  [path |-> p, name |-> name, list |-> List, status |-> status, actual |-> actual]

Keep(i) == items' = items \cup {i}
Tree == UNCHANGED <<disk, custody, past, changes>>

(* FileNotFoundError, a SystemExit: nothing is reported. *)
Ends(how) ==
  /\ verdict' = how /\ step' = "ended" /\ Tree
  /\ UNCHANGED <<at, todo, hand, nested, before, items>>

Following == step' = "pick" /\ hand' = Unseen

-----------------------------------------------------------------------------
(* The audit is run on some tree, and the manifest says where its assets are. *)
Start ==
  /\ step = "start"
  /\ \E odd \in {s \in SUBSET Paths : Cardinality(s) <= MaxOdd} :
       \E o \in [odd -> (Digests \cup {"absent"}) \ {Usual}] :
         disk' = [p \in Paths |-> IF p \in odd THEN o[p] ELSE Usual]
  /\ custody' \in BOOLEAN
  /\ past' = [p \in Paths |-> {disk'[p]}]
  /\ todo' = PathsOf("before") /\ step' = "pick"
  /\ UNCHANGED <<at, hand, nested, before, items, verdict, changes>>

Pick ==
  /\ step = "pick" /\ todo # {} /\ (List = "nested" => nested # NoManifest)
  /\ LET n == Min(todo)
     IN /\ hand' = [Unseen EXCEPT !.name = n,
                                  !.path = IF List = "nested" THEN At[nested.root][n] ELSE n]
        /\ todo' = todo \ {n}
  /\ step' = "look"
  /\ Tree /\ UNCHANGED <<at, nested, before, items, verdict>>

(* Pins, the decisions and the resolver are looked at three times: once for their
   presence and twice for their digest. *)
Thrice == List \in {"pins", "decisions", "resolver"}

(* is_file: of what is absent there is nothing to read. *)
Look ==
  /\ step = "look"
  /\ IF Thrice
     THEN /\ hand' = IF hand.looks = 0 THEN [hand EXCEPT !.looks = 1, !.exists = There(hand.path)]
                     ELSE IF There(hand.path) THEN hand ELSE [hand EXCEPT !.looks = @ + 1]
          /\ step' = IF hand.looks > 0 /\ There(hand.path) THEN "read"
                     ELSE IF hand.looks = 2 THEN "file" ELSE "look"
     ELSE /\ hand' = [hand EXCEPT !.exists = There(hand.path)]
          /\ step' = IF There(hand.path) THEN "read" ELSE "file"
  /\ Tree /\ UNCHANGED <<at, todo, nested, before, items, verdict>>

Read ==
  /\ step = "read" /\ There(hand.path)
  /\ IF Thrice
     THEN /\ hand' = IF hand.looks = 1 THEN [hand EXCEPT !.looks = 2, !.first = disk[hand.path]]
                     ELSE [hand EXCEPT !.looks = 3, !.actual = disk[hand.path]]
          /\ step' = IF hand.looks = 1 THEN "look" ELSE "file"
     ELSE /\ hand' = [hand EXCEPT !.first = disk[hand.path], !.actual = disk[hand.path]]
          /\ step' = IF List = "before" THEN "file" ELSE "stat"
  /\ Tree /\ UNCHANGED <<at, todo, nested, before, items, verdict>>

Stat ==
  /\ step = "stat" /\ There(hand.path)
  /\ step' = "file"
  /\ Tree /\ UNCHANGED <<at, todo, hand, nested, before, items, verdict>>

(* The file went between two looks. *)
Vanished ==
  /\ step \in {"read", "stat", "open", "measure"} /\ ~ There(hand.path)
  /\ Ends("raised")

(* record: the status comes from the first reading, the digest from the last. *)
File ==
  /\ step = "file"
  /\ IF List = "before"
     THEN /\ before' = IF hand.exists THEN before \cup {<<hand.path, hand.actual>>} ELSE before
          /\ UNCHANGED items
     ELSE /\ Keep(Item(hand.path, hand.name,
                       StatusOf(hand.exists, hand.first, Expected(hand), Absent), hand.actual))
          /\ UNCHANGED before
  /\ Following
  /\ Tree /\ UNCHANGED <<at, todo, nested, verdict>>

-----------------------------------------------------------------------------
(* audit_nested_manifests and check_locators *)

OpenManifest ==
  LET m == Min(todo)
  IN /\ step = "pick" /\ List = "nested" /\ todo # {} /\ nested = NoManifest
     /\ hand' = [Unseen EXCEPT !.path = m, !.name = m]
     /\ todo' = todo \ {m}
     /\ step' = IF There(m) THEN "open" ELSE "again"
     /\ Tree /\ UNCHANGED <<at, nested, before, items, verdict>>

(* It was not there; it is looked for once more, and one that has come meanwhile is
   passed over without an item. *)
LookAgain ==
  /\ step = "again"
  /\ IF There(hand.path) THEN UNCHANGED items
     ELSE Keep(Item(hand.path, hand.name, "MISSING", "absent"))
  /\ Following
  /\ Tree /\ UNCHANGED <<at, todo, nested, before, verdict>>

IsJson(m) == disk[m] \in DOMAIN Entries[m]

ReadManifest ==
  LET m == hand.path
      d == disk[m]
  IN /\ step = "open" /\ IsJson(m)
     /\ \/ /\ Entries[m][d] = {}
           /\ step' = "measure" /\ UNCHANGED <<hand, nested, items>>
        \/ /\ Entries[m][d] # {} /\ Roots[m][d] = {}
           /\ items' = items \cup {Item(m, l, "UNSAFE_LOCATOR", "absent") : l \in Entries[m][d]}
           /\ Following /\ UNCHANGED nested
        \/ /\ Entries[m][d] # {} /\ Roots[m][d] # {}
           /\ nested' = [path |-> m, locators |-> Entries[m][d], roots |-> Roots[m][d], root |-> "repo"]
           /\ step' = "root" /\ hand' = Unseen /\ UNCHANGED items
     /\ Tree /\ UNCHANGED <<at, todo, before, verdict>>

(* json.loads, or the decoding before it. *)
Garbled ==
  /\ step = "open" /\ There(hand.path) /\ ~ IsJson(hand.path)
  /\ Ends("raised")

(* One that maps no locators is read again for its digest. *)
Measure ==
  /\ step = "measure" /\ There(hand.path)
  /\ Keep(Item(hand.path, hand.name, "NOT_LOCATOR_MAP", disk[hand.path]))
  /\ Following
  /\ Tree /\ UNCHANGED <<at, todo, nested, before, verdict>>

Found(r) == {l \in nested.locators : There(At[r][l])}

(* The root under which most locators are files, the repository before the anchor. *)
BestRoot(roots) ==
  IF \/ "anchor" \notin roots
     \/ "repo" \in roots /\ Cardinality(Found("repo")) >= Cardinality(Found("anchor"))
  THEN "repo" ELSE "anchor"

ChooseRoot ==
  /\ step = "root"
  /\ nested' = [nested EXCEPT !.root = BestRoot(nested.roots)]
  /\ todo' = nested.locators
  /\ step' = "pick"
  /\ Tree /\ UNCHANGED <<at, hand, before, items, verdict>>

(* The locators are through: the manifests after this one. *)
CloseManifest ==
  /\ step = "pick" /\ nested # NoManifest /\ todo = {}
  /\ todo' = {m \in Manifests : m > nested.path}
  /\ nested' = NoManifest
  /\ Tree /\ UNCHANGED <<at, step, hand, before, items, verdict>>

-----------------------------------------------------------------------------
(* Assets git does not track, and tracked files the manifest does not name; an asset
   in external custody is missing here by design. *)
Drift ==
  {Item(p, p, "EXTRA_IN_MANIFEST", "absent") : p \in (Assets \ Tracked) \ JobOwned}
  \cup {Item(p, p, "TRACKED_NOT_IN_MANIFEST", "absent") : p \in (Tracked \ Assets) \ JobOwned}
  \cup (IF custody THEN {Item(0, 0, "MISSING_EXTERNAL", "absent")} ELSE {})

(* The manifest of the assets, or the list of git, cannot be had. *)
Unlisted ==
  /\ step = "pick" /\ todo = {} /\ List = "before"
  /\ Ends("raised")

NextList ==
  /\ step = "pick" /\ todo = {} /\ nested = NoManifest /\ List # "after"
  /\ at' = at + 1
  /\ todo' = IF Lists[at + 1] = "after" THEN {b[1] : b \in before} ELSE PathsOf(Lists[at + 1])
  /\ items' = IF List = "assets" THEN items \cup Drift ELSE items
  /\ step' = IF Lists[at + 1] = "after" THEN "compare" ELSE "pick"
  /\ Tree /\ UNCHANGED <<hand, nested, before, verdict>>

Compare ==
  LET p == Min(todo)
  IN /\ step = "compare" /\ todo # {} /\ <<p, disk[p]>> \in before
     /\ todo' = todo \ {p}
     /\ Tree /\ UNCHANGED <<at, step, hand, nested, before, items, verdict>>

(* "J1 mutated input", or the input is gone. *)
Mutated ==
  /\ step = "compare" /\ todo # {} /\ <<Min(todo), disk[Min(todo)]>> \notin before
  /\ Ends("raised")

StrictExit == IF \E i \in items : i.status \in StrictFail THEN "fail" ELSE "clean"

(* The report goes to a path J1 owns, to /tmp or to standard output; otherwise the
   audit was for nothing. *)
Deliver ==
  /\ step = "compare" /\ todo = {}
  /\ \/ Ends(StrictExit)
     \/ Ends("refused")

Change(p) ==
  /\ step \notin {"start", "ended"} /\ changes < MaxChanges
  /\ \E c \in (Digests \cup {"absent"}) \ {disk[p]} :
       /\ disk' = [disk EXCEPT ![p] = c]
       /\ past' = [past EXCEPT ![p] = @ \cup {c}]
  /\ changes' = changes + 1
  /\ UNCHANGED <<custody, at, todo, step, hand, nested, before, items, verdict>>

AuditNext ==
  \/ Start \/ Pick \/ Look \/ Read \/ Stat \/ Vanished \/ File
  \/ OpenManifest \/ LookAgain \/ ReadManifest \/ Garbled \/ Measure
  \/ ChooseRoot \/ CloseManifest
  \/ Unlisted \/ NextList \/ Compare \/ Mutated \/ Deliver
  \/ \E p \in Paths : Change(p)

AuditSpec == AuditInit /\ [][AuditNext]_audit

-----------------------------------------------------------------------------
(* Some bytes the manifest had map no locators, or all they map were there under one
   root with the expected bytes. *)
Followed(m) ==
  \E d \in past[m] \cap DOMAIN Entries[m] :
     \/ Entries[m][d] = {}
     \/ \E r \in Roots[m][d] : \A l \in Entries[m][d] : Want[l] \in past[At[r][l]]

(* A strict audit that passes is right about each path, whatever is changed while it
   runs: every expected file was there at some time with the expected bytes, every
   other one of the catalogue was there, and the nested manifests were followed.  Only
   a manifest that is absent at the first look and there at the second (lines 474 and
   475) is never opened, so nothing is promised of one that was ever absent. *)
StrictSound ==
  verdict = "clean" =>
    /\ ~ custody
    /\ \A p \in Assets \cup Pins : Want[p] \in past[p]
    /\ \A p \in Legacy \cup Samples \cup Decisions \cup Resolver \cup Manifests : past[p] # {"absent"}
    /\ \A m \in Manifests : "absent" \in past[m] \/ Followed(m)

Catalogue == Assets \cup Legacy \cup Samples \cup Pins \cup Decisions \cup Resolver
Expectation(i) ==
  IF \/ i.list = "nested" /\ i.name \notin Manifests
     \/ i.list \in {"assets", "pins"}
  THEN Want[i.name] ELSE "none"

(* An audit nobody disturbs files of each path what is on the disk, and in the end has
   filed every path of the catalogue: two audits of one tree agree. *)
QuietExact ==
  changes = 0 =>
    /\ verdict \in {"clean", "fail"} => Catalogue \subseteq {i.path : i \in items}
    /\ \A i \in items :
         /\ i.status = "HASH_VERIFIED" <=> i.path # 0 /\ i.actual # "absent" /\ i.actual = Expectation(i)
         /\ i.status \in {"PRESENT", "HASH_VERIFIED", "HASH_MISMATCH"} => i.actual = disk[i.path]
         /\ i.path \in Catalogue /\ i.status \in Missing \ {"UNSAFE_LOCATOR"} => disk[i.path] = "absent"

(* An audit nobody disturbs raises only for want of the lists it starts from, or at a
   nested manifest that is not JSON. *)
QuietEnds ==
  verdict = "raised" /\ changes = 0 =>
    \/ List = "before"
    \/ List = "nested" /\ \E m \in Manifests : There(m) /\ ~ IsJson(m)

AuditSound == StrictSound /\ QuietExact /\ QuietEnds
=============================================================================
