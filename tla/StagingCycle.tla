---------------------------- MODULE StagingCycle ----------------------------
(* The staging rehearsal of kf_pilot/v161_staging: harness.run_cycle drives a
   GuardedAdapter over NotionStagingTransport.  It snapshots the pages of the
   plan, applies the plan, proves it applied, applies it a second time, and in a
   `finally` puts every page back.  People edit the same pages at any time; a
   request may be refused, lose its answer, or be carried out only later.
   A page's four system properties are one value: "before" what the fixture
   holds, "planned" what the plan writes, "other" whatever a person may type. *)
EXTENDS Integers, FiniteSets

CONSTANTS N,          \* records of the plan, in order
          MaxEdits    \* bound: edits by people in one behaviour
ASSUME CycleAssumption == N \in Nat \ {0} /\ MaxEdits \in Nat

Pages  == 1..N
Values == {"before", "planned", "other"}
Images == [system : Values, human : BOOLEAN]
None   == [system |-> "none", human |-> FALSE]

VARIABLES
  page,      \* Notion's pages: system properties, human properties, archived or not
  image,     \* before: the snapshot of each page, None until it is read
  snapshot,  \* plan, before-images and rollback plan are on disk and armed
  apply,     \* staging_apply_report.json: "none", "PASS", "FAILED" or "torn"
  rollback,  \* staging_rollback_report.json: "none", "PASS" or "FAILED"
  pc, turn,  \* the step of run_cycle and the page it is at
  attempted, \* pages 1..attempted were attempted
  got,       \* what the last read of a write in the rollback returned
  clean,     \* rollback_ok and no conflicts
  flight,    \* patches whose answer is lost and that are carried out later
  edited,    \* pages changed by another hand since this process last read them
  edits      \* number of edits by people

cycle == <<page, image, snapshot, apply, rollback, pc, turn, attempted, got, clean,
          flight, edited, edits>>
files == <<snapshot, apply, rollback>>
world == <<page, flight, edits>>

Steps == {"preflight", "snapshot", "dump", "check", "patch", "readback", "second",
          "reread", "report", "undo", "recheck", "unpatch", "verify", "close",
          "returned", "raised", "refused", "dead"}
Ended == {"returned", "raised", "refused", "dead"}

CycleTypeOK ==
  /\ page \in [Pages -> [system : Values, human : BOOLEAN, archived : BOOLEAN]]
  /\ image \in [Pages -> Images \cup {None}]
  /\ snapshot \in BOOLEAN
  /\ apply \in {"none", "PASS", "FAILED", "torn"}
  /\ rollback \in {"none", "PASS", "FAILED"}
  /\ pc \in Steps /\ turn \in 0..N /\ attempted \in 0..N
  /\ got \in Values /\ clean \in BOOLEAN
  /\ flight \subseteq Pages \X Values
  /\ edited \subseteq Pages
  /\ edits \in 0..MaxEdits

CycleInit ==
  /\ page \in [Pages -> [system : {"before", "planned"}, human : {FALSE}, archived : {FALSE}]]
  /\ image = [p \in Pages |-> None]
  /\ snapshot = FALSE /\ apply = "none" /\ rollback = "none"
  /\ pc = "preflight" /\ turn = 1 /\ attempted = 0
  /\ got = "before" /\ clean = TRUE
  /\ flight = {} /\ edited = {} /\ edits = 0

(* GuardedAdapter.read of page `turn`: the page as it is, unless the request fails or
   the page is archived or moved, which raises. *)
Seen(p)    == [system |-> page[p].system, human |-> page[p].human]
Readable   == ~page[turn].archived
ReadDone   == edited' = edited \ {turn}

(* From one page to the next, and past the last one to step `after`. *)
Forward(after) ==
  IF turn < N THEN turn' = turn + 1 /\ UNCHANGED pc ELSE turn' = 1 /\ pc' = after

(* An exception inside the try: the finally starts with the last page attempted. *)
Abandon(k) == IF k = 0 THEN pc' = "verify" /\ turn' = 1 ELSE pc' = "undo" /\ turn' = k

-----------------------------------------------------------------------------
(* Before the try: an exception leaves run_cycle with nothing written. *)

Refuse ==
  /\ pc \in {"preflight", "snapshot", "dump"}
  /\ pc' = "refused"
  /\ UNCHANGED <<image, turn, attempted, got, clean, edited, files, world>>

Preflight ==
  /\ pc = "preflight" /\ Readable
  /\ ReadDone /\ Forward("snapshot")
  /\ UNCHANGED <<image, attempted, got, clean, files, world>>

Snapshot ==
  /\ pc = "snapshot" /\ Readable
  /\ image' = [image EXCEPT ![turn] = Seen(turn)]
  /\ ReadDone /\ Forward("dump")
  /\ UNCHANGED <<attempted, got, clean, files, world>>

(* Three files, each flushed, then arm_from_snapshot reads them back. *)
Dump ==
  /\ pc = "dump"
  /\ snapshot' = TRUE
  /\ pc' = "check" /\ turn' = 1
  /\ UNCHANGED <<image, attempted, got, clean, edited, apply, rollback, world>>

-----------------------------------------------------------------------------
(* A patch of page `turn`: carried out and answered, refused, carried out with its
   answer lost, or lost and carried out later. *)

Patched(v)   == page' = [page EXCEPT ![turn].system = v] /\ UNCHANGED flight
Unanswered(v) ==
  \/ UNCHANGED <<page, flight>>
  \/ Patched(v)
  \/ UNCHANGED page /\ flight' = flight \cup {<<turn, v>>}

(* write(): may the page, seen as `current`, be patched where `expected` was read before? *)
UnchangedDropped(current, expected) == TRUE
Unchanged(current, expected) == current = expected

(* write() in the first pass: read, compare with the snapshot, patch if it differs. *)
Check ==
  /\ pc = "check" /\ Readable
  /\ Unchanged(page[turn].system, image[turn].system)
  /\ attempted' = turn
  /\ ReadDone
  /\ IF page[turn].system = "planned"
     THEN Forward("readback")
     ELSE pc' = "patch" /\ UNCHANGED turn
  /\ UNCHANGED <<image, got, clean, files, world>>

CheckFails ==
  /\ pc = "check"
  /\ attempted' = turn
  /\ pc' = "undo" /\ UNCHANGED turn
  /\ UNCHANGED <<image, got, clean, edited, files, world>>

Patch ==
  /\ pc = "patch"
  /\ Patched("planned")
  /\ edited' = edited \ {turn}
  /\ IF turn < N THEN turn' = turn + 1 /\ pc' = "check" ELSE turn' = 1 /\ pc' = "readback"
  /\ UNCHANGED <<image, attempted, got, clean, files, edits>>

PatchFails ==
  /\ pc = "patch"
  /\ Unanswered("planned")
  /\ pc' = "undo"
  /\ UNCHANGED <<image, turn, attempted, got, clean, edited, files, edits>>

(* The readback, the second pass (whose writes find nothing to do) and the second
   readback compare every page with the plan, the readbacks human fields too. *)
Confirm ==
  /\ pc \in {"readback", "second", "reread"} /\ Readable
  /\ page[turn].system = "planned"
  /\ pc # "second" => page[turn].human = image[turn].human
  /\ ReadDone
  /\ Forward(CASE pc = "readback" -> "second" [] pc = "second" -> "reread" [] OTHER -> "report")
  /\ UNCHANGED <<image, attempted, got, clean, files, world>>

ConfirmFails ==
  /\ pc \in {"readback", "second", "reread"}
  /\ Abandon(attempted)
  /\ UNCHANGED <<image, attempted, got, clean, edited, files, world>>

Report ==
  /\ pc = "report"
  /\ apply' \in {"PASS", "none", "torn"}
  /\ Abandon(attempted)
  /\ UNCHANGED <<image, snapshot, rollback, attempted, got, clean, edited, world>>

-----------------------------------------------------------------------------
(* The finally: attempted pages in reverse. *)

NextUndo == IF turn > 1 THEN turn' = turn - 1 /\ pc' = "undo" ELSE turn' = 1 /\ pc' = "verify"

(* A page that holds neither its snapshot nor the plan's value is left alone. *)
Undo ==
  /\ pc = "undo" /\ Readable
  /\ page[turn].system \in {image[turn].system, "planned"}
  /\ got' = page[turn].system
  /\ ReadDone
  /\ pc' = "recheck"
  /\ UNCHANGED <<image, turn, attempted, clean, files, world>>

(* write(rollback=True) reads again and compares with what Undo read. *)
Recheck ==
  /\ pc = "recheck" /\ Readable
  /\ Unchanged(page[turn].system, got)
  /\ ReadDone
  /\ IF page[turn].system = image[turn].system
     THEN NextUndo
     ELSE pc' = "unpatch" /\ UNCHANGED turn
  /\ UNCHANGED <<image, attempted, got, clean, files, world>>

Unpatch ==
  /\ pc = "unpatch"
  /\ Patched(image[turn].system)
  /\ edited' = edited \ {turn}
  /\ NextUndo
  /\ UNCHANGED <<image, attempted, got, clean, files, edits>>

(* Any exception at a page is a conflict, and the next page is undone all the same. *)
ConflictIgnored == UNCHANGED clean
Conflicted == clean' = FALSE
Conflict ==
  /\ pc \in {"undo", "recheck", "unpatch"}
  /\ IF pc = "unpatch" THEN Unanswered(image[turn].system) ELSE UNCHANGED <<page, flight>>
  /\ Conflicted
  /\ NextUndo
  /\ UNCHANGED <<image, attempted, got, edited, files, edits>>

Verify ==
  /\ pc = "verify" /\ Readable
  /\ clean' = (clean /\ page[turn].system = image[turn].system)
  /\ ReadDone /\ Forward("close")
  /\ UNCHANGED <<image, attempted, got, files, world>>

VerifyFails ==
  /\ pc = "verify"
  /\ clean' = FALSE
  /\ Forward("close")
  /\ UNCHANGED <<image, attempted, got, edited, files, world>>

(* The rollback report, the FAILED apply report where there is none, and the end. *)
Close ==
  /\ pc = "close"
  /\ rollback' = IF clean THEN "PASS" ELSE "FAILED"
  /\ apply' = IF apply = "none" THEN "FAILED" ELSE apply
  /\ pc' = IF clean /\ apply = "PASS" THEN "returned" ELSE "raised"
  /\ UNCHANGED <<image, snapshot, turn, attempted, got, clean, edited, world>>

-----------------------------------------------------------------------------
CycleDies ==
  /\ pc \notin Ended
  /\ pc' = "dead"
  /\ UNCHANGED <<image, turn, attempted, got, clean, edited, files, world>>

(* A person types into a system property, writes a note, or archives the page. *)
Edit(p) ==
  /\ edits < MaxEdits
  /\ \/ \E v \in Values \ {page[p].system} : page' = [page EXCEPT ![p].system = v]
     \/ page' = [page EXCEPT ![p].human = ~@]
     \/ page' = [page EXCEPT ![p].archived = ~@]
  /\ edits' = edits + 1
  /\ edited' = edited \cup {p}
  /\ UNCHANGED <<image, pc, turn, attempted, got, clean, flight, files>>

Land ==
  \E f \in flight :
    /\ page' = [page EXCEPT ![f[1]].system = f[2]]
    /\ flight' = flight \ {f}
    /\ edited' = edited \cup {f[1]}
    /\ UNCHANGED <<image, pc, turn, attempted, got, clean, files, edits>>

CycleNext ==
  \/ Refuse \/ Preflight \/ Snapshot \/ Dump
  \/ Check \/ CheckFails \/ Patch \/ PatchFails
  \/ Confirm \/ ConfirmFails \/ Report
  \/ Undo \/ Recheck \/ Unpatch \/ Conflict \/ Verify \/ VerifyFails \/ Close
  \/ CycleDies \/ Land
  \/ \E p \in Pages : Edit(p)

CycleSpec == CycleInit /\ [][CycleNext]_cycle

-----------------------------------------------------------------------------
(* What a patch replaces is what the snapshot on disk holds or what the plan itself
   wrote, unless a person edited the page in the moment between the read and the
   patch; and no patch leaves before the snapshot can be recovered from disk
   (harness.py write, "stop without overwrite"; run_cycle, "must be durable before
   first PATCH"). *)
Overwrites ==
  \A p \in Pages :
    (pc \in {"patch", "unpatch"} /\ turn = p /\ page'[p].system # page[p].system /\ UNCHANGED edits)
      => /\ snapshot
         /\ p \in edited \/ page[p].system \in {image[p].system, "planned"}
NoEditLost == [][Overwrites]_cycle

(* A rollback report PASS is true of every page that nobody else has touched since it
   was read for it, and a cycle that returns PASS leaves no patch on its way that
   could undo the restoration later (harness.py run_cycle, the finally and its
   return value). *)
PassRestored ==
  /\ rollback = "PASS" => \A p \in Pages : p \in edited \/ page[p].system = image[p].system
  /\ pc = "returned" => apply = "PASS" /\ rollback = "PASS" /\ flight = {}
=============================================================================
