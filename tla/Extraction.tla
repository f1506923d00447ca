------------------------------ MODULE Extraction ------------------------------
(* The extraction notebook (10_extract_and_ocr) over kf_pilot.core: sessions that
   validate the manifest, take up what an earlier session left, extract the
   resources in the order of the manifest, OCR the scanned pages within a budget,
   and checkpoint.  A session has an output directory of its own and may be ended
   at any point; whoever starts the next keeps its output, or an older one, to
   resume from.  Tables are written in place, so an end inside a write tears one.
   A piece of text stands for its evidence id: file, kind and number. *)
EXTENDS Integers, FiniteSets, FiniteSetsExt

CONSTANTS Count,       \* rows of the manifest
          Snapshots,   \* manifests an input may have
          FileOf,      \* the file a snapshot names for a resource
          Digital, Scanned,  \* pages of a file with and without a text layer
          Unsupported, \* files whose type or length the extractors refuse
          OcrLimit,    \* config ocr_page_limit
          Every,       \* checkpoint_every
          MaxSessions  \* bound: sessions

Ids == 1..Count

Blank == [manifest |-> "none", snap |-> 0, evidence |-> {}, metrics |-> {}, errors |-> {}, torn |-> {}]

VARIABLES
  saved,     \* RESUME_ROOT: the output kept from an earlier session
  out,       \* OUTPUT_ROOT of this session
  snap,      \* the manifest in use, for input_snapshot_hash
  accepted,  \* ids validation let through
  step,
  evidence,  \* evidence_frames: pieces and the resource each is filed under
  metrics,   \* metric_rows
  failed,    \* error_rows
  total,     \* total_ocr_pages
  todo,      \* pending resources
  index,
  cur,       \* resource in hand: id, its pieces, scanned pages seen and OCRed
  sessions

memory == <<snap, accepted, evidence, metrics, failed, total, todo, index, cur>>
extraction == <<saved, out, step, memory, sessions>>

NoResource == [id |-> 0, units |-> {}, page |-> 0, ocr |-> 0]

ExtractInit ==
  /\ saved = Blank /\ out = Blank /\ snap = 0 /\ accepted = {} /\ step = "idle"
  /\ evidence = {} /\ metrics = {} /\ failed = {} /\ total = 0 /\ todo = {} /\ index = 0
  /\ cur = NoResource /\ sessions = 0

File(id) == FileOf[snap][id]

(* The session is over: its output, or what was kept before, is there to resume from. *)
Over(left) ==
  /\ saved' \in {saved, left}
  /\ out' = Blank /\ snap' = 0 /\ accepted' = {} /\ step' = "idle"
  /\ evidence' = {} /\ metrics' = {} /\ failed' = {} /\ total' = 0 /\ todo' = {} /\ index' = 0
  /\ cur' = NoResource

-----------------------------------------------------------------------------
(* validate_manifest: a row is rejected for its licence, or a file that is missing,
   too large or not the one the manifest names. *)
Validate ==
  /\ step = "idle" /\ sessions < MaxSessions
  /\ sessions' = sessions + 1
  /\ snap' \in Snapshots
  /\ \E good \in SUBSET Ids :
       /\ accepted' = good
       /\ out' = [out EXCEPT !.errors = Ids \ good]
  /\ step' = "resume"
  /\ UNCHANGED <<saved, evidence, metrics, failed, total, todo, index, cur>>

(* The OCR pages of the metrics, the sum of a column: every row has as many. *)
OcrPages(rows) == UNION {{r} \X (1..r.ocr) : r \in rows}
Recorded(rows) == Cardinality(OcrPages(rows))
Completed(rows) == {r.id : r \in rows}

SameSnapshotAny(prior) == TRUE
SameSnapshot(prior) == prior.manifest # "none" => prior.snap = snap

Resumable(prior) == prior.torn = {} /\ SameSnapshot(prior)

SpentNothing(rows) == 0
Spent(rows) == Recorded(rows)

(* Whatever tables are there are taken over with the OCR pages they record. *)
Resume ==
  /\ step = "resume"
  /\ Resumable(saved)
  /\ evidence' = saved.evidence /\ metrics' = saved.metrics
  /\ total' = Spent(saved.metrics)
  /\ todo' = accepted \ Completed(saved.metrics)
  /\ step' = "open"
  /\ UNCHANGED <<saved, out, snap, accepted, failed, index, cur, sessions>>

(* A manifest of another snapshot, and a torn file, end the session. *)
ResumeRaises ==
  /\ step = "resume" /\ ~ Resumable(saved)
  /\ Over(out)
  /\ UNCHANGED sessions

(* KF_RESUME_ROOT is not set. *)
Afresh ==
  /\ step = "resume"
  /\ todo' = accepted
  /\ step' = "open"
  /\ UNCHANGED <<saved, out, snap, accepted, evidence, metrics, failed, total, index, cur, sessions>>

WriteManifest ==
  /\ step = "open"
  /\ out' = [out EXCEPT !.manifest = "RUNNING", !.snap = snap]
  /\ step' = "next"
  /\ UNCHANGED <<saved, memory, sessions>>

-----------------------------------------------------------------------------
(* extract_resource *)

Budget == Max({0, OcrLimit - total})

Take ==
  /\ step = "next" /\ todo # {}
  /\ cur' = [NoResource EXCEPT !.id = Min(todo)]
  /\ step' = "open file"
  /\ UNCHANGED <<saved, out, snap, accepted, evidence, metrics, failed, total, todo, index, sessions>>

(* The text a file carries: the blocks of its pages or of its HTML, or its cells. *)
Pieces(f) == {<<f, "text", n>> : n \in 1..Digital[f]}

(* Tables are looked for first, and whatever goes wrong with them is passed over;
   a page with a text layer gives its blocks. *)
OpenFile ==
  LET f == File(cur.id)
  IN /\ step = "open file" /\ f \notin Unsupported
     /\ \E tables \in SUBSET {<<f, "table", 1>>} :
          cur' = [cur EXCEPT !.units = tables \cup Pieces(f)]
     /\ step' = "pages"
     /\ UNCHANGED <<saved, out, snap, accepted, evidence, metrics, failed, total, todo, index, sessions>>

Affordable(ocr) == ocr < Budget

OcrPage ==
  /\ step = "pages" /\ cur.page < Scanned[File(cur.id)]
  /\ Affordable(cur.ocr)
  /\ cur' = [cur EXCEPT !.page = @ + 1, !.ocr = @ + 1,
                        !.units = @ \cup {<<File(cur.id), "scan", cur.page + 1>>}]
  /\ UNCHANGED <<saved, out, step, snap, accepted, evidence, metrics, failed, total, todo, index, sessions>>

(* Out of budget, or the reader cannot be had: the page counts as unavailable. *)
SkipPage ==
  /\ step = "pages" /\ cur.page < Scanned[File(cur.id)]
  /\ ~ Affordable(cur.ocr) \/ cur.ocr = 0
  /\ cur' = [cur EXCEPT !.page = @ + 1]
  /\ UNCHANGED <<saved, out, step, snap, accepted, evidence, metrics, failed, total, todo, index, sessions>>

Advance ==
  /\ todo' = todo \ {cur.id}
  /\ index' = index + 1
  /\ step' = IF index' % Every = 0 THEN "evidence" ELSE "next"
  /\ cur' = NoResource

Extracted ==
  LET new == {u \in cur.units : \A e \in evidence : e.unit # u}
  IN /\ step = "pages" /\ cur.page = Scanned[File(cur.id)]
     /\ evidence' = evidence \cup {[unit |-> u, under |-> cur.id] : u \in new}
     /\ metrics' = metrics \cup {[id |-> cur.id, file |-> File(cur.id), units |-> cur.units, ocr |-> cur.ocr]}
     /\ total' = total + cur.ocr
     /\ Advance
     /\ UNCHANGED <<saved, out, snap, accepted, failed, sessions>>

(* The file is refused, or a page raises: the pages OCRed so far are not counted. *)
ExtractFails ==
  /\ \/ step = "open file"
     \/ step = "pages" /\ cur.page < Scanned[File(cur.id)]
  /\ failed' = failed \cup {cur.id}
  /\ Advance
  /\ UNCHANGED <<saved, out, snap, accepted, evidence, metrics, total, sessions>>

-----------------------------------------------------------------------------
(* checkpoint, during the loop and once after it *)

LastCheckpoint ==
  /\ step = "next" /\ todo = {}
  /\ step' = "evidence"
  /\ index' = 0
  /\ UNCHANGED <<saved, out, snap, accepted, evidence, metrics, failed, total, todo, cur, sessions>>

(* A table of no rows is not written. *)
Filed(o) == IF evidence = {} THEN o ELSE [o EXCEPT !.evidence = evidence]
Measured(o) == IF metrics = {} THEN o ELSE [o EXCEPT !.metrics = metrics]

FirstTableSwapped(o) == Measured(o)
FirstTable(o) == Filed(o)
SecondTable(o) == Measured(Filed(o))

WriteEvidence ==
  /\ step = "evidence"
  /\ out' = FirstTable(out)
  /\ step' = "metrics"
  /\ UNCHANGED <<saved, memory, sessions>>

WriteMetrics ==
  /\ step = "metrics"
  /\ out' = SecondTable(out)
  /\ step' = "errors"
  /\ UNCHANGED <<saved, memory, sessions>>

AppendErrors ==
  /\ step = "errors"
  /\ out' = [out EXCEPT !.errors = @ \cup failed]
  /\ failed' = {}
  /\ step' = IF todo = {} /\ index = 0 THEN "finish" ELSE "next"
  /\ UNCHANGED <<saved, snap, accepted, evidence, metrics, total, todo, index, cur, sessions>>

(* The manifest is completed from the tables as read back; checksums follow. *)
Finish ==
  /\ step = "finish"
  /\ Over([out EXCEPT !.manifest = "COMPLETED"])
  /\ UNCHANGED sessions

(* The table being written as the session ends is left torn. *)
EndSession ==
  /\ step # "idle"
  /\ \/ Over(out)
     \/ step \in {"open", "finish"} /\ Over([out EXCEPT !.torn = {"manifest"}, !.manifest = "none"])
     \/ step = "evidence" /\ evidence # {} /\ Over([out EXCEPT !.torn = {"evidence"}, !.evidence = {}])
     \/ step = "metrics" /\ metrics # {} /\ Over([out EXCEPT !.torn = {"metrics"}, !.metrics = {}])
  /\ UNCHANGED sessions

ExtractNext ==
  \/ Validate \/ Resume \/ ResumeRaises \/ Afresh \/ WriteManifest
  \/ Take \/ OpenFile \/ OcrPage \/ SkipPage \/ Extracted \/ ExtractFails
  \/ LastCheckpoint \/ WriteEvidence \/ WriteMetrics \/ AppendErrors \/ Finish \/ EndSession

ExtractSpec == ExtractInit /\ [][ExtractNext]_extraction

-----------------------------------------------------------------------------
Outputs == {out, saved}

(* Whatever session left an output and wherever it was ended, a resource that is
   never looked at again, because the metrics list it, has every piece it counted in
   the evidence, and was extracted from the file this manifest names. *)
MetricsBacked ==
  \A o \in Outputs : \A r \in o.metrics :
    /\ o.torn \cap {"evidence"} = {} => r.units \subseteq {e.unit : e \in o.evidence}
    /\ r.file = FileOf[o.snap][r.id]

(* A completed output accounts for every row of the manifest. *)
AllAccounted ==
  \A o \in Outputs : o.manifest = "COMPLETED" => Ids \subseteq Completed(o.metrics) \cup o.errors

(* However often the work is taken up again, the OCR pages on record keep the limit. *)
OcrWithinLimit == \A o \in Outputs : Recorded(o.metrics) <= OcrLimit

ExtractionSound == MetricsBacked /\ AllAccounted /\ OcrWithinLimit
=============================================================================
