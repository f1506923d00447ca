-------------------------- MODULE GatewayPreflight --------------------------
(* The read-only staging preflight of the gateway, vendor4/app/
   staging_preflight.py: run_preflight over an injected or live transport.
   Other than the runtime's it goes on to the next database after an error,
   has no budget of requests but limits of pages, and looks at the targets of a
   relation before it reads the next one.  The provider is as arbitrary as in
   RuntimePreflight, and answers are abstracted in the same way. *)
EXTENDS Naturals, Sequences

CONSTANTS Count,            \* databases of the manifest
          MaxPages, MaxRelationPages, \* MAX_PAGES, MAX_RELATION_PAGES
          MaxBatch,         \* bound: rows or targets in one answer
          MaxRelations      \* bound: relation properties of a schema

Databases == 1..Count
Further   == {"end", "missing", "again", "fresh"}
Blocking  == {"OUTSIDE_ALLOWLIST", "RELATION_TARGET_MISMATCH"}

VARIABLES
  pinned,   \* the databases the trusted snapshot names
  db, pc,   \* the database and the step run_preflight is at
  sent,     \* requests_attempted
  cursors,  \* pages read in the pagination under way
  rows,     \* rows still to look at
  rels,     \* relation properties of the schema
  left,     \* those of the row at hand still to look at
  targets,  \* targets of the relation at hand still to look up
  found,    \* the database's entry has targets
  verified, \* the databases with relation_targets_verified
  errors,   \* the classes of report["errors"]
  verdict   \* report["status"]

preflight == <<pinned, db, pc, sent, cursors, rows, rels, left, targets, found, verified, errors, verdict>>
progress  == <<rows, rels, left, targets, found>>
report    == <<verified, errors, verdict>>

Init ==
  /\ pinned \in SUBSET Databases
  /\ db = 1 /\ pc = IF Count = 0 THEN "judge" ELSE "schema"
  /\ sent = 0 /\ cursors = 0 /\ rows = 0 /\ rels = 0 /\ left = 0 /\ targets = 0
  /\ found = FALSE /\ verified = {} /\ errors = {} /\ verdict = "none"

(* The entry of this database is written, and the next one begun. *)
NextDatabase ==
  /\ IF db < Count THEN db' = db + 1 /\ pc' = "schema" ELSE pc' = "judge" /\ UNCHANGED db
  /\ cursors' = 0 /\ rows' = 0 /\ rels' = 0 /\ left' = 0 /\ targets' = 0 /\ found' = FALSE
  /\ UNCHANGED <<pinned, verdict>>

(* A TransportError inside the try is one class of report["errors"]. *)
NotedForgotten(class) == UNCHANGED errors
Noted(class) == errors' = errors \cup {class}

Fail(class) == NextDatabase /\ Noted(class) /\ UNCHANGED verified

Send == sent' = sent + 1

(* Without token or opt-in nothing is asked; without a transport it is a mock. *)
Disabled ==
  /\ pc = "schema" /\ db = 1 /\ sent = 0
  /\ verdict' \in {"BLOCKED_ACCESS", "BLOCKED_OPT_IN", "IMPLEMENTED_MOCK_READY"}
  /\ pc' = "done"
  /\ UNCHANGED <<pinned, db, sent, cursors, progress, verified, errors>>

CallFails ==
  /\ pc \in {"schema", "query", "page", "target"} /\ Send
  /\ \E class \in {"TARGET_INACCESSIBLE", "RATE_LIMITED", "AUTH_DENIED", "TIMEOUT_OR_NETWORK",
                   "MALFORMED_RESPONSE"} : Fail(class)

(* An answer of a shape the code does not look for, as a row that is no object
   (_parent_ds): the handler catches TransportError only, and no report is made. *)
Raises ==
  /\ \/ pc \in {"schema", "query", "page", "target"} /\ Send
     \/ pc \in {"row", "relation"} /\ UNCHANGED sent
  /\ pc' = "raised"
  /\ UNCHANGED <<pinned, db, cursors, progress, report>>

(* The schema, and compare_schema_to_expected. *)
ReadSchema ==
  /\ pc = "schema" /\ Send
  /\ \/ db \notin pinned /\ \E class \in {"SCHEMA_DRIFT", "BLOCKED_OWNER_INPUT"} : Fail(class)
     \/ db \in pinned /\ \E class \in {"SCHEMA_DRIFT", "MALFORMED_RESPONSE", "BLOCKED_OWNER_INPUT"} : Fail(class)
     \/ /\ db \in pinned
        /\ rels' \in 0..MaxRelations
        /\ pc' = "query"
        /\ UNCHANGED <<pinned, db, cursors, rows, left, targets, found, report>>

(* One page of rows: a cursor given before is refused before it is used again,
   and so is the page after the last one allowed. *)
QueryPage ==
  /\ pc = "query" /\ Send
  /\ \E n \in 0..MaxBatch, more \in Further :
       \/ /\ more = "end" /\ rows + n > 0
          /\ rows' = rows + n /\ pc' = "row" /\ cursors' = 0
          /\ UNCHANGED <<pinned, db, rels, left, targets, found, report>>
       \/ more = "end" /\ rows + n = 0 /\ NextDatabase /\ UNCHANGED <<verified, errors>>
       \/ more = "missing" /\ Fail("MALFORMED_RESPONSE")
       \/ more = "again" /\ cursors > 0 /\ Fail("CURSOR_LOOP")
       \/ more = "fresh" /\ cursors + 1 >= MaxPages /\ Fail("CURSOR_LOOP")
       \/ /\ more = "fresh" /\ cursors + 1 < MaxPages
          /\ rows' = rows + n /\ cursors' = cursors + 1
          /\ UNCHANGED <<pinned, db, pc, rels, left, targets, found, report>>

Row ==
  /\ pc = "row" /\ rows > 0
  /\ \/ \E class \in {"MISSING_PARENT", "OUTSIDE_ALLOWLIST"} : Fail(class)
     \/ rels = 0 /\ Fail("BLOCKED_OWNER_INPUT")   \* a relation only the row has
     \/ /\ rows' = rows - 1 /\ left' = rels /\ pc' = "relation"
        /\ UNCHANGED <<pinned, db, cursors, rels, targets, found, report>>
  /\ UNCHANGED sent

(* A relation of the row: its first targets, and whether there are more.  Where the
   pin has no destination for it, the one the provider's schema states is taken. *)
Relation ==
  /\ pc = "relation" /\ left > 0
  /\ \/ \E class \in {"MALFORMED_RESPONSE", "BLOCKED_OWNER_INPUT", "RELATION_TRUNCATED", "RELATION_UNVERIFIED"} :
          Fail(class)
     \/ \E n \in 0..MaxBatch :
          /\ targets' = n /\ left' = left - 1
          /\ pc' \in {"page"} \cup (IF n > 0 THEN {"target"} ELSE {})
          /\ UNCHANGED <<pinned, db, cursors, rows, rels, found, report>>
  /\ UNCHANGED sent

(* One further page of the relation's targets, MAX_RELATION_PAGES at most. *)
RelationPage ==
  /\ pc = "page" /\ Send
  /\ \E n \in 0..MaxBatch, more \in Further :
       \/ /\ more = "end" /\ targets + n > 0
          /\ targets' = targets + n /\ pc' = "target" /\ cursors' = 0
          /\ UNCHANGED <<pinned, db, rows, rels, left, found, report>>
       \/ more = "end" /\ targets + n = 0 /\ Fail("RELATION_UNVERIFIED")
       \/ more = "missing" /\ Fail("RELATION_TRUNCATED")
       \/ cursors + 1 >= MaxRelationPages /\ more \in {"again", "fresh"} /\ Fail("BUDGET_EXCEEDED")
       \/ cursors + 1 < MaxRelationPages /\ more = "again" /\ Fail("CURSOR_LOOP")
       \/ /\ cursors + 1 < MaxRelationPages /\ more = "fresh"
          /\ targets' = targets + n /\ cursors' = cursors + 1
          /\ UNCHANGED <<pinned, db, pc, rows, rels, left, found, report>>

(* A target page: its parent must be in the allowlist and the one expected. *)
Target ==
  /\ pc = "target" /\ Send
  /\ \/ \E class \in {"MISSING_PARENT"} \cup Blocking : Fail(class)
     \/ /\ targets' = targets - 1 /\ found' = TRUE
        /\ pc' = IF targets > 1 THEN "target" ELSE "relation"
        /\ UNCHANGED <<pinned, db, cursors, rows, rels, left, report>>

RelationsDone ==
  /\ pc = "relation" /\ left = 0
  /\ pc' = "row"
  /\ UNCHANGED <<pinned, db, sent, cursors, progress, report>>

(* After the last row: VERIFIED when a relation was seen and all its targets hold. *)
RowsDone ==
  /\ pc = "row" /\ rows = 0
  /\ NextDatabase
  /\ verified' = IF found THEN verified \cup {db} ELSE verified
  /\ UNCHANGED <<errors, sent>>

(* The first class that occurred decides; any other asks for changes. *)
Precedence ==
  <<<<"BLOCKED_OWNER_INPUT", "BLOCKED_OWNER_INPUT">>, <<"RELATION_TRUNCATED", "CHANGES_REQUIRED">>,
    <<"BUDGET_EXCEEDED", "CHANGES_REQUIRED">>, <<"AUTH_DENIED", "BLOCKED_ACCESS">>,
    <<"RATE_LIMITED", "RATE_LIMITED">>, <<"TIMEOUT_OR_NETWORK", "TIMEOUT_OR_NETWORK">>>>

Verdict ==
  CASE errors \cap Blocking # {} -> "BLOCKED_STAGING_RELATIONS"
    [] errors = {} /\ verified = Databases /\ Count > 0 -> "PREFLIGHT_OK"
    [] errors = {} /\ ~(verified = Databases /\ Count > 0) -> "PREFLIGHT_INCOMPLETE"
    [] OTHER -> LET reported == {i \in 1..Len(Precedence) : Precedence[i][1] \in errors}
                    first == CHOOSE i \in reported : \A j \in reported : i <= j
                IN IF reported = {} THEN "CHANGES_REQUIRED" ELSE Precedence[first][2]

Judge ==
  /\ pc = "judge" /\ pc' = "done"
  /\ verdict' = Verdict
  /\ UNCHANGED <<pinned, db, sent, cursors, progress, verified, errors>>

Next ==
  \/ Disabled \/ CallFails \/ Raises \/ ReadSchema \/ QueryPage \/ Row \/ Relation \/ RelationPage
  \/ Target \/ RelationsDone \/ RowsDone \/ Judge

(* Nothing in run_preflight waits: a call returns or times out. *)
Fairness == WF_preflight(Next)
Spec == Init /\ [][Next]_preflight /\ Fairness

-----------------------------------------------------------------------------
(* PREFLIGHT_OK is given only when every database is pinned and had a target that
   was looked up and held, and nothing was wrong with any (run_preflight's end). *)
OkSound ==
  verdict = "PREFLIGHT_OK" => verified = Databases /\ Databases \subseteq pinned /\ errors = {}

(* What one database costs is bounded by the limits of pages, whatever cursors the
   provider invents: a schema, MAX_PAGES queries, and for each relation of a row
   MAX_RELATION_PAGES pages and the targets they name. *)
MostRows == MaxPages * MaxBatch
PerRelation == MaxRelationPages + (MaxRelationPages + 1) * MaxBatch
RequestsBounded == sent <= Count * (1 + MaxPages + MostRows * MaxRelations * PerRelation)

(* A provider that always has another page, row or target is left, with a verdict
   unless an answer made the code raise. *)
Ends == <>(pc = "raised" \/ (pc = "done" /\ verdict # "none"))
=============================================================================
