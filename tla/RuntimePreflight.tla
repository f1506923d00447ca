-------------------------- MODULE RuntimePreflight --------------------------
(* The read-only staging preflight of the runtime, vendor3/app/
   staging_preflight.py: run_preflight with a StagingClient reads, database by
   database, the schema, all pages of rows, all pages of every relation of a
   row, and every page a relation names, and stops at the first thing wrong.
   The provider may answer any call with anything.  Of an answer the model
   keeps what the code looks at: does a schema match, does a row or a target
   have the right parent, how many rows or targets came, and what was said of
   a further page: "end", "missing" (more, but no cursor), "again" (a cursor
   given before) or "fresh".  Databases are named by number, and 0 is an id that
   no pin has; a pin names its own database, and may leave out its id. *)
EXTENDS Naturals

CONSTANTS Count,       \* databases of the manifest
          MaxRequests, \* max_provider_requests
          MaxBatch,    \* bound: rows or targets in one answer
          MaxRelations \* bound: relation properties of a schema

Databases == 1..Count
Further   == {"end", "missing", "again", "fresh"}

VARIABLES
  pinned,  \* the databases expected_schema names; {} is no expected_schema
  ids,     \* those whose pin says the id the schema must bear
  db, pc,  \* the database and the step run_preflight is at
  named,   \* the id the provider's schema bears
  sent,    \* requests that went out
  cursors, \* cursors seen in the pagination under way
  rows,    \* rows still to look at
  rels,    \* relation properties of the schema
  left,    \* those of the row at hand still to collect
  targets, \* targets of the row still to look up
  found,   \* observed_targets > 0
  empty,   \* empty_db
  related, \* databases whose schema has relations
  vouched, \* pairs: a relation of this database was held against that pin
  verdict  \* report["status"], "none" until it is set

pins      == <<pinned, ids>>
preflight == <<pins, db, pc, named, sent, cursors, rows, rels, left, targets, found, empty, related, vouched, verdict>>
progress  == <<named, rows, rels, left, targets, found, empty, related, vouched>>

Init ==
  /\ pinned \in SUBSET Databases /\ ids \in SUBSET pinned
  /\ db = 1 /\ named = 0 /\ pc = IF Count = 0 THEN "judge" ELSE "schema"
  /\ sent = 0 /\ cursors = 0 /\ rows = 0 /\ rels = 0 /\ left = 0 /\ targets = 0
  /\ found = FALSE /\ empty = FALSE /\ related = {} /\ vouched = {}
  /\ verdict = "none"

Stop(status) ==
  /\ verdict' = status /\ pc' = "done"
  /\ UNCHANGED <<pins, db, cursors, progress>>

(* Without a token, or without STAGING_ENABLED, nothing is asked. *)
Disabled ==
  /\ pc = "schema" /\ db = 1 /\ sent = 0
  /\ \E status \in {"BLOCKED_ACCESS", "BLOCKED_OPT_IN"} : Stop(status)
  /\ UNCHANGED sent

(* _call: the request goes out, is recorded, and only then counted. *)
Calling == pc \in {"schema", "query", "page", "target"}
Send    == sent' = sent + 1

(* An HTTP error, a timeout, or a body that is no JSON.  classify calls a 400, 409
   or 422 "OK"; the report is not verified all the same. *)
CallFails ==
  /\ Calling /\ Send
  /\ \E status \in {"AUTH_DENIED", "RATE_LIMITED", "NOT_FOUND", "PROVIDER_ERROR", "TIMEOUT",
                    "TRANSPORT", "OK", "MALFORMED_RESPONSE"} : Stop(status)

OverBudgetOnce == sent >= MaxRequests /\ cursors = 0
OverBudget == sent >= MaxRequests

BudgetExceeded ==
  /\ Calling /\ OverBudget /\ Send
  /\ Stop("BUDGET_EXCEEDED")

Answered == ~OverBudget /\ Send

(* An answer of a shape the code does not look for, as a parent that is no object
   (parent_ds) or bytes that are no UTF-8 (_call): run_preflight catches its own
   errors only, so the exception leaves it, and no report is written. *)
Raises ==
  /\ \/ Calling /\ Answered
     \/ pc \in {"row", "relation"} /\ UNCHANGED sent
  /\ pc' = "raised"
  /\ UNCHANGED <<pins, db, cursors, progress, verdict>>

(* fetch_schema: what the database's pin names must be there as it is named; a
   schema without a pin, or whose pin has no id, may bear any id. *)
FetchSchema ==
  /\ pc = "schema" /\ Answered
  /\ \/ \E status \in {"SCHEMA_DRIFT"} \cup (IF db \in pinned THEN {"BLOCKED_OWNER_INPUT"} ELSE {}) :
          Stop(status)
     \/ \E k \in 0..MaxRelations :
          /\ rels' = k
          /\ related' = IF k > 0 THEN related \cup {db} ELSE related
          /\ named' \in IF db \in ids THEN {db} ELSE Databases \cup {0}
          /\ pc' = "query" /\ cursors' = 0
          /\ UNCHANGED <<pins, db, rows, left, targets, found, empty, vouched, verdict>>

(* What a further page means to a pagination; ending it goes to step `after`. *)
Paginated(more, after) ==
  \/ more = "end" /\ pc' = after /\ cursors' = 0 /\ UNCHANGED verdict
  \/ more = "missing" /\ pc' = "done" /\ verdict' = "MISSING_CURSOR" /\ UNCHANGED cursors
  \/ more = "again" /\ cursors > 0 /\ pc' = "done" /\ verdict' = "CURSOR_LOOP" /\ UNCHANGED cursors
  \/ more = "fresh" /\ cursors' = cursors + 1 /\ UNCHANGED <<pc, verdict>>

(* paginate, one query *)
Paginate ==
  /\ pc = "query" /\ Answered
  /\ \E n \in 0..MaxBatch, more \in Further :
       /\ rows' = rows + n
       /\ Paginated(more, "row")
       /\ empty' = (empty \/ (more = "end" /\ rels > 0 /\ rows + n = 0))
  /\ UNCHANGED <<pins, db, named, rels, left, targets, found, related, vouched>>

NoMoreRows ==
  /\ pc = "row" /\ rows = 0
  /\ IF db < Count THEN db' = db + 1 /\ pc' = "schema" ELSE pc' = "judge" /\ UNCHANGED db
  /\ UNCHANGED <<pins, sent, cursors, progress, verdict>>

Row ==
  /\ pc = "row" /\ rows > 0
  /\ rows' = rows - 1
  /\ left' = rels
  /\ pc' = "relation"
  /\ UNCHANGED <<pins, db, named, sent, cursors, rels, targets, found, empty, related, vouched, verdict>>

(* collect_relation_targets, one relation: the pin is looked up by the id the schema
   bears, which may be another database's, and only then by the data source the row
   names.  Without a pin, but with an expected_schema, the relation is refused;
   without any, the provider's own word counts, and 0 stands for it. *)
VouchersAny == IF named \in pinned THEN {named} ELSE {db}
Vouchers == IF pinned = {} THEN {0} ELSE IF named \in pinned THEN {named} ELSE {db} \cap pinned

Relation ==
  /\ pc = "relation" /\ left > 0
  /\ \E p \in Vouchers : vouched' = vouched \cup {<<db, p>>}
  /\ UNCHANGED <<pins, db, named, sent, rows, rels, found, empty, related>>
  /\ \E n \in 0..MaxBatch :
       /\ targets' = targets + n
       /\ \/ left' = left - 1 /\ UNCHANGED <<pc, cursors, verdict>>
          \/ pc' = "page" /\ cursors' = 1 /\ UNCHANGED <<left, verdict>>

(* A row without parent or with another's, a relation nobody vouches for, one the
   row lacks, or one with more pages and no cursor. *)
RowRefused ==
  /\ \/ pc = "row" /\ rows > 0
     \/ pc = "relation" /\ left > 0
  /\ \E status \in IF pc = "row" THEN {"NO_PARENT", "WRONG_ROW_DS"}
                   ELSE {"BLOCKED_OWNER_INPUT"}
                        \cup IF Vouchers # {} THEN {"MISSING_RELATION_PROPERTY", "MISSING_CURSOR", "RELATION_TRUNCATED"} ELSE {} :
       Stop(status)
  /\ UNCHANGED sent

(* retrieve_property, one page of a relation *)
RelationPage ==
  /\ pc = "page" /\ Answered
  /\ \E n \in 0..MaxBatch, more \in Further :
       /\ targets' = targets + n
       /\ Paginated(more, "relation")
       /\ left' = IF more = "end" THEN left - 1 ELSE left
  /\ UNCHANGED <<pins, db, named, rows, rels, found, empty, related, vouched>>

Collected ==
  /\ pc = "relation" /\ left = 0
  /\ pc' = IF targets > 0 THEN "target" ELSE "row"
  /\ UNCHANGED <<pins, db, sent, cursors, progress, verdict>>

(* retrieve_page of a target: it must lie where the relation says, in the allowlist. *)
Target ==
  /\ pc = "target" /\ Answered
  /\ \/ \E status \in {"TARGET_INACCESSIBLE", "NO_PARENT", "BLOCKED_STAGING_RELATIONS",
                      "WRONG_RELATION_TARGET"} : Stop(status)
     \/ /\ targets' = targets - 1
        /\ found' = TRUE
        /\ pc' = IF targets > 1 THEN "target" ELSE "row"
        /\ UNCHANGED <<pins, db, named, cursors, rows, rels, left, empty, related, vouched, verdict>>

VerdictForgotten ==
  IF empty \/ ~found THEN "none"
  ELSE IF pinned = {} THEN "BLOCKED_OWNER_INPUT" ELSE "READ_OK"
Verdict ==
  IF empty \/ ~found THEN "INCOMPLETE"
  ELSE IF pinned = {} THEN "BLOCKED_OWNER_INPUT" ELSE "READ_OK"

Judge == pc = "judge" /\ Stop(Verdict) /\ UNCHANGED sent

Next ==
  \/ Disabled \/ CallFails \/ BudgetExceeded \/ Raises \/ FetchSchema \/ Paginate \/ NoMoreRows \/ Row
  \/ Relation \/ RowRefused \/ RelationPage \/ Collected \/ Target \/ Judge

(* Nothing in run_preflight waits: a call returns or times out after 20 seconds. *)
Fairness == WF_preflight(Next)
Spec == Init /\ [][Next]_preflight /\ Fairness

-----------------------------------------------------------------------------
(* READ_OK is given only when a target was seen, no database with relations was
   empty, and the relations of every database were held against a pin, not only
   against what the provider says of itself (run_preflight's last three returns).
   It is the database's own pin when that says its id, and else may be the one of
   another database, whose id the provider's schema bore. *)
ReadOkSound ==
  verdict = "READ_OK" =>
    /\ found /\ ~empty /\ targets = 0 /\ rows = 0
    /\ \A d \in related : \E p \in pinned : <<d, p>> \in vouched
    /\ \A v \in vouched : v[2] \in pinned /\ (v[1] \in ids => v[2] = v[1])

(* Whatever the provider answers, at most one request goes out beyond the budget:
   the one that is counted too late (_call). *)
RequestsBounded == sent <= MaxRequests + 1

(* A provider that always has another page, another row and another target is left
   after a while, with a verdict unless an answer made the code raise (paginate and
   collect_relation_targets). *)
Ends == <>(pc = "raised" \/ (pc = "done" /\ verdict # "none"))
=============================================================================
