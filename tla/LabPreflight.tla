---------------------------- MODULE LabPreflight ----------------------------
(* The staging preflight of the integration lab, vendor6/src/thbison_v6/staging/
   preflight.py: run_preflight over a FakeNotionTransport, which pages its rows
   by index and can be told to throttle, to repeat a cursor, to lose one, or to
   answer nonsense.  A 429 is asked again up to the retry budget, findings are
   collected over all databases, and only some errors end the run. *)
EXTENDS Integers, Sequences

CONSTANTS Count,     \* databases of the manifest
          PageSize,  \* of the transport
          MaxPages, RetryBudget, \* max_pages and retry_budget of the protocol
          MaxRows,   \* bound: rows of a database, targets of a relation
          MaxThrottle \* bound: answers 429

Databases == 1..Count
Calls     == {"schema", "query", "target", "relations"}
Faults    == {"none", "cursor_loop", "missing_cursor", "malformed", "unauthorized"}

VARIABLES
  size,     \* the transport: rows of each database, targets behind a relation
  fault,    \* the transport: what it was told to do
  throttle, \* the transport: force_429, the answers 429 still to give,
  limited,  \* and force_429_path: the calls that get them
  db, pc,   \* the database and the step of run_preflight
  sent,     \* calls of the transport
  tries,    \* attempts at the call under way
  cursor,   \* start_cursor of the next page, 0 for none
  seen,     \* cursors returned in the pagination under way
  pages,    \* pages asked for in it
  read,     \* the rows it has returned, by index
  row,      \* rows of the database still to look at
  findings, \* issues found so far, by the status they lead to
  verdict   \* status

transport == <<size, fault, limited>>
lab == <<size, fault, limited, throttle, db, pc, sent, tries, cursor, seen, pages, read, row, findings, verdict>>
paging == <<cursor, seen, pages, read>>

Init ==
  /\ size \in [Databases \cup {0} -> 0..MaxRows]   \* 0: the targets of a relation
  /\ fault \in Faults /\ throttle \in 0..MaxThrottle
  /\ limited \in {Calls, {"query"}}
  /\ db = 1 /\ pc = IF Count = 0 THEN "judge" ELSE "schema"
  /\ sent = 0 /\ tries = 0
  /\ cursor = 0 /\ seen = {} /\ pages = 0 /\ read = <<>> /\ row = 0
  /\ findings = {} /\ verdict = "none"

Stop(status) == verdict' = status /\ pc' = "done"

(* Each pagination starts without cursor and with nothing read. *)
Forget == cursor' = 0 /\ seen' = {} /\ pages' = 0 /\ read' = <<>>

Calling == pc \in Calls

(* No token, no protocol fixture, or a database the fixture does not have. *)
Unprepared ==
  /\ pc = "schema" /\ tries = 0
  /\ \E status \in {"BLOCKED_OWNER_INPUT"} \cup (IF sent = 0 THEN {"BLOCKED_ACCESS", "CLIENT_ERROR"} ELSE {}) :
       Stop(status)
  /\ UNCHANGED <<transport, throttle, db, sent, tries, paging, row, findings>>

(* _request_with_retry: a 429 is asked again while the budget lasts. *)
RetryAllowed == tries < RetryBudget

Limited == throttle > 0 /\ pc \in limited

Throttled ==
  /\ Calling /\ Limited /\ fault \notin {"malformed", "unauthorized"}
  /\ throttle' = throttle - 1
  /\ sent' = sent + 1
  /\ IF RetryAllowed
     THEN tries' = tries + 1 /\ UNCHANGED <<pc, verdict>>
     ELSE tries' = 0 /\ Stop("RATE_LIMITED")
  /\ UNCHANGED <<transport, db, paging, row, findings>>

Answered == ~Limited /\ fault \notin {"malformed", "unauthorized"} /\ sent' = sent + 1 /\ tries' = 0

(* A transport that answers nonsense, or refuses, is told so before the run and
   ends it at the first call. *)
Refused ==
  /\ Calling /\ fault \in {"malformed", "unauthorized"}
  /\ sent' = sent + 1 /\ tries' = 0
  /\ Stop(IF fault = "malformed" THEN "MALFORMED_RESPONSE" ELSE "BLOCKED_ACCESS")
  /\ UNCHANGED <<transport, throttle, db, paging, row, findings>>

Schema ==
  /\ pc = "schema" /\ Answered
  /\ \E bad \in SUBSET {"DRIFT"} : findings' = findings \cup bad
  /\ pc' = "query" /\ Forget
  /\ UNCHANGED <<transport, throttle, db, row, verdict>>

(* FakeNotionTransport.request for a page of n rows from `cursor`, doing what it was
   told, and what _paginate makes of the answer. *)
ChunkFromNext(n) == [i \in 1..(IF cursor + PageSize < n THEN PageSize ELSE n - cursor - 1) |-> cursor + i + 1]
Chunk(n) == [i \in 1..(IF cursor + PageSize < n THEN PageSize ELSE n - cursor) |-> cursor + i]
More(n) == cursor + PageSize < n
NextIndex == cursor + PageSize

Page(n, told) ==
  /\ pages < MaxPages /\ Answered
  /\ pages' = pages + 1
  /\ IF told = "cursor_loop" /\ cursor > 0
     THEN read' = Append(read, 1) /\ Stop("CURSOR_LOOP") /\ UNCHANGED <<cursor, seen>>
     ELSE /\ read' = read \o Chunk(n)
          /\ \/ ~More(n) /\ pc' = "row" /\ UNCHANGED <<cursor, seen, verdict>>
             \/ More(n) /\ told = "missing_cursor" /\ Stop("MISSING_CURSOR") /\ UNCHANGED <<cursor, seen>>
             \/ /\ More(n) /\ told # "missing_cursor"
                /\ cursor' = NextIndex /\ seen' = seen \cup {NextIndex}
                /\ UNCHANGED <<pc, verdict>>
  /\ UNCHANGED <<transport, throttle, db, findings>>

Query ==
  /\ pc = "query" /\ Page(size[db], fault)
  /\ row' = IF pc' = "row" THEN Len(read') ELSE row

PageBudget ==
  /\ pc \in {"query", "relations"} /\ pages = MaxPages
  /\ Stop("PAGE_BUDGET")
  /\ UNCHANGED <<transport, throttle, db, sent, tries, paging, row, findings>>

(* A row: its parent and its project, then the page its relation names, if any:
   one at most, in the model. *)
Row ==
  /\ pc = "row" /\ row > 0
  /\ row' = row - 1
  /\ \E bad \in SUBSET {"FINDINGS"} : findings' = findings \cup bad
  /\ pc' \in {"row", "target"}
  /\ Forget
  /\ UNCHANGED <<transport, throttle, db, sent, tries, verdict>>

Target ==
  /\ pc = "target" /\ Answered
  /\ UNCHANGED <<transport, throttle, db, row>>
  /\ \/ /\ findings' = findings \cup {"FINDINGS"}
        /\ pc' = "row"
        /\ UNCHANGED <<paging, verdict>>
     \/ /\ \E bad \in SUBSET {"BLOCKED_STAGING_RELATIONS"} : findings' = findings \cup bad
        /\ pc' = "relations" /\ Forget
        /\ UNCHANGED verdict

(* The page's own relations are paged through with the same helper; the transport
   repeats and loses no cursor there. *)
Relations == pc = "relations" /\ Page(size[0], "none") /\ UNCHANGED row

NextDatabase ==
  /\ pc = "row" /\ row = 0
  /\ IF db < Count THEN db' = db + 1 /\ pc' = "schema" ELSE pc' = "judge" /\ UNCHANGED db
  /\ Forget
  /\ UNCHANGED <<transport, throttle, sent, tries, row, findings, verdict>>

Verdict ==
  IF "BLOCKED_STAGING_RELATIONS" \in findings THEN "BLOCKED_STAGING_RELATIONS"
  ELSE IF "DRIFT" \in findings THEN "DRIFT"
  ELSE IF findings # {} THEN "FINDINGS" ELSE "PREFLIGHT_OK_FAKE_TRANSPORT"

Judge ==
  /\ pc = "judge" /\ Stop(Verdict)
  /\ UNCHANGED <<transport, throttle, db, sent, tries, paging, row, findings>>

Next ==
  \/ Unprepared \/ Throttled \/ Refused \/ Schema \/ Query \/ PageBudget \/ Row \/ Target
  \/ Relations \/ NextDatabase \/ Judge

(* run_preflight is one synchronous loop over an in-memory transport. *)
Fairness == WF_lab(Next)
Spec == Init /\ [][Next]_lab /\ Fairness

-----------------------------------------------------------------------------
AllRows(d) == [i \in 1..size[d] |-> i]

(* A pagination that ends without an error has returned every row once and in order
   (_paginate against the index cursors of FakeNotionTransport.request). *)
PageEnd == pc \in {"query", "relations"} /\ pc' = "row"
PagesComplete == [][PageEnd => read' = AllRows(IF pc = "query" THEN db ELSE 0)]_lab

(* A run ends with a status, whatever the transport does. *)
Ends == <>(pc = "done" /\ verdict # "none")
=============================================================================
