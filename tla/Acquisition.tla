----------------------------- MODULE Acquisition -----------------------------
(***************************************************************************)
(* Acquisition of public sources by machine admission: acquire             *)
(* (pipeline.py), fetch (transport.py) and the Budget it charges           *)
(* (storage.py), over process deaths.                                      *)
(*                                                                         *)
(* Granularity.  One step per transaction of the budget, per request, read *)
(* and file operation.  acquire holds acquisition.lock, so there is one    *)
(* process; another command may hold state.lock, and then a transaction    *)
(* raises.  Every exception inside the loop is caught there and ends the   *)
(* source as ACCESS_BLOCKED.  The manifest, the budget and the raw files   *)
(* survive a death; raw files are written in place.                        *)
(*                                                                         *)
(* Abstractions.  One url per source.  A page is its name and its size, in *)
(* units of which an allowance (65536 bytes in the code) holds Chunk.      *)
(* Deadlines, resolution, TLS and header checks are exceptions.            *)
(***************************************************************************)
EXTENDS Integers, FiniteSets

CONSTANTS
  Sources,      \* 1..n, in the order of the configuration
  Pages,
  PageOf,       \* the page each source's url serves
  Size,         \* of each page
  Chunk,        \* bytes per allowance
  MaxSource,    \* MAX_SOURCE_BYTES
  ByteCap,      \* Budget caps
  HopCap,
  MaxRedirects, \* MAX_REDIRECTS
  MaxDeaths     \* bound

VARIABLES
  manifest, \* acquisition.json: per source none, FETCHED or ACCESS_BLOCKED
  raw,      \* raw/<hash>.bin of each page: absent, partial or whole
  bytes, hops, documents, \* the budget in state.json
  url,      \* per source, its row there
  step,
  entry,    \* the status the source under way is to get
  hop,      \* the redirects it followed
  total,    \* the bytes of it that have come
  held,     \* the allowance charged and not yet settled
  received, \* bytes read off the network in all
  requests, \* per source, fetches that went out
  lost,     \* allowances never settled
  deaths

durable == <<manifest, raw, bytes, hops, documents, url>>
locals == <<step, entry, hop, total, held>>
ghosts == <<received, requests, lost, deaths>>
vars == <<durable, locals, ghosts>>

Least(S) == CHOOSE n \in S : \A m \in S : n <= m

Init ==
  /\ manifest = [s \in Sources |-> "none"]
  /\ raw = [p \in Pages |-> "absent"]
  /\ bytes = 0 /\ hops = 0 /\ documents = 0
  /\ url = [s \in Sources |-> [attempts |-> 0, closed |-> FALSE]]
  /\ step = "off" /\ entry = "none"
  /\ hop = 0 /\ total = 0 /\ held = 0
  /\ received = 0
  /\ requests = [s \in Sources |-> 0]
  /\ lost = 0 /\ deaths = 0

(* The sources not yet in the manifest are gone through in order. *)
Left == {s \in Sources : manifest[s] = "none"}
Current == Least(Left)
Page == PageOf[Current]

Begin ==
  /\ step = "off"
  /\ Left # {}
  /\ step' = "attempt"
  /\ hop' = 0 /\ total' = 0
  /\ UNCHANGED <<durable, entry, held, ghosts>>

(* Budget.attempt; a row that is terminal, deferred or used up raises. *)
Attempt ==
  /\ step = "attempt"
  /\ ~ url[Current].closed /\ url[Current].attempts < 2
  /\ url' = [url EXCEPT ![Current].attempts = @ + 1]
  /\ step' = "request"
  /\ UNCHANGED <<manifest, raw, bytes, hops, documents, entry, hop, total, held, ghosts>>

(* A hop is charged, the request goes out and its response comes. *)
Request ==
  /\ step = "request"
  /\ hops < HopCap
  /\ hops' = hops + 1
  /\ requests' = IF hop = 0 THEN [requests EXCEPT ![Current] = @ + 1] ELSE requests
  /\ \/ step' = "allow" /\ UNCHANGED hop
     \/ step' = "request" /\ hop < MaxRedirects /\ hop' = hop + 1
     \/ step' = "status" /\ UNCHANGED hop
  /\ UNCHANGED <<manifest, raw, bytes, documents, url, entry, total, held, received, lost, deaths>>

(* Budget.status after anything but 200: no further attempt, for 429 and   *)
(* 503 not for a while.                                                    *)
Status ==
  /\ step = "status"
  /\ \E closed \in BOOLEAN : url' = [url EXCEPT ![Current].closed = closed]
  /\ step' = "raise"
  /\ UNCHANGED <<manifest, raw, bytes, hops, documents, entry, hop, total, held, ghosts>>

Allowance == Least({Chunk, MaxSource + 1 - total, ByteCap - bytes})

Allow ==
  /\ step = "allow"
  /\ Allowance > 0
  /\ bytes' = bytes + Allowance
  /\ held' = Allowance
  /\ step' = "read"
  /\ UNCHANGED <<manifest, raw, hops, documents, url, entry, hop, total, ghosts>>

(* read1 returns at least a byte, and none at the end of the page; what it *)
(* leaves of the allowance is to be released.                              *)
Read ==
  LET rest == Size[Page] - total IN
  /\ step = "read"
  /\ \E n \in (IF rest = 0 THEN {0} ELSE 1..Least({held, rest})) :
       /\ received' = received + n
       /\ total' = total + n
       /\ held' = held - n
       /\ step' = IF n = 0 THEN "last" ELSE "release"
  /\ UNCHANGED <<durable, entry, hop, requests, lost, deaths>>

(* A mutant: one byte too many is given back, as if the chunk began at 0. *)
UnusedLong == IF step = "release" THEN held + 1 ELSE held
Unused == held

(* Budget.release_unused_bytes *)
Release ==
  /\ step \in {"release", "last"}
  /\ bytes' = bytes - Unused
  /\ held' = 0
  /\ step' = IF step = "last" THEN "document" ELSE IF total > MaxSource THEN "raise" ELSE "allow"
  /\ UNCHANGED <<manifest, raw, hops, documents, url, entry, hop, total, ghosts>>

Document ==
  /\ step = "document"
  /\ documents' = documents + 1
  /\ step' = "keep"
  /\ UNCHANGED <<manifest, raw, bytes, hops, url, entry, hop, total, held, ghosts>>

(* A mutant: a file of that name is taken for the page. *)
KeepAny ==
  /\ step = "keep"
  /\ IF raw[Page] = "absent"
     THEN /\ raw' = [raw EXCEPT ![Page] = "partial"]
          /\ step' = "write" /\ UNCHANGED entry
     ELSE step' = "entry" /\ entry' = "FETCHED" /\ UNCHANGED raw
  /\ UNCHANGED <<manifest, bytes, hops, documents, url, hop, total, held, ghosts>>

(* A file of that name must have the page's hash; else it is created. *)
Keep ==
  /\ step = "keep"
  /\ CASE raw[Page] = "absent" ->
            /\ raw' = [raw EXCEPT ![Page] = "partial"]
            /\ step' = "write" /\ UNCHANGED entry
       [] raw[Page] = "partial" -> \* RAW_CACHE_TAMPER
            step' = "raise" /\ UNCHANGED <<raw, entry>>
       [] raw[Page] = "whole" ->
            step' = "entry" /\ entry' = "FETCHED" /\ UNCHANGED raw
  /\ UNCHANGED <<manifest, bytes, hops, documents, url, hop, total, held, ghosts>>

Write ==
  /\ step = "write"
  /\ raw' = [raw EXCEPT ![Page] = "whole"]
  /\ step' = "entry" /\ entry' = "FETCHED"
  /\ UNCHANGED <<manifest, bytes, hops, documents, url, hop, total, held, ghosts>>

(* Any of those steps may raise, and so gives the source up for good. *)
Raise ==
  /\ step \notin {"off", "entry"}
  /\ step' = "entry" /\ entry' = "ACCESS_BLOCKED"
  /\ held' = 0
  /\ lost' = IF held > 0 THEN lost + 1 ELSE lost
  /\ UNCHANGED <<durable, hop, total, received, requests, deaths>>

Entry ==
  /\ step = "entry"
  /\ manifest' = [manifest EXCEPT ![Current] = entry]
  /\ step' = "off" /\ entry' = "none"
  /\ UNCHANGED <<raw, bytes, hops, documents, url, hop, total, held, ghosts>>

Death ==
  /\ step # "off"
  /\ deaths < MaxDeaths
  /\ deaths' = deaths + 1
  /\ step' = "off" /\ entry' = "none"
  /\ hop' = 0 /\ total' = 0 /\ held' = 0
  /\ lost' = IF held > 0 THEN lost + 1 ELSE lost
  /\ UNCHANGED <<durable, received, requests>>

Next ==
  \/ Begin \/ Attempt \/ Request \/ Status \/ Allow \/ Read \/ Release
  \/ Document \/ Keep \/ Write \/ Raise \/ Entry \/ Death

Spec == Init /\ [][Next]_vars

----------------------------------------------------------------------------
(* A source the manifest calls FETCHED has its whole page on disk, whatever *)
(* an earlier process left there (generate reads it by that name).          *)
FetchedHasBytes ==
  \A s \in Sources : manifest[s] = "FETCHED" => raw[PageOf[s]] = "whole"

(* At most two fetches of a url ever go out, deaths between the charge and  *)
(* the answer included.                                                     *)
RequestsCapped == \A s \in Sources : requests[s] <= 2

(* The byte budget covers every byte read and is never overdrawn, and what  *)
(* it holds beyond those is at most one allowance per source given up or    *)
(* process lost between the charge and the release.                         *)
BytesAccounted ==
  /\ received + held <= bytes
  /\ bytes <= ByteCap
  /\ bytes <= received + held + Chunk * lost

BudgetKept == RequestsCapped /\ BytesAccounted
=============================================================================
