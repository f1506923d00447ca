------------------------------ MODULE Planning ------------------------------
(***************************************************************************)
(* The planning service (vendor1, src/planning): admission of a job, the   *)
(* run of it, cancellation, polling, the brief and the ledger under them.  *)
(*                                                                         *)
(* Granularity.  Every access to the ledger is a function handed to        *)
(* withLedger; the chain of promises runs them one at a time and writes    *)
(* the file after each.  One step is one such function with the write of   *)
(* it, or the answer of the provider.  The file is replaced by a rename:   *)
(* an end of the process keeps the last whole one.  A write that throws    *)
(* leaves the ledger in memory changed and the file as it was.  Where      *)
(* nothing catches it the run of the job is over: the process goes on, or  *)
(* the rejection nobody handles ends it too, which is Crash.               *)
(*                                                                         *)
(* Abstractions.  A key always carries one payload (another is refused     *)
(* with 409 and writes nothing).  The jobs ask for the same keywords, so   *)
(* they share a cache entry, and write the same brief.  What the provider  *)
(* found, clusters and the text of the brief are left out.                 *)
(***************************************************************************)
EXTENDS Integers, FiniteSets

CONSTANTS
  Keys,
  Requests,    \* per key, budget.max_provider_requests
  Attempts,    \* per key, budget.max_transport_attempts
  MaxRevision, \* bound on edits of the brief
  MaxCrashes,  \* bound
  MaxFaults,   \* bound on writes of the file that throw
  Nothing

ASSUME RequestsAssumption == Requests \in [Keys -> Nat]
ASSUME AttemptsAssumption == Attempts \in [Keys -> Nat \ {0}]
ASSUME BoundsAssumption == MaxCrashes \in Nat /\ MaxFaults \in Nat

VARIABLES
  mem,      \* the ledger in memory
  file,     \* the ledger on disk
  run,      \* per key, the await its runPlanning is at
  attempts, \* its local counter
  prior,    \* the revision of the brief it read, 0 for none
  answered, \* keys some client has a receipt for
  polled,   \* keys some client was told the end of
  lost,     \* keys whose job nothing will take up again, though it has not ended
  crashes, faults

locals == <<run, attempts, prior>>
ghosts == <<answered, polled, lost>>
bounds == <<crashes, faults>>
vars == <<mem, file, locals, ghosts, bounds>>

Terminal == {"SUCCEEDED", "FAILED", "CANCELLED", "BUDGET_EXHAUSTED", "TIMED_OUT"}
Rows == [status : {"QUEUED", "RUNNING"} \cup Terminal, cancelled : BOOLEAN]
ASSUME NothingAssumption == Nothing \notin Rows

Ledgers == [jobs : [Keys -> Rows \cup {Nothing}], brief : Nat, cached : BOOLEAN, reserved : Nat]

Init ==
  /\ mem = [jobs |-> [k \in Keys |-> Nothing], brief |-> 0, cached |-> FALSE, reserved |-> 0]
  /\ file = mem
  /\ run = [k \in Keys |-> "none"]
  /\ attempts = [k \in Keys |-> 0]
  /\ prior = [k \in Keys |-> 0]
  /\ answered = {} /\ polled = {} /\ lost = {}
  /\ crashes = 0 /\ faults = 0

Known(k) == mem.jobs[k] # Nothing
Goto(k, l) == run' = [run EXCEPT ![k] = l]
WithStatus(k, s) == [mem EXCEPT !.jobs[k].status = s]

(* A mutant: the file is written before the function has run. *)
FlushFirst(l) == mem' = l /\ file' = mem

(* withLedger, the write done; and thrown, where someone catches it. *)
Flush(l) == mem' = l /\ file' = l
FlushThrows(l) ==
  /\ faults < MaxFaults
  /\ faults' = faults + 1
  /\ mem' = l
  /\ UNCHANGED <<file, crashes>>

(* Where an exception that may be retried goes on. *)
Loop(k) == IF attempts[k] < Attempts[k] THEN "check" ELSE "FAILED"

(* A call of withLedger in the run of a job, outside and inside its try. *)
Write(k, l, next) ==
  \/ Flush(l) /\ Goto(k, next) /\ UNCHANGED <<lost, bounds>>
  \/ FlushThrows(l) /\ Goto(k, "none") /\ lost' = lost \cup {k}
TryWrite(k, l, next) ==
  /\ \/ Flush(l) /\ Goto(k, next) /\ UNCHANGED bounds
     \/ FlushThrows(l) /\ Goto(k, Loop(k))
  /\ UNCHANGED lost

----------------------------------------------------------------------------
(* admitPlanningJob.  Only the caller that created the job starts it, and  *)
(* only when the write went well.                                          *)
Admit(k) ==
  LET created == ~ Known(k)
      fresh == [status |-> "QUEUED", cancelled |-> FALSE]
      l == IF created THEN [mem EXCEPT !.jobs[k] = fresh] ELSE mem
  IN
  /\ \/ /\ Flush(l)
        /\ answered' = answered \cup {k}
        /\ run' = IF created THEN [run EXCEPT ![k] = "start"] ELSE run
        /\ UNCHANGED <<lost, bounds>>
     \/ /\ created
        /\ FlushThrows(l)
        /\ lost' = lost \cup {k}
        /\ UNCHANGED <<answered, run>>
  /\ UNCHANGED <<attempts, prior, polled>>

(* runPlanning up to its loop.  The project's reservations only grow, and  *)
(* only a job with no requests of its own is ever stopped by them.         *)
Start(k) ==
  LET reserve == IF Requests[k] < 2 THEN Requests[k] ELSE 2
      to(s) == Write(k, WithStatus(k, s), "none")
  IN
  /\ run[k] = "start"
  /\ CASE mem.jobs[k].cancelled -> to("CANCELLED")
       [] ~ mem.jobs[k].cancelled /\ mem.jobs[k].status # "QUEUED" -> to(mem.jobs[k].status)
       [] OTHER ->
            IF Requests[k] = 0 /\ mem.reserved > 0
            THEN to("BUDGET_EXHAUSTED")
            ELSE Write(k, [WithStatus(k, "RUNNING") EXCEPT !.reserved = @ + reserve], "check")
  /\ UNCHANGED <<attempts, prior, answered, polled>>

(* The head of the loop: the cancellation, then the deadline. *)
Check(k) ==
  /\ run[k] = "check"
  /\ attempts' = [attempts EXCEPT ![k] = @ + 1]
  /\ \E l \in IF mem.jobs[k].cancelled THEN {"CANCELLED"} ELSE {"lookup", "TIMED_OUT"} :
       Write(k, mem, l)
  /\ UNCHANGED <<prior, answered, polled>>

(* The cache, and on a miss the call of the provider is under way. *)
Lookup(k) ==
  /\ run[k] = "lookup"
  /\ TryWrite(k, mem, IF mem.cached THEN "prior" ELSE "call")
  /\ UNCHANGED <<attempts, prior, answered, polled>>

(* The provider answers, or throws: 429, a time-out or the like; or 401,   *)
(* 403, a missing tool, which are not retried.                             *)
Answer(k) ==
  /\ run[k] = "call"
  /\ \E l \in {"store", Loop(k), "FAILED"} : Goto(k, l)
  /\ UNCHANGED <<mem, file, attempts, prior, ghosts, bounds>>

Store(k) ==
  /\ run[k] = "store"
  /\ TryWrite(k, [mem EXCEPT !.cached = TRUE], "prior")
  /\ UNCHANGED <<attempts, prior, answered, polled>>

(* toResearchResult or the write may throw; else the brief's revision is read. *)
ReadPrior(k) ==
  /\ run[k] = "prior"
  /\ \/ /\ Flush(mem)
        /\ prior' = [prior EXCEPT ![k] = mem.brief]
        /\ Goto(k, "finish")
     \/ /\ Goto(k, Loop(k))
        /\ UNCHANGED <<mem, file, prior>>
  /\ UNCHANGED <<attempts, ghosts, bounds>>

Result(k) == [WithStatus(k, "SUCCEEDED") EXCEPT !.brief = prior[k] + 1]

(* A mutant: the result is stored without a look at the cancellation. *)
OutcomeAny(k) == Result(k)

Outcome(k) == IF mem.jobs[k].cancelled THEN WithStatus(k, "CANCELLED") ELSE Result(k)

Finish(k) ==
  /\ run[k] = "finish"
  /\ TryWrite(k, Outcome(k), "none")
  /\ UNCHANGED <<attempts, prior, answered, polled>>

(* fail, and the end of a job the loop found cancelled: the status the row *)
(* has by now is not looked at.                                            *)
Close(k) ==
  /\ run[k] \in {"FAILED", "TIMED_OUT", "CANCELLED"}
  /\ Write(k, WithStatus(k, run[k]), "none")
  /\ UNCHANGED <<attempts, prior, answered, polled>>

----------------------------------------------------------------------------
(* cancelJob *)
Cancel(k) ==
  LET j == mem.jobs[k]
      l == [mem EXCEPT !.jobs[k] =
              [cancelled |-> TRUE,
               status |-> IF j.status \in {"QUEUED", "RUNNING"} THEN "CANCELLED" ELSE j.status]]
  IN
  /\ Known(k)
  /\ \/ Flush(l) /\ UNCHANGED bounds
     \/ FlushThrows(l)
  /\ UNCHANGED <<locals, ghosts>>

(* getJob, and getOutput of a job that succeeded. *)
Poll(k) ==
  /\ Known(k)
  /\ Flush(mem)
  /\ polled' = IF mem.jobs[k].status \in Terminal THEN polled \cup {k} ELSE polled
  /\ UNCHANGED <<locals, answered, lost, bounds>>

(* reviseBriefPublishAt with the revision the brief has. *)
Revise ==
  LET l == [mem EXCEPT !.brief = @ + 1] IN
  /\ mem.brief \in 1..MaxRevision - 1
  /\ \/ Flush(l) /\ UNCHANGED bounds
     \/ FlushThrows(l)
  /\ UNCHANGED <<locals, ghosts>>

(* Nothing takes up the jobs that the file says are under way. *)
Open(l) == {k \in Keys : l.jobs[k] # Nothing /\ l.jobs[k].status \notin Terminal}

Crash ==
  /\ crashes < MaxCrashes
  /\ crashes' = crashes + 1
  /\ mem' = file
  /\ lost' = lost \cup Open(file)
  /\ run' = [k \in Keys |-> "none"]
  /\ attempts' = [k \in Keys |-> 0]
  /\ prior' = [k \in Keys |-> 0]
  /\ UNCHANGED <<file, answered, polled, faults>>

Run(k) ==
  \/ Start(k) \/ Check(k) \/ Lookup(k) \/ Answer(k) \/ Store(k)
  \/ ReadPrior(k) \/ Finish(k) \/ Close(k)

Next ==
  \/ \E k \in Keys : Admit(k) \/ Run(k) \/ Cancel(k) \/ Poll(k)
  \/ Revise
  \/ Crash

Spec == Init /\ [][Next]_vars

(* The chain serves every function handed to it, and the provider answers  *)
(* within its time-out: a run goes on.                                     *)
Fairness == \A k \in Keys : WF_vars(Run(k))

FairSpec == Spec /\ Fairness

----------------------------------------------------------------------------
(* Types; a run has a job to work on. *)
TypeOK ==
  /\ mem \in Ledgers
  /\ file \in Ledgers
  /\ run \in [Keys -> {"none", "start", "check", "lookup", "call", "store", "prior",
                       "finish", "FAILED", "TIMED_OUT", "CANCELLED"}]
  /\ attempts \in [Keys -> Nat]
  /\ prior \in [Keys -> Nat]
  /\ answered \subseteq Keys /\ polled \subseteq Keys /\ lost \subseteq Keys
  /\ \A k \in Keys : run[k] # "none" => Known(k)
  /\ crashes \in 0..MaxCrashes /\ faults \in 0..MaxFaults

(* BEHAVIOR.md:23, ACCEPTANCE_MATRIX.md:47: what a client was told outlives *)
(* the process.  A receipt's job is in the file, and a job reported as      *)
(* ended is ended there, whatever ends, throws or is retried afterwards.    *)
ToldIsKept ==
  /\ \A k \in answered : file.jobs[k] # Nothing
  /\ \A k \in polled : file.jobs[k] # Nothing /\ file.jobs[k].status \in Terminal

Barred(row) == row # Nothing /\ row.cancelled /\ row.status # "SUCCEEDED"
Succeeded(row) == row # Nothing /\ row.status = "SUCCEEDED"

(* BEHAVIOR.md:28: a cancellation is a terminal decision.  Whatever the run *)
(* had in hand when it was recorded, its result is not stored: not in the   *)
(* file; nor in memory, though a restart may bring back a success the file  *)
(* had before a cancellation that never reached it.                         *)
CancelStands ==
  [][\A k \in Keys :
       /\ Barred(file.jobs[k]) => ~ Succeeded(file'.jobs[k])
       /\ Barred(mem.jobs[k]) => ~ Succeeded(mem'.jobs[k]) \/ mem' = file]_vars

(* BEHAVIOR.md:26: a job a client has a receipt for ends, whatever the      *)
(* provider answers and whatever other job meets, unless a write of its own *)
(* threw where nothing catches it, or the process ended before the file     *)
(* knew its end.                                                            *)
JobEnds ==
  \A k \in Keys :
    k \in answered ~> (k \in lost \/ (Known(k) /\ mem.jobs[k].status \in Terminal))
=============================================================================
