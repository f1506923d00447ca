----------------------------- MODULE ContentJobs -----------------------------
(***************************************************************************)
(* The jobs of the content workflow (vendor2, service.ts, queue.ts): their *)
(* admission, the in-memory queue, the two processors and cancellation.    *)
(*                                                                         *)
(* Granularity.  One step per awaited statement.  The deferred port runs a *)
(* dispatched job in a microtask of the same process: `queue` is what it   *)
(* still owes, and an end of the process empties it.  The tables survive.  *)
(* cancelJob looks at the status and at `cancelled` inside one UPDATE: it  *)
(* is one step.  persistLedger copies the tables to a file that only the   *)
(* mock's restart route reads, so it is no step here.                      *)
(*                                                                         *)
(* Abstractions.  A content job's article id is a function of its request  *)
(* id, so jobs of one request id number revisions of one article.  The     *)
(* check of evidence, budget and claims has the four outcomes of the code. *)
(***************************************************************************)
EXTENDS Integers, Sequences, FiniteSets

CONSTANTS
  Callers, Keys,
  RequestIds,
  RequestOf,  \* per key, the request id in its payload
  MaxCrashes, \* bound
  Nothing

VARIABLES
  kind,      \* per key, the operation it is used for
  idem,      \* cos_idempotency: keys in use; a key's job id is drawn with it
  jobs,      \* cos_jobs: per key, the row of the job it stands for
  articles,  \* cos_articles: per request id, the job each revision is from
  unusable,  \* request ids whose evidence is revoked
  queue,     \* jobs dispatched and not begun
  pc,        \* per caller of submit: idle, insert, dispatch
  mine,      \* the key it submits
  run,       \* per job, the await its processor is at
  rev,       \* the revision number it counted
  runs,      \* how often a processor began the job
  raced,     \* jobs first cancelled while a processor was under way
  lost,      \* jobs nothing will take up again, though they have not ended
  crashes

locals == <<queue, pc, mine, run, rev>>
ghosts == <<runs, raced, lost, crashes>>
vars == <<kind, idem, jobs, articles, unusable, locals, ghosts>>

Terminal == {"SUCCEEDED", "FAILED", "CANCELLED", "BLOCKED_INPUT", "BUDGET_EXHAUSTED"}
Rows == [status : {"QUEUED", "RUNNING"} \cup Terminal, cancelled : BOOLEAN]

Init ==
  /\ kind \in [Keys -> {"content", "planning"}]
  /\ idem = {}
  /\ jobs = [k \in Keys |-> Nothing]
  /\ articles = [r \in RequestIds |-> <<>>]
  /\ unusable = {}
  /\ queue = {}
  /\ pc = [c \in Callers |-> "idle"]
  /\ mine = [c \in Callers |-> Nothing]
  /\ run = [k \in Keys |-> "none"]
  /\ rev = [k \in Keys |-> 0]
  /\ runs = [k \in Keys |-> 0]
  /\ raced = {} /\ lost = {}
  /\ crashes = 0

----------------------------------------------------------------------------
(* submitContentJob, submitPlanningJob.  A key that has a job row is       *)
(* answered with it; one that has none, because its first caller is still  *)
(* on the way or died there, goes on as if it were fresh.                  *)
Admit(c, k) ==
  /\ pc[c] = "idle"
  /\ jobs[k] = Nothing
  /\ idem' = idem \cup {k}
  /\ mine' = [mine EXCEPT ![c] = k]
  /\ pc' = [pc EXCEPT ![c] = "insert"]
  /\ UNCHANGED <<kind, jobs, articles, unusable, queue, run, rev, ghosts>>

(* A mutant: a conflict is ignored and the job dispatched again. *)
InsertJobLoose(c) ==
  /\ pc[c] = "insert"
  /\ jobs' = IF jobs[mine[c]] = Nothing
             THEN [jobs EXCEPT ![mine[c]] = [status |-> "QUEUED", cancelled |-> FALSE]]
             ELSE jobs
  /\ pc' = [pc EXCEPT ![c] = "dispatch"]
  /\ UNCHANGED <<kind, mine, idem, articles, unusable, queue, run, rev, ghosts>>

(* The statement throws where the primary key refuses the row, or for another *)
(* reason.                                                                    *)
InsertJob(c) ==
  /\ pc[c] = "insert"
  /\ \/ /\ jobs[mine[c]] = Nothing
        /\ jobs' = [jobs EXCEPT ![mine[c]] = [status |-> "QUEUED", cancelled |-> FALSE]]
        /\ pc' = [pc EXCEPT ![c] = "dispatch"]
        /\ UNCHANGED mine
     \/ /\ pc' = [pc EXCEPT ![c] = "idle"]
        /\ mine' = [mine EXCEPT ![c] = Nothing]
        /\ UNCHANGED jobs
  /\ UNCHANGED <<kind, idem, articles, unusable, queue, run, rev, ghosts>>

Dispatch(c) ==
  /\ pc[c] = "dispatch"
  /\ queue' = queue \cup {mine[c]}
  /\ pc' = [pc EXCEPT ![c] = "idle"]
  /\ mine' = [mine EXCEPT ![c] = Nothing]
  /\ UNCHANGED <<kind, idem, jobs, articles, unusable, run, rev, ghosts>>

(* The row is in and the statement throws all the same: nobody dispatches it. *)
Forsake(c) ==
  /\ pc[c] = "dispatch"
  /\ lost' = lost \cup {mine[c]}
  /\ pc' = [pc EXCEPT ![c] = "idle"]
  /\ mine' = [mine EXCEPT ![c] = Nothing]
  /\ UNCHANGED <<kind, idem, jobs, articles, unusable, queue, run, rev, runs, raced, crashes>>

----------------------------------------------------------------------------
(* processContentJob and processPlanningJob. *)
SetStatus(k, s) == jobs' = [jobs EXCEPT ![k].status = s]
Goto(k, l) == run' = [run EXCEPT ![k] = l]

(* The row as the processor reads it; planning also returns at one that has  *)
(* ended.                                                                    *)
Ended(k) == jobs[k] # Nothing /\ jobs[k].status \in Terminal
Reads(k) ==
  IF jobs[k].cancelled THEN "stop"
  ELSE IF kind[k] = "planning" /\ Ended(k) THEN "none" ELSE "start"

Begin(k) ==
  /\ k \in queue
  /\ run[k] = "none"
  /\ queue' = queue \ {k}
  /\ runs' = [runs EXCEPT ![k] = @ + 1]
  /\ Goto(k, Reads(k))
  /\ UNCHANGED <<kind, idem, jobs, articles, unusable, pc, mine, rev, raced, lost, crashes>>

Stop(k) ==
  /\ run[k] = "stop"
  /\ SetStatus(k, "CANCELLED")
  /\ Goto(k, "none")
  /\ UNCHANGED <<kind, idem, articles, unusable, queue, pc, mine, rev, ghosts>>

Start(k) ==
  /\ run[k] = "start"
  /\ SetStatus(k, "RUNNING")
  /\ Goto(k, IF kind[k] = "content" THEN "check" ELSE "finish")
  /\ UNCHANGED <<kind, idem, articles, unusable, queue, pc, mine, rev, ghosts>>

(* Evidence revoked, no budget, no usable claim, or on with the article. *)
Check(k) ==
  /\ run[k] = "check"
  /\ IF RequestOf[k] \in unusable
     THEN Goto(k, "FAILED")
     ELSE \E l \in {"BUDGET_EXHAUSTED", "BLOCKED_INPUT", "count"} : Goto(k, l)
  /\ UNCHANGED <<kind, idem, jobs, articles, unusable, queue, pc, mine, rev, ghosts>>

NextRevision(k) == Len(articles[RequestOf[k]]) + 1

Count(k) ==
  /\ run[k] = "count"
  /\ rev' = [rev EXCEPT ![k] = NextRevision(k)]
  /\ Goto(k, "article")
  /\ UNCHANGED <<kind, idem, jobs, articles, unusable, queue, pc, mine, ghosts>>

(* insertArticle: a number taken meanwhile drops the row. *)
InsertArticle(k) ==
  LET r == RequestOf[k] IN
  /\ run[k] = "article"
  /\ articles' = IF rev[k] > Len(articles[r]) THEN [articles EXCEPT ![r] = Append(@, k)] ELSE articles
  /\ Goto(k, "finish")
  /\ UNCHANGED <<kind, idem, jobs, unusable, queue, pc, mine, rev, ghosts>>

Inside == {"check", "count", "article", "finish", "BUDGET_EXHAUSTED", "BLOCKED_INPUT"}

(* A mutant: no catch clause. *)
ThrowOut(k) ==
  /\ run[k] \in Inside
  /\ Goto(k, "none")
  /\ UNCHANGED <<kind, idem, jobs, articles, unusable, queue, pc, mine, rev, ghosts>>

(* A statement inside the try, or putArtifact, may throw; the catch clause   *)
(* then marks the job FAILED.                                                *)
Throw(k) ==
  /\ run[k] \in Inside
  /\ Goto(k, "FAILED")
  /\ UNCHANGED <<kind, idem, jobs, articles, unusable, queue, pc, mine, rev, ghosts>>

(* One outside may: the first SELECT (as if at what it read), the UPDATE to  *)
(* CANCELLED or to RUNNING, the catch clause's own.  The port logs it.       *)
Escape(k) ==
  /\ run[k] \in {"stop", "start", "FAILED"}
  /\ lost' = lost \cup {k}
  /\ Goto(k, "none")
  /\ UNCHANGED <<kind, idem, jobs, articles, unusable, queue, pc, mine, rev, runs, raced, crashes>>

Finish(k) ==
  /\ run[k] = "finish"
  /\ SetStatus(k, "SUCCEEDED")
  /\ Goto(k, "none")
  /\ UNCHANGED <<kind, idem, articles, unusable, queue, pc, mine, rev, ghosts>>

Close(k) ==
  /\ run[k] \in {"FAILED", "BUDGET_EXHAUSTED", "BLOCKED_INPUT"}
  /\ SetStatus(k, run[k])
  /\ Goto(k, "none")
  /\ UNCHANGED <<kind, idem, articles, unusable, queue, pc, mine, rev, ghosts>>

----------------------------------------------------------------------------
(* cancelJob *)
Cancel(k) ==
  /\ jobs[k] # Nothing
  /\ jobs' = [jobs EXCEPT ![k] = [cancelled |-> TRUE,
                status |-> IF @.status \in Terminal THEN @.status ELSE "CANCELLED"]]
  /\ raced' = IF run[k] # "none" /\ ~ jobs[k].cancelled THEN raced \cup {k} ELSE raced
  /\ UNCHANGED <<kind, idem, articles, unusable, locals, runs, lost, crashes>>

(* revokeEvidence, as far as jobs go. *)
RevokeEvidence(r) ==
  /\ r \notin unusable
  /\ unusable' = unusable \cup {r}
  /\ UNCHANGED <<kind, idem, jobs, articles, locals, ghosts>>

(* The jobs this process had still to run. *)
Owed == queue \cup {k \in Keys : run[k] # "none"} \cup {mine[c] : c \in {d \in Callers : pc[d] = "dispatch"}}

Crash ==
  /\ crashes < MaxCrashes
  /\ crashes' = crashes + 1
  /\ lost' = lost \cup Owed
  /\ queue' = {}
  /\ pc' = [c \in Callers |-> "idle"]
  /\ mine' = [c \in Callers |-> Nothing]
  /\ run' = [k \in Keys |-> "none"]
  /\ rev' = [k \in Keys |-> 0]
  /\ UNCHANGED <<kind, idem, jobs, articles, unusable, runs, raced>>

Submit(c) == InsertJob(c) \/ Dispatch(c) \/ Forsake(c)
Process(k) ==
  \/ Begin(k) \/ Stop(k) \/ Start(k) \/ Check(k) \/ Count(k)
  \/ InsertArticle(k) \/ Throw(k) \/ Escape(k) \/ Finish(k) \/ Close(k)

Next ==
  \/ \E c \in Callers : (\E k \in Keys : Admit(c, k)) \/ Submit(c)
  \/ \E k \in Keys : Process(k) \/ Cancel(k)
  \/ \E r \in RequestIds : RevokeEvidence(r)
  \/ Crash

Spec == Init /\ [][Next]_vars

(* Awaits return: a submission goes on to its end, and so does a job. *)
Fairness ==
  /\ \A c \in Callers : WF_vars(Submit(c))
  /\ \A k \in Keys : WF_vars(Process(k))

FairSpec == Spec /\ Fairness

----------------------------------------------------------------------------
(* BEHAVIOR.md:28, second half: a job cancelled before its processor reads  *)
(* it does no work, whatever dispatch was on its way; the code keeps the    *)
(* first half only for such a job, since RUNNING and SUCCEEDED are written  *)
(* without a look at the row.                                               *)
CancelPrevents ==
  \A k \in Keys : jobs[k] # Nothing /\ jobs[k].cancelled /\ k \notin raced
    => jobs[k].status \in Terminal /\ run[k] \in {"none", "stop"}

(* A job is begun once at most: two submissions of one key that both find   *)
(* no row do not both dispatch it, before and after a restart.              *)
ProcessedOnce == \A k \in Keys : runs[k] <= 1

(* BEHAVIOR.md:26: a job whose row exists comes to a terminal status,       *)
(* whatever other jobs meet and whatever throws inside the try, unless one  *)
(* of its own statements outside threw or the process ended that owed it.   *)
JobEnds == \A k \in Keys : jobs[k] # Nothing ~> (k \in lost \/ Ended(k))
=============================================================================
