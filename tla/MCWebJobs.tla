------------------------------ MODULE MCWebJobs -------------------------------
(* TLC instance of the jobs of the two web applications: those of Planning,  *)
(* one that may ask the provider and one whose budget names no request, and  *)
(* those of ContentJobs, two keys whose payloads share a request id and so,  *)
(* when both are content jobs, the article they write.  The applications     *)
(* share nothing: each is explored from the initial state of the other.      *)
EXTENDS Planning, TLC

CONSTANTS k1, k2, Callers, RequestIds, RequestOf, MaxRestarts

VARIABLES kind, idem, jobs, articles, unusable, queue, pc, mine, process, rev,
          runs, raced, dropped, restarts

content ==
  <<kind, idem, jobs, articles, unusable, queue, pc, mine, process, rev, runs, raced,
    dropped, restarts>>

RequestsOf == k1 :> 3 @@ k2 :> 0
AttemptsOf == k1 :> 2 @@ k2 :> 2
OneRequest == [k \in Keys |-> "r1"]

Content == INSTANCE ContentJobs WITH
  MaxCrashes <- MaxRestarts, run <- process, lost <- dropped, crashes <- restarts

ASSUME NoRowAssumption == Nothing \notin Content!Rows

(* ContentJobs has one initial state per kind of job; Planning starts in one. *)
AllContent == kind = [k \in Keys |-> "content"]

MCInit == Init /\ Content!Init
MCSpec ==
  /\ MCInit
  /\ [][\/ Content!Init /\ AllContent /\ Next /\ UNCHANGED content
        \/ Init /\ Content!Next /\ UNCHANGED vars]_<<vars, content>>
  /\ Fairness /\ Content!Fairness

(* A cancelled job does no work, and a job is begun once at most (see *)
(* ContentJobs); with the types of both machines.                     *)
NoWorkTwice == TypeOK /\ Content!CancelPrevents /\ Content!ProcessedOnce

(* Every job comes to an end: see Planning and ContentJobs. *)
EveryJobEnds == JobEnds /\ Content!JobEnds
=============================================================================
