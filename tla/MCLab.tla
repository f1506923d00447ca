-------------------------------- MODULE MCLab --------------------------------
(* TLC instance of the publications of vendor2 and of the lab of vendor6.  They
   share nothing: each is explored from the initial state of the other. *)
EXTENDS MCPublications

CONSTANTS Threads, Drivers, Destinations, BudgetCap, MaxEvents, Nil, Drift

VARIABLES claim, article, labApprovals, jobs, spent, effects, labReceipts, labFault, labAt,
          snap, hand, leave, dest, job, granted, uncharged, labEvents

lab == <<claim, article, labApprovals, jobs, spent, effects, labReceipts, labFault, labAt,
         snap, hand, leave, dest, job, granted, uncharged, labEvents>>

Lab == INSTANCE LabChain WITH
  approvals <- labApprovals, receipts <- labReceipts, fault <- labFault, at <- labAt,
  events <- labEvents

(* What the lab's ledger holds; the null values lie outside of it. *)
Contents  == [rev : Lab!Revisions, snap : Lab!Statuses, title : {"draft", "changed"}]
Leaves    == [content : Contents, dest : Destinations]
Granted   == [content : Contents, dest : Destinations, decision : {"APPROVED", "REVOKED"}, live : BOOLEAN]
Delivered == [content : Contents, dest : Destinations, status : {"SCHEDULED", "CANCELLED"}]
Ways      == [to : Destinations, mode : {"DRY_RUN", "STAGING_DRAFT"}]
Results   == {"DRY_RUN", "UNKNOWN", "SCHEDULED", "other", "none"}
Works     == [payload : {"article", "other"}, status : {"RUNNING", "SUCCEEDED", "CANCELLED"},
              attempt : Nat, live : BOOLEAN, result : Results]

ASSUME LabAssumption ==
  /\ BudgetCap \in Nat /\ Nil # Drift
  /\ \A none \in {Nil, Drift} :
       /\ none \notin Contents /\ none \notin Leaves /\ none \notin Granted
       /\ none \notin Delivered /\ none \notin Ways /\ none \notin Works

MCInit == Init /\ Lab!LabInit
MCSpec ==
  /\ MCInit
  /\ [][\/ Lab!LabInit /\ Next /\ UNCHANGED lab
        \/ Init /\ Lab!LabNext /\ UNCHANGED vars]_<<vars, lab>>

(* The lab's effects are approved and its budget covers its jobs: see LabChain. *)
LabSound == Lab!LabSound
=============================================================================
