----------------------------- MODULE MCProgress -----------------------------
(* TLC instance of what must not wait for ever on others: the processes of   *)
(* CmsAdapter on their file lock, and the Preflights on their provider.  They*)
(* share nothing: the adapter is explored beside a preflight that is not run,*)
(* and each preflight beside an adapter at rest.                             *)
EXTENDS CmsAdapter, Preflights, TLC

MCInit == Init /\ PreflightInit
MCSpec ==
  /\ MCInit
  /\ [][\/ which = "none" /\ Next /\ UNCHANGED preflight
        \/ PreflightNext /\ UNCHANGED vars]_<<vars, preflight>>
  /\ LockFairness /\ PreflightFairness
=============================================================================
