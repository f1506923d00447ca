----------------------------- MODULE Preflights -----------------------------
(* The three staging preflights side by side, for a model to run one of them: *)
(* RuntimePreflight, GatewayPreflight and LabPreflight have variables of the  *)
(* same names for the same things, and `which` says whose they are.           *)
EXTENDS Integers, Sequences

CONSTANTS Count, MaxRequests, MaxBatch, MaxRelations, MaxPages, MaxRelationPages,
          PageSize, RetryBudget, MaxRows, MaxThrottle

(* Limits are numbers, and those of the gateway's paginations allow a page. *)
ASSUME PreflightsAssumption ==
  /\ Count \in Nat /\ MaxRequests \in Nat /\ MaxBatch \in Nat /\ MaxRelations \in Nat
  /\ MaxPages \in Nat \ {0} /\ MaxRelationPages \in Nat \ {0}
  /\ PageSize \in Nat /\ MaxRows \in Nat

VARIABLES which,
          db, at, sent, verdict,                                  \* all three
          pinned, cursors, rows, rels, left, targets, found,      \* runtime and gateway
          ids, named, empty, related, vouched,                    \* runtime
          verified, errors,                                       \* gateway
          size, fault, limited, throttle, again, cursor, seen, pages, read, row, findings \* lab

visited  == <<pinned, cursors, rows, rels, left, targets, found>>
lab      == <<size, fault, limited, throttle, again, cursor, seen, pages, read, row, findings>>
runtime   == <<ids, named, empty, related, vouched>>
preflight == <<which, db, at, sent, verdict, visited, runtime, verified, errors, lab>>

R == INSTANCE RuntimePreflight WITH pc <- at
G == INSTANCE GatewayPreflight WITH pc <- at
L == INSTANCE LabPreflight WITH pc <- at, tries <- again

(* What belongs to a preflight that is not run. *)
IdleVisited == /\ pinned = {} /\ cursors = 0 /\ rows = 0 /\ rels = 0 /\ left = 0
               /\ targets = 0 /\ found = FALSE
IdleRuntime == ids = {} /\ named = 0 /\ empty = FALSE /\ related = {} /\ vouched = {}
IdleGateway == verified = {} /\ errors = {}
IdleLab     == /\ size = <<>> /\ fault = "none" /\ limited = {} /\ throttle = 0 /\ again = 0
               /\ cursor = 0 /\ seen = {} /\ pages = 0 /\ read = <<>> /\ row = 0 /\ findings = {}
IdleAll     == db = 1 /\ at = "done" /\ sent = 0 /\ verdict = "none"

PreflightInit ==
  \/ which = "runtime" /\ R!Init /\ IdleGateway /\ IdleLab
  \/ which = "gateway" /\ G!Init /\ IdleRuntime /\ IdleLab
  \/ which = "lab" /\ L!Init /\ IdleVisited /\ IdleRuntime /\ IdleGateway
  \/ which = "none" /\ IdleAll /\ IdleVisited /\ IdleRuntime /\ IdleGateway /\ IdleLab

PreflightNext ==
  \/ which = "runtime" /\ R!Next /\ UNCHANGED <<which, verified, errors, lab>>
  \/ which = "gateway" /\ G!Next /\ UNCHANGED <<which, runtime, lab>>
  \/ which = "lab" /\ L!Next /\ UNCHANGED <<which, visited, runtime, verified, errors>>

(* A preflight is one synchronous loop; a call returns or times out. *)
PreflightFairness == WF_preflight(PreflightNext)

PreflightSpec == PreflightInit /\ [][PreflightNext]_preflight /\ PreflightFairness

-----------------------------------------------------------------------------
(* A preflight says that staging is good only when it has seen that it is, and *)
(* its requests are bounded, whatever the provider answers: see                *)
(* RuntimePreflight and GatewayPreflight.                                      *)
VerdictSound == /\ which = "runtime" => R!ReadOkSound /\ R!RequestsBounded
                /\ which = "gateway" => G!OkSound /\ G!RequestsBounded

(* A pagination that ends has every row once and in order: see LabPreflight.   *)
PagesComplete == [][which = "lab" /\ L!PageEnd
                      => read' = L!AllRows(IF at = "query" THEN db ELSE 0)]_preflight

(* A preflight ends, whatever the provider answers, and with a verdict unless  *)
(* it raised: see the three modules.                                           *)
PreflightEnds == <>(which = "none" \/ at = "raised" \/ (at = "done" /\ verdict # "none"))
=============================================================================
