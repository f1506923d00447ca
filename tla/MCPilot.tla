------------------------------- MODULE MCPilot -------------------------------
(* TLC instance of four machines of kf_pilot that share no file and no table: *)
(* the ReviewLoop of the notebook, the clustering it starts from (Canonical), *)
(* the ShadowBridge to the contractor's ledger and the StagingCycle.  Each is *)
(* explored from an initial state of the others and not in the product of all.*)
EXTENDS ReviewLoop, Canonical, ShadowBridge, StagingCycle, TLC

PilotSymmetry == Permutations(RunIds) \cup Permutations(Contracts)

(* Canonical has many initial states, StagingCycle some; the others move in one. *)
FirstTexts ==
  /\ equivalent = {{s} : s \in Signatures}
  /\ signature = [i \in 1..Count |-> CHOOSE s \in Signatures : TRUE]
FirstPages == \A p \in Pages : page[p].system = "before"

MCInit == Init /\ BridgeInit /\ Unjoined /\ CycleInit
MCSpec ==
  /\ MCInit
  /\ [][\/ /\ BridgeInit /\ Unjoined /\ FirstTexts /\ CycleInit /\ FirstPages
           /\ Next
           /\ UNCHANGED <<bridge, clusters, cycle>>
        \/ /\ Init /\ Unjoined /\ FirstTexts /\ CycleInit /\ FirstPages
           /\ BridgeNext
           /\ UNCHANGED <<vars, clusters, cycle>>
        \/ /\ Init /\ BridgeInit /\ CycleInit /\ FirstPages
           /\ Compare
           /\ UNCHANGED <<vars, bridge, cycle>>
        \/ /\ Init /\ BridgeInit /\ Unjoined /\ FirstTexts
           /\ CycleNext
           /\ UNCHANGED <<vars, bridge, clusters>>
       ]_<<vars, bridge, clusters, cycle>>
=============================================================================
