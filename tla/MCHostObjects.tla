--------------------------- MODULE MCHostObjects ----------------------------
(***************************************************************************)
(* Instances of HostObjects: v2, whose claim the StatefulSet provisions    *)
(* and that is to be retained, is there from the start; v1, whose claim    *)
(* the operator provisions and that goes with the host, may be added.      *)
(***************************************************************************)
EXTENDS HostObjects

CONSTANTS v1, v2

MCVolumes == <<v1, v2>>

\* another template, the added volume, and the host taken out of the CR
One == [there |-> TRUE, ver |-> "a", vols |-> {v2}]
Other == [there |-> TRUE, ver |-> "b", vols |-> {v2}]
Two == [there |-> TRUE, ver |-> "a", vols |-> {v1, v2}]
Out == [there |-> FALSE, ver |-> "a", vols |-> {v1, v2}]
MCSpecs == {One, Other, Two, Out}

\* a client may put the host back
MCEdits == {<<One, Other>>, <<One, Two>>, <<One, Out>>, <<Out, One>>}

\* what the operator does on failure; the cleanup policies are the defaults
Policy(create) ==
    [create |-> create, update |-> "abort", recreate |-> "recreate",
     loss |-> "recreate", failed |-> "Retain", unknown |-> "Delete"]
Strict == [Policy("ignore") EXCEPT !.update = "ignore", !.recreate = "abort", !.loss = "abort"]
MCPolicies == {Policy("delete"), Strict}
AbortPolicies == {Policy("abort")}

\* every call, but the read of a claim
MCFaults == FaultKinds \ {"claimread"}
=============================================================================
