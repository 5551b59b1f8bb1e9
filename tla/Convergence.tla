----------------------------- MODULE Convergence -----------------------------
(***************************************************************************)
(* What a reconciler promises of one custom resource: the children follow  *)
(* the specification forward, what a deletion has removed stays removed,   *)
(* and in the end the children are what is wanted or the resource says     *)
(* why not.                                                                *)
(***************************************************************************)
EXTENDS Naturals

VARIABLES
    want,   \* the version asked for; 0: the resource is deleted
    have,   \* the version of the children; 0: there are none
    torn,   \* the children were removed by the deletion
    stuck   \* the resource reports a reason for not converging

vars == <<want, have, torn, stuck>>

Init == want # 0 /\ have = 0 /\ ~torn

(* A newer version is wanted, or none any more. *)
Change ==
    /\ want' > want \/ want' = 0
    /\ UNCHANGED <<have, torn>>

(* The children are brought forward, to what is wanted or was.  A pass that *)
(* was under way when the resource was deleted may still do so.             *)
Bring ==
    /\ ~torn
    /\ have' >= have /\ (want # 0 => have' <= want)
    /\ UNCHANGED <<want, torn>>

(* The children of a deleted resource are removed. *)
TearDown ==
    /\ want = 0
    /\ have' = 0
    /\ torn' \in {torn, TRUE}
    /\ UNCHANGED want

(* The report comes and goes. *)
Report == UNCHANGED <<want, have, torn>>

Next == Change \/ Bring \/ TearDown \/ Report

Safe == Init /\ [][Next]_vars

Spec == Safe /\ <>[](stuck \/ have = want)

=============================================================================
