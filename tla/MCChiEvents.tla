----------------------------- MODULE MCChiEvents -----------------------------
(* Instances of ChiEvents for TLC. *)
EXTENDS ChiEvents

MCThree == 1 .. 3

\* The second specification differs from the first in its settings only.
MCRolls == [s \in 1 .. 3 |-> IF s = 3 THEN 2 ELSE 1]

=============================================================================
