---------------------------- MODULE MCKeeperLink ----------------------------
(* Instances of KeeperLink for TLC. *)
EXTENDS KeeperLink

CONSTANTS a, b

\* one keeper, and another in its place: while it is replaced there are two
MCLayouts == {{a}, {b}}
MCFirst == {a}

=============================================================================
