---------------------------- MODULE MCStatusStore ----------------------------
(* Instances of StatusStore: the .cfg files give the constants. *)
EXTENDS StatusStore
=============================================================================
