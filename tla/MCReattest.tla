------------------------------ MODULE MCReattest ------------------------------
(* Values for TLC. *)
EXTENDS Reattest, TLC

CONSTANTS v1          \* the machine

OneVM == {v1}
=============================================================================
