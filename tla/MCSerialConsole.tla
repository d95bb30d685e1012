--------------------------- MODULE MCSerialConsole ---------------------------
(* Values for TLC. *)
EXTENDS SerialConsole, TLC

CONSTANTS v1, v2   \* machines

NoVM   == {}
OneVM  == {v1}
TwoVMs == {v1, v2}
=============================================================================
