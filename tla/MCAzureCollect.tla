--------------------------- MODULE MCAzureCollect ---------------------------
(* Values for TLC. *)
EXTENDS AzureCollect, TLC

CONSTANTS v1, v2   \* machines

NoVM   == {}
OneVM  == {v1}
TwoVMs == {v1, v2}
OneLine  == <<v1>>
TwoLines == <<v1, v2>>
=============================================================================
