--------------------------- MODULE MCSessionBinding ---------------------------
(* Values for TLC: three clients of any plan, all with one sentence or one *)
(* with a sentence of its own; the relay holds the guest's key or another. *)
EXTENDS SessionBinding

MCClients == {"c1", "c2", "c3"}
MCSentences == {[c \in MCClients |-> "n1"], [c \in MCClients |-> IF c = "c1" THEN "n2" ELSE "n1"]}
=============================================================================
