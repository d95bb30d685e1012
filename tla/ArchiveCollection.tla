-------------------------- MODULE ArchiveCollection --------------------------
(***************************************************************************)
(* What every collector promises in the comment at its head: the archive   *)
(* of a machine is put on disk, and only then is the machine deleted.      *)
(* Nothing is said of how the archive travels, and a machine may be left   *)
(* alone for ever: that the archive arrives is a liveness property of the  *)
(* collectors themselves.                                                  *)
(***************************************************************************)
CONSTANT VMs

VARIABLES
  archived,           \* machines with an archive on the operator's disk
  released            \* machines the collector has deleted

Init == archived = {} /\ released = {}

Archive(v) ==
  /\ archived' = archived \cup {v}
  /\ UNCHANGED released

Release(v) ==
  /\ v \in archived
  /\ released' = released \cup {v}
  /\ UNCHANGED archived

Next == \E v \in VMs : Archive(v) \/ Release(v)

Spec == Init /\ [][Next]_<<archived, released>>
=============================================================================
