----------------------------- MODULE MCStaffTask -----------------------------
(* Instances of StaffTask for TLC. *)
EXTENDS StaffTask, TLC

Symmetry == Permutations(Requests) \cup Permutations(Staff)
=============================================================================
