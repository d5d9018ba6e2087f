---------------------------- MODULE MCOrderIntake ----------------------------
(* Instances of OrderIntake for TLC. *)
EXTENDS OrderIntake, TLC

Symmetry == Permutations(Requests) \cup Permutations(Clients)
              \cup Permutations(Inquiries) \cup Permutations(Orders)
=============================================================================
