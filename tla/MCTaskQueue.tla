---------------------------- MODULE MCTaskQueue ----------------------------
(* Instances of TaskQueue for TLC. *)
EXTENDS TaskQueue, TLC

(* Every worker of the compose file is started as "worker-1". *)
MCWorkerName == [w \in Workers |-> "worker-1"]

Symmetry == Permutations(Jobs) \cup Permutations(Workers)
=============================================================================
