-------------------------- MODULE MCFlowSupervisor --------------------------
(* Model-checking instances of FlowSupervisor. *)
EXTENDS FlowSupervisor, TLC

Symmetry == Permutations(Flow) \cup Permutations(Pid)
=============================================================================
