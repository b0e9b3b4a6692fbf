---------------------------- MODULE MCHostMemory ----------------------------
(* Instances of HostMemory for TLC. *)
EXTENDS HostMemory

AgentSymmetry == Permutations(Agents)
=============================================================================
