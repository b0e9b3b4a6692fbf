---------------------------- MODULE MCMessageBus ----------------------------
(* Instances of MessageBus for TLC. *)
EXTENDS MessageBus

\* Name 1 is a host's, as the orchestrator's in main.py; agents run under the
\* other names.  Every name offers the capability 10.
MCCapabilities == [n \in Names |-> {10}]
=============================================================================
