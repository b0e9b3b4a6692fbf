---------------------------- MODULE MCLLMRuntime ----------------------------
(* Instances of LLMRuntime for TLC. *)
EXTENDS LLMRuntime

MCFallbacks == <<"q">>
MCLimits == [total |-> 1]
\* A provider may also report no usage.
MCUsages == {[prompt |-> 1, completion |-> 1, total |-> 2]}
=============================================================================
