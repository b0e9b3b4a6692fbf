----------------------------- MODULE MCToolLoop -----------------------------
(* Instances of ToolLoop for TLC. *)
EXTENDS ToolLoop, TLC

CONSTANTS safe, unsafe, hidden, unlisted, c1, c2

\* "safe" and "unsafe" differ in parallel_safe; "hidden" is registered but not
\* offered to the run; "unlisted" is a name the LLM made up.
MCTools == {safe, unsafe, hidden, unlisted}
MCOffered == {safe, unsafe}
MCRegistry ==
  [t \in MCTools |-> [known |-> t # unlisted, parallel_safe |-> t \in {safe, hidden},
                      schema |-> 0]]

\* For approval, "hidden" is a name the application may register on the way.
ApprovalTools == {safe, unsafe, hidden}
ApprovalRegistry ==
  [t \in ApprovalTools |-> [known |-> t # hidden, parallel_safe |-> t = safe,
                            schema |-> 0]]
IdSymmetry == Permutations({c1, c2})

\* AgentToolLoopConfig(): the defaults, with StepBound rounds.
Default ==
  [max_steps |-> StepBound, require_tool_approval |-> FALSE,
   stop_on_tool_error |-> TRUE, parallel |-> FALSE,
   default_allow |-> TRUE, allowed_tools |-> {}, denied_tools |-> {},
   max_loop |-> Unlimited, max_round |-> Unlimited,
   max_tool |-> [t \in Tools |-> Unlimited], timeout |-> FALSE]

Keep == [Default EXCEPT !.stop_on_tool_error = FALSE]
Limited == [Keep EXCEPT !.max_loop = 2, !.max_round = 1]
PerTool == [Keep EXCEPT !.max_tool = [t \in Tools |-> IF t = safe THEN 1 ELSE Unlimited]]
Timed == [Keep EXCEPT !.timeout = TRUE]
Par == [Keep EXCEPT !.parallel = TRUE]
ParTimed == [Timed EXCEPT !.parallel = TRUE, !.denied_tools = {unsafe}]
Ask == [Keep EXCEPT !.require_tool_approval = TRUE]
AskLimited == [Ask EXCEPT !.max_loop = 1, !.denied_tools = {unsafe}]
AskPar == [Par EXCEPT !.require_tool_approval = TRUE, !.timeout = TRUE,
                      !.default_allow = FALSE, !.allowed_tools = {safe}]
AskShort == [AskPar EXCEPT !.max_steps = StepBound - 1]
AskStop == [Default EXCEPT !.require_tool_approval = TRUE]

RunConfigs == {Default, Keep, Limited, PerTool, Timed, Par, ParTimed, AskShort}
ApprovalConfigs == {Ask, AskLimited, AskPar, AskStop}
=============================================================================
