------------------------------ MODULE ToolLoop ------------------------------
(***************************************************************************)
(* AgentToolLoop (kernel/agent_tool_loop.py): the bounded LLM -> tool ->   *)
(* LLM loop, from the LLM request of a round to the tool results that are  *)
(* fed back, with                                                          *)
(*   - the permission policy and the resource limits,                      *)
(*   - sequential and parallel execution groups,                           *)
(*   - the approval pause, the in-memory checkpoint and resume(),          *)
(*   - the worker threads that run the callables, which a timeout abandons *)
(*     but does not stop.                                                  *)
(*                                                                         *)
(* One behaviour is one run() of one loop object and the resume() calls of *)
(* its caller.  The LLM, the callables and the caller are the environment. *)
(* A call is identified by its round and its position in the response,     *)
(* because the ids an LLM gives its calls need not be distinct.            *)
(***************************************************************************)
EXTENDS Integers, Sequences, FiniteSets, Lists

CONSTANTS
  Tools,           \* the tool names an LLM response may mention
  Offered,         \* allowed_tool_names: the tools the run was started with
  CallIds,         \* the ids an LLM may give to its tool calls
  Configs,         \* the AgentToolLoopConfig values a run may be started with
  InitialRegistry, \* the tool registry when the run starts
  StepBound,       \* the largest max_steps in Configs
  MaxCalls,        \* bound on the calls of one response
  MaxRequested,    \* bound on the calls the LLM makes in a run
  MaxOverwrites,   \* bound on register(..., overwrite=True) during the run
  ConcurrentRegistration \* may another thread register while the loop runs?

Unlimited == -1    \* a limit that is None
Limit == Nat \cup {Unlimited}
Steps == 0 .. StepBound - 1
Indices == 1 .. MaxCalls
Keys == Steps \X Indices
Call == [id : CallIds, name : Tools]
Response == UNION {[1 .. n -> Call] : n \in 0 .. MaxCalls}
Definition == [known : BOOLEAN, parallel_safe : BOOLEAN, schema : {0, 1}]

\* ToolPermissionPolicy, ToolResourceLimits and AgentToolLoopConfig, flattened.
Config ==
  [max_steps : 1 .. StepBound,
   require_tool_approval : BOOLEAN,
   stop_on_tool_error : BOOLEAN,
   parallel : BOOLEAN,                 \* tool_execution_mode = "parallel"
   default_allow : BOOLEAN,
   allowed_tools : SUBSET Tools,
   denied_tools : SUBSET Tools,
   max_loop : Limit,                   \* max_tool_calls_per_loop
   max_round : Limit,                  \* max_tool_calls_per_round
   max_tool : [Tools -> Limit],        \* max_calls_per_tool
   timeout : BOOLEAN]                  \* tool_timeout_ms is set

ASSUME ConstantsAssumption ==
  /\ StepBound \in Nat \ {0}
  /\ MaxCalls \in Nat \ {0}
  /\ MaxRequested \in Nat
  /\ MaxOverwrites \in Nat
  /\ ConcurrentRegistration \in BOOLEAN
  /\ Offered \subseteq Tools
  /\ Configs \subseteq Config
  /\ InitialRegistry \in [Tools -> Definition]

\* _ToolOutcome; "none" is None, "raised" an outcome whose conversion raised.
Executed == {"ok", "failed", "timeout"}
Denial == {"denied", "limited", "unapproved"}
Outcome == Executed \cup Denial \cup {"none", "raised"}

VARIABLES
  config, registry, overwrites,
  pc, reason, step, cursor,
  parallel,     \* the resolved execution mode of the current group
  resuming,     \* resuming_round
  response,     \* the tool calls of each round's LLM response
  outcome,      \* the outcomes of the current group, by position
  waiting,      \* positions whose outcome the loop is waiting for
  requested,    \* _ToolResourceLimitState
  history,      \* the messages the next LLM request carries
  results,      \* all_tool_results
  checkpoints, consumed,
  thread,       \* what the thread of each call is doing
  \* History variables: nothing below is read by an action.
  entered,      \* how often the callable of a call was entered
  charge,       \* the counters record_requested() saw for a call
  decision,     \* what the caller decided, by round and call id
  requests      \* LLM requests made, by round

registryVars == <<registry, overwrites>>
controlVars == <<pc, reason, step, cursor, parallel, resuming>>
checkpointVars == <<checkpoints, consumed, decision>>
threadVars == <<thread, entered>>
limitVars == <<requested, charge>>
vars == <<config, registryVars, controlVars, response, outcome, waiting,
          limitVars, history, results, checkpointVars, threadVars, requests>>

-----------------------------------------------------------------------------
(* Permissions, limits and the execution mode. *)

NoOutcomes == [i \in Indices |-> "none"]
calls == response[step]
Here(i) == <<step, i>>

\* ToolPermissionPolicy.check
Permitted(name) ==
  /\ name \notin config.denied_tools
  /\ config.default_allow \/ name \in config.allowed_tools

\* record_requested: the counters after charging one more call.  A call is
\* charged whatever is then decided about it.
RecordRequested(name) ==
  [total |-> requested.total + 1,
   round |-> [requested.round EXCEPT ![step] = @ + 1],
   tool  |-> [requested.tool EXCEPT ![name] = @ + 1]]

Within(count, limit) == limit = Unlimited \/ count <= limit

\* Mutant: the decision is taken on the counters before the update.
ResourceAllowedStale(after, name) ==
  /\ Within(requested.total, config.max_loop)
  /\ Within(requested.round[step], config.max_round)
  /\ Within(requested.tool[name], config.max_tool[name])

\* record_requested: the decision, taken on the counters it just updated.
ResourceAllowed(after, name) ==
  /\ Within(after.total, config.max_loop)
  /\ Within(after.round[step], config.max_round)
  /\ Within(after.tool[name], config.max_tool[name])

\* What the checks before execution make of a call; "none" if it may run.
Verdict(after, name) ==
  IF ~Permitted(name) THEN "denied"
  ELSE IF ~ResourceAllowed(after, name) THEN "limited"
  ELSE "none"

ParallelSafe(name) == registry[name].known /\ registry[name].parallel_safe

\* Mutant: one parallel safe tool is enough.
ResolveModeAny(resp, S) ==
  config.parallel /\ \E i \in S : ParallelSafe(resp[i].name)

\* _resolve_tool_execution_group_mode over the calls at positions S
ResolveMode(resp, S) ==
  config.parallel /\ \A i \in S : ParallelSafe(resp[i].name)

\* _execute_tool_call: a registered tool that was not offered to this run
NotAllowed(name) == name \notin Offered /\ registry[name].known

-----------------------------------------------------------------------------
Init ==
  /\ config \in Configs
  /\ registry = InitialRegistry
  /\ overwrites = 0
  /\ pc = "request" /\ reason = "none" /\ step = 0 /\ cursor = 1
  /\ parallel = FALSE /\ resuming = FALSE
  /\ response = [s \in Steps |-> <<>>]
  /\ outcome = NoOutcomes
  /\ waiting = {}
  /\ requested = [total |-> 0, round |-> [s \in Steps |-> 0],
                  tool |-> [t \in Tools |-> 0]]
  /\ charge = [k \in Keys |-> [total |-> 0, round |-> 0, tool |-> 0]]
  /\ history = <<>>
  /\ results = [k \in Keys |-> "none"]
  /\ checkpoints = <<>> /\ consumed = {}
  /\ decision = [s \in Steps |-> [c \in CallIds |-> "none"]]
  /\ thread = [k \in Keys |-> "idle"]
  /\ entered = [k \in Keys |-> 0]
  /\ requests = [s \in Steps |-> 0]

Return(why) == pc' = "returned" /\ reason' = why

-----------------------------------------------------------------------------
(* run(): one iteration of the round loop up to the tool group. *)

\* Mutant: one round too many.
LLMRequestLate ==
  /\ pc = "request" /\ step <= config.max_steps
  /\ requests' = [requests EXCEPT ![step] = @ + 1]
  /\ UNCHANGED <<config, registryVars, step, checkpointVars, limitVars,
                 threadVars, results, outcome, waiting>>

LLMRequest ==
  /\ pc = "request" /\ step < config.max_steps
  /\ requests' = [requests EXCEPT ![step] = @ + 1]
  /\ UNCHANGED <<config, registryVars, step, checkpointVars, limitVars,
                 threadVars, results, outcome, waiting>>

\* llm_runtime.chat raised.
LLMError ==
  /\ LLMRequest
  /\ Return("llm_error")
  /\ UNCHANGED <<cursor, parallel, resuming, response, history>>

\* A response without tool calls ends the run.
FinalResponse ==
  /\ LLMRequest
  /\ Return("completed")
  /\ UNCHANGED <<cursor, parallel, resuming, response, history>>

\* Mutant: off by one.
NoRoundLeftLate == ~config.require_tool_approval /\ step >= config.max_steps

\* Without approval, calls in the last round are returned as pending instead of
\* executed.
NoRoundLeft == ~config.require_tool_approval /\ step + 1 >= config.max_steps

\* The response carries tool calls.
ToolCallsReceived(resp) ==
  /\ LLMRequest
  /\ requested.total + Len(resp) <= MaxRequested
  /\ response' = [response EXCEPT ![step] = resp]
  /\ resuming' = FALSE
  /\ IF NoRoundLeft
     THEN /\ Return("max_steps_exceeded")
          /\ UNCHANGED <<cursor, parallel, history>>
     ELSE /\ history' = Append(history, [role |-> "assistant", step |-> step,
                                         index |-> Len(resp)])
          /\ cursor' = 1
          /\ parallel' = ResolveMode(resp, {i \in 1 .. Len(resp) :
                                              Permitted(resp[i].name)})
          /\ pc' = IF config.require_tool_approval \/ parallel'
                   THEN "preflight" ELSE "sequential"
          /\ UNCHANGED reason

\* The for loop ran out of rounds.
StepsExhausted ==
  /\ pc = "request" /\ step >= config.max_steps
  /\ Return("max_steps_exceeded")
  /\ UNCHANGED <<config, registryVars, step, cursor, parallel, resuming,
                 response, outcome, waiting, limitVars, history, results,
                 checkpointVars, threadVars, requests>>

-----------------------------------------------------------------------------
(* Preflight: every call of the group is charged and checked before any    *)
(* runs, when approval is required or the group is parallel.               *)

PreflightCall ==
  /\ pc = "preflight" /\ cursor <= Len(calls)
  /\ LET name  == calls[cursor].name
         after == RecordRequested(name)
     IN  /\ requested' = after
         /\ charge' = [charge EXCEPT ![Here(cursor)] =
              [total |-> after.total, round |-> after.round[step],
               tool |-> after.tool[name]]]
         /\ outcome' = [outcome EXCEPT ![cursor] = Verdict(after, name)]
  /\ cursor' = cursor + 1
  /\ UNCHANGED <<config, registryVars, pc, reason, step, parallel, resuming,
                 response, waiting, history, results, checkpointVars,
                 threadVars, requests>>

\* The calls of a group that passed every check so far.
Runnable(out) == {i \in 1 .. Len(calls) : out[i] = "none"}

\* Hand the calls of S to threads; one that was not offered fails at once.
Submit(S, out) ==
  LET refused == {i \in S : NotAllowed(calls[i].name)}
  IN  /\ outcome' = [i \in Indices |-> IF i \in refused THEN "failed" ELSE out[i]]
      /\ waiting' = S \ refused
      /\ thread' = [k \in Keys |->
           IF k[1] = step /\ k[2] \in S \ refused THEN "queued" ELSE thread[k]]

\* Without approval, a parallel group starts all its calls.
StartParallelGroup ==
  /\ pc = "preflight" /\ cursor > Len(calls) /\ ~config.require_tool_approval
  /\ Submit(Runnable(outcome), outcome)
  /\ pc' = "await"
  /\ UNCHANGED <<config, registryVars, reason, step, cursor, parallel,
                 resuming, response, limitVars, history, results,
                 checkpointVars, entered, requests>>

\* Mutants: the checkpoint forgets the counters, the results of earlier
\* rounds, or the assistant message of its own round.
SnapshotWithoutCounters(mode) ==
  [step |-> step, history |-> history, response |-> calls,
   preflight |-> outcome, parallel |-> mode,
   requested |-> [total |-> 0, round |-> [s \in Steps |-> 0],
                  tool |-> [t \in Tools |-> 0]],
   results |-> results]
SnapshotWithoutResults(mode) ==
  [step |-> step, history |-> history, response |-> calls,
   preflight |-> outcome, parallel |-> mode, requested |-> requested,
   results |-> [k \in Keys |-> "none"]]
SnapshotWithoutMessage(mode) ==
  [step |-> step, history |-> SubSeq(history, 1, Len(history) - 1),
   response |-> calls, preflight |-> outcome, parallel |-> mode,
   requested |-> requested, results |-> results]

\* AgentToolLoopCheckpoint: all that resume() goes on from.
Snapshot(mode) ==
  [step |-> step, history |-> history, response |-> calls,
   preflight |-> outcome, parallel |-> mode, requested |-> requested,
   results |-> results]

\* With approval, calls that passed the checks pause the run.
PauseForApproval ==
  /\ pc = "preflight" /\ cursor > Len(calls) /\ config.require_tool_approval
  /\ Runnable(outcome) # {}
  /\ parallel' = ResolveMode(calls, Runnable(outcome))
  /\ checkpoints' = Append(checkpoints, Snapshot(parallel'))
  /\ pc' = "paused" /\ reason' = "approval_required"
  /\ UNCHANGED <<config, registryVars, step, cursor, resuming, response,
                 outcome, waiting, limitVars, history, results, consumed,
                 decision, threadVars, requests>>

\* Nothing passed: the denials are fed back and no approval is asked for.
NothingToApprove ==
  /\ pc = "preflight" /\ cursor > Len(calls) /\ config.require_tool_approval
  /\ Runnable(outcome) = {}
  /\ pc' = "finish"
  /\ UNCHANGED <<config, registryVars, reason, step, cursor, parallel,
                 resuming, response, outcome, waiting, limitVars, history,
                 results, checkpointVars, threadVars, requests>>

-----------------------------------------------------------------------------
(* resume(): the caller presents checkpoint n, which may be an old one,    *)
(* and decisions d for some of its pending call ids.                       *)

PendingIds(c) == {c.response[i].id : i \in {j \in 1 .. Len(c.response) :
                                              c.preflight[j] = "none"}}

DefinitionsCompatible == \A t \in Offered : registry[t].known /\ registry[t].schema = 0

\* Mutant: consumed checkpoints are not remembered.
MayResumeAgain(n) == pc \in {"paused", "returned"}

\* The caller has the thread of control, and the checkpoint is unused.
MayResume(n) == pc \in {"paused", "returned"} /\ n \notin consumed

\* An incomplete set of decisions returns the checkpoint again.
ResumePartially(n, d) ==
  /\ MayResume(n)
  /\ DOMAIN d # PendingIds(checkpoints[n])
  /\ pc' = "paused" /\ reason' = "approval_required"
  /\ UNCHANGED <<config, registryVars, step, cursor, parallel, resuming,
                 response, outcome, waiting, limitVars, history, results,
                 checkpointVars, threadVars, requests>>

\* Mutant: the denials of the caller are dropped.
DecidedByPreflight(c, d) == c.preflight

\* What the decisions make of the calls that passed preflight.
Decided(c, d) ==
  [i \in Indices |->
    IF /\ i <= Len(c.response) /\ c.preflight[i] = "none"
       /\ ~d[c.response[i].id]
    THEN "unapproved" ELSE c.preflight[i]]

\* A complete set consumes the checkpoint and restarts its round at the
\* stored response, with the stored counters, mode and preflight outcomes.
Resume(n, d) ==
  LET c == checkpoints[n]
  IN  /\ MayResume(n)
      /\ DOMAIN d = PendingIds(c)
      /\ DefinitionsCompatible
      /\ consumed' = consumed \cup {n}
      /\ decision' = [decision EXCEPT ![c.step] =
           [x \in CallIds |-> IF x \notin DOMAIN d THEN @[x]
                              ELSE IF d[x] THEN "approve" ELSE "deny"]]
      /\ step' = c.step /\ cursor' = 1 /\ resuming' = TRUE
      /\ parallel' = c.parallel
      /\ response' = [response EXCEPT ![c.step] = c.response]
      /\ outcome' = Decided(c, d) /\ waiting' = {}
      /\ requested' = c.requested /\ history' = c.history
      /\ results' = c.results
      /\ pc' = IF c.parallel THEN "approved" ELSE "sequential"
      /\ reason' = "none"
      /\ UNCHANGED <<config, registryVars, checkpoints, charge, threadVars,
                     requests>>

\* _execute_approved_tool_group, parallel: all approved calls start.
StartApprovedGroup ==
  /\ pc = "approved"
  /\ Submit(Runnable(outcome), outcome)
  /\ pc' = "await"
  /\ UNCHANGED <<config, registryVars, reason, step, cursor, parallel,
                 resuming, response, limitVars, history, results,
                 checkpointVars, entered, requests>>

-----------------------------------------------------------------------------
(* Sequential groups. *)

\* Where a sequential group goes once the call at cursor has an outcome.
Continue(result) ==
  IF result = "raised" \/ (result # "ok" /\ config.stop_on_tool_error)
  THEN pc' = "finish" /\ UNCHANGED cursor
  ELSE pc' = "sequential" /\ cursor' = cursor + 1

Start(i, out) ==
  /\ Submit({i}, out)
  /\ IF NotAllowed(calls[i].name)
     THEN Continue("failed")
     ELSE pc' = "await" /\ UNCHANGED cursor

\* _execute_tool_group: charge the next call, check it, run it.
NextCall ==
  /\ pc = "sequential" /\ ~resuming /\ cursor <= Len(calls)
  /\ LET name    == calls[cursor].name
         after   == RecordRequested(name)
         verdict == Verdict(after, name)
     IN  /\ requested' = after
         /\ charge' = [charge EXCEPT ![Here(cursor)] =
              [total |-> after.total, round |-> after.round[step],
               tool |-> after.tool[name]]]
         /\ IF verdict = "none"
            THEN Start(cursor, outcome)
            ELSE /\ outcome' = [outcome EXCEPT ![cursor] = verdict]
                 /\ Continue(verdict)
                 /\ UNCHANGED <<waiting, thread>>
  /\ UNCHANGED <<config, registryVars, reason, step, parallel, resuming,
                 response, history, results, checkpointVars, entered, requests>>

\* _execute_approved_tool_group: the next call that was approved; nothing is
\* charged again.
NextApprovedCall ==
  /\ pc = "sequential" /\ resuming /\ cursor <= Len(calls)
  /\ IF outcome[cursor] = "none"
     THEN Start(cursor, outcome)
     ELSE cursor' = cursor + 1 /\ UNCHANGED <<pc, outcome, waiting, thread>>
  /\ UNCHANGED <<config, registryVars, reason, step, parallel, resuming,
                 response, limitVars, history, results, checkpointVars,
                 entered, requests>>

EndOfSequence ==
  /\ pc = "sequential" /\ cursor > Len(calls)
  /\ pc' = "finish"
  /\ UNCHANGED <<config, registryVars, reason, step, cursor, parallel,
                 resuming, response, outcome, waiting, limitVars, history,
                 results, checkpointVars, threadVars, requests>>

-----------------------------------------------------------------------------
(* The threads, and the loop waiting for them. *)

Awaited(k) == pc = "await" /\ k[1] = step /\ k[2] \in waiting

\* The outcome of call i arrives at the loop.
Deliver(i, result) ==
  /\ outcome' = [outcome EXCEPT ![i] = result]
  /\ waiting' = waiting \ {i}
  /\ IF parallel
     THEN /\ pc' = IF waiting' = {} THEN "finish" ELSE "await"
          /\ UNCHANGED cursor
     ELSE Continue(result)

\* Turning the result of a callable into a tool message may raise.  Only the
\* parallel group without approval catches that.
Converted(result) ==
  IF result = "raised" /\ parallel /\ ~resuming THEN "failed" ELSE result

\* ToolRuntime.execute rejects an unknown tool or invalid arguments.
CallRejected(k) ==
  /\ thread[k] = "queued" /\ Awaited(k)
  /\ thread' = [thread EXCEPT ![k] = "done"]
  /\ Deliver(k[2], "failed")
  /\ UNCHANGED <<config, registryVars, reason, step, parallel, resuming,
                 response, limitVars, history, results, checkpointVars,
                 entered, requests>>

\* ToolRuntime.execute enters the callable.
CallEntered(k) ==
  /\ thread[k] = "queued" /\ registry[response[k[1]][k[2]].name].known
  /\ thread' = [thread EXCEPT ![k] = "running"]
  /\ entered' = [entered EXCEPT ![k] = @ + 1]
  /\ UNCHANGED <<config, registryVars, controlVars, response, outcome,
                 waiting, limitVars, history, results, checkpointVars, requests>>

\* The callable returns or raises.  Nobody hears of it if the loop gave up.
CallReturned(k, result) ==
  /\ thread[k] = "running"
  /\ thread' = [thread EXCEPT ![k] = "done"]
  /\ IF Awaited(k)
     THEN Deliver(k[2], Converted(result))
     ELSE UNCHANGED <<pc, cursor, outcome, waiting>>
  /\ UNCHANGED <<config, registryVars, reason, step, parallel, resuming,
                 response, limitVars, history, results, checkpointVars,
                 entered, requests>>

\* Mutant: the loop waits for a callable that has begun.
GivesUpAfterReturn(k) == config.timeout /\ Awaited(k) /\ thread[k] # "running"

\* future.result(timeout) gives up whatever the callable is doing.
GivesUp(k) == config.timeout /\ Awaited(k)

\* Mutant: future.cancel() is missing.
NotCancelled(k) == thread

\* future.cancel(): a thread that has not begun never will; one that has keeps
\* running.
Cancelled(k) == [thread EXCEPT ![k] = IF @ = "queued" THEN "done" ELSE @]

\* _execute_with_optional_timeout: future.result timed out.
CallTimedOut(k) ==
  /\ GivesUp(k)
  /\ thread' = Cancelled(k)
  /\ Deliver(k[2], "timeout")
  /\ UNCHANGED <<config, registryVars, reason, step, parallel, resuming,
                 response, limitVars, history, results, checkpointVars,
                 entered, requests>>

\* A parallel group of which no call had to wait for a thread.
NothingToAwait ==
  /\ pc = "await" /\ waiting = {}
  /\ pc' = "finish"
  /\ UNCHANGED <<config, registryVars, reason, step, cursor, parallel,
                 resuming, response, outcome, waiting, limitVars, history,
                 results, checkpointVars, threadVars, requests>>

-----------------------------------------------------------------------------
(* run(): after the tool group. *)

\* Mutant: only successes are fed back.
AnsweredOk == Those([i \in 1 .. Len(calls) |-> i], {i \in Indices : outcome[i] = "ok"})

\* The positions with an outcome, in call order.
Answered == Those([i \in 1 .. Len(calls) |-> i], {i \in Indices : outcome[i] # "none"})

\* Mutant: the result of an abandoned call is not kept.
WithoutTimeouts ==
  [k \in Keys |-> IF k[1] = step /\ outcome[k[2]] # "timeout"
                  THEN outcome[k[2]] ELSE results[k]]

\* all_tool_results.extend(...)
WithOutcomes == [k \in Keys |-> IF k[1] = step THEN outcome[k[2]] ELSE results[k]]

FinishGroup ==
  /\ pc = "finish"
  /\ outcome' = NoOutcomes /\ waiting' = {}
  /\ LET got    == {outcome[i] : i \in 1 .. Len(calls)}
         failed == got \ {"ok", "none"} # {}
         messages == [j \in 1 .. Len(Answered) |->
           [role |-> "tool", step |-> step, index |-> Answered[j]]]
     IN  IF "raised" \in got
         THEN Return("exception") /\ UNCHANGED <<results, history, step>>
         ELSE /\ results' = WithOutcomes
              /\ IF failed /\ config.stop_on_tool_error
                 THEN Return("tool_error") /\ UNCHANGED <<history, step>>
                 ELSE /\ history' = history \o messages
                      /\ step' = step + 1
                      /\ pc' = "request" /\ UNCHANGED reason
  /\ UNCHANGED <<config, registryVars, cursor, parallel, resuming, response,
                 limitVars, checkpointVars, threadVars, requests>>

-----------------------------------------------------------------------------
\* ToolRegistry.register(..., overwrite=True) by the application.
Register(t, def) ==
  /\ ConcurrentRegistration \/ pc = "paused"
  /\ overwrites < MaxOverwrites /\ def.known
  /\ registry' = [registry EXCEPT ![t] = def]
  /\ overwrites' = overwrites + 1
  /\ UNCHANGED <<config, controlVars, response, outcome, waiting, limitVars,
                 history, results, checkpointVars, threadVars, requests>>

LLM == LLMError \/ FinalResponse \/ \E resp \in Response \ {<<>>} : ToolCallsReceived(resp)

Loop ==
  \/ StepsExhausted \/ PreflightCall \/ StartParallelGroup \/ PauseForApproval
  \/ NothingToApprove \/ StartApprovedGroup \/ NextCall \/ NextApprovedCall
  \/ EndOfSequence \/ NothingToAwait \/ FinishGroup

Threads ==
  \E k \in Keys :
    \/ CallRejected(k) \/ CallEntered(k) \/ CallTimedOut(k)
    \/ \E result \in Executed \cup {"raised"} : CallReturned(k, result)

Decisions(c) == UNION {[S -> BOOLEAN] : S \in SUBSET PendingIds(c)}

Application ==
  \/ \E n \in DOMAIN checkpoints : \E d \in Decisions(checkpoints[n]) :
       ResumePartially(n, d) \/ Resume(n, d)
  \/ \E t \in Tools, def \in Definition : Register(t, def)

Next == LLM \/ Loop \/ Threads \/ Application

Spec == Init /\ [][Next]_vars

\* Fairness: the loop's own thread runs on, chat() returns or raises, and the
\* clock of future.result(timeout) advances.  Callables and the application
\* owe nothing.
FairSpec == Spec /\ WF_vars(LLM) /\ WF_vars(Loop)
                 /\ WF_vars(\E k \in Keys : CallTimedOut(k))

-----------------------------------------------------------------------------
(* Properties. *)

Message == [role : {"assistant", "tool"}, step : Steps, index : Indices]
Requested == [total : Nat, round : [Steps -> Nat], tool : [Tools -> Nat]]
Checkpoint ==
  [step : Steps, history : Seq(Message), response : Response,
   preflight : [Indices -> Outcome], parallel : BOOLEAN,
   requested : Requested, results : [Keys -> Outcome]]
Controls == {"request", "preflight", "sequential", "approved", "await",
             "finish", "paused", "returned"}

\* Every variable has its type; while a group is handled its round is one of
\* the configured rounds (run() never works past max_steps).
TypeOK ==
  /\ config \in Configs
  /\ registry \in [Tools -> Definition] /\ overwrites \in 0 .. MaxOverwrites
  /\ pc \in Controls
  /\ reason \in {"none", "llm_error", "completed", "max_steps_exceeded",
                 "approval_required", "tool_error", "exception"}
  /\ step \in 0 .. config.max_steps
  /\ pc \notin {"request", "returned"} => step < config.max_steps
  /\ cursor \in 1 .. MaxCalls + 1
  /\ parallel \in BOOLEAN /\ resuming \in BOOLEAN
  /\ response \in [Steps -> Response]
  /\ outcome \in [Indices -> Outcome]
  /\ waiting \subseteq Indices
  /\ requested \in Requested
  /\ charge \in [Keys -> [total : Nat, round : Nat, tool : Nat]]
  /\ history \in Seq(Message)
  /\ results \in [Keys -> Outcome]
  /\ checkpoints \in Seq(Checkpoint) /\ consumed \subseteq DOMAIN checkpoints
  /\ decision \in [Steps -> [CallIds -> {"none", "approve", "deny"}]]
  /\ thread \in [Keys -> {"idle", "queued", "running", "done"}]
  /\ entered \in [Keys -> Nat]
  /\ requests \in [Steps -> Nat]

CallAt(k) == response[k[1]][k[2]]
EnteredKeys == {k \in Keys : entered[k] > 0}

\* No callable is entered unless the policy permits its tool and, when approval
\* is required, the caller approved that call id in that round, whatever pauses
\* and resumes came in between.
Authorized ==
  \A k \in EnteredKeys :
    /\ k[2] <= Len(response[k[1]])
    /\ Permitted(CallAt(k).name)
    /\ config.require_tool_approval => decision[k[1]][CallAt(k).id] = "approve"

\* The callables entered in a run stay within the per-loop, per-round and
\* per-tool limits, counted over all rounds, pauses and resumes.
WithinLimits ==
  /\ Within(Cardinality(EnteredKeys), config.max_loop)
  /\ \A s \in Steps :
       Within(Cardinality({k \in EnteredKeys : k[1] = s}), config.max_round)
  /\ \A t \in Tools :
       Within(Cardinality({k \in EnteredKeys : CallAt(k).name = t}),
              config.max_tool[t])

\* A checkpoint never repeats work: each round asks the LLM once and enters
\* the callable of each call at most once, even if the caller presents an
\* old checkpoint again.
RunsOnce ==
  /\ \A s \in Steps : requests[s] <= 1
  /\ \A k \in Keys : entered[k] <= 1

\* A run never pays for a call twice: the loop counter, as restored by
\* resume(), is the number of calls that were charged.
ChargedOnce ==
  requested.total = Cardinality({k \in Keys : charge[k].total > 0})

\* What an LLM request carries is well formed: every assistant message is
\* followed by exactly one result per tool call, in call order, and nothing
\* else is a tool message.
HistoryPaired ==
  pc = "request" =>
    \A p \in DOMAIN history :
      LET m == history[p]
      IN  IF m.role = "assistant"
          THEN \A i \in 1 .. m.index :
                 /\ p + i <= Len(history)
                 /\ history[p + i] = [role |-> "tool", step |-> m.step, index |-> i]
          ELSE /\ p > m.index
               /\ history[p - m.index].role = "assistant"
               /\ history[p - m.index].step = m.step
               /\ history[p - m.index].index >= m.index

\* The caller learns of every side effect: unless run() raised, a callable
\* that was entered has an execution result among tool_results, and a
\* success is only reported for a callable that ran to its end.
EffectsReported ==
  pc \in {"request", "paused", "returned"} /\ reason # "exception" =>
    /\ \A k \in EnteredKeys : results[k] \in Executed
    /\ \A k \in Keys : results[k] = "ok" => entered[k] > 0 /\ thread[k] = "done"

\* Without approval, what a run executed is shown to the LLM: when it ends
\* normally, the round after each executed call was requested.
ExecutionsFedBack ==
  /\ pc = "returned" /\ reason \in {"completed", "max_steps_exceeded"}
  /\ ~config.require_tool_approval
  => \A k \in EnteredKeys : k[1] + 1 \in Steps /\ requests[k[1] + 1] = 1

Concurrent(j, k) ==
  /\ j # k /\ Awaited(j) /\ Awaited(k)
  /\ thread[j] = "running" /\ thread[k] = "running"

\* Two calls of one group run at the same time only if both tools are
\* registered as parallel safe.
ParallelOnlySafe ==
  \A j, k \in Keys : Concurrent(j, k) => ParallelSafe(CallAt(j).name)

\* If the application leaves the registry alone during the run, only parallel
\* safe tools run at the same time, and no tool is entered that was not offered
\* to the run.  (The loop looks the registry up when it picks the mode and when
\* it hands a call to a thread, the thread looks it up again.)
StableRegistryRespected ==
  overwrites = 0 =>
    /\ ParallelOnlySafe
    /\ \A k \in EnteredKeys : CallAt(k).name \in Offered

\* A callable is entered only while the loop waits for that very call: no
\* call starts after its timeout was reported, during a pause or after
\* run() returned.
NoLateStart ==
  [][\A k \in Keys : entered'[k] # entered[k] => Awaited(k)]_entered

\* With tool_timeout_ms set, run() and resume() always come back to the
\* caller, even if callables never return.
ReturnsToCaller == []<>(config.timeout => pc \in {"paused", "returned"})

\* "A synchronous timeout is reported only after the callable returns"
\* (docs/quickstart.md:127).
TimeoutReportedAfterReturn ==
  \A k \in Keys : results[k] = "timeout" => thread[k] = "done"
=============================================================================
