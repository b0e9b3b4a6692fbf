--------------------------- MODULE ToolLoopProofs ---------------------------
(***************************************************************************)
(* What the tool loop keeps true, for every configuration, every number of *)
(* rounds and calls and every behaviour of the LLM, the callables and the  *)
(* application.                                                            *)
(*                                                                         *)
(* The inductive invariant LoopInv follows the calls of the present round: *)
(* those ahead have neither thread nor result, those behind have both or a *)
(* denial.  A pause changes nothing of this, because the only checkpoint   *)
(* that can be resumed is that of the present state (Latest).  Limits are  *)
(* kept because every charged call has a number of its own, and a call     *)
(* starts only if its numbers are within the limits (Charges, Checks).     *)
(***************************************************************************)
EXTENDS ToolLoop, DataLemmas

-----------------------------------------------------------------------------
(* The inductive invariant *)

Asking == config.require_tool_approval
Between == {"request", "returned"}

\* Where the loop is: which groups are parallel, resumed and awaited.
Stage ==
  /\ pc = "preflight" => ~resuming /\ (Asking \/ parallel)
  /\ pc = "approved" => resuming /\ parallel /\ Asking
  /\ pc = "sequential" => ~parallel /\ (resuming <=> Asking)
  /\ pc = "await" => /\ resuming <=> Asking
                     /\ ~parallel => waiting = {cursor}
  /\ pc # "await" => waiting = {}
  /\ pc \notin Between => waiting \subseteq 1 .. Len(calls)
  /\ pc \in Between => outcome = NoOutcomes
  /\ ~Asking => /\ step < config.max_steps
                /\ pc \notin Between => step + 1 < config.max_steps

\* The one checkpoint that can be resumed is that of the present state.
Latest ==
  /\ pc # "paused" => consumed = DOMAIN checkpoints
  /\ pc = "paused" =>
       /\ Asking /\ Len(checkpoints) > 0
       /\ consumed = 1 .. Len(checkpoints) - 1
       /\ checkpoints[Len(checkpoints)] = Snapshot(parallel)

\* Every round that was begun has asked the LLM once, the others not at all.
AskedOnce ==
  \A s \in Steps :
    requests[s] = IF \/ s < step
                     \/ s = step /\ s < config.max_steps /\ pc # "request"
                  THEN 1 ELSE 0

\* A call that has no thread and may yet get one.
Ahead(k) ==
  \/ k[1] > step
  \/ /\ k[1] = step
     /\ \/ pc \in {"request", "preflight", "paused", "approved"}
        \/ pc = "sequential" /\ k[2] >= cursor
        \/ pc = "await" /\ ~parallel /\ k[2] > cursor
        \/ pc = "returned" /\ reason \notin {"tool_error", "exception"}

\* Threads: calls ahead have none, only an awaited one is queued, and a callable
\* is entered by a thread once.
Threading ==
  \A k \in Keys :
    /\ Ahead(k) => thread[k] = "idle"
    /\ thread[k] = "queued" => Awaited(k)
    /\ Awaited(k) => thread[k] \in {"queued", "running"}
    /\ thread[k] \in {"idle", "queued"} => entered[k] = 0
    /\ thread[k] = "running" => entered[k] = 1
    /\ thread[k] = "done" => entered[k] \in {0, 1}

Charged(k) == charge[k].total > 0

\* A call that has still to be charged.
Uncharged(k) ==
  \/ k[1] > step
  \/ /\ k[1] = step
     /\ \/ pc = "request"
        \/ pc \in {"preflight", "sequential"} /\ ~resuming /\ k[2] >= cursor
        \/ pc = "await" /\ ~parallel /\ ~resuming /\ k[2] > cursor

\* Charges: each call that was charged has a number of its own among all calls,
\* those of its round and those of its tool.
Numbered(k) ==
  /\ k[2] <= Len(response[k[1]])
  /\ charge[k].total <= requested.total
  /\ charge[k].round \in 1 .. requested.round[k[1]]
  /\ charge[k].tool \in 1 .. requested.tool[CallAt(k).name]
Charges ==
  /\ \A k \in Keys : Uncharged(k) => ~Charged(k)
  /\ \A k \in Keys : Charged(k) => Numbered(k)
  /\ \A j, k \in Keys : Charged(j) /\ Charged(k) /\ j # k =>
       /\ charge[j].total # charge[k].total
       /\ j[1] = k[1] => charge[j].round # charge[k].round
       /\ CallAt(j).name = CallAt(k).name => charge[j].tool # charge[k].tool

\* The checks: a call that has a thread passed them all; so did one that is
\* ahead and has no outcome, of the group that was checked.
Passed(k) ==
  /\ Charged(k) /\ k[2] <= Len(response[k[1]]) /\ Permitted(CallAt(k).name)
  /\ Within(charge[k].total, config.max_loop)
  /\ Within(charge[k].round, config.max_round)
  /\ Within(charge[k].tool, config.max_tool[CallAt(k).name])
Approved(k) == Asking => decision[k[1]][CallAt(k).id] = "approve"
Checked(k) ==
  /\ k[1] = step /\ k[2] <= Len(calls) /\ outcome[k[2]] = "none"
  /\ \/ pc = "preflight" /\ k[2] < cursor
     \/ pc \in {"paused", "approved"}
     \/ resuming /\ pc = "sequential" /\ k[2] >= cursor
     \/ resuming /\ pc = "await" /\ ~parallel /\ k[2] > cursor
Checks ==
  \A k \in Keys :
    /\ thread[k] # "idle" => Passed(k) /\ Approved(k)
    /\ Checked(k) => Passed(k) /\ (resuming /\ pc # "paused" => Approved(k))

\* Results: those of a group that is over are kept, and what was entered in the
\* present one is awaited or has its outcome.
Over(k) == k[1] < step \/ (k[1] = step /\ pc = "returned" /\ reason = "tool_error")
Reported ==
  \A k \in Keys :
    /\ Over(k) =>
         /\ thread[k] # "idle" => results[k] \in Executed
         /\ results[k] = "ok" => entered[k] = 1 /\ thread[k] = "done"
    /\ ~Over(k) => results[k] = "none"
    /\ k[1] = step /\ pc \notin Between =>
         /\ thread[k] # "idle" =>
              k[2] \in waiting \/ outcome[k[2]] \in Executed \cup {"raised"}
         /\ outcome[k[2]] = "ok" => entered[k] = 1 /\ thread[k] = "done"

\* The registry, as long as it is left alone.
Stable ==
  overwrites = 0 =>
    /\ registry = InitialRegistry
    /\ \A k \in Keys : thread[k] # "idle" => ~NotAllowed(CallAt(k).name)
    /\ \A k \in Keys : entered[k] = 1 => CallAt(k).name \in Offered
    /\ parallel =>
         /\ pc \in {"preflight", "paused", "approved"} /\ ~Asking =>
              \A i \in 1 .. Len(calls) : Permitted(calls[i].name) => ParallelSafe(calls[i].name)
         /\ pc \in {"paused", "approved"} =>
              \A i \in Runnable(outcome) : ParallelSafe(calls[i].name)
         /\ pc = "await" => \A i \in waiting : ParallelSafe(calls[i].name)

\* Outcomes: which calls of the group have one.
Answering ==
  LET n == Len(calls)
  IN  /\ pc = "sequential" \/ (pc = "await" /\ ~parallel) =>
           \A i \in 1 .. n : i < cursor => outcome[i] # "none"
      /\ pc = "await" /\ parallel =>
           \A i \in 1 .. n : outcome[i] # "none" \/ i \in waiting
      /\ pc = "finish" =>
           \/ \E i \in 1 .. n : outcome[i] = "raised"
           \/ config.stop_on_tool_error /\ \E i \in 1 .. n : outcome[i] \notin {"ok", "none"}
           \/ \A i \in 1 .. n : outcome[i] # "none"

\* Messages: all but the last, the assistant's of the present round, are paired.
Paired(h) ==
  \A p \in DOMAIN h :
    IF h[p].role = "assistant"
    THEN \A i \in 1 .. h[p].index :
           /\ p + i <= Len(h)
           /\ h[p + i] = [role |-> "tool", step |-> h[p].step, index |-> i]
    ELSE /\ p > h[p].index
         /\ h[p - h[p].index].role = "assistant"
         /\ h[p - h[p].index].step = h[p].step
         /\ h[p - h[p].index].index >= h[p].index
Messages ==
  /\ pc = "request" => Paired(history)
  /\ pc \notin Between =>
       \E h \in Seq(Message) :
         /\ Paired(h)
         /\ history = Append(h, [role |-> "assistant", step |-> step,
                                 index |-> Len(calls)])

LoopInv ==
  /\ TypeOK /\ Stage /\ Latest /\ AskedOnce /\ Threading /\ Charges /\ Checks
  /\ Reported /\ Stable /\ Answering /\ Messages

-----------------------------------------------------------------------------
(* The effects of a step.  Every step has one of them: see Effects. *)

fixed == <<config, registry, overwrites>>

\* A request is the last of the run.
EndsWith(resp) ==
  /\ pc = "request" /\ step < config.max_steps
  /\ pc' = "returned"
  /\ reason' \in {"llm_error", "completed", "max_steps_exceeded"}
  /\ requests' = [requests EXCEPT ![step] = @ + 1]
  /\ response' = [response EXCEPT ![step] = resp] /\ resuming' \in BOOLEAN
  /\ UNCHANGED <<fixed, step, cursor, parallel, outcome, waiting, limitVars,
                 history, results, checkpointVars, threadVars>>
Ends == \E resp \in Response : EndsWith(resp)

\* Calls are received, and there is a round to feed their results back in.
Receives(resp) ==
  /\ pc = "request" /\ step < config.max_steps /\ ~NoRoundLeft /\ resp # <<>>
  /\ requests' = [requests EXCEPT ![step] = @ + 1]
  /\ response' = [response EXCEPT ![step] = resp]
  /\ history' = Append(history, [role |-> "assistant", step |-> step,
                                 index |-> Len(resp)])
  /\ resuming' = FALSE /\ cursor' = 1
  /\ parallel' = ResolveMode(resp, {i \in 1 .. Len(resp) : Permitted(resp[i].name)})
  /\ pc' = IF Asking \/ parallel' THEN "preflight" ELSE "sequential"
  /\ UNCHANGED <<fixed, reason, step, outcome, waiting, limitVars, results,
                 checkpointVars, threadVars>>

\* The call at the cursor is charged.
ChargeHere ==
  LET name == calls[cursor].name
  IN  /\ requested' = RecordRequested(name)
      /\ charge' = [charge EXCEPT ![Here(cursor)] =
           [total |-> requested.total + 1, round |-> requested.round[step] + 1,
            tool |-> requested.tool[name] + 1]]

Prechecks ==
  /\ pc = "preflight" /\ cursor <= Len(calls)
  /\ ChargeHere
  /\ outcome' = [outcome EXCEPT ![cursor] =
                   Verdict(RecordRequested(calls[cursor].name), calls[cursor].name)]
  /\ cursor' = cursor + 1
  /\ UNCHANGED <<fixed, pc, reason, step, parallel, resuming, response, waiting,
                 history, results, checkpointVars, threadVars, requests>>

\* A parallel group starts.
StartsGroup ==
  /\ \/ pc = "preflight" /\ cursor > Len(calls) /\ ~Asking
     \/ pc = "approved"
  /\ Submit(Runnable(outcome), outcome)
  /\ pc' = "await"
  /\ UNCHANGED <<fixed, reason, step, cursor, parallel, resuming, response,
                 limitVars, history, results, checkpointVars, entered, requests>>

\* The caller is asked.
Pauses ==
  /\ pc = "preflight" /\ cursor > Len(calls) /\ Asking
  /\ parallel' = ResolveMode(calls, Runnable(outcome))
  /\ checkpoints' = Append(checkpoints, Snapshot(parallel'))
  /\ pc' = "paused" /\ reason' = "approval_required"
  /\ UNCHANGED <<fixed, step, cursor, resuming, response, outcome, waiting,
                 limitVars, history, results, consumed, decision, threadVars, requests>>

\* The caller decides on what is pending.
Pending == {calls[i].id : i \in Runnable(outcome)}
Resumes(d) ==
  /\ pc = "paused"
  /\ consumed' = DOMAIN checkpoints
  /\ decision' = [decision EXCEPT ![step] =
       [x \in CallIds |-> IF x \notin Pending THEN @[x]
                          ELSE IF d[x] THEN "approve" ELSE "deny"]]
  /\ cursor' = 1 /\ resuming' = TRUE
  /\ outcome' = [i \in Indices |-> IF i \in Runnable(outcome) /\ ~d[calls[i].id]
                                   THEN "unapproved" ELSE outcome[i]]
  /\ pc' = IF parallel THEN "approved" ELSE "sequential"
  /\ reason' = "none"
  /\ UNCHANGED <<fixed, step, parallel, response, waiting, limitVars, history,
                 results, checkpoints, threadVars, requests>>

\* A group has come to its end.
GroupEnds ==
  /\ \/ pc = "preflight" /\ cursor > Len(calls) /\ Runnable(outcome) = {}
     \/ pc = "sequential" /\ cursor > Len(calls)
     \/ pc = "await" /\ waiting = {}
  /\ pc' = "finish"
  /\ UNCHANGED <<fixed, reason, step, cursor, parallel, resuming, response, outcome,
                 waiting, limitVars, history, results, checkpointVars, threadVars, requests>>

\* A call of a sequential group: it has its outcome from before the pause, is
\* started, or is settled without a thread.
Skips ==
  /\ pc = "sequential" /\ resuming /\ cursor <= Len(calls)
  /\ outcome[cursor] # "none"
  /\ cursor' = cursor + 1
  /\ UNCHANGED <<fixed, pc, reason, step, parallel, resuming, response, outcome,
                 waiting, limitVars, history, results, checkpointVars, threadVars, requests>>

StartsCall ==
  LET name == calls[cursor].name
  IN  /\ pc = "sequential" /\ cursor <= Len(calls)
      /\ \/ resuming /\ outcome[cursor] = "none" /\ UNCHANGED limitVars
         \/ /\ ~resuming /\ ChargeHere
            /\ Permitted(name) /\ ResourceAllowed(RecordRequested(name), name)
      /\ ~NotAllowed(name)
      /\ waiting' = {cursor} /\ thread' = [thread EXCEPT ![Here(cursor)] = "queued"]
      /\ pc' = "await"
      /\ UNCHANGED <<fixed, reason, step, cursor, parallel, resuming, response, outcome,
                     history, results, checkpointVars, entered, requests>>

SettlesCall(v) ==
  /\ pc = "sequential" /\ cursor <= Len(calls)
  /\ (resuming /\ UNCHANGED limitVars) \/ (~resuming /\ ChargeHere)
  /\ outcome' = [outcome EXCEPT ![cursor] = v]
  /\ Continue(v)
  /\ UNCHANGED <<fixed, reason, step, parallel, resuming, response, waiting,
                 history, results, checkpointVars, threadVars, requests>>

\* The loop hears of a call, or gives it up.
Delivers(k, result, th) ==
  /\ Awaited(k)
  /\ result = "ok" => thread[k] = "running" /\ th = "done"
  /\ th = "running" => thread[k] = "running"
  /\ thread' = [thread EXCEPT ![k] = th]
  /\ Deliver(k[2], result)
  /\ UNCHANGED <<fixed, reason, step, parallel, resuming, response, limitVars,
                 history, results, checkpointVars, entered, requests>>

\* A callable returns to nobody.
ReturnsLate(k) ==
  /\ thread[k] = "running" /\ ~Awaited(k)
  /\ thread' = [thread EXCEPT ![k] = "done"]
  /\ UNCHANGED <<fixed, controlVars, response, outcome, waiting, limitVars,
                 history, results, checkpointVars, entered, requests>>

Got == {outcome[i] : i \in 1 .. Len(calls)}
Failed == Got \ {"ok", "none"} # {}

\* The group fails, or the loop goes on to the next round.
Raises ==
  /\ pc = "finish"
  /\ outcome' = NoOutcomes /\ waiting' = {}
  /\ pc' = "returned" /\ reason' = "exception"
  /\ UNCHANGED <<fixed, step, cursor, parallel, resuming, response, limitVars, history,
                 results, checkpointVars, threadVars, requests>>

Stops ==
  /\ pc = "finish" /\ "raised" \notin Got
  /\ outcome' = NoOutcomes /\ waiting' = {}
  /\ results' = WithOutcomes
  /\ pc' = "returned" /\ reason' = "tool_error"
  /\ UNCHANGED <<fixed, step, cursor, parallel, resuming, response, limitVars, history,
                 checkpointVars, threadVars, requests>>

FeedsBack ==
  /\ pc = "finish" /\ "raised" \notin Got /\ ~(Failed /\ config.stop_on_tool_error)
  /\ outcome' = NoOutcomes /\ waiting' = {}
  /\ results' = WithOutcomes
  /\ history' = history \o [j \in 1 .. Len(Answered) |->
                  [role |-> "tool", step |-> step, index |-> Answered[j]]]
  /\ step' = step + 1 /\ pc' = "request"
  /\ UNCHANGED <<fixed, reason, cursor, parallel, resuming, response, limitVars,
                 checkpointVars, threadVars, requests>>

\* The caller waits: nothing but the reason is written, and that again.
Holds ==
  /\ pc = "paused"
  /\ UNCHANGED <<fixed, pc, step, cursor, parallel, resuming, response, outcome,
                 waiting, limitVars, history, results, checkpointVars, threadVars, requests>>
  /\ reason' = "approval_required"

OneOf ==
  \/ Ends \/ (\E resp \in Response : Receives(resp)) \/ StepsExhausted \/ Prechecks
  \/ StartsGroup \/ Pauses
  \/ (\E d \in [Pending -> BOOLEAN] : Resumes(d)) \/ Holds
  \/ GroupEnds \/ Skips \/ StartsCall
  \/ (\E v \in Denial \cup {"failed"} : SettlesCall(v))
  \/ (\E k \in Keys, result \in Executed \cup {"raised"}, th \in {"done", "running"} :
        Delivers(k, result, th))
  \/ (\E k \in Keys : ReturnsLate(k)) \/ (\E k \in Keys : CallEntered(k))
  \/ Raises \/ Stops \/ FeedsBack
  \/ (\E t \in Tools, def \in Definition : Register(t, def))
  \/ UNCHANGED vars

-----------------------------------------------------------------------------
(* Types *)

\* The numbers.
LEMMA LoopLimits ==
  /\ StepBound \in Nat \ {0} /\ MaxCalls \in Nat \ {0} /\ Configs \subseteq Config
  /\ MaxOverwrites \in Nat /\ Offered \subseteq Tools
  /\ InitialRegistry \in [Tools -> Definition]
BY ConstantsAssumption

\* A response is a sequence of calls.
LEMMA ResponseType ==
  ASSUME NEW resp \in Response
  PROVE  /\ resp \in Seq(Call) /\ Len(resp) \in 0 .. MaxCalls
         /\ DOMAIN resp = 1 .. Len(resp) /\ Len(resp) \in Nat
         /\ 1 .. Len(resp) \subseteq Indices
         /\ \A i \in 1 .. Len(resp) :
              resp[i] \in Call /\ resp[i].id \in CallIds /\ resp[i].name \in Tools
<1>1. PICK n \in 0 .. MaxCalls : resp \in [1 .. n -> Call]
  BY DEF Response
<1>2. n \in Nat /\ n <= MaxCalls /\ MaxCalls \in Nat
  BY LoopLimits
<1>3. resp \in Seq(Call) /\ Len(resp) = n /\ DOMAIN resp = 1 .. n
  BY <1>1, <1>2
<1>4. \A i \in 1 .. n : resp[i] \in Call
  BY <1>1
<1> QED BY <1>2, <1>3, <1>4 DEF Indices, Call

\* What is known of the present round while there is one.
LEMMA RoundType ==
  ASSUME TypeOK
  PROVE  /\ config \in Config /\ config.max_steps \in 1 .. StepBound
         /\ step \in Nat /\ step <= config.max_steps /\ cursor \in Nat
         /\ config.max_steps \in Nat /\ Steps \subseteq Nat
         /\ step < config.max_steps =>
              /\ step \in Steps /\ calls \in Response
              /\ calls \in Seq(Call) /\ Len(calls) \in 0 .. MaxCalls
              /\ DOMAIN calls = 1 .. Len(calls) /\ Len(calls) \in Nat
              /\ 1 .. Len(calls) \subseteq Indices
              /\ \A i \in 1 .. Len(calls) :
                   calls[i] \in Call /\ calls[i].id \in CallIds /\ calls[i].name \in Tools
              /\ \A i \in Indices : Here(i) \in Keys
         /\ pc \notin Between => step < config.max_steps
<1>1. config \in Config
  BY LoopLimits DEF TypeOK
<1>2. config.max_steps \in 1 .. StepBound /\ StepBound \in Nat
  BY <1>1, LoopLimits DEF Config
<1>3. step \in Nat /\ step <= config.max_steps /\ cursor \in Nat
      /\ config.max_steps \in Nat /\ Steps \subseteq Nat
  BY <1>2, LoopLimits DEF TypeOK, Steps
<1>4. ASSUME step < config.max_steps PROVE step \in Steps /\ calls \in Response
  <2>1. step \in Steps
    BY <1>2, <1>3, <1>4 DEF Steps
  <2> QED BY <2>1 DEF TypeOK, calls
<1>5. step \in Steps => \A i \in Indices : Here(i) \in Keys
  BY DEF Here, Keys
<1>6. pc \notin Between => step < config.max_steps
  BY DEF TypeOK, Between
<1> QED BY <1>1, <1>2, <1>3, <1>4, <1>5, <1>6, ResponseType

\* Handing one call to a thread, or refusing it.
LEMMA StartOne ==
  ASSUME TypeOK, pc \notin Between, cursor <= Len(calls), waiting = {},
         Start(cursor, outcome)
  PROVE  \/ /\ ~NotAllowed(calls[cursor].name) /\ waiting' = {cursor}
            /\ thread' = [thread EXCEPT ![Here(cursor)] = "queued"]
            /\ pc' = "await" /\ UNCHANGED <<cursor, outcome>>
         \/ /\ outcome' = [outcome EXCEPT ![cursor] = "failed"]
            /\ Continue("failed") /\ UNCHANGED <<waiting, thread>>
<1> DEFINE refused == {i \in {cursor} : NotAllowed(calls[i].name)}
<1>1. /\ outcome' = [i \in Indices |-> IF i \in refused THEN "failed" ELSE outcome[i]]
      /\ waiting' = {cursor} \ refused
      /\ thread' = [k \in Keys |->
           IF k[1] = step /\ k[2] \in {cursor} \ refused THEN "queued" ELSE thread[k]]
  BY DEF Start, Submit
<1>2. /\ outcome = [i \in Indices |-> outcome[i]] /\ DOMAIN outcome = Indices
      /\ thread = [k \in Keys |-> thread[k]] /\ DOMAIN thread = Keys
  BY DEF TypeOK
<1>3. CASE NotAllowed(calls[cursor].name)
  <2>1. refused = {cursor}
    BY <1>3
  <2> HIDE DEF refused
  <2>2. UNCHANGED <<waiting, thread>>
    BY <1>1, <1>2, <2>1
  <2>3. outcome' = [outcome EXCEPT ![cursor] = "failed"]
    BY <1>1, <1>2, <2>1
  <2>4. Continue("failed")
    BY <1>3 DEF Start
  <2> QED BY <2>2, <2>3, <2>4
<1>4. CASE ~NotAllowed(calls[cursor].name)
  <2>1. refused = {}
    BY <1>4
  <2> HIDE DEF refused
  <2>2. waiting' = {cursor} /\ UNCHANGED outcome
    BY <1>1, <1>2, <2>1
  <2>3. \A k \in Keys : k[1] = step /\ k[2] \in {cursor} <=> k = Here(cursor)
    BY DEF Keys, Here
  <2>4. thread' = [thread EXCEPT ![Here(cursor)] = "queued"]
    BY <1>1, <1>2, <2>1, <2>3
  <2>5. pc' = "await" /\ UNCHANGED cursor
    BY <1>4 DEF Start
  <2> QED BY <1>4, <2>2, <2>4, <2>5
<1> QED BY <1>3, <1>4

\* Every step of the loop has one of the effects.
LEMMA Effects ==
  ASSUME TypeOK, Stage, Latest, Threading, [Next]_vars
  PROVE  OneOf
<1> USE DEF fixed, registryVars, controlVars, checkpointVars, threadVars, limitVars
<1>0. step < config.max_steps => response[step] \in Response
  BY RoundType DEF calls
<1>1. CASE LLMError \/ FinalResponse
  <2>1. /\ pc = "request" /\ step < config.max_steps /\ pc' = "returned"
        /\ reason' \in {"llm_error", "completed"}
        /\ requests' = [requests EXCEPT ![step] = @ + 1]
        /\ UNCHANGED <<config, registry, overwrites, step, cursor, parallel, resuming,
                       response, outcome, waiting, requested, charge, history, results,
                       checkpoints, consumed, decision, thread, entered>>
    BY <1>1 DEF LLMError, FinalResponse, LLMRequest, Return
  <2>2. response' = [response EXCEPT ![step] = response[step]] /\ resuming' \in BOOLEAN
    BY <2>1 DEF TypeOK
  <2> QED BY <1>0, <2>1, <2>2 DEF Ends, EndsWith, OneOf
<1>2. ASSUME NEW resp \in Response \ {<<>>}, ToolCallsReceived(resp) PROVE OneOf
  <2>1. CASE NoRoundLeft
    BY <1>2, <2>1 DEF ToolCallsReceived, LLMRequest, Return, Ends, EndsWith, OneOf
  <2>2. CASE ~NoRoundLeft
    <3>1. Receives(resp)
      BY <1>2, <2>2 DEF ToolCallsReceived, LLMRequest, Receives, Asking
    <3> QED BY <3>1 DEF OneOf
  <2> QED BY <2>1, <2>2
<1>3. CASE StepsExhausted
  BY <1>3 DEF OneOf
<1>4. CASE PreflightCall
  <2>1. /\ RecordRequested(calls[cursor].name).total = requested.total + 1
        /\ RecordRequested(calls[cursor].name).round[step] = requested.round[step] + 1
        /\ RecordRequested(calls[cursor].name).tool[calls[cursor].name]
             = requested.tool[calls[cursor].name] + 1
    <3>1. requested \in Requested /\ step \in Steps /\ calls[cursor].name \in Tools
      <4>1. pc \notin Between /\ cursor \in 1 .. Len(calls)
        BY <1>4, RoundType DEF PreflightCall, Between, TypeOK
      <4> QED BY <4>1, RoundType DEF TypeOK
    <3> QED BY <3>1 DEF RecordRequested, Requested
  <2>2. Prechecks
    BY <1>4, <2>1 DEF PreflightCall, Prechecks, ChargeHere
  <2> QED BY <2>2 DEF OneOf
<1>5. CASE StartParallelGroup \/ StartApprovedGroup
  <2>1. StartsGroup
    BY <1>5 DEF StartParallelGroup, StartApprovedGroup, StartsGroup, Asking
  <2> QED BY <2>1 DEF OneOf
<1>6. CASE PauseForApproval
  <2>1. Pauses
    BY <1>6 DEF PauseForApproval, Pauses, Asking
  <2> QED BY <2>1 DEF OneOf
<1>7. CASE NothingToApprove \/ EndOfSequence \/ NothingToAwait
  <2>1. GroupEnds
    BY <1>7 DEF NothingToApprove, EndOfSequence, NothingToAwait, GroupEnds
  <2> QED BY <2>1 DEF OneOf
<1>8. ASSUME NEW n \in DOMAIN checkpoints, MayResume(n)
      PROVE  /\ pc = "paused" /\ n = Len(checkpoints)
             /\ checkpoints[n] = Snapshot(parallel)
             /\ consumed \cup {n} = DOMAIN checkpoints
  <2>1. checkpoints \in Seq(Checkpoint) /\ Len(checkpoints) \in Nat
        /\ DOMAIN checkpoints = 1 .. Len(checkpoints)
    BY DEF TypeOK
  <2>2. pc = "paused"
    BY <1>8 DEF MayResume, Latest
  <2>3. consumed = 1 .. Len(checkpoints) - 1
    BY <2>2 DEF Latest
  <2>4. n = Len(checkpoints)
    BY <1>8, <2>1, <2>3 DEF MayResume
  <2> QED BY <2>1, <2>2, <2>3, <2>4 DEF Latest
<1>9. ASSUME NEW n \in DOMAIN checkpoints, NEW d \in Decisions(checkpoints[n]),
             ResumePartially(n, d)
      PROVE  OneOf
  <2>1. Holds
    BY <1>8, <1>9 DEF ResumePartially, Holds
  <2> QED BY <2>1 DEF OneOf
<1>10. ASSUME NEW n \in DOMAIN checkpoints, NEW d \in Decisions(checkpoints[n]),
              Resume(n, d)
       PROVE  OneOf
  <2> DEFINE c == checkpoints[n]
  <2>1. /\ c = Snapshot(parallel) /\ pc = "paused"
        /\ consumed \cup {n} = DOMAIN checkpoints
    BY <1>8, <1>10 DEF Resume
  <2>2. /\ c.step = step /\ c.history = history /\ c.response = calls
        /\ c.preflight = outcome /\ c.parallel = parallel
        /\ c.requested = requested /\ c.results = results
    BY <2>1 DEF Snapshot
  <2>3. PendingIds(c) = Pending
    BY <2>2 DEF PendingIds, Pending, Runnable
  <2>4. d \in [Pending -> BOOLEAN]
    <3>1. DOMAIN d = Pending
      BY <1>10, <2>3 DEF Resume
    <3>2. PICK S : d \in [S -> BOOLEAN]
      BY <1>10 DEF Decisions
    <3> QED BY <3>1, <3>2
  <2>5. UNCHANGED response
    <3>1. response' = [response EXCEPT ![step] = calls]
      BY <1>10, <2>2 DEF Resume
    <3> QED BY <3>1 DEF calls, TypeOK
  <2>6. waiting' = waiting
    BY <1>10, <2>1 DEF Resume, Stage
  <2>7. Decided(c, d) = [i \in Indices |-> IF i \in Runnable(outcome) /\ ~d[calls[i].id]
                                           THEN "unapproved" ELSE outcome[i]]
    <3>1. \A i \in Indices : i <= Len(calls) <=> i \in 1 .. Len(calls)
      BY <2>1, RoundType, LoopLimits DEF Indices, Between
    <3> QED BY <2>2, <3>1 DEF Decided, Runnable
  <2>8. Resumes(d)
    <3>1. /\ consumed' = DOMAIN checkpoints /\ cursor' = 1 /\ resuming' = TRUE
          /\ outcome' = Decided(c, d)
          /\ decision' = [decision EXCEPT ![step] =
               [x \in CallIds |-> IF x \notin DOMAIN d THEN @[x]
                                  ELSE IF d[x] THEN "approve" ELSE "deny"]]
          /\ pc' = (IF parallel THEN "approved" ELSE "sequential") /\ reason' = "none"
      BY <1>10, <2>1, <2>2 DEF Resume
    <3>2. UNCHANGED <<config, registry, overwrites, step, parallel, requested, charge,
                      history, results, checkpoints, thread, entered, requests>>
      BY <1>10, <2>2 DEF Resume
    <3>3. DOMAIN d = Pending
      BY <2>4
    <3> HIDE DEF c
    <3> QED BY <2>1, <2>5, <2>6, <2>7, <3>1, <3>2, <3>3 DEF Resumes
  <2> QED BY <2>4, <2>8 DEF OneOf
<1>11. ASSUME pc = "sequential", cursor <= Len(calls)
       PROVE  /\ RecordRequested(calls[cursor].name).total = requested.total + 1
              /\ RecordRequested(calls[cursor].name).round[step] = requested.round[step] + 1
              /\ RecordRequested(calls[cursor].name).tool[calls[cursor].name]
                   = requested.tool[calls[cursor].name] + 1
              /\ pc \notin Between /\ waiting = {}
  <2>1. pc \notin Between /\ cursor \in 1 .. Len(calls)
    BY <1>11, RoundType DEF Between, TypeOK
  <2>2. requested \in Requested /\ step \in Steps /\ calls[cursor].name \in Tools
    BY <2>1, RoundType DEF TypeOK
  <2> QED BY <1>11, <2>1, <2>2 DEF RecordRequested, Requested, Stage
<1>12. CASE NextCall
  <2> DEFINE name == calls[cursor].name
             after == RecordRequested(name)
  <2>1. pc = "sequential" /\ ~resuming /\ cursor <= Len(calls)
    BY <1>12 DEF NextCall
  <2>2. ChargeHere
    BY <1>11, <1>12, <2>1 DEF NextCall, ChargeHere
  <2>3. UNCHANGED <<config, registry, overwrites, reason, step, parallel, resuming,
                    response, history, results, checkpoints, consumed, decision,
                    entered, requests>>
    BY <1>12 DEF NextCall
  <2>4. CASE Verdict(after, name) = "none"
    <3>1. Start(cursor, outcome)
      BY <1>12, <2>4 DEF NextCall
    <3>2. Permitted(name) /\ ResourceAllowed(after, name)
      BY <2>4 DEF Verdict
    <3>3. StartsCall \/ SettlesCall("failed")
      BY <1>11, <2>1, <2>2, <2>3, <3>1, <3>2, StartOne DEF StartsCall, SettlesCall
    <3> QED BY <3>3 DEF OneOf
  <2>5. CASE Verdict(after, name) # "none"
    <3>1. PICK v \in Denial : v = Verdict(after, name)
      BY <2>5 DEF Verdict, Denial
    <3>2. /\ outcome' = [outcome EXCEPT ![cursor] = v] /\ Continue(v)
          /\ UNCHANGED <<waiting, thread>>
      BY <1>12, <2>5, <3>1 DEF NextCall
    <3>3. SettlesCall(v)
      BY <2>1, <2>2, <2>3, <3>2 DEF SettlesCall
    <3> QED BY <3>3 DEF OneOf
  <2> QED BY <2>4, <2>5
<1>13. CASE NextApprovedCall
  <2>1. pc = "sequential" /\ resuming /\ cursor <= Len(calls)
    BY <1>13 DEF NextApprovedCall
  <2>2. UNCHANGED <<config, registry, overwrites, reason, step, parallel, resuming,
                    response, requested, charge, history, results, checkpoints,
                    consumed, decision, entered, requests>>
    BY <1>13 DEF NextApprovedCall
  <2>3. CASE outcome[cursor] = "none"
    <3>1. Start(cursor, outcome)
      BY <1>13, <2>3 DEF NextApprovedCall
    <3>2. StartsCall \/ SettlesCall("failed")
      BY <1>11, <2>1, <2>2, <2>3, <3>1, StartOne DEF StartsCall, SettlesCall
    <3> QED BY <3>2 DEF OneOf
  <2>4. CASE outcome[cursor] # "none"
    <3>1. Skips
      BY <1>13, <2>1, <2>2, <2>4 DEF NextApprovedCall, Skips
    <3> QED BY <3>1 DEF OneOf
  <2> QED BY <2>3, <2>4
<1>14. ASSUME NEW k \in Keys, CallRejected(k) PROVE OneOf
  <2>1. Delivers(k, "failed", "done")
    BY <1>14 DEF CallRejected, Delivers
  <2> QED BY <2>1 DEF OneOf, Executed
<1>15. ASSUME NEW k \in Keys, CallTimedOut(k) PROVE OneOf
  <2>1. PICK th \in {"done", "running", "idle"} :
          /\ thread' = [thread EXCEPT ![k] = th]
          /\ th \in {"idle", "running"} => thread[k] = th
    BY <1>15 DEF CallTimedOut, Cancelled, TypeOK
  <2>2. th # "idle"
    BY <1>15, <2>1 DEF CallTimedOut, GivesUp, Threading
  <2>3. Delivers(k, "timeout", th)
    BY <1>15, <2>1 DEF CallTimedOut, GivesUp, Delivers
  <2> QED BY <2>1, <2>2, <2>3 DEF OneOf, Executed
<1>16. ASSUME NEW k \in Keys, NEW result \in Executed \cup {"raised"},
              CallReturned(k, result)
       PROVE  OneOf
  <2>1. CASE Awaited(k)
    <3>1. PICK res \in Executed \cup {"raised"} : res = Converted(result)
      BY DEF Converted, Executed
    <3>2. Delivers(k, res, "done")
      BY <1>16, <2>1, <3>1 DEF CallReturned, Delivers
    <3> QED BY <3>2 DEF OneOf
  <2>2. CASE ~Awaited(k)
    <3>1. ReturnsLate(k)
      BY <1>16, <2>2 DEF CallReturned, ReturnsLate
    <3> QED BY <3>1 DEF OneOf
  <2> QED BY <2>1, <2>2
<1>17. ASSUME NEW k \in Keys, CallEntered(k) PROVE OneOf
  BY <1>17 DEF OneOf
<1>18. CASE FinishGroup
  <2>1. CASE "raised" \in Got
    <3>1. Raises
      BY <1>18, <2>1 DEF FinishGroup, Got, Raises, Return
    <3> QED BY <3>1 DEF OneOf
  <2>2. CASE "raised" \notin Got /\ Failed /\ config.stop_on_tool_error
    <3>1. Stops
      BY <1>18, <2>2 DEF FinishGroup, Got, Failed, Stops, Return
    <3> QED BY <3>1 DEF OneOf
  <2>3. CASE "raised" \notin Got /\ ~(Failed /\ config.stop_on_tool_error)
    <3>1. FeedsBack
      BY <1>18, <2>3 DEF FinishGroup, Got, Failed, FeedsBack
    <3> QED BY <3>1 DEF OneOf
  <2> QED BY <2>1, <2>2, <2>3
<1>19. ASSUME NEW t \in Tools, NEW def \in Definition, Register(t, def) PROVE OneOf
  BY <1>19 DEF OneOf
<1>20. CASE UNCHANGED vars
  BY <1>20 DEF OneOf
<1> HIDE DEF fixed, registryVars, controlVars, checkpointVars, threadVars, limitVars
<1>21. CASE LLM
  BY <1>1, <1>2, <1>21 DEF LLM
<1>22. CASE Loop
  BY <1>3, <1>4, <1>5, <1>6, <1>7, <1>12, <1>13, <1>18, <1>22 DEF Loop
<1>23. CASE Threads
  BY <1>14, <1>15, <1>16, <1>17, <1>23 DEF Threads
<1>24. CASE Application
  BY <1>9, <1>10, <1>19, <1>24 DEF Application
<1> QED BY <1>20, <1>21, <1>22, <1>23, <1>24 DEF Next

\* The type invariant in parts: the position of the loop, the group and its
\* threads, the books, and the records that sequences keep.
ControlType ==
  /\ config \in Configs
  /\ registry \in [Tools -> Definition] /\ overwrites \in 0 .. MaxOverwrites
  /\ pc \in Controls
  /\ reason \in {"none", "llm_error", "completed", "max_steps_exceeded",
                 "approval_required", "tool_error", "exception"}
  /\ step \in 0 .. config.max_steps
  /\ pc \notin {"request", "returned"} => step < config.max_steps
  /\ cursor \in 1 .. MaxCalls + 1
  /\ parallel \in BOOLEAN /\ resuming \in BOOLEAN

GroupType ==
  /\ response \in [Steps -> Response]
  /\ outcome \in [Indices -> Outcome]
  /\ waiting \subseteq Indices
  /\ thread \in [Keys -> {"idle", "queued", "running", "done"}]
  /\ entered \in [Keys -> Nat]
  /\ requests \in [Steps -> Nat]

BookType ==
  /\ requested \in Requested
  /\ charge \in [Keys -> [total : Nat, round : Nat, tool : Nat]]
  /\ decision \in [Steps -> [CallIds -> {"none", "approve", "deny"}]]
  /\ results \in [Keys -> Outcome]

RecordType ==
  /\ history \in Seq(Message)
  /\ checkpoints \in Seq(Checkpoint) /\ consumed \subseteq DOMAIN checkpoints

\* The type invariant in four parts.
LEMMA TypeParts == TypeOK <=> ControlType /\ GroupType /\ BookType /\ RecordType
BY DEF TypeOK, ControlType, GroupType, BookType, RecordType

\* The call at the cursor is one of the round.
LEMMA CursorType ==
  ASSUME TypeOK, Stage
  PROVE  /\ cursor \in 1 .. MaxCalls + 1
         /\ pc \notin Between /\ cursor <= Len(calls) =>
              /\ cursor \in 1 .. Len(calls) /\ cursor \in Indices
              /\ Here(cursor) \in Keys /\ calls[cursor].name \in Tools
              /\ cursor + 1 \in 1 .. MaxCalls + 1
         /\ pc = "await" /\ ~parallel =>
              /\ cursor \in 1 .. Len(calls) /\ cursor \in Indices
              /\ cursor + 1 \in 1 .. MaxCalls + 1
<1>1. cursor \in 1 .. MaxCalls + 1 /\ MaxCalls \in Nat
  BY LoopLimits DEF TypeOK
<1>2. ASSUME pc \notin Between, cursor <= Len(calls)
      PROVE  /\ cursor \in 1 .. Len(calls) /\ cursor \in Indices
             /\ Here(cursor) \in Keys /\ calls[cursor].name \in Tools
             /\ cursor + 1 \in 1 .. MaxCalls + 1
  <2>1. cursor \in 1 .. Len(calls)
    BY <1>1, <1>2, RoundType
  <2>2. cursor \in Indices /\ Here(cursor) \in Keys /\ calls[cursor].name \in Tools
    BY <1>2, <2>1, RoundType
  <2> QED BY <1>1, <2>1, <2>2 DEF Indices
<1>3. ASSUME pc = "await", ~parallel PROVE cursor \in 1 .. Len(calls) /\ pc \notin Between
  BY <1>3 DEF Stage, Between
<1>4. \A i \in 1 .. Len(calls) : pc \notin Between => i <= Len(calls)
  BY RoundType
<1> QED BY <1>1, <1>2, <1>3, <1>4

\* The answered calls are positions of the round, and all of them if all have
\* an outcome.
LEMMA AnsweredType ==
  ASSUME TypeOK, pc \notin Between
  PROVE  Answered \in Seq(Indices)
<1> DEFINE s == [i \in 1 .. Len(calls) |-> i]
<1>1. Len(calls) \in Nat /\ 1 .. Len(calls) \subseteq Indices
  BY RoundType
<1>2. s \in Seq(Indices)
  BY <1>1
<1> HIDE DEF s
<1> QED BY <1>2, ThoseProperties DEF Answered, s

\* The position of the loop keeps its type.
LEMMA ControlTypeStep ==
  ASSUME TypeOK, Stage, OneOf
  PROVE  ControlType'
<1> USE DEF fixed, registryVars, controlVars, checkpointVars, threadVars, limitVars
<1>0. /\ ControlType /\ config.max_steps \in 1 .. StepBound /\ step \in Nat
      /\ step <= config.max_steps /\ StepBound \in Nat /\ config.max_steps \in Nat
      /\ MaxCalls \in Nat \ {0} /\ MaxOverwrites \in Nat
  BY TypeParts, RoundType, LoopLimits
<1>a. /\ pc \notin Between /\ cursor <= Len(calls) => cursor + 1 \in 1 .. MaxCalls + 1
      /\ pc = "await" /\ ~parallel => cursor + 1 \in 1 .. MaxCalls + 1
  BY CursorType
<1>1. ASSUME NEW resp \in Response, EndsWith(resp)
      PROVE  ControlType'
  BY <1>1, <1>0, <1>a
  DEF EndsWith, Between, Controls, ControlType
<1>2. ASSUME NEW resp \in Response, Receives(resp)
      PROVE  ControlType'
  <2>1. parallel' \in BOOLEAN
    BY <1>2 DEF Receives, ResolveMode
  <2>2. pc' \in {"preflight", "sequential"}
    BY <1>2 DEF Receives
  <2>3. /\ step < config.max_steps /\ cursor' = 1 /\ resuming' = FALSE
        /\ UNCHANGED <<config, registry, overwrites, reason, step>>
    BY <1>2 DEF Receives
  <2>4. cursor' \in 1 .. MaxCalls + 1 /\ pc' \in Controls
    BY <1>0, <2>2, <2>3 DEF Controls
  <2>5. /\ step' \in 0 .. config'.max_steps /\ step' < config'.max_steps
        /\ config' \in Configs
    BY <1>0, <2>3 DEF ControlType
  <2>6. /\ registry' \in [Tools -> Definition] /\ overwrites' \in 0 .. MaxOverwrites
        /\ reason' = reason /\ resuming' \in BOOLEAN
    BY <1>0, <2>3 DEF ControlType
  <2> QED BY <1>0, <2>1, <2>4, <2>5, <2>6 DEF ControlType
<1>3. CASE StepsExhausted
  BY <1>3, <1>0, <1>a
  DEF StepsExhausted, Return, Between, Controls, ControlType
<1>4. CASE Prechecks
  BY <1>4, <1>0, <1>a
  DEF Prechecks, Between, Controls, ControlType
<1>5. CASE StartsGroup
  BY <1>5, <1>0, <1>a
  DEF StartsGroup, Between, Controls, ControlType
<1>6. CASE Pauses
  BY <1>6, <1>0, <1>a
  DEF Pauses, Between, Controls, ControlType, ResolveMode
<1>7. ASSUME NEW d \in [Pending -> BOOLEAN], Resumes(d)
      PROVE  ControlType'
  BY <1>7, <1>0, <1>a
  DEF Resumes, Between, Controls, ControlType
<1>8. CASE Holds
  BY <1>8, <1>0, <1>a
  DEF Holds, Between, Controls, ControlType
<1>9. CASE GroupEnds
  BY <1>9, <1>0, <1>a
  DEF GroupEnds, Between, Controls, ControlType
<1>10. CASE Skips
  BY <1>10, <1>0, <1>a
  DEF Skips, Between, Controls, ControlType
<1>11. CASE StartsCall
  BY <1>11, <1>0, <1>a
  DEF StartsCall, Between, Controls, ControlType
<1>12. ASSUME NEW v \in Denial \cup {"failed"}, SettlesCall(v)
      PROVE  ControlType'
  BY <1>12, <1>0, <1>a
  DEF SettlesCall, Continue, Between, Controls, ControlType
<1>13. ASSUME NEW k \in Keys, NEW result \in Executed \cup {"raised"},
             NEW th \in {"done", "running"}, Delivers(k, result, th)
      PROVE  ControlType'
  BY <1>13, <1>0, <1>a
  DEF Delivers, Deliver, Continue, Awaited, Between, Controls, ControlType
<1>14. ASSUME NEW k \in Keys, ReturnsLate(k)
      PROVE  ControlType'
  BY <1>14, <1>0, <1>a
  DEF ReturnsLate, Between, Controls, ControlType
<1>15. ASSUME NEW k \in Keys, CallEntered(k)
      PROVE  ControlType'
  BY <1>15, <1>0, <1>a
  DEF CallEntered, Between, Controls, ControlType
<1>16. CASE Raises
  BY <1>16, <1>0, <1>a
  DEF Raises, Between, Controls, ControlType
<1>17. CASE Stops
  BY <1>17, <1>0, <1>a
  DEF Stops, Between, Controls, ControlType
<1>18. CASE FeedsBack
  BY <1>18, <1>0, <1>a
  DEF FeedsBack, Between, Controls, ControlType
<1>19. ASSUME NEW t \in Tools, NEW def \in Definition, Register(t, def)
      PROVE  ControlType'
  BY <1>19, <1>0, <1>a
  DEF Register, Between, Controls, ControlType
<1>20. CASE UNCHANGED vars
  BY <1>20, <1>0, <1>a
  DEF vars, Between, Controls, ControlType
<1> HIDE DEF fixed, registryVars, controlVars, checkpointVars, threadVars, limitVars
<1> QED BY <1>1, <1>2, <1>3, <1>4, <1>5, <1>6, <1>7, <1>8, <1>9, <1>10,
          <1>11, <1>12, <1>13, <1>14, <1>15, <1>16, <1>17, <1>18, <1>19, <1>20
       DEF OneOf, Ends

\* So do the calls of the round, their outcomes and their threads.
LEMMA GroupTypeStep ==
  ASSUME TypeOK, Stage, OneOf
  PROVE  GroupType'
<1> USE DEF fixed, registryVars, controlVars, checkpointVars, threadVars, limitVars
<1>0. /\ GroupType
      /\ step < config.max_steps => step \in Steps /\ calls \in Response
      /\ "none" \in Outcome
  BY TypeParts, RoundType DEF Outcome
<1>a. pc \notin Between /\ cursor <= Len(calls) => cursor \in Indices /\ Here(cursor) \in Keys
  BY CursorType
<1>1. ASSUME NEW resp \in Response, EndsWith(resp)
      PROVE  GroupType'
  BY <1>1, <1>0, <1>a
  DEF EndsWith, Between, GroupType, Outcome, Executed, Denial
<1>2. ASSUME NEW resp \in Response, Receives(resp)
      PROVE  GroupType'
  BY <1>2, <1>0, <1>a
  DEF Receives, Between, GroupType, Outcome, Executed, Denial
<1>3. CASE StepsExhausted
  BY <1>3, <1>0, <1>a
  DEF StepsExhausted, Return, Between, GroupType, Outcome, Executed, Denial
<1>4. CASE Prechecks
  <2>1. Verdict(RecordRequested(calls[cursor].name), calls[cursor].name) \in Outcome
    BY DEF Verdict, Outcome, Denial
  <2> QED BY <1>4, <1>0, <2>1 DEF Prechecks, GroupType
<1>5. CASE StartsGroup
  <2>1. Runnable(outcome) \subseteq Indices
    BY <1>5, RoundType DEF StartsGroup, Runnable, Between
  <2>2. outcome' \in [Indices -> Outcome] /\ waiting' \subseteq Indices
        /\ thread' \in [Keys -> {"idle", "queued", "running", "done"}]
    BY <1>5, <1>0, <2>1 DEF StartsGroup, Submit, GroupType, Outcome, Executed
  <2> QED BY <1>5, <1>0, <2>2 DEF StartsGroup, GroupType
<1>6. CASE Pauses
  BY <1>6, <1>0, <1>a
  DEF Pauses, Between, GroupType, Outcome, Executed, Denial
<1>7. ASSUME NEW d \in [Pending -> BOOLEAN], Resumes(d)
      PROVE  GroupType'
  <2>1. outcome' \in [Indices -> Outcome]
    BY <1>7, <1>0 DEF Resumes, GroupType, Outcome, Denial
  <2> QED BY <1>7, <1>0, <2>1 DEF Resumes, GroupType
<1>8. CASE Holds
  BY <1>8, <1>0, <1>a
  DEF Holds, Between, GroupType, Outcome, Executed, Denial
<1>9. CASE GroupEnds
  BY <1>9, <1>0, <1>a
  DEF GroupEnds, Between, GroupType, Outcome, Executed, Denial
<1>10. CASE Skips
  BY <1>10, <1>0, <1>a
  DEF Skips, Between, GroupType, Outcome, Executed, Denial
<1>11. CASE StartsCall
  BY <1>11, <1>0, <1>a
  DEF StartsCall, Between, GroupType, Outcome, Executed, Denial
<1>12. ASSUME NEW v \in Denial \cup {"failed"}, SettlesCall(v)
      PROVE  GroupType'
  BY <1>12, <1>0, <1>a
  DEF SettlesCall, Continue, Between, GroupType, Outcome, Executed, Denial
<1>13. ASSUME NEW k \in Keys, NEW result \in Executed \cup {"raised"},
             NEW th \in {"done", "running"}, Delivers(k, result, th)
      PROVE  GroupType'
  <2>1. k[2] \in Indices
    BY DEF Keys
  <2>2. outcome' = [outcome EXCEPT ![k[2]] = result] /\ waiting' = waiting \ {k[2]}
        /\ thread' = [thread EXCEPT ![k] = th] /\ UNCHANGED <<response, entered, requests>>
    BY <1>13 DEF Delivers, Deliver
  <2> QED BY <1>0, <2>1, <2>2 DEF GroupType, Outcome
<1>14. ASSUME NEW k \in Keys, ReturnsLate(k)
      PROVE  GroupType'
  BY <1>14, <1>0, <1>a
  DEF ReturnsLate, Between, GroupType, Outcome, Executed, Denial
<1>15. ASSUME NEW k \in Keys, CallEntered(k)
      PROVE  GroupType'
  BY <1>15, <1>0, <1>a
  DEF CallEntered, Between, GroupType, Outcome, Executed, Denial
<1>16. CASE Raises
  BY <1>16, <1>0, <1>a
  DEF Raises, Between, GroupType, Outcome, Executed, Denial, NoOutcomes
<1>17. CASE Stops
  BY <1>17, <1>0, <1>a
  DEF Stops, Between, GroupType, Outcome, Executed, Denial, NoOutcomes
<1>18. CASE FeedsBack
  BY <1>18, <1>0, <1>a
  DEF FeedsBack, Between, GroupType, Outcome, Executed, Denial, NoOutcomes
<1>19. ASSUME NEW t \in Tools, NEW def \in Definition, Register(t, def)
      PROVE  GroupType'
  BY <1>19, <1>0, <1>a
  DEF Register, Between, GroupType, Outcome, Executed, Denial
<1>20. CASE UNCHANGED vars
  BY <1>20, <1>0, <1>a
  DEF vars, Between, GroupType, Outcome, Executed, Denial
<1> HIDE DEF fixed, registryVars, controlVars, checkpointVars, threadVars, limitVars
<1> QED BY <1>1, <1>2, <1>3, <1>4, <1>5, <1>6, <1>7, <1>8, <1>9, <1>10,
          <1>11, <1>12, <1>13, <1>14, <1>15, <1>16, <1>17, <1>18, <1>19, <1>20
       DEF OneOf, Ends

\* So do the counters, the charges, the decisions and the results.
LEMMA BookTypeStep ==
  ASSUME TypeOK, Stage, OneOf
  PROVE  BookType'
<1> USE DEF fixed, registryVars, controlVars, checkpointVars, threadVars, limitVars
<1>0. /\ BookType
      /\ step < config.max_steps => step \in Steps
      /\ pc \notin Between => step < config.max_steps
      /\ outcome \in [Indices -> Outcome]
  BY TypeParts, RoundType DEF GroupType
<1>a. ASSUME ChargeHere, pc \notin Between, cursor <= Len(calls)
      PROVE  /\ requested' \in Requested
             /\ charge' \in [Keys -> [total : Nat, round : Nat, tool : Nat]]
  <2>1. calls[cursor].name \in Tools /\ Here(cursor) \in Keys /\ step \in Steps
    BY <1>0, <1>a, CursorType
  <2>2. /\ requested.total \in Nat /\ requested.round \in [Steps -> Nat]
        /\ requested.tool \in [Tools -> Nat]
    BY <1>0 DEF BookType, Requested
  <2>3. /\ requested.total + 1 \in Nat /\ requested.round[step] + 1 \in Nat
        /\ requested.tool[calls[cursor].name] + 1 \in Nat
    BY <2>1, <2>2
  <2>4. requested' \in Requested
    BY <1>a, <2>1, <2>2, <2>3 DEF ChargeHere, RecordRequested, Requested
  <2>5. charge' \in [Keys -> [total : Nat, round : Nat, tool : Nat]]
    BY <1>0, <1>a, <2>1, <2>3 DEF ChargeHere, BookType
  <2> QED BY <2>4, <2>5
<1>b. WithOutcomes \in [Keys -> Outcome]
  BY <1>0 DEF WithOutcomes, BookType, Keys
<1>1. ASSUME NEW resp \in Response, EndsWith(resp)
      PROVE  BookType'
  BY <1>1, <1>0, <1>a
  DEF EndsWith, BookType
<1>2. ASSUME NEW resp \in Response, Receives(resp)
      PROVE  BookType'
  BY <1>2, <1>0, <1>a
  DEF Receives, BookType
<1>3. CASE StepsExhausted
  BY <1>3, <1>0, <1>a
  DEF StepsExhausted, Return, BookType
<1>4. CASE Prechecks
  BY <1>4, <1>0, <1>a
  DEF Prechecks, BookType, Between
<1>5. CASE StartsGroup
  BY <1>5, <1>0, <1>a
  DEF StartsGroup, BookType
<1>6. CASE Pauses
  BY <1>6, <1>0, <1>a
  DEF Pauses, BookType
<1>7. ASSUME NEW d \in [Pending -> BOOLEAN], Resumes(d)
      PROVE  BookType'
  <2>1. decision' \in [Steps -> [CallIds -> {"none", "approve", "deny"}]]
    BY <1>7, <1>0 DEF Resumes, BookType, Between
  <2> QED BY <1>7, <1>0, <2>1 DEF Resumes, BookType
<1>8. CASE Holds
  BY <1>8, <1>0, <1>a
  DEF Holds, BookType
<1>9. CASE GroupEnds
  BY <1>9, <1>0, <1>a
  DEF GroupEnds, BookType
<1>10. CASE Skips
  BY <1>10, <1>0, <1>a
  DEF Skips, BookType
<1>11. CASE StartsCall
  BY <1>11, <1>0, <1>a
  DEF StartsCall, BookType, Between
<1>12. ASSUME NEW v \in Denial \cup {"failed"}, SettlesCall(v)
      PROVE  BookType'
  BY <1>12, <1>0, <1>a
  DEF SettlesCall, Continue, BookType, Between
<1>13. ASSUME NEW k \in Keys, NEW result \in Executed \cup {"raised"},
             NEW th \in {"done", "running"}, Delivers(k, result, th)
      PROVE  BookType'
  BY <1>13, <1>0, <1>a
  DEF Delivers, Deliver, Continue, Awaited, BookType
<1>14. ASSUME NEW k \in Keys, ReturnsLate(k)
      PROVE  BookType'
  BY <1>14, <1>0, <1>a
  DEF ReturnsLate, BookType
<1>15. ASSUME NEW k \in Keys, CallEntered(k)
      PROVE  BookType'
  BY <1>15, <1>0, <1>a
  DEF CallEntered, BookType
<1>16. CASE Raises
  BY <1>16, <1>0, <1>a
  DEF Raises, BookType
<1>17. CASE Stops
  BY <1>17, <1>0, <1>a, <1>b
  DEF Stops, BookType
<1>18. CASE FeedsBack
  BY <1>18, <1>0, <1>a, <1>b
  DEF FeedsBack, BookType
<1>19. ASSUME NEW t \in Tools, NEW def \in Definition, Register(t, def)
      PROVE  BookType'
  BY <1>19, <1>0, <1>a
  DEF Register, BookType
<1>20. CASE UNCHANGED vars
  BY <1>20, <1>0, <1>a
  DEF vars, BookType
<1> HIDE DEF fixed, registryVars, controlVars, checkpointVars, threadVars, limitVars
<1> QED BY <1>1, <1>2, <1>3, <1>4, <1>5, <1>6, <1>7, <1>8, <1>9, <1>10,
          <1>11, <1>12, <1>13, <1>14, <1>15, <1>16, <1>17, <1>18, <1>19, <1>20
       DEF OneOf, Ends

\* So do the messages and the checkpoints.
LEMMA RecordTypeStep ==
  ASSUME TypeOK, Stage, Latest, OneOf
  PROVE  RecordType'
<1> USE DEF fixed, registryVars, controlVars, checkpointVars, threadVars, limitVars
<1>0. RecordType
  BY TypeParts
<1>1. ASSUME NEW resp \in Response, EndsWith(resp)
      PROVE  RecordType'
  BY <1>1, <1>0
  DEF EndsWith, RecordType
<1>2. ASSUME NEW resp \in Response, Receives(resp)
      PROVE  RecordType'
  <2>1. Len(resp) \in Indices /\ step \in Steps
    <3>1. Len(resp) \in 0 .. MaxCalls /\ resp \in Seq(Call) /\ resp # <<>>
      BY <1>2, ResponseType DEF Receives
    <3>2. Len(resp) # 0
      BY <3>1
    <3> QED BY <1>2, <3>1, <3>2, RoundType, LoopLimits DEF Receives, Indices
  <2>2. [role |-> "assistant", step |-> step, index |-> Len(resp)] \in Message
    BY <2>1 DEF Message
  <2> QED BY <1>2, <1>0, <2>2 DEF Receives, RecordType
<1>3. CASE StepsExhausted
  BY <1>3, <1>0
  DEF StepsExhausted, Return, RecordType
<1>4. CASE Prechecks
  BY <1>4, <1>0
  DEF Prechecks, RecordType
<1>5. CASE StartsGroup
  BY <1>5, <1>0
  DEF StartsGroup, RecordType
<1>6. CASE Pauses
  <2>1. step \in Steps /\ calls \in Response /\ parallel' \in BOOLEAN
    BY <1>6, RoundType DEF Pauses, Between, ResolveMode
  <2>2. Snapshot(parallel') \in Checkpoint
    BY <1>0, <2>1 DEF Snapshot, Checkpoint, RecordType, TypeOK
  <2>3. checkpoints' \in Seq(Checkpoint) /\ DOMAIN checkpoints \subseteq DOMAIN checkpoints'
    BY <1>6, <1>0, <2>2 DEF Pauses, RecordType
  <2> QED BY <1>6, <1>0, <2>3 DEF Pauses, RecordType
<1>7. ASSUME NEW d \in [Pending -> BOOLEAN], Resumes(d)
      PROVE  RecordType'
  BY <1>7, <1>0
  DEF Resumes, RecordType
<1>8. CASE Holds
  BY <1>8, <1>0
  DEF Holds, RecordType
<1>9. CASE GroupEnds
  BY <1>9, <1>0
  DEF GroupEnds, RecordType
<1>10. CASE Skips
  BY <1>10, <1>0
  DEF Skips, RecordType
<1>11. CASE StartsCall
  BY <1>11, <1>0
  DEF StartsCall, RecordType
<1>12. ASSUME NEW v \in Denial \cup {"failed"}, SettlesCall(v)
      PROVE  RecordType'
  BY <1>12, <1>0
  DEF SettlesCall, Continue, RecordType
<1>13. ASSUME NEW k \in Keys, NEW result \in Executed \cup {"raised"},
             NEW th \in {"done", "running"}, Delivers(k, result, th)
      PROVE  RecordType'
  BY <1>13, <1>0
  DEF Delivers, Deliver, Continue, Awaited, RecordType
<1>14. ASSUME NEW k \in Keys, ReturnsLate(k)
      PROVE  RecordType'
  BY <1>14, <1>0
  DEF ReturnsLate, RecordType
<1>15. ASSUME NEW k \in Keys, CallEntered(k)
      PROVE  RecordType'
  BY <1>15, <1>0
  DEF CallEntered, RecordType
<1>16. CASE Raises
  BY <1>16, <1>0
  DEF Raises, RecordType
<1>17. CASE Stops
  BY <1>17, <1>0
  DEF Stops, RecordType
<1>18. CASE FeedsBack
  <2>1. step \in Steps /\ Answered \in Seq(Indices)
    BY <1>18, RoundType, AnsweredType DEF FeedsBack, Between
  <2> DEFINE ms == [j \in 1 .. Len(Answered) |->
                      [role |-> "tool", step |-> step, index |-> Answered[j]]]
  <2>2. \A j \in 1 .. Len(Answered) :
          [role |-> "tool", step |-> step, index |-> Answered[j]] \in Message
    BY <2>1 DEF Message
  <2>3. ms \in Seq(Message)
    <3>1. Len(Answered) \in Nat
      BY <2>1
    <3> QED BY <2>2, <3>1
  <2>4. history' = history \o ms /\ UNCHANGED <<checkpoints, consumed>>
    BY <1>18 DEF FeedsBack
  <2> HIDE DEF ms
  <2> QED BY <1>0, <2>3, <2>4 DEF RecordType
<1>19. ASSUME NEW t \in Tools, NEW def \in Definition, Register(t, def)
      PROVE  RecordType'
  BY <1>19, <1>0
  DEF Register, RecordType
<1>20. CASE UNCHANGED vars
  BY <1>20, <1>0
  DEF vars, RecordType
<1> HIDE DEF fixed, registryVars, controlVars, checkpointVars, threadVars, limitVars
<1> QED BY <1>1, <1>2, <1>3, <1>4, <1>5, <1>6, <1>7, <1>8, <1>9, <1>10,
          <1>11, <1>12, <1>13, <1>14, <1>15, <1>16, <1>17, <1>18, <1>19, <1>20
       DEF OneOf, Ends

\* Every step keeps the types.
LEMMA TypeStep ==
  ASSUME TypeOK, Stage, Latest, OneOf
  PROVE  TypeOK'
<1>1. ControlType' /\ GroupType' /\ BookType' /\ RecordType'
  BY ControlTypeStep, GroupTypeStep, BookTypeStep, RecordTypeStep
<1> QED BY <1>1 DEF TypeOK, ControlType, GroupType, BookType, RecordType

-----------------------------------------------------------------------------
(* Stages, checkpoints and requests *)

\* Every step leads from one stage of a group to the next.
LEMMA StageStep ==
  ASSUME TypeOK, Stage, Latest, OneOf
  PROVE  Stage'
<1> USE DEF fixed, registryVars, controlVars, checkpointVars, threadVars, limitVars
<1>0. /\ Stage /\ step \in Nat /\ config.max_steps \in Nat /\ cursor \in Nat
      /\ pc \notin Between => Len(calls) \in Nat
      /\ resuming \in BOOLEAN /\ parallel \in BOOLEAN
  BY RoundType DEF TypeOK
<1>a. pc \notin Between /\ cursor <= Len(calls) => cursor \in 1 .. Len(calls)
  BY CursorType
<1>1. ASSUME NEW resp \in Response, EndsWith(resp)
      PROVE  Stage'
  BY <1>1, <1>0
  DEF EndsWith, Stage, Between, Asking, calls
<1>2. ASSUME NEW resp \in Response, Receives(resp)
      PROVE  Stage'
  BY <1>2, <1>0
  DEF Receives, Stage, Between, Asking, calls, NoRoundLeft
<1>3. CASE StepsExhausted
  BY <1>3, <1>0
  DEF StepsExhausted, Return, Stage, Between, Asking, calls
<1>4. CASE Prechecks
  BY <1>4, <1>0
  DEF Prechecks, Stage, Between, Asking, calls
<1>5. CASE StartsGroup
  <2>1. /\ parallel /\ (resuming <=> Asking) /\ pc \notin Between
        /\ Runnable(outcome) \subseteq 1 .. Len(calls)
    BY <1>5 DEF StartsGroup, Stage, Between, Runnable
  <2>2. waiting' \subseteq 1 .. Len(calls)
    BY <1>5, <2>1 DEF StartsGroup, Submit
  <2>3. UNCHANGED <<config, resuming, parallel, response, step>> /\ pc' = "await"
    BY <1>5 DEF StartsGroup
  <2> QED BY <1>0, <2>1, <2>2, <2>3 DEF Stage, Between, Asking, calls
<1>6. CASE Pauses
  BY <1>6, <1>0
  DEF Pauses, Stage, Between, Asking, calls
<1>7. ASSUME NEW d \in [Pending -> BOOLEAN], Resumes(d)
      PROVE  Stage'
  BY <1>7, <1>0
  DEF Resumes, Stage, Between, Asking, calls, Latest
<1>8. CASE Holds
  BY <1>8, <1>0
  DEF Holds, Stage, Between, Asking, calls
<1>9. CASE GroupEnds
  BY <1>9, <1>0
  DEF GroupEnds, Stage, Between, Asking, calls
<1>10. CASE Skips
  BY <1>10, <1>0
  DEF Skips, Stage, Between, Asking, calls
<1>11. CASE StartsCall
  BY <1>11, <1>0, <1>a
  DEF StartsCall, Stage, Between, Asking, calls
<1>12. ASSUME NEW v \in Denial \cup {"failed"}, SettlesCall(v)
      PROVE  Stage'
  BY <1>12, <1>0
  DEF SettlesCall, Continue, Stage, Between, Asking, calls
<1>13. ASSUME NEW k \in Keys, NEW result \in Executed \cup {"raised"},
             NEW th \in {"done", "running"}, Delivers(k, result, th)
      PROVE  Stage'
  BY <1>13, <1>0
  DEF Delivers, Deliver, Continue, Awaited, Stage, Between, Asking, calls
<1>14. ASSUME NEW k \in Keys, ReturnsLate(k)
      PROVE  Stage'
  BY <1>14, <1>0
  DEF ReturnsLate, Stage, Between, Asking, calls
<1>15. ASSUME NEW k \in Keys, CallEntered(k)
      PROVE  Stage'
  BY <1>15, <1>0
  DEF CallEntered, Stage, Between, Asking, calls
<1>16. CASE Raises
  BY <1>16, <1>0
  DEF Raises, Stage, Between, Asking, calls, NoOutcomes
<1>17. CASE Stops
  BY <1>17, <1>0
  DEF Stops, Stage, Between, Asking, calls, NoOutcomes
<1>18. CASE FeedsBack
  BY <1>18, <1>0
  DEF FeedsBack, Stage, Between, Asking, calls, NoOutcomes
<1>19. ASSUME NEW t \in Tools, NEW def \in Definition, Register(t, def)
      PROVE  Stage'
  BY <1>19, <1>0
  DEF Register, Stage, Between, Asking, calls
<1>20. CASE UNCHANGED vars
  BY <1>20, <1>0
  DEF vars, Stage, Between, Asking, calls
<1> HIDE DEF fixed, registryVars, controlVars, checkpointVars, threadVars, limitVars
<1> QED BY <1>1, <1>2, <1>3, <1>4, <1>5, <1>6, <1>7, <1>8, <1>9, <1>10,
          <1>11, <1>12, <1>13, <1>14, <1>15, <1>16, <1>17, <1>18, <1>19, <1>20
       DEF OneOf, Ends

\* The unused checkpoint, if there is one, is that of the present state.
LEMMA LatestStep ==
  ASSUME TypeOK, Stage, Latest, OneOf
  PROVE  Latest'
<1> USE DEF fixed, registryVars, controlVars, checkpointVars, threadVars, limitVars
<1>0. /\ Latest /\ checkpoints \in Seq(Checkpoint) /\ Len(checkpoints) \in Nat
      /\ DOMAIN checkpoints = 1 .. Len(checkpoints)
  BY DEF TypeOK
<1>1. ASSUME NEW resp \in Response, EndsWith(resp)
      PROVE  Latest'
  BY <1>1, <1>0
  DEF EndsWith, Latest, Asking, Snapshot, calls
<1>2. ASSUME NEW resp \in Response, Receives(resp)
      PROVE  Latest'
  BY <1>2, <1>0
  DEF Receives, Latest, Asking, Snapshot, calls
<1>3. CASE StepsExhausted
  BY <1>3, <1>0
  DEF StepsExhausted, Return, Latest, Asking, Snapshot, calls
<1>4. CASE Prechecks
  BY <1>4, <1>0
  DEF Prechecks, Latest, Asking, Snapshot, calls
<1>5. CASE StartsGroup
  BY <1>5, <1>0
  DEF StartsGroup, Latest, Asking, Snapshot, calls
<1>6. CASE Pauses
  <2>1. Snapshot(parallel') \in Checkpoint
    <3>1. TypeOK'
      BY <1>6, TypeStep DEF OneOf
    <3>2. checkpoints' \in Seq(Checkpoint) /\ Len(checkpoints') = Len(checkpoints) + 1
          /\ checkpoints'[Len(checkpoints')] = Snapshot(parallel')
      BY <1>6, <1>0, <3>1 DEF Pauses, TypeOK
    <3> QED BY <1>0, <3>2
  <2>2. /\ Len(checkpoints') = Len(checkpoints) + 1
        /\ checkpoints'[Len(checkpoints')] = Snapshot(parallel')
    BY <1>6, <1>0, <2>1 DEF Pauses
  <2>3. /\ Asking /\ pc' = "paused" /\ consumed' = consumed /\ pc # "paused"
        /\ UNCHANGED <<config, step, response, outcome, requested, history, results>>
    BY <1>6 DEF Pauses
  <2>4. Snapshot(parallel') = Snapshot(parallel)'
    BY <2>3 DEF Snapshot, calls
  <2>5. consumed' = 1 .. Len(checkpoints') - 1 /\ Len(checkpoints') > 0
    <3>1. Len(checkpoints') - 1 = Len(checkpoints)
      BY <1>0, <2>2
    <3>2. consumed' = 1 .. Len(checkpoints)
      BY <1>0, <2>3 DEF Latest
    <3>3. Len(checkpoints') > 0
      BY <1>0, <2>2
    <3> QED BY <3>1, <3>2, <3>3
  <2> QED BY <2>2, <2>3, <2>4, <2>5 DEF Latest, Asking
<1>7. ASSUME NEW d \in [Pending -> BOOLEAN], Resumes(d)
      PROVE  Latest'
  BY <1>7, <1>0
  DEF Resumes, Latest, Asking, Snapshot, calls
<1>8. CASE Holds
  BY <1>8, <1>0
  DEF Holds, Latest, Asking, Snapshot, calls
<1>9. CASE GroupEnds
  BY <1>9, <1>0
  DEF GroupEnds, Latest, Asking, Snapshot, calls
<1>10. CASE Skips
  BY <1>10, <1>0
  DEF Skips, Latest, Asking, Snapshot, calls
<1>11. CASE StartsCall
  BY <1>11, <1>0
  DEF StartsCall, Latest, Asking, Snapshot, calls
<1>12. ASSUME NEW v \in Denial \cup {"failed"}, SettlesCall(v)
      PROVE  Latest'
  BY <1>12, <1>0
  DEF SettlesCall, Continue, Latest, Asking, Snapshot, calls
<1>13. ASSUME NEW k \in Keys, NEW result \in Executed \cup {"raised"},
             NEW th \in {"done", "running"}, Delivers(k, result, th)
      PROVE  Latest'
  BY <1>13, <1>0
  DEF Delivers, Deliver, Continue, Awaited, Latest, Asking, Snapshot, calls
<1>14. ASSUME NEW k \in Keys, ReturnsLate(k)
      PROVE  Latest'
  BY <1>14, <1>0
  DEF ReturnsLate, Latest, Asking, Snapshot, calls
<1>15. ASSUME NEW k \in Keys, CallEntered(k)
      PROVE  Latest'
  BY <1>15, <1>0
  DEF CallEntered, Latest, Asking, Snapshot, calls
<1>16. CASE Raises
  BY <1>16, <1>0
  DEF Raises, Latest, Asking, Snapshot, calls
<1>17. CASE Stops
  BY <1>17, <1>0
  DEF Stops, Latest, Asking, Snapshot, calls
<1>18. CASE FeedsBack
  BY <1>18, <1>0
  DEF FeedsBack, Latest, Asking, Snapshot, calls
<1>19. ASSUME NEW t \in Tools, NEW def \in Definition, Register(t, def)
      PROVE  Latest'
  BY <1>19, <1>0
  DEF Register, Latest, Asking, Snapshot, calls
<1>20. CASE UNCHANGED vars
  BY <1>20, <1>0
  DEF vars, Latest, Asking, Snapshot, calls
<1> HIDE DEF fixed, registryVars, controlVars, checkpointVars, threadVars, limitVars
<1> QED BY <1>1, <1>2, <1>3, <1>4, <1>5, <1>6, <1>7, <1>8, <1>9, <1>10,
          <1>11, <1>12, <1>13, <1>14, <1>15, <1>16, <1>17, <1>18, <1>19, <1>20
       DEF OneOf, Ends

\* A request is made at the beginning of a round and at no other time.
LEMMA AskedOnceStep ==
  ASSUME TypeOK, Stage, Latest, AskedOnce, OneOf
  PROVE  AskedOnce'
<1> USE DEF fixed, registryVars, controlVars, checkpointVars, threadVars, limitVars
<1>0. /\ AskedOnce /\ step \in Nat /\ config.max_steps \in Nat /\ Steps \subseteq Nat
      /\ pc \notin Between => step < config.max_steps
      /\ requests \in [Steps -> Nat]
  BY RoundType DEF TypeOK
<1>1. ASSUME NEW resp \in Response, EndsWith(resp)
      PROVE  AskedOnce'
  BY <1>1, <1>0
  DEF EndsWith, AskedOnce, Between
<1>2. ASSUME NEW resp \in Response, Receives(resp)
      PROVE  AskedOnce'
  BY <1>2, <1>0
  DEF Receives, AskedOnce, Between
<1>3. CASE StepsExhausted
  BY <1>3, <1>0
  DEF StepsExhausted, Return, AskedOnce, Between
<1>4. CASE Prechecks
  BY <1>4, <1>0
  DEF Prechecks, AskedOnce, Between
<1>5. CASE StartsGroup
  BY <1>5, <1>0
  DEF StartsGroup, AskedOnce, Between
<1>6. CASE Pauses
  BY <1>6, <1>0
  DEF Pauses, AskedOnce, Between
<1>7. ASSUME NEW d \in [Pending -> BOOLEAN], Resumes(d)
      PROVE  AskedOnce'
  BY <1>7, <1>0
  DEF Resumes, AskedOnce, Between
<1>8. CASE Holds
  BY <1>8, <1>0
  DEF Holds, AskedOnce, Between
<1>9. CASE GroupEnds
  BY <1>9, <1>0
  DEF GroupEnds, AskedOnce, Between
<1>10. CASE Skips
  BY <1>10, <1>0
  DEF Skips, AskedOnce, Between
<1>11. CASE StartsCall
  BY <1>11, <1>0
  DEF StartsCall, AskedOnce, Between
<1>12. ASSUME NEW v \in Denial \cup {"failed"}, SettlesCall(v)
      PROVE  AskedOnce'
  BY <1>12, <1>0
  DEF SettlesCall, Continue, AskedOnce, Between
<1>13. ASSUME NEW k \in Keys, NEW result \in Executed \cup {"raised"},
             NEW th \in {"done", "running"}, Delivers(k, result, th)
      PROVE  AskedOnce'
  BY <1>13, <1>0
  DEF Delivers, Deliver, Continue, Awaited, AskedOnce, Between
<1>14. ASSUME NEW k \in Keys, ReturnsLate(k)
      PROVE  AskedOnce'
  BY <1>14, <1>0
  DEF ReturnsLate, AskedOnce, Between
<1>15. ASSUME NEW k \in Keys, CallEntered(k)
      PROVE  AskedOnce'
  BY <1>15, <1>0
  DEF CallEntered, AskedOnce, Between
<1>16. CASE Raises
  BY <1>16, <1>0
  DEF Raises, AskedOnce, Between
<1>17. CASE Stops
  BY <1>17, <1>0
  DEF Stops, AskedOnce, Between
<1>18. CASE FeedsBack
  BY <1>18, <1>0
  DEF FeedsBack, AskedOnce, Between
<1>19. ASSUME NEW t \in Tools, NEW def \in Definition, Register(t, def)
      PROVE  AskedOnce'
  BY <1>19, <1>0
  DEF Register, AskedOnce, Between
<1>20. CASE UNCHANGED vars
  BY <1>20, <1>0
  DEF vars, AskedOnce, Between
<1> HIDE DEF fixed, registryVars, controlVars, checkpointVars, threadVars, limitVars
<1> QED BY <1>1, <1>2, <1>3, <1>4, <1>5, <1>6, <1>7, <1>8, <1>9, <1>10,
          <1>11, <1>12, <1>13, <1>14, <1>15, <1>16, <1>17, <1>18, <1>19, <1>20
       DEF OneOf, Ends

-----------------------------------------------------------------------------
(* Threads *)

\* What Threading says of one call.
ThreadOf(j) ==
  /\ Ahead(j) => thread[j] = "idle"
  /\ thread[j] = "queued" => Awaited(j)
  /\ Awaited(j) => thread[j] \in {"queued", "running"}
  /\ thread[j] \in {"idle", "queued"} => entered[j] = 0
  /\ thread[j] = "running" => entered[j] = 1
  /\ thread[j] = "done" => entered[j] \in {0, 1}

\* The keys of the present round.
LEMMA KeyType ==
  ASSUME TypeOK, NEW j \in Keys
  PROVE  /\ j = <<j[1], j[2]>> /\ j[1] \in Steps /\ j[2] \in Indices
         /\ j[1] \in Nat /\ j[2] \in Nat /\ 1 <= j[2]
         /\ \A i : Here(i) = j <=> j[1] = step /\ j[2] = i
BY RoundType DEF Keys, Here, Indices

\* Only an awaited call is queued, and its callable is entered once.
LEMMA ThreadingStep ==
  ASSUME TypeOK, Stage, Latest, Threading, OneOf
  PROVE  Threading'
<1> USE DEF fixed, registryVars, controlVars, checkpointVars, threadVars, limitVars
<1> SUFFICES ASSUME NEW j \in Keys PROVE ThreadOf(j)'
  BY DEF Threading, ThreadOf
<1>0. /\ ThreadOf(j) /\ j[1] \in Nat /\ j[2] \in Nat /\ step \in Nat /\ cursor \in Nat
      /\ thread \in [Keys -> {"idle", "queued", "running", "done"}]
      /\ entered \in [Keys -> Nat] /\ parallel \in BOOLEAN
      /\ pc # "await" => waiting = {}
  BY KeyType, RoundType DEF Threading, ThreadOf, TypeOK, Stage
<1>a. \A i : Here(i) = j <=> j[1] = step /\ j[2] = i
  BY KeyType
<1>b. pc \notin Between /\ cursor <= Len(calls) => Here(cursor) \in Keys
  BY CursorType
<1>1. ASSUME NEW resp \in Response, EndsWith(resp)
      PROVE  ThreadOf(j)'
  BY <1>1, <1>0
  DEF EndsWith, ThreadOf, Ahead, Awaited, Between
<1>2. ASSUME NEW resp \in Response, Receives(resp)
      PROVE  ThreadOf(j)'
  BY <1>2, <1>0
  DEF Receives, ThreadOf, Ahead, Awaited, Between
<1>3. CASE StepsExhausted
  BY <1>3, <1>0
  DEF StepsExhausted, Return, ThreadOf, Ahead, Awaited, Between
<1>4. CASE Prechecks
  BY <1>4, <1>0
  DEF Prechecks, ThreadOf, Ahead, Awaited, Between
<1>5. CASE StartsGroup
  <2>1. \A i \in Runnable(outcome) : i \in Indices
    BY <1>5, RoundType DEF StartsGroup, Runnable, Between
  <2>2. thread'[j] = IF j[1] = step /\ j[2] \in waiting' THEN "queued" ELSE thread[j]
    BY <1>5 DEF StartsGroup, Submit
  <2>3. pc' = "await" /\ UNCHANGED <<reason, step, cursor, parallel, entered>>
    BY <1>5 DEF StartsGroup
  <2>4. j[1] = step => thread[j] = "idle" /\ entered[j] = 0
    BY <1>5, <1>0 DEF StartsGroup, ThreadOf, Ahead
  <2>5. parallel
    BY <1>5 DEF StartsGroup, Stage
  <2>6. j[1] # step => ~Awaited(j) /\ ~Awaited(j)' /\ (Ahead(j)' => Ahead(j))
    BY <2>3 DEF Awaited, Ahead
  <2>7. CASE j[1] = step /\ j[2] \in waiting'
    BY <1>0, <2>2, <2>3, <2>4, <2>5, <2>7 DEF ThreadOf, Ahead, Awaited
  <2>8. CASE j[1] = step /\ j[2] \notin waiting'
    BY <1>0, <2>2, <2>3, <2>4, <2>5, <2>8 DEF ThreadOf, Ahead, Awaited
  <2>9. CASE j[1] # step
    BY <1>0, <2>2, <2>3, <2>6, <2>9 DEF ThreadOf
  <2> QED BY <2>7, <2>8, <2>9
<1>6. CASE Pauses
  BY <1>6, <1>0
  DEF Pauses, ThreadOf, Ahead, Awaited, Between
<1>7. ASSUME NEW d \in [Pending -> BOOLEAN], Resumes(d)
      PROVE  ThreadOf(j)'
  BY <1>7, <1>0
  DEF Resumes, ThreadOf, Ahead, Awaited, Between
<1>8. CASE Holds
  BY <1>8, <1>0
  DEF Holds, ThreadOf, Ahead, Awaited, Between
<1>9. CASE GroupEnds
  BY <1>9, <1>0
  DEF GroupEnds, ThreadOf, Ahead, Awaited, Between
<1>10. CASE Skips
  BY <1>10, <1>0
  DEF Skips, ThreadOf, Ahead, Awaited, Between
<1>11. CASE StartsCall
  BY <1>11, <1>0, <1>a, <1>b
  DEF StartsCall, ThreadOf, Ahead, Awaited, Between, Stage
<1>12. ASSUME NEW v \in Denial \cup {"failed"}, SettlesCall(v)
      PROVE  ThreadOf(j)'
  BY <1>12, <1>0
  DEF SettlesCall, Continue, ThreadOf, Ahead, Awaited, Between, Stage
<1>13. ASSUME NEW k \in Keys, NEW result \in Executed \cup {"raised"},
             NEW th \in {"done", "running"}, Delivers(k, result, th)
      PROVE  ThreadOf(j)'
  <2>1. /\ k[1] = step /\ k[2] \in waiting /\ pc = "await"
        /\ thread' = [thread EXCEPT ![k] = th] /\ waiting' = waiting \ {k[2]}
        /\ UNCHANGED <<reason, step, parallel, entered>>
    BY <1>13 DEF Delivers, Deliver, Awaited
  <2>2. \/ parallel /\ pc' \in {"finish", "await"} /\ cursor' = cursor
        \/ ~parallel /\ pc' = "finish" /\ cursor' = cursor
        \/ ~parallel /\ pc' = "sequential" /\ cursor' = cursor + 1
    BY <1>13 DEF Delivers, Deliver, Continue
  <2>3. pc' # "await" => waiting' = {}
    BY <1>13, <2>1 DEF Delivers, Deliver, Continue, Stage
  <2>4. j # k => j[1] # step \/ j[2] # k[2]
    BY <2>1, KeyType
  <2>5. thread'[j] = IF j = k THEN th ELSE thread[j]
    BY <1>0, <2>1
  <2>6. ThreadOf(k)
    BY DEF Threading, ThreadOf
  <2>7. CASE j = k
    <3>1. entered[k] \in {0, 1} /\ (th = "running" => entered[k] = 1)
      <4>1. th = "running" => thread[k] = "running"
        BY <1>13 DEF Delivers
      <4> QED BY <1>0, <2>1, <2>6, <4>1 DEF ThreadOf, Awaited
    <3>2. ~Ahead(k)'
      BY <1>0, <2>1, <2>2, <2>7 DEF Ahead, Stage
    <3>3. ~Awaited(k)'
      BY <2>1 DEF Awaited
    <3> QED BY <2>1, <2>5, <2>7, <3>1, <3>2, <3>3 DEF ThreadOf
  <2>8. CASE j # k
    <3>1. Awaited(j)' <=> Awaited(j)
      BY <2>1, <2>3, <2>4, <2>8 DEF Awaited
    <3>2. Ahead(j)' => Ahead(j)
      BY <1>0, <2>1, <2>2 DEF Ahead
    <3> QED BY <1>0, <2>1, <2>5, <2>8, <3>1, <3>2 DEF ThreadOf
  <2> QED BY <2>7, <2>8
<1>14. ASSUME NEW k \in Keys, ReturnsLate(k)
      PROVE  ThreadOf(j)'
  BY <1>14, <1>0
  DEF ReturnsLate, ThreadOf, Ahead, Awaited, Between
<1>15. ASSUME NEW k \in Keys, CallEntered(k)
      PROVE  ThreadOf(j)'
  BY <1>15, <1>0
  DEF CallEntered, ThreadOf, Ahead, Awaited, Between
<1>16. CASE Raises
  BY <1>16, <1>0
  DEF Raises, ThreadOf, Ahead, Awaited, Between
<1>17. CASE Stops
  BY <1>17, <1>0
  DEF Stops, ThreadOf, Ahead, Awaited, Between
<1>18. CASE FeedsBack
  BY <1>18, <1>0
  DEF FeedsBack, ThreadOf, Ahead, Awaited, Between
<1>19. ASSUME NEW t \in Tools, NEW def \in Definition, Register(t, def)
      PROVE  ThreadOf(j)'
  BY <1>19, <1>0
  DEF Register, ThreadOf, Ahead, Awaited, Between
<1>20. CASE UNCHANGED vars
  BY <1>20, <1>0
  DEF vars, ThreadOf, Ahead, Awaited, Between
<1> HIDE DEF fixed, registryVars, controlVars, checkpointVars, threadVars, limitVars
<1> QED BY <1>1, <1>2, <1>3, <1>4, <1>5, <1>6, <1>7, <1>8, <1>9, <1>10,
          <1>11, <1>12, <1>13, <1>14, <1>15, <1>16, <1>17, <1>18, <1>19, <1>20
       DEF OneOf, Ends

-----------------------------------------------------------------------------
(* Charges *)

\* The calls that were charged.
ChargedKeys == {j \in Keys : Charged(j)}

\* A step answers a request, charges the call at the cursor, or does neither.
Asks(resp) ==
  /\ pc = "request" /\ step < config.max_steps
  /\ response' = [response EXCEPT ![step] = resp] /\ UNCHANGED limitVars
Charging ==
  /\ pc \in {"preflight", "sequential"} /\ ~resuming /\ cursor <= Len(calls)
  /\ ChargeHere /\ UNCHANGED response

\* Only these effects write a response or a counter.
LEMMA ChargingStep ==
  ASSUME TypeOK, Stage, OneOf
  PROVE  (\E r \in Response : Asks(r)) \/ Charging \/ UNCHANGED <<limitVars, response>>
<1> USE DEF fixed, registryVars, controlVars, checkpointVars, threadVars, limitVars
<1>1. ASSUME NEW resp \in Response, EndsWith(resp)
      PROVE  (\E r \in Response : Asks(r)) \/ Charging \/ UNCHANGED <<limitVars, response>>
  BY <1>1
  DEF EndsWith, Asks, Charging, Stage
<1>2. ASSUME NEW resp \in Response, Receives(resp)
      PROVE  (\E r \in Response : Asks(r)) \/ Charging \/ UNCHANGED <<limitVars, response>>
  BY <1>2
  DEF Receives, Asks, Charging, Stage
<1>3. CASE StepsExhausted
  BY <1>3
  DEF StepsExhausted, Return, Asks, Charging, Stage
<1>4. CASE Prechecks
  BY <1>4
  DEF Prechecks, Asks, Charging, Stage
<1>5. CASE StartsGroup
  BY <1>5
  DEF StartsGroup, Asks, Charging, Stage
<1>6. CASE Pauses
  BY <1>6
  DEF Pauses, Asks, Charging, Stage
<1>7. ASSUME NEW d \in [Pending -> BOOLEAN], Resumes(d)
      PROVE  (\E r \in Response : Asks(r)) \/ Charging \/ UNCHANGED <<limitVars, response>>
  BY <1>7
  DEF Resumes, Asks, Charging, Stage
<1>8. CASE Holds
  BY <1>8
  DEF Holds, Asks, Charging, Stage
<1>9. CASE GroupEnds
  BY <1>9
  DEF GroupEnds, Asks, Charging, Stage
<1>10. CASE Skips
  BY <1>10
  DEF Skips, Asks, Charging, Stage
<1>11. CASE StartsCall
  BY <1>11
  DEF StartsCall, Asks, Charging, Stage
<1>12. ASSUME NEW v \in Denial \cup {"failed"}, SettlesCall(v)
      PROVE  (\E r \in Response : Asks(r)) \/ Charging \/ UNCHANGED <<limitVars, response>>
  BY <1>12
  DEF SettlesCall, Continue, Asks, Charging, Stage
<1>13. ASSUME NEW k \in Keys, NEW result \in Executed \cup {"raised"},
             NEW th \in {"done", "running"}, Delivers(k, result, th)
      PROVE  (\E r \in Response : Asks(r)) \/ Charging \/ UNCHANGED <<limitVars, response>>
  BY <1>13
  DEF Delivers, Deliver, Continue, Awaited, Asks, Charging, Stage
<1>14. ASSUME NEW k \in Keys, ReturnsLate(k)
      PROVE  (\E r \in Response : Asks(r)) \/ Charging \/ UNCHANGED <<limitVars, response>>
  BY <1>14
  DEF ReturnsLate, Asks, Charging, Stage
<1>15. ASSUME NEW k \in Keys, CallEntered(k)
      PROVE  (\E r \in Response : Asks(r)) \/ Charging \/ UNCHANGED <<limitVars, response>>
  BY <1>15
  DEF CallEntered, Asks, Charging, Stage
<1>16. CASE Raises
  BY <1>16
  DEF Raises, Asks, Charging, Stage
<1>17. CASE Stops
  BY <1>17
  DEF Stops, Asks, Charging, Stage
<1>18. CASE FeedsBack
  BY <1>18
  DEF FeedsBack, Asks, Charging, Stage
<1>19. ASSUME NEW t \in Tools, NEW def \in Definition, Register(t, def)
      PROVE  (\E r \in Response : Asks(r)) \/ Charging \/ UNCHANGED <<limitVars, response>>
  BY <1>19
  DEF Register, Asks, Charging, Stage
<1>20. CASE UNCHANGED vars
  BY <1>20
  DEF vars, Asks, Charging, Stage
<1> HIDE DEF fixed, registryVars, controlVars, checkpointVars, threadVars, limitVars
<1> QED BY <1>1, <1>2, <1>3, <1>4, <1>5, <1>6, <1>7, <1>8, <1>9, <1>10,
          <1>11, <1>12, <1>13, <1>14, <1>15, <1>16, <1>17, <1>18, <1>19, <1>20
       DEF OneOf, Ends

\* A call that is still to be charged was so before, and was not at the cursor.
LEMMA UnchargedStep ==
  ASSUME TypeOK, Stage, NEW j \in Keys, Uncharged(j)', OneOf
  PROVE  Uncharged(j) /\ (Charging => j # Here(cursor))
<1> USE DEF fixed, registryVars, controlVars, checkpointVars, threadVars, limitVars
<1>0. /\ j[1] \in Nat /\ j[2] \in Nat /\ step \in Nat /\ cursor \in Nat
      /\ step \in Nat /\ parallel \in BOOLEAN /\ resuming \in BOOLEAN
      /\ pc \in Controls
  BY KeyType, RoundType DEF TypeOK
<1>a. \A i : Here(i) = j <=> j[1] = step /\ j[2] = i
  BY KeyType
<1>b. Charging => requested' # requested
  <2>1. requested.total \in Nat
    BY DEF TypeOK, Requested
  <2>2. Charging => requested'.total = requested.total + 1
    BY DEF Charging, ChargeHere, RecordRequested
  <2> QED BY <2>1, <2>2
<1>1. ASSUME NEW resp \in Response, EndsWith(resp)
      PROVE  Uncharged(j) /\ (Charging => j # Here(cursor))
  BY <1>1, <1>0, <1>a
  DEF EndsWith, Uncharged, Stage, Charging, calls
<1>2. ASSUME NEW resp \in Response, Receives(resp)
      PROVE  Uncharged(j) /\ (Charging => j # Here(cursor))
  BY <1>2, <1>0, <1>a
  DEF Receives, Uncharged, Stage, Charging, calls
<1>3. CASE StepsExhausted
  BY <1>3, <1>0, <1>a
  DEF StepsExhausted, Return, Uncharged, Stage, Charging, calls
<1>4. CASE Prechecks
  BY <1>4, <1>0, <1>a
  DEF Prechecks, Uncharged, Stage, Charging, calls
<1>5. CASE StartsGroup
  BY <1>5, <1>0, <1>a
  DEF StartsGroup, Uncharged, Stage, Charging, calls
<1>6. CASE Pauses
  BY <1>6, <1>0, <1>a
  DEF Pauses, Uncharged, Stage, Charging, calls
<1>7. ASSUME NEW d \in [Pending -> BOOLEAN], Resumes(d)
      PROVE  Uncharged(j) /\ (Charging => j # Here(cursor))
  BY <1>7, <1>0, <1>a
  DEF Resumes, Uncharged, Stage, Charging, calls
<1>8. CASE Holds
  BY <1>8, <1>0, <1>a
  DEF Holds, Uncharged, Stage, Charging, calls
<1>9. CASE GroupEnds
  BY <1>9, <1>0, <1>a
  DEF GroupEnds, Uncharged, Stage, Charging, calls
<1>10. CASE Skips
  BY <1>10, <1>0, <1>a
  DEF Skips, Uncharged, Stage, Charging, calls
<1>11. CASE StartsCall
  BY <1>11, <1>0, <1>a
  DEF StartsCall, Uncharged, Stage, Charging, calls
<1>12. ASSUME NEW v \in Denial \cup {"failed"}, SettlesCall(v)
      PROVE  Uncharged(j) /\ (Charging => j # Here(cursor))
  BY <1>12, <1>0, <1>a
  DEF SettlesCall, Continue, Uncharged, Stage, Charging, calls
<1>13. ASSUME NEW k \in Keys, NEW result \in Executed \cup {"raised"},
             NEW th \in {"done", "running"}, Delivers(k, result, th)
      PROVE  Uncharged(j) /\ (Charging => j # Here(cursor))
  BY <1>13, <1>0, <1>a
  DEF Delivers, Deliver, Continue, Awaited, Uncharged, Stage, Charging, calls
<1>14. ASSUME NEW k \in Keys, ReturnsLate(k)
      PROVE  Uncharged(j) /\ (Charging => j # Here(cursor))
  BY <1>14, <1>0, <1>a, <1>b
  DEF ReturnsLate, Uncharged, Stage, Charging, calls
<1>15. ASSUME NEW k \in Keys, CallEntered(k)
      PROVE  Uncharged(j) /\ (Charging => j # Here(cursor))
  BY <1>15, <1>0, <1>a, <1>b
  DEF CallEntered, Uncharged, Stage, Charging, calls
<1>16. CASE Raises
  BY <1>16, <1>0, <1>a
  DEF Raises, Uncharged, Stage, Charging, calls
<1>17. CASE Stops
  BY <1>17, <1>0, <1>a
  DEF Stops, Uncharged, Stage, Charging, calls
<1>18. CASE FeedsBack
  BY <1>18, <1>0, <1>a
  DEF FeedsBack, Uncharged, Stage, Charging, calls
<1>19. ASSUME NEW t \in Tools, NEW def \in Definition, Register(t, def)
      PROVE  Uncharged(j) /\ (Charging => j # Here(cursor))
  BY <1>19, <1>0, <1>a, <1>b
  DEF Register, Uncharged, Stage, Charging, calls
<1>20. CASE UNCHANGED vars
  BY <1>20, <1>0, <1>a, <1>b
  DEF vars, Uncharged, Stage, Charging, calls
<1> HIDE DEF fixed, registryVars, controlVars, checkpointVars, threadVars, limitVars
<1> QED BY <1>1, <1>2, <1>3, <1>4, <1>5, <1>6, <1>7, <1>8, <1>9, <1>10,
          <1>11, <1>12, <1>13, <1>14, <1>15, <1>16, <1>17, <1>18, <1>19, <1>20
       DEF OneOf, Ends

\* What charging the call at the cursor does.
LEMMA ChargingEffect ==
  ASSUME TypeOK, Stage, Charges, Charging
  PROVE  /\ Here(cursor) \in Keys /\ ~Charged(Here(cursor)) /\ step \in Steps
         /\ cursor \in 1 .. Len(calls) /\ calls[cursor].name \in Tools
         /\ CallAt(Here(cursor)) = calls[cursor]
         /\ charge'[Here(cursor)] =
              [total |-> requested.total + 1, round |-> requested.round[step] + 1,
               tool |-> requested.tool[calls[cursor].name] + 1]
         /\ \A j \in Keys : j # Here(cursor) => charge'[j] = charge[j]
         /\ requested'.total = requested.total + 1
         /\ requested'.round = [requested.round EXCEPT ![step] = @ + 1]
         /\ requested'.tool = [requested.tool EXCEPT ![calls[cursor].name] = @ + 1]
<1>1. pc \notin Between /\ step < config.max_steps
  BY RoundType DEF Charging, Between
<1>2. /\ Here(cursor) \in Keys /\ cursor \in 1 .. Len(calls) /\ step \in Steps
      /\ calls[cursor].name \in Tools /\ cursor \in Nat
  BY <1>1, CursorType, RoundType DEF Charging
<1>3. Uncharged(Here(cursor))
  BY <1>2 DEF Uncharged, Charging, Here
<1>4. charge \in [Keys -> [total : Nat, round : Nat, tool : Nat]]
  BY DEF TypeOK
<1>5. ~Charged(Here(cursor))
  BY <1>2, <1>3 DEF Charges
<1>6. CallAt(Here(cursor)) = calls[cursor]
  BY DEF CallAt, Here, calls
<1> QED BY <1>2, <1>4, <1>5, <1>6 DEF Charging, ChargeHere, RecordRequested

\* The counters and the charges are numbers.
LEMMA ChargeType ==
  ASSUME TypeOK
  PROVE  /\ requested.total \in Nat
         /\ requested.round \in [Steps -> Nat] /\ requested.tool \in [Tools -> Nat]
         /\ \A j \in Keys : /\ charge[j].total \in Nat /\ charge[j].round \in Nat
                            /\ charge[j].tool \in Nat
BY DEF TypeOK, Requested

\* A charged call is one of its response.
LEMMA ChargedCall ==
  ASSUME TypeOK, NEW j \in Keys, j[2] <= Len(response[j[1]])
  PROVE  CallAt(j).name \in Tools /\ CallAt(j).id \in CallIds
<1>1. response[j[1]] \in Response /\ j[2] \in Nat /\ 1 <= j[2]
  BY KeyType DEF TypeOK
<1>2. j[2] \in 1 .. Len(response[j[1]])
  BY <1>1, ResponseType
<1> QED BY <1>1, <1>2, ResponseType DEF CallAt

\* A call that was charged keeps its name and its numbers.
LEMMA ChargedStep ==
  ASSUME TypeOK, Stage, Charges, OneOf, NEW j \in Keys, Charged(j)
  PROVE  /\ response'[j[1]] = response[j[1]] /\ CallAt(j)' = CallAt(j)
         /\ charge'[j] = charge[j]
         /\ requested.total <= requested'.total
         /\ requested.round[j[1]] <= requested'.round[j[1]]
         /\ requested.tool[CallAt(j).name] <= requested'.tool[CallAt(j).name]
<1>0. /\ CallAt(j).name \in Tools /\ j[1] \in Steps /\ response \in [Steps -> Response]
      /\ requested.total \in Nat
      /\ requested.round \in [Steps -> Nat] /\ requested.tool \in [Tools -> Nat]
  BY ChargedCall, ChargeType, KeyType DEF Charges, Numbered, TypeOK
<1>1. ASSUME NEW r \in Response, Asks(r)
      PROVE  UNCHANGED limitVars /\ response'[j[1]] = response[j[1]]
  <2>1. j[1] # step
    BY <1>1 DEF Charges, Uncharged, Asks
  <2> QED BY <1>0, <1>1, <2>1 DEF Asks
<1>2. CASE Charging
  <2>1. j # Here(cursor)
    BY <1>2, ChargingEffect
  <2>2. /\ charge'[j] = charge[j] /\ response' = response
        /\ requested'.total = requested.total + 1
        /\ requested'.round = [requested.round EXCEPT ![step] = @ + 1]
        /\ requested'.tool = [requested.tool EXCEPT ![calls[cursor].name] = @ + 1]
    BY <1>2, <2>1, ChargingEffect DEF Charging
  <2>3. requested.total <= requested'.total
    BY <1>0, <2>2
  <2>4. requested.round[j[1]] <= requested'.round[j[1]]
    BY <1>0, <2>2
  <2>5. requested.tool[CallAt(j).name] <= requested'.tool[CallAt(j).name]
    BY <1>0, <2>2
  <2> QED BY <2>2, <2>3, <2>4, <2>5 DEF CallAt
<1>3. ASSUME UNCHANGED limitVars, response'[j[1]] = response[j[1]]
      PROVE  /\ CallAt(j)' = CallAt(j) /\ charge'[j] = charge[j]
             /\ requested.total <= requested'.total
             /\ requested.round[j[1]] <= requested'.round[j[1]]
             /\ requested.tool[CallAt(j).name] <= requested'.tool[CallAt(j).name]
  BY <1>0, <1>3 DEF limitVars, CallAt
<1> QED BY <1>1, <1>2, <1>3, ChargingStep

\* Each charged call has a number of its own among all calls, those of its round
\* and those of its tool.
LEMMA ChargesStep ==
  ASSUME TypeOK, Stage, Latest, Charges, OneOf
  PROVE  Charges'
<1>0. /\ TypeOK' /\ requested.total \in Nat /\ requested'.total \in Nat
      /\ requested.round \in [Steps -> Nat] /\ requested.tool \in [Tools -> Nat]
      /\ \A j \in Keys : /\ charge[j].total \in Nat /\ charge[j].round \in Nat
                         /\ charge[j].tool \in Nat /\ j[1] \in Steps
  BY TypeStep, ChargeType, KeyType DEF TypeOK, Requested
<1>1. ASSUME NEW j \in Keys, Charged(j)' , ~Charged(j)
      PROVE  Charging /\ j = Here(cursor)
  <2>1. charge'[j] # charge[j]
    BY <1>1 DEF Charged
  <2>2. Charging
    BY <2>1, ChargingStep DEF Asks, limitVars
  <2> QED BY <2>1, <2>2, ChargingEffect
<1>2. ASSUME NEW j \in Keys, Uncharged(j)' PROVE ~Charged(j)'
  <2>1. Uncharged(j) /\ (Charging => j # Here(cursor))
    BY <1>2, UnchargedStep
  <2>2. ~Charged(j)
    BY <2>1 DEF Charges
  <2> QED BY <1>1, <2>1, <2>2
<1>3. ASSUME NEW j \in Keys, Charged(j)' PROVE Numbered(j)'
  <2>1. CASE Charged(j)
    <3>1. Numbered(j)
      BY <2>1 DEF Charges
    <3>2. CallAt(j).name \in Tools
      BY <3>1, ChargedCall DEF Numbered
    <3>3. /\ requested'.round[j[1]] \in Nat /\ requested'.tool[CallAt(j).name] \in Nat
          /\ requested.round[j[1]] \in Nat /\ requested.tool[CallAt(j).name] \in Nat
      BY <1>0, <3>2 DEF TypeOK, Requested
    <3>4. /\ response'[j[1]] = response[j[1]] /\ CallAt(j)' = CallAt(j)
          /\ charge'[j] = charge[j]
          /\ requested.total <= requested'.total
          /\ requested.round[j[1]] <= requested'.round[j[1]]
          /\ requested.tool[CallAt(j).name] <= requested'.tool[CallAt(j).name]
      BY <2>1, ChargedStep
    <3>5. charge'[j].total <= requested'.total
      BY <1>0, <3>1, <3>4 DEF Numbered
    <3>6. charge'[j].round \in 1 .. requested'.round[j[1]]
      BY <1>0, <3>1, <3>3, <3>4 DEF Numbered
    <3>7. charge'[j].tool \in 1 .. requested'.tool[CallAt(j).name]
      BY <1>0, <3>1, <3>3, <3>4 DEF Numbered
    <3> QED BY <3>1, <3>4, <3>5, <3>6, <3>7 DEF Numbered
  <2>2. CASE ~Charged(j)
    <3>1. Charging /\ j = Here(cursor)
      BY <1>1, <1>3, <2>2
    <3>2. /\ j[1] = step /\ j[2] = cursor /\ CallAt(j) = calls[cursor]
          /\ CallAt(j)' = CallAt(j) /\ response' = response
          /\ cursor \in 1 .. Len(calls) /\ step \in Steps /\ calls[cursor].name \in Tools
      BY <3>1, ChargingEffect DEF Here, Charging, CallAt
    <3>3. /\ charge'[j].total = requested.total + 1
          /\ charge'[j].round = requested.round[step] + 1
          /\ charge'[j].tool = requested.tool[calls[cursor].name] + 1
          /\ requested'.total = requested.total + 1
          /\ requested'.round[step] = requested.round[step] + 1
          /\ requested'.tool[calls[cursor].name] = requested.tool[calls[cursor].name] + 1
      BY <1>0, <3>1, <3>2, ChargingEffect
    <3>4. requested.round[step] \in Nat /\ requested.tool[calls[cursor].name] \in Nat
      BY <1>0, <3>2
    <3>5. j[2] <= Len(response[j[1]])'
      BY <3>2 DEF calls
    <3>6. charge'[j].total <= requested'.total
      BY <1>0, <3>3
    <3>7. charge'[j].round \in 1 .. requested'.round[j[1]]
      BY <3>2, <3>3, <3>4
    <3>8. charge'[j].tool \in 1 .. requested'.tool[CallAt(j)'.name]
      BY <3>2, <3>3, <3>4
    <3> QED BY <3>5, <3>6, <3>7, <3>8 DEF Numbered
  <2> QED BY <2>1, <2>2
<1> DEFINE Apart(j, k) == /\ charge[j].total # charge[k].total
                          /\ j[1] = k[1] => charge[j].round # charge[k].round
                          /\ CallAt(j).name = CallAt(k).name => charge[j].tool # charge[k].tool
<1>4. ASSUME NEW j \in Keys, NEW k \in Keys, Charged(j), ~Charged(k), Charged(k)'
      PROVE  Apart(j, k)' /\ Apart(k, j)'
  <2>1. Charging /\ k = Here(cursor)
    BY <1>1, <1>4
  <2>2. Numbered(j) /\ CallAt(j).name \in Tools /\ j[1] \in Steps
    BY <1>4, ChargedCall, KeyType DEF Charges, Numbered
  <2>3. /\ k[1] = step /\ CallAt(k)' = calls[cursor]
        /\ charge'[k].total = requested.total + 1
        /\ charge'[k].round = requested.round[step] + 1
        /\ charge'[k].tool = requested.tool[calls[cursor].name] + 1
    BY <2>1, ChargingEffect DEF Here, CallAt, Charging
  <2>4. charge'[j] = charge[j] /\ CallAt(j)' = CallAt(j)
    BY <1>4, ChargedStep
  <2>5. charge[j].total <= requested.total
    BY <2>2 DEF Numbered
  <2>6. j[1] = step => charge[j].round <= requested.round[step]
    BY <2>2, <1>0 DEF Numbered
  <2>7. CallAt(j).name = calls[cursor].name => charge[j].tool <= requested.tool[calls[cursor].name]
    BY <2>2, <1>0 DEF Numbered
  <2>8. charge'[j].total # charge'[k].total
    BY <1>0, <2>3, <2>4, <2>5
  <2>9. j[1] = k[1] => charge'[j].round # charge'[k].round
    BY <1>0, <2>2, <2>3, <2>4, <2>6
  <2>10. CallAt(j)'.name = CallAt(k)'.name => charge'[j].tool # charge'[k].tool
    BY <1>0, <2>2, <2>3, <2>4, <2>7
  <2> QED BY <2>8, <2>9, <2>10
<1>5. ASSUME NEW j \in Keys, NEW k \in Keys, Charged(j)', Charged(k)', j # k
      PROVE  Apart(j, k)'
  <2>1. CASE Charged(j) /\ Charged(k)
    <3>1. Apart(j, k)
      BY <1>5, <2>1 DEF Charges
    <3> QED BY <2>1, <3>1, ChargedStep
  <2>2. CASE ~Charged(j) /\ ~Charged(k)
    BY <1>1, <1>5, <2>2
  <2>3. CASE Charged(j) <=> ~Charged(k)
    BY <1>4, <1>5, <2>3
  <2> QED BY <2>1, <2>2, <2>3
<1> QED BY <1>2, <1>3, <1>5 DEF Charges

-----------------------------------------------------------------------------
(* Checks *)

\* The call at the cursor is within policy and limits.
Clears ==
  /\ Permitted(calls[cursor].name)
  /\ ResourceAllowed(RecordRequested(calls[cursor].name), calls[cursor].name)

\* What a thread may be made for.
MayStart(j) ==
  \/ Checked(j) /\ (Asking => resuming /\ pc # "paused")
  \/ ~Asking /\ Charging /\ Clears /\ j = Here(cursor)

\* Decisions are recorded for the present round only, and when it is paused.
DecidesHere ==
  \/ decision' = decision
  \/ pc = "paused" /\ \A s \in Steps : s # step => decision'[s] = decision[s]

\* The configuration of a run is fixed.
LEMMA ConfigStep ==
  ASSUME TypeOK, OneOf
  PROVE  config' = config
<1> USE DEF fixed, registryVars, controlVars, checkpointVars, threadVars, limitVars
<1>1. ASSUME NEW resp \in Response, EndsWith(resp)
      PROVE  config' = config
  BY <1>1
  DEF EndsWith
<1>2. ASSUME NEW resp \in Response, Receives(resp)
      PROVE  config' = config
  BY <1>2
  DEF Receives
<1>3. CASE StepsExhausted
  BY <1>3
  DEF StepsExhausted, Return
<1>4. CASE Prechecks
  BY <1>4
  DEF Prechecks
<1>5. CASE StartsGroup
  BY <1>5
  DEF StartsGroup
<1>6. CASE Pauses
  BY <1>6
  DEF Pauses
<1>7. ASSUME NEW d \in [Pending -> BOOLEAN], Resumes(d)
      PROVE  config' = config
  BY <1>7
  DEF Resumes
<1>8. CASE Holds
  BY <1>8
  DEF Holds
<1>9. CASE GroupEnds
  BY <1>9
  DEF GroupEnds
<1>10. CASE Skips
  BY <1>10
  DEF Skips
<1>11. CASE StartsCall
  BY <1>11
  DEF StartsCall
<1>12. ASSUME NEW v \in Denial \cup {"failed"}, SettlesCall(v)
      PROVE  config' = config
  BY <1>12
  DEF SettlesCall, Continue
<1>13. ASSUME NEW k \in Keys, NEW result \in Executed \cup {"raised"},
             NEW th \in {"done", "running"}, Delivers(k, result, th)
      PROVE  config' = config
  BY <1>13
  DEF Delivers, Deliver, Continue, Awaited
<1>14. ASSUME NEW k \in Keys, ReturnsLate(k)
      PROVE  config' = config
  BY <1>14
  DEF ReturnsLate
<1>15. ASSUME NEW k \in Keys, CallEntered(k)
      PROVE  config' = config
  BY <1>15
  DEF CallEntered
<1>16. CASE Raises
  BY <1>16
  DEF Raises
<1>17. CASE Stops
  BY <1>17
  DEF Stops
<1>18. CASE FeedsBack
  BY <1>18
  DEF FeedsBack
<1>19. ASSUME NEW t \in Tools, NEW def \in Definition, Register(t, def)
      PROVE  config' = config
  BY <1>19
  DEF Register
<1>20. CASE UNCHANGED vars
  BY <1>20
  DEF vars
<1> HIDE DEF fixed, registryVars, controlVars, checkpointVars, threadVars, limitVars
<1> QED BY <1>1, <1>2, <1>3, <1>4, <1>5, <1>6, <1>7, <1>8, <1>9, <1>10,
          <1>11, <1>12, <1>13, <1>14, <1>15, <1>16, <1>17, <1>18, <1>19, <1>20
       DEF OneOf, Ends

\* A call that is charged and clears the checks has passed them.
LEMMA PassedHere ==
  ASSUME TypeOK, Stage, Charges, OneOf, Charging, Clears, NEW h \in Keys, h = Here(cursor)
  PROVE  Passed(h)'
<1>0. PICK name \in Tools : name = calls[cursor].name
  BY ChargingEffect
<1>1. /\ h[1] = step /\ h[2] = cursor /\ response' = response
      /\ cursor \in 1 .. Len(calls) /\ step \in Steps
      /\ charge'[h] = [total |-> requested.total + 1, round |-> requested.round[step] + 1,
                       tool |-> requested.tool[name] + 1]
  BY <1>0, ChargingEffect DEF Here, Charging
<1>2. /\ requested.total \in Nat /\ requested.round \in [Steps -> Nat]
      /\ requested.tool \in [Tools -> Nat]
  BY ChargeType
<1>3. /\ RecordRequested(name).total = requested.total + 1
      /\ RecordRequested(name).round[step] = requested.round[step] + 1
      /\ RecordRequested(name).tool[name] = requested.tool[name] + 1
  BY <1>0, <1>1, <1>2 DEF RecordRequested
<1>4. /\ Permitted(name)
      /\ Within(charge'[h].total, config.max_loop)
      /\ Within(charge'[h].round, config.max_round)
      /\ Within(charge'[h].tool, config.max_tool[name])
  BY <1>0, <1>1, <1>3 DEF Clears, ResourceAllowed
<1>5. config' = config
  BY ConfigStep
<1>6. charge'[h].total > 0 /\ h[2] <= Len(response'[h[1]])
  BY <1>1, <1>2 DEF calls
<1>7. CallAt(h)'.name = name
  BY <1>0, <1>1 DEF CallAt, calls
<1> QED BY <1>4, <1>5, <1>6, <1>7 DEF Passed, Charged, Permitted, Within

\* A call that has passed the checks stays so.
LEMMA PassedStep ==
  ASSUME TypeOK, Stage, Charges, OneOf, NEW j \in Keys, Passed(j)
  PROVE  Passed(j)'
<1>1. Charged(j)
  BY DEF Passed
<1>2. response'[j[1]] = response[j[1]] /\ CallAt(j)' = CallAt(j) /\ charge'[j] = charge[j]
  BY <1>1, ChargedStep
<1> QED BY <1>2, ConfigStep DEF Passed, Charged, Permitted, Within

\* A call that is checked and has not started was so before, or has just been charged.
LEMMA CheckedStep ==
  ASSUME TypeOK, Stage, Latest, NEW j \in Keys, Checked(j)', OneOf
  PROVE  Checked(j) \/ (Charging /\ Clears /\ j = Here(cursor))
<1> USE DEF fixed, registryVars, controlVars, checkpointVars, threadVars, limitVars
<1>0. /\ j[1] \in Nat /\ j[2] \in Nat /\ step \in Nat /\ cursor \in Nat
      /\ parallel \in BOOLEAN /\ resuming \in BOOLEAN
      /\ pc \in Controls /\ outcome \in [Indices -> Outcome] /\ j[2] \in Indices /\ 1 <= j[2]
      /\ thread \in [Keys -> {"idle", "queued", "running", "done"}]
  BY KeyType, RoundType DEF TypeOK
<1>a. \A i : Here(i) = j <=> j[1] = step /\ j[2] = i
  BY KeyType
<1>b. pc \notin Between => Len(calls) \in Nat /\ 1 .. Len(calls) \subseteq Indices
  BY RoundType
<1>1. ASSUME NEW resp \in Response, EndsWith(resp)
      PROVE  Checked(j) \/ (Charging /\ Clears /\ j = Here(cursor))
  BY <1>1, <1>0, <1>a, <1>b
  DEF EndsWith, Checked, Stage, Between
<1>2. ASSUME NEW resp \in Response, Receives(resp)
      PROVE  Checked(j) \/ (Charging /\ Clears /\ j = Here(cursor))
  BY <1>2, <1>0, <1>a, <1>b
  DEF Receives, Checked, Stage, Between
<1>3. CASE StepsExhausted
  BY <1>3, <1>0, <1>a, <1>b
  DEF StepsExhausted, Return, Checked, Stage, Between
<1>4. CASE Prechecks
  <2>1. /\ j[1] = step /\ j[2] <= Len(calls) /\ j[2] < cursor + 1 /\ outcome'[j[2]] = "none"
    BY <1>4 DEF Prechecks, Checked, calls
  <2>2. CASE j[2] = cursor
    <3>1. Verdict(RecordRequested(calls[cursor].name), calls[cursor].name) = "none"
      BY <1>4, <1>0, <2>1, <2>2 DEF Prechecks
    <3>2. Clears
      BY <3>1 DEF Verdict, Clears
    <3>3. Charging
      BY <1>4 DEF Prechecks, Charging, Stage
    <3> QED BY <1>a, <2>1, <2>2, <3>2, <3>3
  <2>3. CASE j[2] # cursor
    BY <1>4, <1>0, <2>1, <2>3 DEF Prechecks, Checked
  <2> QED BY <2>2, <2>3
<1>5. CASE StartsGroup
  BY <1>5, <1>0, <1>a, <1>b
  DEF StartsGroup, Checked, Stage, Between
<1>6. CASE Pauses
  BY <1>6, <1>0, <1>a, <1>b
  DEF Pauses, Checked, Stage, Between, calls
<1>7. ASSUME NEW d \in [Pending -> BOOLEAN], Resumes(d)
      PROVE  Checked(j) \/ (Charging /\ Clears /\ j = Here(cursor))
  BY <1>7, <1>0, <1>a, <1>b
  DEF Resumes, Checked, Stage, Between, calls
<1>8. CASE Holds
  BY <1>8, <1>0, <1>a, <1>b
  DEF Holds, Checked, Stage, Between, calls
<1>9. CASE GroupEnds
  BY <1>9, <1>0, <1>a, <1>b
  DEF GroupEnds, Checked, Stage, Between
<1>10. CASE Skips
  BY <1>10, <1>0, <1>a, <1>b
  DEF Skips, Checked, Stage, Between, calls
<1>11. CASE StartsCall
  BY <1>11, <1>0, <1>a, <1>b
  DEF StartsCall, Checked, Stage, Between, calls
<1>12. ASSUME NEW v \in Denial \cup {"failed"}, SettlesCall(v)
      PROVE  Checked(j) \/ (Charging /\ Clears /\ j = Here(cursor))
  BY <1>12, <1>0, <1>a, <1>b
  DEF SettlesCall, Continue, Checked, Stage, Between, calls
<1>13. ASSUME NEW k \in Keys, NEW result \in Executed \cup {"raised"},
             NEW th \in {"done", "running"}, Delivers(k, result, th)
      PROVE  Checked(j) \/ (Charging /\ Clears /\ j = Here(cursor))
  BY <1>13, <1>0, <1>a, <1>b
  DEF Delivers, Deliver, Continue, Awaited, Checked, Stage, Between, calls
<1>14. ASSUME NEW k \in Keys, ReturnsLate(k)
      PROVE  Checked(j) \/ (Charging /\ Clears /\ j = Here(cursor))
  BY <1>14, <1>0, <1>a, <1>b
  DEF ReturnsLate, Checked, Stage, Between, calls
<1>15. ASSUME NEW k \in Keys, CallEntered(k)
      PROVE  Checked(j) \/ (Charging /\ Clears /\ j = Here(cursor))
  BY <1>15, <1>0, <1>a, <1>b
  DEF CallEntered, Checked, Stage, Between, calls
<1>16. CASE Raises
  BY <1>16, <1>0, <1>a, <1>b
  DEF Raises, Checked, Stage, Between
<1>17. CASE Stops
  BY <1>17, <1>0, <1>a, <1>b
  DEF Stops, Checked, Stage, Between
<1>18. CASE FeedsBack
  BY <1>18, <1>0, <1>a, <1>b
  DEF FeedsBack, Checked, Stage, Between
<1>19. ASSUME NEW t \in Tools, NEW def \in Definition, Register(t, def)
      PROVE  Checked(j) \/ (Charging /\ Clears /\ j = Here(cursor))
  BY <1>19, <1>0, <1>a, <1>b
  DEF Register, Checked, Stage, Between, calls
<1>20. CASE UNCHANGED vars
  BY <1>20, <1>0, <1>a, <1>b
  DEF vars, Checked, Stage, Between, calls
<1> HIDE DEF fixed, registryVars, controlVars, checkpointVars, threadVars, limitVars
<1> QED BY <1>1, <1>2, <1>3, <1>4, <1>5, <1>6, <1>7, <1>8, <1>9, <1>10,
          <1>11, <1>12, <1>13, <1>14, <1>15, <1>16, <1>17, <1>18, <1>19, <1>20
       DEF OneOf, Ends

\* A thread is made for a call that was checked and approved, or that has just been
\* charged and needs no approval.
LEMMA StartedStep ==
  ASSUME TypeOK, Stage, Latest, Threading, NEW j \in Keys,
         thread[j] = "idle", thread'[j] # "idle", OneOf
  PROVE  MayStart(j)
<1> USE DEF fixed, registryVars, controlVars, checkpointVars, threadVars, limitVars
<1>0. /\ j[1] \in Nat /\ j[2] \in Nat /\ step \in Nat /\ cursor \in Nat
      /\ parallel \in BOOLEAN /\ resuming \in BOOLEAN
      /\ pc \in Controls /\ outcome \in [Indices -> Outcome] /\ j[2] \in Indices /\ 1 <= j[2]
      /\ thread \in [Keys -> {"idle", "queued", "running", "done"}]
  BY KeyType, RoundType DEF TypeOK
<1>a. \A i : Here(i) = j <=> j[1] = step /\ j[2] = i
  BY KeyType
<1>b. pc \notin Between => Len(calls) \in Nat /\ 1 .. Len(calls) \subseteq Indices
  BY RoundType
<1>1. ASSUME NEW resp \in Response, EndsWith(resp)
      PROVE  MayStart(j)
  BY <1>1, <1>0, <1>a, <1>b
  DEF EndsWith, MayStart, Checked, Stage, Between
<1>2. ASSUME NEW resp \in Response, Receives(resp)
      PROVE  MayStart(j)
  BY <1>2, <1>0, <1>a, <1>b
  DEF Receives, MayStart, Checked, Stage, Between
<1>3. CASE StepsExhausted
  BY <1>3, <1>0, <1>a, <1>b
  DEF StepsExhausted, Return, MayStart, Checked, Stage, Between
<1>4. CASE Prechecks
  BY <1>4, <1>0, <1>a, <1>b
  DEF Prechecks, MayStart, Checked, Stage, Between
<1>5. CASE StartsGroup
  <2>1. j[1] = step /\ j[2] \in Runnable(outcome)
    BY <1>5 DEF StartsGroup, Submit
  <2>2. j[2] <= Len(calls) /\ outcome[j[2]] = "none"
    BY <1>0, <1>b, <2>1 DEF Runnable
  <2>3. \/ pc = "preflight" /\ cursor > Len(calls) /\ ~Asking
        \/ pc = "approved" /\ resuming
    BY <1>5 DEF StartsGroup, Stage
  <2>4. Len(calls) \in Nat
    BY <1>b, <2>3 DEF Between
  <2> QED BY <1>0, <2>1, <2>2, <2>3, <2>4 DEF MayStart, Checked
<1>6. CASE Pauses
  BY <1>6, <1>0, <1>a, <1>b
  DEF Pauses, MayStart, Checked, Stage, Between
<1>7. ASSUME NEW d \in [Pending -> BOOLEAN], Resumes(d)
      PROVE  MayStart(j)
  BY <1>7, <1>0, <1>a, <1>b
  DEF Resumes, MayStart, Checked, Stage, Between
<1>8. CASE Holds
  BY <1>8, <1>0, <1>a, <1>b
  DEF Holds, MayStart, Checked, Stage, Between
<1>9. CASE GroupEnds
  BY <1>9, <1>0, <1>a, <1>b
  DEF GroupEnds, MayStart, Checked, Stage, Between
<1>10. CASE Skips
  BY <1>10, <1>0, <1>a, <1>b
  DEF Skips, MayStart, Checked, Stage, Between
<1>11. CASE StartsCall
  <2>1. j = Here(cursor) /\ pc = "sequential" /\ cursor <= Len(calls)
    BY <1>11, <1>0 DEF StartsCall
  <2>2. j[1] = step /\ j[2] = cursor
    BY <1>a, <2>1
  <2>3. CASE resuming /\ outcome[cursor] = "none"
    BY <1>0, <2>1, <2>2, <2>3 DEF MayStart, Checked
  <2>4. CASE ~resuming /\ Clears /\ ChargeHere
    <3>1. ~Asking /\ response' = response
      BY <1>11, <2>1, <2>4 DEF Stage, StartsCall
    <3> QED BY <2>1, <2>4, <3>1 DEF MayStart, Charging
  <2> QED BY <1>11, <2>3, <2>4 DEF StartsCall, Clears
<1>12. ASSUME NEW v \in Denial \cup {"failed"}, SettlesCall(v)
      PROVE  MayStart(j)
  BY <1>12, <1>0, <1>a, <1>b
  DEF SettlesCall, Continue, MayStart, Checked, Stage, Between
<1>13. ASSUME NEW k \in Keys, NEW result \in Executed \cup {"raised"},
             NEW th \in {"done", "running"}, Delivers(k, result, th)
      PROVE  MayStart(j)
  <2>1. thread[k] # "idle" /\ thread' = [thread EXCEPT ![k] = th]
    BY <1>13 DEF Delivers, Threading
  <2> QED BY <1>0, <2>1
<1>14. ASSUME NEW k \in Keys, ReturnsLate(k)
      PROVE  MayStart(j)
  BY <1>14, <1>0, <1>a, <1>b
  DEF ReturnsLate, MayStart, Checked, Stage, Between
<1>15. ASSUME NEW k \in Keys, CallEntered(k)
      PROVE  MayStart(j)
  BY <1>15, <1>0, <1>a, <1>b
  DEF CallEntered, MayStart, Checked, Stage, Between
<1>16. CASE Raises
  BY <1>16, <1>0, <1>a, <1>b
  DEF Raises, MayStart, Checked, Stage, Between
<1>17. CASE Stops
  BY <1>17, <1>0, <1>a, <1>b
  DEF Stops, MayStart, Checked, Stage, Between
<1>18. CASE FeedsBack
  BY <1>18, <1>0, <1>a, <1>b
  DEF FeedsBack, MayStart, Checked, Stage, Between
<1>19. ASSUME NEW t \in Tools, NEW def \in Definition, Register(t, def)
      PROVE  MayStart(j)
  BY <1>19, <1>0, <1>a, <1>b
  DEF Register, MayStart, Checked, Stage, Between
<1>20. CASE UNCHANGED vars
  BY <1>20, <1>0, <1>a, <1>b
  DEF vars, MayStart, Checked, Stage, Between
<1> HIDE DEF fixed, registryVars, controlVars, checkpointVars, threadVars, limitVars
<1> QED BY <1>1, <1>2, <1>3, <1>4, <1>5, <1>6, <1>7, <1>8, <1>9, <1>10,
          <1>11, <1>12, <1>13, <1>14, <1>15, <1>16, <1>17, <1>18, <1>19, <1>20
       DEF OneOf, Ends

\* Decisions are made on the calls of the round that was paused.
LEMMA DecisionStep ==
  ASSUME TypeOK, OneOf
  PROVE  DecidesHere
<1> USE DEF fixed, registryVars, controlVars, checkpointVars, threadVars, limitVars
<1>1. ASSUME NEW resp \in Response, EndsWith(resp)
      PROVE  DecidesHere
  BY <1>1
  DEF EndsWith, DecidesHere, TypeOK
<1>2. ASSUME NEW resp \in Response, Receives(resp)
      PROVE  DecidesHere
  BY <1>2
  DEF Receives, DecidesHere, TypeOK
<1>3. CASE StepsExhausted
  BY <1>3
  DEF StepsExhausted, Return, DecidesHere, TypeOK
<1>4. CASE Prechecks
  BY <1>4
  DEF Prechecks, DecidesHere, TypeOK
<1>5. CASE StartsGroup
  BY <1>5
  DEF StartsGroup, DecidesHere, TypeOK
<1>6. CASE Pauses
  BY <1>6
  DEF Pauses, DecidesHere, TypeOK
<1>7. ASSUME NEW d \in [Pending -> BOOLEAN], Resumes(d)
      PROVE  DecidesHere
  BY <1>7
  DEF Resumes, DecidesHere, TypeOK
<1>8. CASE Holds
  BY <1>8
  DEF Holds, DecidesHere, TypeOK
<1>9. CASE GroupEnds
  BY <1>9
  DEF GroupEnds, DecidesHere, TypeOK
<1>10. CASE Skips
  BY <1>10
  DEF Skips, DecidesHere, TypeOK
<1>11. CASE StartsCall
  BY <1>11
  DEF StartsCall, DecidesHere, TypeOK
<1>12. ASSUME NEW v \in Denial \cup {"failed"}, SettlesCall(v)
      PROVE  DecidesHere
  BY <1>12
  DEF SettlesCall, Continue, DecidesHere, TypeOK
<1>13. ASSUME NEW k \in Keys, NEW result \in Executed \cup {"raised"},
             NEW th \in {"done", "running"}, Delivers(k, result, th)
      PROVE  DecidesHere
  BY <1>13
  DEF Delivers, Deliver, Continue, Awaited, DecidesHere, TypeOK
<1>14. ASSUME NEW k \in Keys, ReturnsLate(k)
      PROVE  DecidesHere
  BY <1>14
  DEF ReturnsLate, DecidesHere, TypeOK
<1>15. ASSUME NEW k \in Keys, CallEntered(k)
      PROVE  DecidesHere
  BY <1>15
  DEF CallEntered, DecidesHere, TypeOK
<1>16. CASE Raises
  BY <1>16
  DEF Raises, DecidesHere, TypeOK
<1>17. CASE Stops
  BY <1>17
  DEF Stops, DecidesHere, TypeOK
<1>18. CASE FeedsBack
  BY <1>18
  DEF FeedsBack, DecidesHere, TypeOK
<1>19. ASSUME NEW t \in Tools, NEW def \in Definition, Register(t, def)
      PROVE  DecidesHere
  BY <1>19
  DEF Register, DecidesHere, TypeOK
<1>20. CASE UNCHANGED vars
  BY <1>20
  DEF vars, DecidesHere, TypeOK
<1> HIDE DEF fixed, registryVars, controlVars, checkpointVars, threadVars, limitVars
<1> QED BY <1>1, <1>2, <1>3, <1>4, <1>5, <1>6, <1>7, <1>8, <1>9, <1>10,
          <1>11, <1>12, <1>13, <1>14, <1>15, <1>16, <1>17, <1>18, <1>19, <1>20
       DEF OneOf, Ends

\* A call that is charged belongs to a round that was not paused yet.
LEMMA ChargingNotResumed ==
  ASSUME TypeOK, Stage, Charging, OneOf
  PROVE  ~resuming'
<1> USE DEF fixed, registryVars, controlVars, checkpointVars, threadVars, limitVars
<1>0. pc \in {"preflight", "sequential"} /\ ~resuming
  BY DEF Charging
<1>b. requested' # requested
  <2>1. requested.total \in Nat
    BY DEF TypeOK, Requested
  <2>2. requested'.total = requested.total + 1
    BY DEF Charging, ChargeHere, RecordRequested
  <2> QED BY <2>1, <2>2
<1>1. ASSUME NEW resp \in Response, EndsWith(resp)
      PROVE  ~resuming'
  BY <1>1, <1>0, <1>b
  DEF EndsWith, Charging, Stage
<1>2. ASSUME NEW resp \in Response, Receives(resp)
      PROVE  ~resuming'
  BY <1>2, <1>0, <1>b
  DEF Receives, Charging, Stage
<1>3. CASE StepsExhausted
  BY <1>3, <1>0, <1>b
  DEF StepsExhausted, Return, Charging, Stage
<1>4. CASE Prechecks
  BY <1>4, <1>0, <1>b
  DEF Prechecks, Charging, Stage
<1>5. CASE StartsGroup
  BY <1>5, <1>0, <1>b
  DEF StartsGroup, Charging, Stage
<1>6. CASE Pauses
  BY <1>6, <1>0, <1>b
  DEF Pauses, Charging, Stage
<1>7. ASSUME NEW d \in [Pending -> BOOLEAN], Resumes(d)
      PROVE  ~resuming'
  BY <1>7, <1>0, <1>b
  DEF Resumes, Charging, Stage
<1>8. CASE Holds
  BY <1>8, <1>0, <1>b
  DEF Holds, Charging, Stage
<1>9. CASE GroupEnds
  BY <1>9, <1>0, <1>b
  DEF GroupEnds, Charging, Stage
<1>10. CASE Skips
  BY <1>10, <1>0, <1>b
  DEF Skips, Charging, Stage
<1>11. CASE StartsCall
  BY <1>11, <1>0, <1>b
  DEF StartsCall, Charging, Stage
<1>12. ASSUME NEW v \in Denial \cup {"failed"}, SettlesCall(v)
      PROVE  ~resuming'
  BY <1>12, <1>0, <1>b
  DEF SettlesCall, Continue, Charging, Stage
<1>13. ASSUME NEW k \in Keys, NEW result \in Executed \cup {"raised"},
             NEW th \in {"done", "running"}, Delivers(k, result, th)
      PROVE  ~resuming'
  BY <1>13, <1>0, <1>b
  DEF Delivers, Deliver, Continue, Awaited, Charging, Stage
<1>14. ASSUME NEW k \in Keys, ReturnsLate(k)
      PROVE  ~resuming'
  BY <1>14, <1>0, <1>b
  DEF ReturnsLate, Charging, Stage
<1>15. ASSUME NEW k \in Keys, CallEntered(k)
      PROVE  ~resuming'
  BY <1>15, <1>0, <1>b
  DEF CallEntered, Charging, Stage
<1>16. CASE Raises
  BY <1>16, <1>0, <1>b
  DEF Raises, Charging, Stage
<1>17. CASE Stops
  BY <1>17, <1>0, <1>b
  DEF Stops, Charging, Stage
<1>18. CASE FeedsBack
  BY <1>18, <1>0, <1>b
  DEF FeedsBack, Charging, Stage
<1>19. ASSUME NEW t \in Tools, NEW def \in Definition, Register(t, def)
      PROVE  ~resuming'
  BY <1>19, <1>0, <1>b
  DEF Register, Charging, Stage
<1>20. CASE UNCHANGED vars
  BY <1>20, <1>0, <1>b
  DEF vars, Charging, Stage
<1> HIDE DEF fixed, registryVars, controlVars, checkpointVars, threadVars, limitVars
<1> QED BY <1>1, <1>2, <1>3, <1>4, <1>5, <1>6, <1>7, <1>8, <1>9, <1>10,
          <1>11, <1>12, <1>13, <1>14, <1>15, <1>16, <1>17, <1>18, <1>19, <1>20
       DEF OneOf, Ends

\* What is approved after a step was so before, or has just been decided on.
LEMMA DecidedStep ==
  ASSUME TypeOK, Stage, Latest, Charges, NEW j \in Keys,
         Checked(j)', Checked(j), Charged(j), resuming', pc' # "paused", OneOf
  PROVE  (resuming /\ pc # "paused" /\ decision' = decision) \/ Approved(j)'
<1> USE DEF fixed, registryVars, controlVars, checkpointVars, threadVars, limitVars
<1>0. /\ j[1] \in Nat /\ j[2] \in Nat /\ step \in Nat /\ cursor \in Nat
      /\ parallel \in BOOLEAN /\ resuming \in BOOLEAN
      /\ pc \in Controls /\ outcome \in [Indices -> Outcome] /\ j[2] \in Indices /\ 1 <= j[2]
      /\ thread \in [Keys -> {"idle", "queued", "running", "done"}]
  BY KeyType, RoundType DEF TypeOK
<1>a. \A i : Here(i) = j <=> j[1] = step /\ j[2] = i
  BY KeyType
<1>b. pc \notin Between => Len(calls) \in Nat /\ 1 .. Len(calls) \subseteq Indices
  BY RoundType
<1>1. ASSUME NEW resp \in Response, EndsWith(resp)
      PROVE  (resuming /\ pc # "paused" /\ decision' = decision) \/ Approved(j)'
  BY <1>1, <1>0, <1>a, <1>b
  DEF EndsWith, Checked, Stage, Between
<1>2. ASSUME NEW resp \in Response, Receives(resp)
      PROVE  (resuming /\ pc # "paused" /\ decision' = decision) \/ Approved(j)'
  BY <1>2, <1>0, <1>a, <1>b
  DEF Receives, Checked, Stage, Between
<1>3. CASE StepsExhausted
  BY <1>3, <1>0, <1>a, <1>b
  DEF StepsExhausted, Return, Checked, Stage, Between
<1>4. CASE Prechecks
  BY <1>4, <1>0, <1>a, <1>b
  DEF Prechecks, Checked, Stage, Between
<1>5. CASE StartsGroup
  BY <1>5, <1>0, <1>a, <1>b
  DEF StartsGroup, Checked, Stage, Between
<1>6. CASE Pauses
  BY <1>6, <1>0, <1>a, <1>b
  DEF Pauses, Checked, Stage, Between
<1>7. ASSUME NEW d \in [Pending -> BOOLEAN], Resumes(d)
      PROVE  (resuming /\ pc # "paused" /\ decision' = decision) \/ Approved(j)'
  <2>1. /\ CallAt(j) = calls[j[2]] /\ j[1] = step /\ j[2] \in 1 .. Len(calls)
        /\ outcome[j[2]] = "none" /\ outcome'[j[2]] = "none" /\ pc \notin Between
    BY <1>7, KeyType DEF Resumes, Checked, CallAt, calls, Between
  <2>2. j[2] \in Runnable(outcome)
    BY <2>1 DEF Runnable
  <2>3. CallAt(j)' = CallAt(j) /\ CallAt(j).id \in Pending
    BY <1>7, <2>1, <2>2 DEF Resumes, CallAt, Pending
  <2>4. d[calls[j[2]].id]
    BY <1>7, <1>0, <2>1, <2>2 DEF Resumes
  <2>5. /\ step \in Steps /\ CallAt(j).id \in CallIds
        /\ decision \in [Steps -> [CallIds -> {"none", "approve", "deny"}]]
    BY <2>1, RoundType DEF TypeOK
  <2>6. decision'[step][CallAt(j).id] = "approve"
    BY <1>7, <2>1, <2>3, <2>4, <2>5 DEF Resumes
  <2> QED BY <2>1, <2>3, <2>6 DEF Approved
<1>8. CASE Holds
  BY <1>8, <1>0, <1>a, <1>b
  DEF Holds, Checked, Stage, Between
<1>9. CASE GroupEnds
  BY <1>9, <1>0, <1>a, <1>b
  DEF GroupEnds, Checked, Stage, Between
<1>10. CASE Skips
  BY <1>10, <1>0, <1>a, <1>b
  DEF Skips, Checked, Stage, Between
<1>11. CASE StartsCall
  BY <1>11, <1>0, <1>a, <1>b
  DEF StartsCall, Checked, Stage, Between
<1>12. ASSUME NEW v \in Denial \cup {"failed"}, SettlesCall(v)
      PROVE  (resuming /\ pc # "paused" /\ decision' = decision) \/ Approved(j)'
  BY <1>12, <1>0, <1>a, <1>b
  DEF SettlesCall, Continue, Checked, Stage, Between
<1>13. ASSUME NEW k \in Keys, NEW result \in Executed \cup {"raised"},
             NEW th \in {"done", "running"}, Delivers(k, result, th)
      PROVE  (resuming /\ pc # "paused" /\ decision' = decision) \/ Approved(j)'
  BY <1>13, <1>0, <1>a, <1>b
  DEF Delivers, Deliver, Continue, Awaited, Checked, Stage, Between
<1>14. ASSUME NEW k \in Keys, ReturnsLate(k)
      PROVE  (resuming /\ pc # "paused" /\ decision' = decision) \/ Approved(j)'
  BY <1>14, <1>0, <1>a, <1>b
  DEF ReturnsLate, Checked, Stage, Between
<1>15. ASSUME NEW k \in Keys, CallEntered(k)
      PROVE  (resuming /\ pc # "paused" /\ decision' = decision) \/ Approved(j)'
  BY <1>15, <1>0, <1>a, <1>b
  DEF CallEntered, Checked, Stage, Between
<1>16. CASE Raises
  BY <1>16, <1>0, <1>a, <1>b
  DEF Raises, Checked, Stage, Between
<1>17. CASE Stops
  BY <1>17, <1>0, <1>a, <1>b
  DEF Stops, Checked, Stage, Between
<1>18. CASE FeedsBack
  BY <1>18, <1>0, <1>a, <1>b
  DEF FeedsBack, Checked, Stage, Between
<1>19. ASSUME NEW t \in Tools, NEW def \in Definition, Register(t, def)
      PROVE  (resuming /\ pc # "paused" /\ decision' = decision) \/ Approved(j)'
  BY <1>19, <1>0, <1>a, <1>b
  DEF Register, Checked, Stage, Between
<1>20. CASE UNCHANGED vars
  BY <1>20, <1>0, <1>a, <1>b
  DEF vars, Checked, Stage, Between
<1> HIDE DEF fixed, registryVars, controlVars, checkpointVars, threadVars, limitVars
<1> QED BY <1>1, <1>2, <1>3, <1>4, <1>5, <1>6, <1>7, <1>8, <1>9, <1>10,
          <1>11, <1>12, <1>13, <1>14, <1>15, <1>16, <1>17, <1>18, <1>19, <1>20
       DEF OneOf, Ends

\* What a thread was made for has passed every check, whatever pauses and resumes
\* came in between.
LEMMA ChecksStep ==
  ASSUME TypeOK, Stage, Latest, Threading, Charges, Checks, OneOf
  PROVE  Checks'
<1> SUFFICES ASSUME NEW j \in Keys
             PROVE  /\ thread'[j] # "idle" => Passed(j)' /\ Approved(j)'
                    /\ Checked(j)' => /\ Passed(j)'
                                      /\ (resuming' /\ pc' # "paused" => Approved(j)')
  BY DEF Checks
<1>1. /\ thread[j] # "idle" => Passed(j) /\ Approved(j)
      /\ Checked(j) => Passed(j) /\ (resuming /\ pc # "paused" => Approved(j))
  BY DEF Checks
<1>2. ASSUME Approved(j), Charged(j), decision' = decision \/ j[1] # step
      PROVE  Approved(j)'
  <2>1. CallAt(j)' = CallAt(j) /\ config' = config
    BY <1>2, ChargedStep, ConfigStep
  <2>2. decision'[j[1]] = decision[j[1]]
    BY <1>2, DecisionStep, KeyType DEF DecidesHere
  <2> QED BY <1>2, <2>1, <2>2 DEF Approved, Asking
<1>3. ASSUME thread'[j] # "idle" PROVE Passed(j)' /\ Approved(j)'
  <2>1. CASE thread[j] # "idle"
    <3>1. Passed(j) /\ Approved(j)
      BY <1>1, <2>1
    <3>2. decision' = decision \/ j[1] # step
      BY <2>1, DecisionStep DEF DecidesHere, Threading, Ahead
    <3>3. Charged(j)
      BY <3>1 DEF Passed
    <3> QED BY <1>2, <3>1, <3>2, <3>3, PassedStep
  <2>2. CASE thread[j] = "idle" /\ Checked(j) /\ (Asking => resuming /\ pc # "paused")
    <3>1. Passed(j) /\ Approved(j)
      BY <1>1, <2>2 DEF Approved
    <3>2. Charged(j)
      BY <3>1 DEF Passed
    <3>3. CASE pc # "paused"
      BY <1>2, <3>1, <3>2, <3>3, PassedStep, DecisionStep DEF DecidesHere
    <3>4. CASE pc = "paused"
      BY <2>2, <3>4 DEF Latest
    <3> QED BY <3>3, <3>4
  <2>3. CASE ~Asking /\ Charging /\ Clears /\ j = Here(cursor)
    BY <2>3, PassedHere, ConfigStep DEF Approved, Asking
  <2> QED BY <1>3, <2>1, <2>2, <2>3, StartedStep DEF MayStart
<1>4. ASSUME Checked(j)' PROVE Passed(j)' /\ (resuming' /\ pc' # "paused" => Approved(j)')
  <2>1. CASE Checked(j)
    <3>1. Passed(j) /\ (resuming /\ pc # "paused" => Approved(j))
      BY <1>1, <2>1
    <3>2. Charged(j)
      BY <3>1 DEF Passed
    <3>3. resuming' /\ pc' # "paused" =>
            (resuming /\ pc # "paused" /\ decision' = decision) \/ Approved(j)'
      BY <1>4, <2>1, <3>2, DecidedStep
    <3> QED BY <1>2, <3>1, <3>2, <3>3, PassedStep
  <2>2. CASE Charging /\ Clears /\ j = Here(cursor)
    <3>1. Passed(j)'
      BY <2>2, PassedHere
    <3>2. resuming' /\ pc' # "paused" => Approved(j)'
      BY <2>2, <1>4, ChargingNotResumed
    <3> QED BY <3>1, <3>2
  <2> QED BY <1>4, <2>1, <2>2, CheckedStep
<1> QED BY <1>3, <1>4

-----------------------------------------------------------------------------
(* Results *)

\* What Reported says of one call.
ReportedOf(j) ==
  /\ Over(j) =>
       /\ thread[j] # "idle" => results[j] \in Executed
       /\ results[j] = "ok" => entered[j] = 1 /\ thread[j] = "done"
  /\ ~Over(j) => results[j] = "none"
  /\ j[1] = step /\ pc \notin Between =>
       /\ thread[j] # "idle" =>
            j[2] \in waiting \/ outcome[j[2]] \in Executed \cup {"raised"}
       /\ outcome[j[2]] = "ok" => entered[j] = 1 /\ thread[j] = "done"

\* What ran in a group has its outcome when the group is over, and keeps it.
LEMMA ReportedStep ==
  ASSUME TypeOK, Stage, Latest, Threading, Checks, Reported, OneOf
  PROVE  Reported'
<1> USE DEF fixed, registryVars, controlVars, checkpointVars, threadVars, limitVars
<1> SUFFICES ASSUME NEW j \in Keys PROVE ReportedOf(j)'
  BY DEF Reported, ReportedOf
<1>0. /\ ReportedOf(j) /\ j[1] \in Nat /\ j[2] \in Nat /\ step \in Nat /\ cursor \in Nat
      /\ 1 <= j[2] /\ j[2] \in Indices
      /\ thread \in [Keys -> {"idle", "queued", "running", "done"}]
      /\ entered \in [Keys -> Nat] /\ outcome \in [Indices -> Outcome]
      /\ pc # "await" => waiting = {}
      /\ pc \in Between => outcome[j[2]] = "none"
  BY KeyType, RoundType DEF Reported, ReportedOf, TypeOK, Stage, NoOutcomes
<1>a. /\ \A i : Here(i) = j <=> j[1] = step /\ j[2] = i
      /\ ThreadOf(j)
  BY KeyType DEF Threading, ThreadOf
<1>b. pc \notin Between /\ cursor <= Len(calls) => Here(cursor) \in Keys /\ cursor \in Indices
  BY CursorType
<1>c. thread[j] # "idle" => j[2] <= Len(response[j[1]])
  BY DEF Checks, Passed
<1>d. "ok" \notin Denial \cup {"failed", "none"} /\ "none" \notin Executed \cup {"raised"}
  BY DEF Denial, Executed
<1>1. ASSUME NEW resp \in Response, EndsWith(resp)
      PROVE  ReportedOf(j)'
  BY <1>1, <1>0
  DEF EndsWith, ReportedOf, Over, Between
<1>2. ASSUME NEW resp \in Response, Receives(resp)
      PROVE  ReportedOf(j)'
  BY <1>2, <1>0, <1>a
  DEF Receives, ReportedOf, Over, Between, ThreadOf, Ahead
<1>3. CASE StepsExhausted
  BY <1>3, <1>0
  DEF StepsExhausted, Return, ReportedOf, Over, Between
<1>4. CASE Prechecks
  <2>1. pc = "preflight" /\ cursor \in Indices
        /\ outcome' = [outcome EXCEPT ![cursor] =
             Verdict(RecordRequested(calls[cursor].name), calls[cursor].name)]
        /\ UNCHANGED <<pc, reason, step, thread, entered, results, waiting>>
    BY <1>4, <1>b DEF Prechecks, Between
  <2>2. Verdict(RecordRequested(calls[cursor].name), calls[cursor].name) # "ok"
    BY DEF Verdict
  <2>3. j[1] = step => thread[j] = "idle"
    BY <1>a, <2>1 DEF ThreadOf, Ahead
  <2>4. outcome'[j[2]] = "ok" => outcome[j[2]] = "ok"
    BY <1>0, <2>1, <2>2
  <2> QED BY <1>0, <2>1, <2>3, <2>4 DEF ReportedOf, Over
<1>5. CASE StartsGroup
  <2>1. /\ pc \in {"preflight", "approved"} /\ pc' = "await"
        /\ UNCHANGED <<reason, step, entered, results>>
    BY <1>5 DEF StartsGroup
  <2>2. /\ thread'[j] = IF j[1] = step /\ j[2] \in waiting' THEN "queued" ELSE thread[j]
        /\ outcome'[j[2]] \in {"failed", outcome[j[2]]}
    BY <1>5, <1>0 DEF StartsGroup, Submit
  <2>3. j[1] = step => thread[j] = "idle"
    BY <1>a, <2>1 DEF ThreadOf, Ahead
  <2> QED BY <1>0, <2>1, <2>2, <2>3 DEF ReportedOf, Over, Between
<1>6. CASE Pauses
  BY <1>6, <1>0
  DEF Pauses, ReportedOf, Over, Between
<1>7. ASSUME NEW d \in [Pending -> BOOLEAN], Resumes(d)
      PROVE  ReportedOf(j)'
  <2>1. /\ pc = "paused" /\ pc' \in {"approved", "sequential"}
        /\ UNCHANGED <<step, thread, entered, results, waiting>>
    BY <1>7 DEF Resumes
  <2>2. outcome'[j[2]] \in {"unapproved", outcome[j[2]]}
    BY <1>7, <1>0 DEF Resumes
  <2>3. j[1] = step => thread[j] = "idle"
    BY <1>a, <2>1 DEF ThreadOf, Ahead
  <2>4. Over(j)' <=> Over(j)
    BY <2>1 DEF Over
  <2> QED BY <1>0, <2>1, <2>2, <2>3, <2>4 DEF ReportedOf, Between
<1>8. CASE Holds
  BY <1>8, <1>0
  DEF Holds, ReportedOf, Over, Between
<1>9. CASE GroupEnds
  BY <1>9, <1>0
  DEF GroupEnds, ReportedOf, Over, Between
<1>10. CASE Skips
  BY <1>10, <1>0
  DEF Skips, ReportedOf, Over, Between
<1>11. CASE StartsCall
  BY <1>11, <1>0, <1>a, <1>b
  DEF StartsCall, ReportedOf, Over, Between, ThreadOf, Ahead
<1>12. ASSUME NEW v \in Denial \cup {"failed"}, SettlesCall(v)
      PROVE  ReportedOf(j)'
  BY <1>12, <1>0, <1>a, <1>b, <1>d
  DEF SettlesCall, Continue, ReportedOf, Over, Between, ThreadOf, Ahead
<1>13. ASSUME NEW k \in Keys, NEW result \in Executed \cup {"raised"},
             NEW th \in {"done", "running"}, Delivers(k, result, th)
      PROVE  ReportedOf(j)'
  <2>1. /\ k[1] = step /\ k[2] \in waiting /\ pc = "await"
        /\ thread' = [thread EXCEPT ![k] = th] /\ waiting' = waiting \ {k[2]}
        /\ outcome' = [outcome EXCEPT ![k[2]] = result]
        /\ pc' \in {"await", "finish", "sequential"}
        /\ UNCHANGED <<reason, step, entered, results>>
        /\ result = "ok" => thread[k] = "running" /\ th = "done"
    BY <1>13 DEF Delivers, Deliver, Continue, Awaited
  <2>2. thread[k] \in {"queued", "running"} /\ (thread[k] = "running" => entered[k] = 1)
    BY <2>1 DEF Threading, Awaited
  <2>3. j = k <=> j[1] = step /\ j[2] = k[2]
    BY <2>1, KeyType
  <2>4. CASE j = k
    <3>1. outcome'[j[2]] = result /\ thread'[j] = th
      BY <1>0, <2>1, <2>4
    <3>2. ~Over(j) /\ ~Over(j)'
      BY <1>0, <2>1, <2>4 DEF Over
    <3> QED BY <1>0, <2>1, <2>2, <2>4, <3>1, <3>2 DEF ReportedOf, Between
  <2>5. CASE j # k
    <3>1. thread'[j] = thread[j] /\ (j[1] = step => outcome'[j[2]] = outcome[j[2]])
      BY <1>0, <2>1, <2>3, <2>5
    <3>2. Over(j)' <=> Over(j)
      BY <2>1 DEF Over
    <3>3. j[1] = step /\ j[2] \in waiting => j[2] \in waiting'
      BY <2>1, <2>3, <2>5
    <3> QED BY <1>0, <2>1, <3>1, <3>2, <3>3 DEF ReportedOf, Between
  <2> QED BY <2>4, <2>5
<1>14. ASSUME NEW k \in Keys, ReturnsLate(k)
      PROVE  ReportedOf(j)'
  BY <1>14, <1>0
  DEF ReturnsLate, ReportedOf, Over, Between
<1>15. ASSUME NEW k \in Keys, CallEntered(k)
      PROVE  ReportedOf(j)'
  BY <1>15, <1>0, <1>a
  DEF CallEntered, ReportedOf, Over, Between, ThreadOf
<1>16. CASE Raises
  BY <1>16, <1>0
  DEF Raises, ReportedOf, Over, Between
<1>17. CASE Stops
  <2>1. j[1] = step /\ thread[j] # "idle" => outcome[j[2]] \in Executed
    <3> SUFFICES ASSUME j[1] = step, thread[j] # "idle" PROVE outcome[j[2]] \in Executed
      OBVIOUS
    <3>1. waiting = {} /\ pc = "finish" /\ "raised" \notin Got
      BY <1>17, <1>0 DEF Stops, FeedsBack
    <3>2. j[2] \in 1 .. Len(calls)
      BY <1>0, <1>c, <3>1, RoundType DEF calls, Between
    <3>3. outcome[j[2]] \in Got
      BY <3>2 DEF Got
    <3> QED BY <1>0, <3>1, <3>3 DEF ReportedOf, Between
  <2>2. results'[j] = IF j[1] = step THEN outcome[j[2]] ELSE results[j]
    BY <1>17 DEF Stops, FeedsBack, WithOutcomes
  <2> QED BY <1>17, <1>0, <2>1, <2>2 DEF Stops, FeedsBack, ReportedOf, Over, Between
<1>18. CASE FeedsBack
  <2>1. j[1] = step /\ thread[j] # "idle" => outcome[j[2]] \in Executed
    <3> SUFFICES ASSUME j[1] = step, thread[j] # "idle" PROVE outcome[j[2]] \in Executed
      OBVIOUS
    <3>1. waiting = {} /\ pc = "finish" /\ "raised" \notin Got
      BY <1>18, <1>0 DEF Stops, FeedsBack
    <3>2. j[2] \in 1 .. Len(calls)
      BY <1>0, <1>c, <3>1, RoundType DEF calls, Between
    <3>3. outcome[j[2]] \in Got
      BY <3>2 DEF Got
    <3> QED BY <1>0, <3>1, <3>3 DEF ReportedOf, Between
  <2>2. results'[j] = IF j[1] = step THEN outcome[j[2]] ELSE results[j]
    BY <1>18 DEF Stops, FeedsBack, WithOutcomes
  <2> QED BY <1>18, <1>0, <2>1, <2>2 DEF Stops, FeedsBack, ReportedOf, Over, Between
<1>19. ASSUME NEW t \in Tools, NEW def \in Definition, Register(t, def)
      PROVE  ReportedOf(j)'
  BY <1>19, <1>0
  DEF Register, ReportedOf, Over, Between
<1>20. CASE UNCHANGED vars
  BY <1>20, <1>0
  DEF vars, ReportedOf, Over, Between
<1> HIDE DEF fixed, registryVars, controlVars, checkpointVars, threadVars, limitVars
<1> QED BY <1>1, <1>2, <1>3, <1>4, <1>5, <1>6, <1>7, <1>8, <1>9, <1>10,
          <1>11, <1>12, <1>13, <1>14, <1>15, <1>16, <1>17, <1>18, <1>19, <1>20
       DEF OneOf, Ends

-----------------------------------------------------------------------------
(* The registry *)

\* What is known of a parallel group before its calls have threads, and then.
Fit ==
  parallel =>
    /\ pc \in {"preflight", "paused", "approved"} /\ ~Asking =>
         \A i \in 1 .. Len(calls) : Permitted(calls[i].name) => ParallelSafe(calls[i].name)
    /\ pc \in {"paused", "approved"} =>
         \A i \in Runnable(outcome) : ParallelSafe(calls[i].name)
    /\ pc = "await" => \A i \in waiting : ParallelSafe(calls[i].name)

\* The registry changes only when it is counted.
LEMMA RegistryStep ==
  ASSUME TypeOK, OneOf
  PROVE  overwrites' = 0 => overwrites = 0 /\ registry' = registry
<1> USE DEF fixed, registryVars, controlVars, checkpointVars, threadVars, limitVars
<1>0. overwrites \in Nat
  BY LoopLimits DEF TypeOK
<1>1. ASSUME NEW resp \in Response, EndsWith(resp)
      PROVE  overwrites' = 0 => overwrites = 0 /\ registry' = registry
  BY <1>1, <1>0
  DEF EndsWith
<1>2. ASSUME NEW resp \in Response, Receives(resp)
      PROVE  overwrites' = 0 => overwrites = 0 /\ registry' = registry
  BY <1>2, <1>0
  DEF Receives
<1>3. CASE StepsExhausted
  BY <1>3, <1>0
  DEF StepsExhausted, Return
<1>4. CASE Prechecks
  BY <1>4, <1>0
  DEF Prechecks
<1>5. CASE StartsGroup
  BY <1>5, <1>0
  DEF StartsGroup
<1>6. CASE Pauses
  BY <1>6, <1>0
  DEF Pauses
<1>7. ASSUME NEW d \in [Pending -> BOOLEAN], Resumes(d)
      PROVE  overwrites' = 0 => overwrites = 0 /\ registry' = registry
  BY <1>7, <1>0
  DEF Resumes
<1>8. CASE Holds
  BY <1>8, <1>0
  DEF Holds
<1>9. CASE GroupEnds
  BY <1>9, <1>0
  DEF GroupEnds
<1>10. CASE Skips
  BY <1>10, <1>0
  DEF Skips
<1>11. CASE StartsCall
  BY <1>11, <1>0
  DEF StartsCall
<1>12. ASSUME NEW v \in Denial \cup {"failed"}, SettlesCall(v)
      PROVE  overwrites' = 0 => overwrites = 0 /\ registry' = registry
  BY <1>12, <1>0
  DEF SettlesCall, Continue
<1>13. ASSUME NEW k \in Keys, NEW result \in Executed \cup {"raised"},
             NEW th \in {"done", "running"}, Delivers(k, result, th)
      PROVE  overwrites' = 0 => overwrites = 0 /\ registry' = registry
  BY <1>13, <1>0
  DEF Delivers, Deliver, Continue, Awaited
<1>14. ASSUME NEW k \in Keys, ReturnsLate(k)
      PROVE  overwrites' = 0 => overwrites = 0 /\ registry' = registry
  BY <1>14, <1>0
  DEF ReturnsLate
<1>15. ASSUME NEW k \in Keys, CallEntered(k)
      PROVE  overwrites' = 0 => overwrites = 0 /\ registry' = registry
  BY <1>15, <1>0
  DEF CallEntered
<1>16. CASE Raises
  BY <1>16, <1>0
  DEF Raises
<1>17. CASE Stops
  BY <1>17, <1>0
  DEF Stops
<1>18. CASE FeedsBack
  BY <1>18, <1>0
  DEF FeedsBack
<1>19. ASSUME NEW t \in Tools, NEW def \in Definition, Register(t, def)
      PROVE  overwrites' = 0 => overwrites = 0 /\ registry' = registry
  BY <1>19, <1>0
  DEF Register
<1>20. CASE UNCHANGED vars
  BY <1>20, <1>0
  DEF vars
<1> HIDE DEF fixed, registryVars, controlVars, checkpointVars, threadVars, limitVars
<1> QED BY <1>1, <1>2, <1>3, <1>4, <1>5, <1>6, <1>7, <1>8, <1>9, <1>10,
          <1>11, <1>12, <1>13, <1>14, <1>15, <1>16, <1>17, <1>18, <1>19, <1>20
       DEF OneOf, Ends

\* A group that runs in parallel was found fit for it.
LEMMA FitStep ==
  ASSUME TypeOK, Stage, Latest, Checks, Fit, registry' = registry, OneOf
  PROVE  Fit'
<1> USE DEF fixed, registryVars, controlVars, checkpointVars, threadVars, limitVars
<1>0. /\ Fit /\ config' = config /\ (pc # "await" => waiting = {})
  BY ConfigStep DEF Stage
<1>a. pc \notin Between => /\ Len(calls) \in Nat /\ 1 .. Len(calls) \subseteq Indices
                           /\ step \in Steps /\ response \in [Steps -> Response]
  BY RoundType DEF TypeOK
<1>1. ASSUME NEW resp \in Response, EndsWith(resp)
      PROVE  Fit'
  BY <1>1, <1>0
  DEF EndsWith, Fit, Asking, Permitted, ParallelSafe, calls, Runnable
<1>2. ASSUME NEW resp \in Response, Receives(resp)
      PROVE  Fit'
  <2>1. step \in Steps /\ response \in [Steps -> Response]
    BY <1>2, RoundType DEF Receives, TypeOK
  <2>2. calls' = resp
    BY <1>2, <2>1 DEF Receives, calls
  <2>3. parallel' => \A i \in 1 .. Len(resp) : Permitted(resp[i].name) => ParallelSafe(resp[i].name)
    BY <1>2 DEF Receives, ResolveMode
  <2>4. pc' \in {"preflight", "sequential"}
    BY <1>2 DEF Receives
  <2> QED BY <1>0, <2>2, <2>3, <2>4 DEF Fit, Permitted, ParallelSafe
<1>3. CASE StepsExhausted
  BY <1>3, <1>0
  DEF StepsExhausted, Return, Fit, Asking, Permitted, ParallelSafe, calls, Runnable
<1>4. CASE Prechecks
  BY <1>4, <1>0
  DEF Prechecks, Fit, Asking, Permitted, ParallelSafe, calls, Runnable
<1>5. CASE StartsGroup
  <2>1. waiting' \subseteq Runnable(outcome) /\ pc' = "await" /\ UNCHANGED <<step, response, parallel>>
    BY <1>5 DEF StartsGroup, Submit
  <2>2. ASSUME NEW i \in Runnable(outcome), parallel PROVE ParallelSafe(calls[i].name)
    <3>1. CASE pc = "approved"
      BY <1>0, <2>2, <3>1 DEF Fit
    <3>2. CASE pc = "preflight" /\ cursor > Len(calls) /\ ~Asking
      <4>1. /\ i \in 1 .. Len(calls) /\ i \in Indices /\ outcome[i] = "none"
            /\ cursor \in Nat /\ Len(calls) \in Nat
        BY <1>a, <3>2, RoundType DEF Runnable, Between
      <4>2. Here(i) \in Keys /\ Here(i)[1] = step /\ Here(i)[2] = i
        BY <4>1, <3>2, RoundType DEF Here, Between
      <4>3. Checked(Here(i))
        BY <3>2, <4>1, <4>2 DEF Checked
      <4>4. Permitted(CallAt(Here(i)).name)
        BY <4>2, <4>3 DEF Checks, Passed
      <4>5. CallAt(Here(i)) = calls[i]
        BY <4>2 DEF CallAt, calls
      <4> QED BY <1>0, <2>2, <3>2, <4>1, <4>4, <4>5 DEF Fit
    <3> QED BY <1>5, <3>1, <3>2 DEF StartsGroup
  <2> QED BY <2>1, <2>2 DEF Fit, ParallelSafe, calls
<1>6. CASE Pauses
  <2>1. /\ parallel' => \A i \in Runnable(outcome) : ParallelSafe(calls[i].name)
        /\ pc' = "paused" /\ Asking /\ UNCHANGED <<step, response, outcome>>
    BY <1>6 DEF Pauses, ResolveMode
  <2> QED BY <1>0, <2>1 DEF Fit, ParallelSafe, calls, Runnable, Asking
<1>7. ASSUME NEW d \in [Pending -> BOOLEAN], Resumes(d)
      PROVE  Fit'
  <2>1. /\ pc = "paused" /\ pc' \in {"approved", "sequential"} /\ Asking
        /\ UNCHANGED <<step, response, parallel>>
    BY <1>7 DEF Resumes, Latest
  <2>2. Runnable(outcome') \subseteq Runnable(outcome)
    <3>1. ASSUME NEW i \in 1 .. Len(calls), outcome'[i] = "none" PROVE outcome[i] = "none"
      <4>1. i \in Indices
        BY <1>a, <2>1, <3>1 DEF Between
      <4> QED BY <1>7, <3>1, <4>1 DEF Resumes
    <3> QED BY <3>1 DEF Runnable
  <2>3. Runnable(outcome)' = Runnable(outcome')
    BY <2>1 DEF Runnable, calls
  <2> QED BY <1>0, <2>1, <2>2, <2>3 DEF Fit, ParallelSafe, calls, Asking
<1>8. CASE Holds
  BY <1>8, <1>0
  DEF Holds, Fit, Asking, Permitted, ParallelSafe, calls, Runnable
<1>9. CASE GroupEnds
  BY <1>9, <1>0
  DEF GroupEnds, Fit, Asking, Permitted, ParallelSafe, calls, Runnable
<1>10. CASE Skips
  BY <1>10, <1>0
  DEF Skips, Fit, Asking, Permitted, ParallelSafe, calls, Runnable
<1>11. CASE StartsCall
  BY <1>11, <1>0
  DEF StartsCall, Fit, Asking, Permitted, ParallelSafe, calls, Runnable, Stage
<1>12. ASSUME NEW v \in Denial \cup {"failed"}, SettlesCall(v)
      PROVE  Fit'
  BY <1>12, <1>0
  DEF SettlesCall, Continue, Fit, Asking, Permitted, ParallelSafe, calls, Runnable
<1>13. ASSUME NEW k \in Keys, NEW result \in Executed \cup {"raised"},
             NEW th \in {"done", "running"}, Delivers(k, result, th)
      PROVE  Fit'
  <2>1. waiting' \subseteq waiting /\ pc = "await" /\ pc' \in {"await", "finish", "sequential"}
        /\ UNCHANGED <<step, response, parallel>>
    BY <1>13 DEF Delivers, Deliver, Continue, Awaited
  <2> QED BY <1>0, <2>1 DEF Fit, ParallelSafe, calls
<1>14. ASSUME NEW k \in Keys, ReturnsLate(k)
      PROVE  Fit'
  BY <1>14, <1>0
  DEF ReturnsLate, Fit, Asking, Permitted, ParallelSafe, calls, Runnable
<1>15. ASSUME NEW k \in Keys, CallEntered(k)
      PROVE  Fit'
  BY <1>15, <1>0
  DEF CallEntered, Fit, Asking, Permitted, ParallelSafe, calls, Runnable
<1>16. CASE Raises
  BY <1>16, <1>0
  DEF Raises, Fit, Asking, Permitted, ParallelSafe, calls, Runnable
<1>17. CASE Stops
  BY <1>17, <1>0
  DEF Stops, Fit, Asking, Permitted, ParallelSafe, calls, Runnable
<1>18. CASE FeedsBack
  BY <1>18, <1>0
  DEF FeedsBack, Fit, Asking, Permitted, ParallelSafe, calls, Runnable
<1>19. ASSUME NEW t \in Tools, NEW def \in Definition, Register(t, def)
      PROVE  Fit'
  BY <1>19, <1>0
  DEF Register, Fit, Asking, Permitted, ParallelSafe, calls, Runnable
<1>20. CASE UNCHANGED vars
  BY <1>20, <1>0
  DEF vars, Fit, Asking, Permitted, ParallelSafe, calls, Runnable
<1> HIDE DEF fixed, registryVars, controlVars, checkpointVars, threadVars, limitVars
<1> QED BY <1>1, <1>2, <1>3, <1>4, <1>5, <1>6, <1>7, <1>8, <1>9, <1>10,
          <1>11, <1>12, <1>13, <1>14, <1>15, <1>16, <1>17, <1>18, <1>19, <1>20
       DEF OneOf, Ends

\* A thread is made for a tool that may be called.
LEMMA OfferedStep ==
  ASSUME TypeOK, Stage, Latest, Threading, NEW j \in Keys,
         thread[j] = "idle", thread'[j] # "idle", OneOf
  PROVE  ~NotAllowed(CallAt(j)'.name)
<1> USE DEF fixed, registryVars, controlVars, checkpointVars, threadVars, limitVars
<1>0. thread \in [Keys -> {"idle", "queued", "running", "done"}]
  BY DEF TypeOK
<1>1. ASSUME NEW resp \in Response, EndsWith(resp)
      PROVE  ~NotAllowed(CallAt(j)'.name)
  BY <1>1, <1>0
  DEF EndsWith
<1>2. ASSUME NEW resp \in Response, Receives(resp)
      PROVE  ~NotAllowed(CallAt(j)'.name)
  BY <1>2, <1>0
  DEF Receives
<1>3. CASE StepsExhausted
  BY <1>3, <1>0
  DEF StepsExhausted, Return
<1>4. CASE Prechecks
  BY <1>4, <1>0
  DEF Prechecks
<1>5. CASE StartsGroup
  <2>1. j[1] = step /\ j[2] \in waiting' /\ response' = response
    BY <1>5 DEF StartsGroup, Submit
  <2>2. ~NotAllowed(calls[j[2]].name)
    BY <1>5, <2>1 DEF StartsGroup, Submit
  <2> QED BY <2>1, <2>2 DEF CallAt, calls
<1>6. CASE Pauses
  BY <1>6, <1>0
  DEF Pauses
<1>7. ASSUME NEW d \in [Pending -> BOOLEAN], Resumes(d)
      PROVE  ~NotAllowed(CallAt(j)'.name)
  BY <1>7, <1>0
  DEF Resumes
<1>8. CASE Holds
  BY <1>8, <1>0
  DEF Holds
<1>9. CASE GroupEnds
  BY <1>9, <1>0
  DEF GroupEnds
<1>10. CASE Skips
  BY <1>10, <1>0
  DEF Skips
<1>11. CASE StartsCall
  <2>1. j = Here(cursor) /\ response' = response /\ ~NotAllowed(calls[cursor].name)
    BY <1>11, <1>0 DEF StartsCall
  <2>2. j[1] = step /\ j[2] = cursor
    BY <2>1 DEF Here
  <2> QED BY <2>1, <2>2 DEF CallAt, calls
<1>12. ASSUME NEW v \in Denial \cup {"failed"}, SettlesCall(v)
      PROVE  ~NotAllowed(CallAt(j)'.name)
  BY <1>12, <1>0
  DEF SettlesCall, Continue
<1>13. ASSUME NEW k \in Keys, NEW result \in Executed \cup {"raised"},
             NEW th \in {"done", "running"}, Delivers(k, result, th)
      PROVE  ~NotAllowed(CallAt(j)'.name)
  <2>1. thread[k] # "idle" /\ thread' = [thread EXCEPT ![k] = th]
    BY <1>13 DEF Delivers, Threading
  <2> QED BY <1>0, <2>1
<1>14. ASSUME NEW k \in Keys, ReturnsLate(k)
      PROVE  ~NotAllowed(CallAt(j)'.name)
  BY <1>14, <1>0
  DEF ReturnsLate
<1>15. ASSUME NEW k \in Keys, CallEntered(k)
      PROVE  ~NotAllowed(CallAt(j)'.name)
  BY <1>15, <1>0
  DEF CallEntered
<1>16. CASE Raises
  BY <1>16, <1>0
  DEF Raises
<1>17. CASE Stops
  BY <1>17, <1>0
  DEF Stops
<1>18. CASE FeedsBack
  BY <1>18, <1>0
  DEF FeedsBack
<1>19. ASSUME NEW t \in Tools, NEW def \in Definition, Register(t, def)
      PROVE  ~NotAllowed(CallAt(j)'.name)
  BY <1>19, <1>0
  DEF Register
<1>20. CASE UNCHANGED vars
  BY <1>20, <1>0
  DEF vars
<1> HIDE DEF fixed, registryVars, controlVars, checkpointVars, threadVars, limitVars
<1> QED BY <1>1, <1>2, <1>3, <1>4, <1>5, <1>6, <1>7, <1>8, <1>9, <1>10,
          <1>11, <1>12, <1>13, <1>14, <1>15, <1>16, <1>17, <1>18, <1>19, <1>20
       DEF OneOf, Ends

\* A callable is entered by a thread that was queued, once the tool is found.
LEMMA EnteredStep ==
  ASSUME TypeOK, NEW j \in Keys, entered'[j] # entered[j], OneOf
  PROVE  thread[j] = "queued" /\ registry[CallAt(j).name].known
<1> USE DEF fixed, registryVars, controlVars, checkpointVars, threadVars, limitVars
<1>0. entered \in [Keys -> Nat]
  BY DEF TypeOK
<1>1. ASSUME NEW resp \in Response, EndsWith(resp)
      PROVE  thread[j] = "queued" /\ registry[CallAt(j).name].known
  BY <1>1, <1>0
  DEF EndsWith, CallAt
<1>2. ASSUME NEW resp \in Response, Receives(resp)
      PROVE  thread[j] = "queued" /\ registry[CallAt(j).name].known
  BY <1>2, <1>0
  DEF Receives, CallAt
<1>3. CASE StepsExhausted
  BY <1>3, <1>0
  DEF StepsExhausted, Return, CallAt
<1>4. CASE Prechecks
  BY <1>4, <1>0
  DEF Prechecks, CallAt
<1>5. CASE StartsGroup
  BY <1>5, <1>0
  DEF StartsGroup, CallAt
<1>6. CASE Pauses
  BY <1>6, <1>0
  DEF Pauses, CallAt
<1>7. ASSUME NEW d \in [Pending -> BOOLEAN], Resumes(d)
      PROVE  thread[j] = "queued" /\ registry[CallAt(j).name].known
  BY <1>7, <1>0
  DEF Resumes, CallAt
<1>8. CASE Holds
  BY <1>8, <1>0
  DEF Holds, CallAt
<1>9. CASE GroupEnds
  BY <1>9, <1>0
  DEF GroupEnds, CallAt
<1>10. CASE Skips
  BY <1>10, <1>0
  DEF Skips, CallAt
<1>11. CASE StartsCall
  BY <1>11, <1>0
  DEF StartsCall, CallAt
<1>12. ASSUME NEW v \in Denial \cup {"failed"}, SettlesCall(v)
      PROVE  thread[j] = "queued" /\ registry[CallAt(j).name].known
  BY <1>12, <1>0
  DEF SettlesCall, Continue, CallAt
<1>13. ASSUME NEW k \in Keys, NEW result \in Executed \cup {"raised"},
             NEW th \in {"done", "running"}, Delivers(k, result, th)
      PROVE  thread[j] = "queued" /\ registry[CallAt(j).name].known
  BY <1>13, <1>0
  DEF Delivers, Deliver, Continue, Awaited, CallAt
<1>14. ASSUME NEW k \in Keys, ReturnsLate(k)
      PROVE  thread[j] = "queued" /\ registry[CallAt(j).name].known
  BY <1>14, <1>0
  DEF ReturnsLate, CallAt
<1>15. ASSUME NEW k \in Keys, CallEntered(k)
      PROVE  thread[j] = "queued" /\ registry[CallAt(j).name].known
  BY <1>15, <1>0
  DEF CallEntered, CallAt
<1>16. CASE Raises
  BY <1>16, <1>0
  DEF Raises, CallAt
<1>17. CASE Stops
  BY <1>17, <1>0
  DEF Stops, CallAt
<1>18. CASE FeedsBack
  BY <1>18, <1>0
  DEF FeedsBack, CallAt
<1>19. ASSUME NEW t \in Tools, NEW def \in Definition, Register(t, def)
      PROVE  thread[j] = "queued" /\ registry[CallAt(j).name].known
  BY <1>19, <1>0
  DEF Register, CallAt
<1>20. CASE UNCHANGED vars
  BY <1>20, <1>0
  DEF vars, CallAt
<1> HIDE DEF fixed, registryVars, controlVars, checkpointVars, threadVars, limitVars
<1> QED BY <1>1, <1>2, <1>3, <1>4, <1>5, <1>6, <1>7, <1>8, <1>9, <1>10,
          <1>11, <1>12, <1>13, <1>14, <1>15, <1>16, <1>17, <1>18, <1>19, <1>20
       DEF OneOf, Ends

\* As long as the registry is left alone, no thread is made for a tool that was
\* not offered, and a parallel group is one of parallel safe tools.
LEMMA StableStep ==
  ASSUME TypeOK, Stage, Latest, Threading, Charges, Checks, Stable, OneOf
  PROVE  Stable'
<1> SUFFICES ASSUME overwrites' = 0 PROVE Stable'
  BY DEF Stable
<1>0. overwrites = 0 /\ registry' = registry /\ registry = InitialRegistry
  BY RegistryStep DEF Stable
<1>1. Fit'
  <2>1. Fit
    BY <1>0 DEF Stable, Fit
  <2> QED BY <1>0, <2>1, FitStep
<1>2. ASSUME NEW j \in Keys, thread[j] # "idle"
      PROVE  CallAt(j)' = CallAt(j) /\ ~NotAllowed(CallAt(j).name)
  <2>1. Charged(j) /\ ~NotAllowed(CallAt(j).name)
    BY <1>0, <1>2 DEF Checks, Passed, Stable
  <2> QED BY <2>1, ChargedStep
<1>3. ASSUME NEW j \in Keys, thread'[j] # "idle" PROVE ~NotAllowed(CallAt(j)'.name)
  <2>1. CASE thread[j] # "idle"
    BY <1>2, <2>1
  <2>2. CASE thread[j] = "idle"
    BY <1>3, <2>2, OfferedStep
  <2> QED BY <2>1, <2>2
<1>4. ASSUME NEW j \in Keys, entered'[j] = 1 PROVE CallAt(j)'.name \in Offered
  <2>1. CASE entered[j] = 1
    <3>1. thread[j] # "idle"
      BY <2>1 DEF Threading
    <3> QED BY <1>0, <1>2, <2>1, <3>1 DEF Stable
  <2>2. CASE entered[j] # 1
    <3>1. thread[j] = "queued" /\ registry[CallAt(j).name].known
      BY <1>4, <2>2, EnteredStep
    <3> QED BY <1>2, <3>1 DEF NotAllowed
  <2> QED BY <2>1, <2>2
<1>5. \A n : NotAllowed(n)' <=> NotAllowed(n)
  BY <1>0 DEF NotAllowed
<1>6. \A j \in Keys : thread'[j] # "idle" => ~NotAllowed(CallAt(j).name)'
  BY <1>0, <1>3 DEF NotAllowed
<1>7. \A j \in Keys : entered'[j] = 1 => CallAt(j)'.name \in Offered
  BY <1>4
<1> QED BY <1>0, <1>1, <1>6, <1>7 DEF Stable, Fit

-----------------------------------------------------------------------------
(* Outcomes and messages *)

\* A group ends when every call has an outcome, or one of them ends it.
LEMMA AnsweringStep ==
  ASSUME TypeOK, Stage, Latest, Answering, OneOf
  PROVE  Answering'
<1> USE DEF fixed, registryVars, controlVars, checkpointVars, threadVars, limitVars
<1>0. /\ Answering /\ cursor \in Nat /\ step \in Nat /\ parallel \in BOOLEAN
      /\ outcome \in [Indices -> Outcome]
      /\ pc \notin Between => Len(calls) \in Nat /\ 1 .. Len(calls) \subseteq Indices
      /\ \A i \in 1 .. Len(calls) : i \in Nat
  BY RoundType DEF TypeOK
<1>a. /\ pc \notin Between /\ cursor <= Len(calls) => cursor \in 1 .. Len(calls) /\ cursor \in Indices
      /\ pc = "await" /\ ~parallel => cursor \in 1 .. Len(calls) /\ cursor \in Indices
  BY CursorType
<1>b. "none" \notin Denial \cup {"failed", "raised"} \cup Executed
  BY DEF Denial, Executed
<1>1. ASSUME NEW resp \in Response, EndsWith(resp)
      PROVE  Answering'
  BY <1>1, <1>0
  DEF EndsWith, Answering, calls
<1>2. ASSUME NEW resp \in Response, Receives(resp)
      PROVE  Answering'
  <2>1. pc' \in {"preflight", "sequential"} /\ cursor' = 1
    BY <1>2 DEF Receives
  <2>2. ~(\E i \in 1 .. Len(calls)' : i < cursor')
    BY <2>1
  <2> QED BY <2>1, <2>2 DEF Answering
<1>3. CASE StepsExhausted
  BY <1>3, <1>0
  DEF StepsExhausted, Return, Answering, calls
<1>4. CASE Prechecks
  BY <1>4, <1>0
  DEF Prechecks, Answering, calls
<1>5. CASE StartsGroup
  <2>1. pc' = "await" /\ parallel /\ UNCHANGED <<step, response, parallel, cursor>> /\ pc \notin Between
    BY <1>5 DEF StartsGroup, Stage, Between
  <2>2. ASSUME NEW i \in 1 .. Len(calls) PROVE outcome'[i] # "none" \/ i \in waiting'
    <3>1. i \in Indices
      BY <1>0, <2>1
    <3> QED BY <1>5, <3>1 DEF StartsGroup, Submit, Runnable
  <2> QED BY <2>1, <2>2 DEF Answering, calls
<1>6. CASE Pauses
  BY <1>6, <1>0
  DEF Pauses, Answering, calls
<1>7. ASSUME NEW d \in [Pending -> BOOLEAN], Resumes(d)
      PROVE  Answering'
  <2>1. pc' \in {"approved", "sequential"} /\ cursor' = 1
    BY <1>7 DEF Resumes
  <2>2. ~(\E i \in 1 .. Len(calls)' : i < cursor')
    BY <2>1
  <2> QED BY <2>1, <2>2 DEF Answering
<1>8. CASE Holds
  BY <1>8, <1>0
  DEF Holds, Answering, calls
<1>9. CASE GroupEnds
  <2>1. pc' = "finish" /\ UNCHANGED <<step, response, outcome>> /\ pc \notin Between
    BY <1>9 DEF GroupEnds, Between
  <2>2. ASSUME NEW i \in 1 .. Len(calls) PROVE outcome[i] # "none"
    <3>1. CASE pc = "preflight" /\ Runnable(outcome) = {}
      BY <3>1 DEF Runnable
    <3>2. CASE pc = "sequential" /\ cursor > Len(calls)
      BY <1>0, <2>1, <3>2 DEF Answering
    <3>3. CASE pc = "await" /\ waiting = {}
      BY <1>0, <3>3 DEF Answering, Stage
    <3> QED BY <1>9, <3>1, <3>2, <3>3 DEF GroupEnds
  <2> QED BY <2>1, <2>2 DEF Answering, calls
<1>10. CASE Skips
  <2>1. /\ pc = "sequential" /\ cursor' = cursor + 1 /\ outcome[cursor] # "none"
        /\ UNCHANGED <<pc, step, response, outcome>>
    BY <1>10 DEF Skips
  <2>2. \A i \in 1 .. Len(calls) : i < cursor' => outcome[i] # "none"
    BY <1>0, <2>1 DEF Answering
  <2> QED BY <2>1, <2>2 DEF Answering, calls
<1>11. CASE StartsCall
  BY <1>11, <1>0
  DEF StartsCall, Answering, calls, Stage
<1>12. ASSUME NEW v \in Denial \cup {"failed"}, SettlesCall(v)
      PROVE  Answering'
  <2>1. /\ pc = "sequential" /\ cursor <= Len(calls) /\ UNCHANGED <<step, response, parallel>>
        /\ outcome' = [outcome EXCEPT ![cursor] = v] /\ pc \notin Between
        /\ \/ pc' = "sequential" /\ cursor' = cursor + 1
           \/ pc' = "finish" /\ v # "ok" /\ config.stop_on_tool_error
    BY <1>12 DEF SettlesCall, Continue, Between, Denial
  <2>2. cursor \in 1 .. Len(calls) /\ cursor \in Indices /\ v # "none" /\ v # "ok"
    BY <1>a, <2>1 DEF Denial
  <2>3. outcome'[cursor] = v
    BY <1>0, <2>1, <2>2
  <2>4. CASE pc' = "sequential" /\ cursor' = cursor + 1
    <3>1. ASSUME NEW i \in 1 .. Len(calls), i < cursor + 1 PROVE outcome'[i] # "none"
      <4>1. CASE i = cursor
        BY <2>2, <2>3, <4>1
      <4>2. CASE i # cursor
        <5>1. i < cursor
          BY <1>0, <3>1, <4>2
        <5>2. outcome'[i] = outcome[i]
          BY <1>0, <2>1, <4>2
        <5> QED BY <1>0, <2>1, <5>1, <5>2 DEF Answering
      <4> QED BY <4>1, <4>2
    <3> QED BY <2>1, <2>4, <3>1 DEF Answering, calls
  <2>5. CASE pc' = "finish" /\ config.stop_on_tool_error
    <3>1. config' = config
      BY ConfigStep
    <3> QED BY <2>1, <2>2, <2>3, <2>5, <3>1 DEF Answering, calls
  <2> QED BY <2>1, <2>4, <2>5
<1>13. ASSUME NEW k \in Keys, NEW result \in Executed \cup {"raised"},
             NEW th \in {"done", "running"}, Delivers(k, result, th)
      PROVE  Answering'
  <2>1. /\ pc = "await" /\ k[2] \in waiting /\ UNCHANGED <<step, response, parallel>>
        /\ outcome' = [outcome EXCEPT ![k[2]] = result] /\ waiting' = waiting \ {k[2]}
        /\ pc \notin Between
    BY <1>13 DEF Delivers, Deliver, Awaited, Between
  <2>2. k[2] \in 1 .. Len(calls) /\ k[2] \in Indices /\ result # "none"
    BY <1>0, <2>1 DEF Stage, Executed
  <2>3. outcome'[k[2]] = result /\ \A i \in Indices : i # k[2] => outcome'[i] = outcome[i]
    BY <1>0, <2>1, <2>2
  <2>4. CASE parallel
    <3>1. pc' = IF waiting' = {} THEN "finish" ELSE "await"
      BY <1>13, <2>4 DEF Delivers, Deliver
    <3>2. \A i \in 1 .. Len(calls) : outcome'[i] # "none" \/ i \in waiting'
      BY <1>0, <2>1, <2>2, <2>3, <2>4 DEF Answering
    <3> QED BY <2>1, <2>4, <3>1, <3>2 DEF Answering, calls
  <2>5. CASE ~parallel
    <3>1. k[2] = cursor
      BY <2>1, <2>5 DEF Stage
    <3>2. \/ pc' = "sequential" /\ cursor' = cursor + 1
          \/ pc' = "finish" /\ (result = "raised" \/ (result # "ok" /\ config.stop_on_tool_error))
      BY <1>13, <2>5 DEF Delivers, Deliver, Continue
    <3>3. ASSUME NEW i \in 1 .. Len(calls), i < cursor + 1 PROVE outcome'[i] # "none"
      <4>1. CASE i = cursor
        BY <2>2, <2>3, <3>1, <4>1
      <4>2. CASE i # cursor
        <5>1. i < cursor
          BY <1>0, <3>3, <4>2
        <5>2. outcome'[i] = outcome[i]
          BY <1>0, <2>1, <2>3, <3>1, <4>2
        <5> QED BY <1>0, <2>1, <2>5, <5>1, <5>2 DEF Answering
      <4> QED BY <4>1, <4>2
    <3>4. CASE pc' = "sequential" /\ cursor' = cursor + 1
      BY <2>1, <2>5, <3>3, <3>4 DEF Answering, calls
    <3>5. CASE pc' = "finish" /\ (result = "raised" \/ (result # "ok" /\ config.stop_on_tool_error))
      <4>1. config' = config
        BY ConfigStep
      <4> QED BY <2>1, <2>2, <2>3, <3>5, <4>1 DEF Answering, calls
    <3> QED BY <3>2, <3>4, <3>5
  <2> QED BY <2>4, <2>5
<1>14. ASSUME NEW k \in Keys, ReturnsLate(k)
      PROVE  Answering'
  BY <1>14, <1>0
  DEF ReturnsLate, Answering, calls
<1>15. ASSUME NEW k \in Keys, CallEntered(k)
      PROVE  Answering'
  BY <1>15, <1>0
  DEF CallEntered, Answering, calls
<1>16. CASE Raises
  BY <1>16, <1>0
  DEF Raises, Answering, calls
<1>17. CASE Stops
  BY <1>17, <1>0
  DEF Stops, Answering, calls
<1>18. CASE FeedsBack
  BY <1>18, <1>0
  DEF FeedsBack, Answering, calls
<1>19. ASSUME NEW t \in Tools, NEW def \in Definition, Register(t, def)
      PROVE  Answering'
  BY <1>19, <1>0
  DEF Register, Answering, calls
<1>20. CASE UNCHANGED vars
  BY <1>20, <1>0
  DEF vars, Answering, calls
<1> HIDE DEF fixed, registryVars, controlVars, checkpointVars, threadVars, limitVars
<1> QED BY <1>1, <1>2, <1>3, <1>4, <1>5, <1>6, <1>7, <1>8, <1>9, <1>10,
          <1>11, <1>12, <1>13, <1>14, <1>15, <1>16, <1>17, <1>18, <1>19, <1>20
       DEF OneOf, Ends

\* A list of messages followed by the answers to one more assistant message is
\* paired, if it was.
LEMMA PairedAppend ==
  ASSUME NEW h \in Seq(Message), Paired(h), NEW s \in Steps, NEW n \in Indices,
         NEW g, g = Append(h, [role |-> "assistant", step |-> s, index |-> n])
                    \o [j \in 1 .. n |-> [role |-> "tool", step |-> s, index |-> j]]
  PROVE  Paired(g)
<1> DEFINE m == Len(h)
           a == [role |-> "assistant", step |-> s, index |-> n]
           t == [j \in 1 .. n |-> [role |-> "tool", step |-> s, index |-> j]]
<1>1. m \in Nat /\ n \in Nat /\ 1 <= n /\ a \in Message
  BY LoopLimits DEF Message, Indices
<1>2. t \in Seq(Message) /\ Len(t) = n
  <2>1. \A j \in 1 .. n : [role |-> "tool", step |-> s, index |-> j] \in Message
    BY LoopLimits DEF Message, Indices
  <2> QED BY <1>1, <2>1
<1>3. /\ Append(h, a) \in Seq(Message) /\ Len(Append(h, a)) = m + 1
      /\ Append(h, a)[m + 1] = a
      /\ \A p \in 1 .. m : Append(h, a)[p] = h[p]
  BY <1>1
<1>4. \A j \in 1 .. n : t[j] = [role |-> "tool", step |-> s, index |-> j]
  OBVIOUS
<1>a. a.role = "assistant" /\ a.step = s /\ a.index = n
  OBVIOUS
<1>b. \A j \in 1 .. n : t[j].role = "tool" /\ t[j].step = s /\ t[j].index = j
  OBVIOUS
<1> DEFINE b == Append(h, a)
<1>c. g = b \o t /\ b \in Seq(Message) /\ Len(b) = m + 1
  BY <1>3
<1> HIDE DEF m, a, t, b
<1>5. /\ g \in Seq(Message) /\ Len(g) = Len(b) + Len(t)
      /\ \A p \in 1 .. Len(b) + Len(t) :
           g[p] = IF p <= Len(b) THEN b[p] ELSE t[p - Len(b)]
  <2>1. /\ b \o t \in Seq(Message) /\ Len(b \o t) = Len(b) + Len(t)
        /\ \A p \in 1 .. Len(b) + Len(t) :
             (b \o t)[p] = IF p <= Len(b) THEN b[p] ELSE t[p - Len(b)]
    BY <1>2, <1>c, ConcatProperties, Zenon
  <2> QED BY <2>1, <1>c, Zenon
<1>d. Len(g) = m + 1 + n /\ DOMAIN g = 1 .. m + 1 + n
  BY <1>1, <1>2, <1>5, <1>c
<1>6. /\ \A p \in 1 .. m : g[p] = h[p]
      /\ g[m + 1] = a
      /\ \A j \in 1 .. n : g[m + 1 + j] = t[j]
  <2>1. ASSUME NEW p \in 1 .. m PROVE g[p] = h[p]
    <3>1. p \in 1 .. Len(b) + Len(t) /\ p <= Len(b)
      BY <1>1, <1>2, <1>c
    <3>2. b[p] = h[p]
      BY <1>3 DEF b
    <3> QED BY <1>5, <3>1, <3>2
  <2>2. g[m + 1] = a
    <3>1. m + 1 \in 1 .. Len(b) + Len(t) /\ m + 1 <= Len(b)
      BY <1>1, <1>2, <1>c
    <3>2. b[m + 1] = a
      BY <1>3 DEF b
    <3> QED BY <1>5, <3>1, <3>2
  <2>3. ASSUME NEW j \in 1 .. n PROVE g[m + 1 + j] = t[j]
    <3> DEFINE q == m + 1 + j
    <3>1. q \in 1 .. Len(b) + Len(t) /\ ~(q <= Len(b)) /\ q - Len(b) = j
      BY <1>1, <1>2, <1>c
    <3> HIDE DEF q
    <3>2. g[q] = t[q - Len(b)]
      BY <1>5, <3>1
    <3> QED BY <3>1, <3>2 DEF q
  <2> QED BY <2>1, <2>2, <2>3
<1>7. DOMAIN h = 1 .. m /\ \A p \in 1 .. m : h[p].index \in Nat /\ 1 <= h[p].index
                                             /\ h[p].role \in {"assistant", "tool"}
  <2>1. DOMAIN h = 1 .. m /\ \A p \in 1 .. m : h[p] \in Message
    BY DEF m
  <2>2. \A x \in Message : x.index \in Indices /\ x.role \in {"assistant", "tool"}
    BY DEF Message
  <2>3. \A i \in Indices : i \in Nat /\ 1 <= i
    BY LoopLimits DEF Indices
  <2> QED BY <2>1, <2>2, <2>3
<1> SUFFICES ASSUME NEW p \in 1 .. m + 1 + n
             PROVE  IF g[p].role = "assistant"
                    THEN \A i \in 1 .. g[p].index :
                           /\ p + i <= Len(g)
                           /\ g[p + i] = [role |-> "tool", step |-> g[p].step, index |-> i]
                    ELSE /\ p > g[p].index
                         /\ g[p - g[p].index].role = "assistant"
                         /\ g[p - g[p].index].step = g[p].step
                         /\ g[p - g[p].index].index >= g[p].index
  BY <1>d DEF Paired
<1>8. CASE p \in 1 .. m
  <2>1. g[p] = h[p]
    BY <1>6, <1>8
  <2>2. CASE h[p].role = "assistant"
    <3>1. \A i \in 1 .. h[p].index :
            /\ p + i <= m
            /\ h[p + i] = [role |-> "tool", step |-> h[p].step, index |-> i]
      BY <1>7, <1>8, <2>2 DEF Paired, m
    <3>2. ASSUME NEW i \in 1 .. h[p].index
          PROVE  /\ p + i <= Len(g)
                 /\ g[p + i] = [role |-> "tool", step |-> h[p].step, index |-> i]
      <4>1. p + i <= m /\ p \in Nat /\ i \in Nat /\ 1 <= p /\ 1 <= i
        <5>1. h[p].index \in Nat /\ p \in Nat /\ 1 <= p
          BY <1>1, <1>7, <1>8
        <5>2. i \in Nat /\ 1 <= i
          BY <5>1
        <5> QED BY <3>1, <5>1, <5>2
      <4>2. p + i \in 1 .. m /\ p + i <= m + 1 + n
        BY <1>1, <4>1
      <4> QED BY <1>d, <1>6, <3>1, <4>2
    <3> QED BY <2>1, <2>2, <3>2
  <2>3. CASE h[p].role # "assistant"
    <3>1. /\ p > h[p].index
          /\ h[p - h[p].index].role = "assistant"
          /\ h[p - h[p].index].step = h[p].step
          /\ h[p - h[p].index].index >= h[p].index
      BY <1>7, <1>8, <2>3 DEF Paired
    <3>2. p - h[p].index \in 1 .. m
      BY <1>1, <1>7, <1>8, <3>1
    <3>3. g[p - h[p].index] = h[p - h[p].index]
      BY <1>6, <3>2
    <3> QED BY <2>1, <2>3, <3>1, <3>3
  <2> QED BY <2>2, <2>3
<1>9. CASE p = m + 1
  <2>1. g[p].role = "assistant" /\ g[p].index = n /\ g[p].step = s
    BY <1>6, <1>9, <1>a
  <2>2. ASSUME NEW i \in 1 .. n
        PROVE  p + i <= Len(g) /\ g[p + i] = [role |-> "tool", step |-> s, index |-> i]
    <3>1. p + i = m + 1 + i /\ p + i <= m + 1 + n
      BY <1>1, <1>9
    <3>2. g[m + 1 + i] = t[i]
      BY <1>6
    <3> QED BY <1>d, <1>4, <3>1, <3>2
  <2> QED BY <2>1, <2>2
<1>10. CASE p > m + 1
  <2>1. PICK i \in 1 .. n : p = m + 1 + i
    <3>1. p - (m + 1) \in 1 .. n /\ p = m + 1 + (p - (m + 1))
      BY <1>1, <1>10
    <3> QED BY <3>1
  <2>2. g[p] = t[i]
    BY <1>6, <2>1
  <2>3. g[p].role # "assistant" /\ g[p].index = i /\ g[p].step = s
    BY <1>b, <2>2
  <2>4. p - i = m + 1 /\ p > i
    BY <1>1, <2>1
  <2>5. g[p - i].role = "assistant" /\ g[p - i].step = s /\ g[p - i].index >= i
    <3>1. g[p - i] = a
      BY <1>6, <2>4
    <3>2. n >= i
      BY <1>1
    <3> QED BY <1>a, <3>1, <3>2
  <2> QED BY <2>3, <2>4, <2>5
<1>11. p \in 1 .. m \/ p = m + 1 \/ p > m + 1
  BY <1>1
<1> QED BY <1>8, <1>9, <1>10, <1>11

\* When all calls of the group have an outcome, all of them are answered.
LEMMA AllAnswered ==
  ASSUME TypeOK, pc \notin Between, \A i \in 1 .. Len(calls) : outcome[i] # "none"
  PROVE  Answered = [i \in 1 .. Len(calls) |-> i]
<1> DEFINE s == [i \in 1 .. Len(calls) |-> i]
           X == {i \in Indices : outcome[i] # "none"}
<1>1. Len(calls) \in Nat /\ 1 .. Len(calls) \subseteq Indices
  BY RoundType
<1>2. s \in Seq(Indices) /\ DOMAIN s = 1 .. Len(calls)
  BY <1>1
<1>3. \A i \in 1 .. Len(calls) : s[i] = i /\ i \in X
  BY <1>1
<1>4. ToSet(s) \subseteq X
  BY <1>2, <1>3 DEF ToSet
<1> HIDE DEF s, X
<1>5. Those(s, X) = s
  BY <1>2, <1>4, ThoseAll
<1> QED BY <1>5 DEF Answered, s, X

\* The messages of a round are added together: the calls, then a result for each.
LEMMA MessagesStep ==
  ASSUME TypeOK, Stage, Latest, Answering, Messages, OneOf
  PROVE  Messages'
<1> USE DEF fixed, registryVars, controlVars, checkpointVars, threadVars, limitVars
<1>0. Messages /\ history \in Seq(Message)
  BY DEF TypeOK
<1>1. ASSUME NEW resp \in Response, EndsWith(resp)
      PROVE  Messages'
  BY <1>1, <1>0
  DEF EndsWith, Messages, Between, calls
<1>2. ASSUME NEW resp \in Response, Receives(resp)
      PROVE  Messages'
  <2>1. /\ history' = Append(history, [role |-> "assistant", step |-> step, index |-> Len(resp)])
        /\ pc = "request" /\ pc' \in {"preflight", "sequential"} /\ step' = step
        /\ response' = [response EXCEPT ![step] = resp]
    BY <1>2 DEF Receives
  <2>2. calls' = resp
    <3>1. step \in Steps /\ response \in [Steps -> Response]
      BY <1>2, RoundType DEF Receives, TypeOK
    <3> QED BY <2>1, <3>1 DEF calls
  <2>3. Paired(history)
    BY <1>0, <2>1 DEF Messages
  <2> QED BY <1>0, <2>1, <2>2, <2>3 DEF Messages, Between
<1>3. CASE StepsExhausted
  BY <1>3, <1>0
  DEF StepsExhausted, Return, Messages, Between, calls
<1>4. CASE Prechecks
  BY <1>4, <1>0
  DEF Prechecks, Messages, Between, calls
<1>5. CASE StartsGroup
  BY <1>5, <1>0
  DEF StartsGroup, Messages, Between, calls
<1>6. CASE Pauses
  BY <1>6, <1>0
  DEF Pauses, Messages, Between, calls
<1>7. ASSUME NEW d \in [Pending -> BOOLEAN], Resumes(d)
      PROVE  Messages'
  BY <1>7, <1>0
  DEF Resumes, Messages, Between, calls
<1>8. CASE Holds
  BY <1>8, <1>0
  DEF Holds, Messages, Between, calls
<1>9. CASE GroupEnds
  BY <1>9, <1>0
  DEF GroupEnds, Messages, Between, calls
<1>10. CASE Skips
  BY <1>10, <1>0
  DEF Skips, Messages, Between, calls
<1>11. CASE StartsCall
  BY <1>11, <1>0
  DEF StartsCall, Messages, Between, calls
<1>12. ASSUME NEW v \in Denial \cup {"failed"}, SettlesCall(v)
      PROVE  Messages'
  BY <1>12, <1>0
  DEF SettlesCall, Continue, Messages, Between, calls
<1>13. ASSUME NEW k \in Keys, NEW result \in Executed \cup {"raised"},
             NEW th \in {"done", "running"}, Delivers(k, result, th)
      PROVE  Messages'
  BY <1>13, <1>0
  DEF Delivers, Deliver, Continue, Awaited, Messages, Between, calls
<1>14. ASSUME NEW k \in Keys, ReturnsLate(k)
      PROVE  Messages'
  BY <1>14, <1>0
  DEF ReturnsLate, Messages, Between, calls
<1>15. ASSUME NEW k \in Keys, CallEntered(k)
      PROVE  Messages'
  BY <1>15, <1>0
  DEF CallEntered, Messages, Between, calls
<1>16. CASE Raises
  BY <1>16, <1>0
  DEF Raises, Messages, Between, calls
<1>17. CASE Stops
  BY <1>17, <1>0
  DEF Stops, Messages, Between, calls
<1>18. CASE FeedsBack
  <2>1. /\ pc = "finish" /\ pc' = "request" /\ pc \notin Between
        /\ history' = history \o [j \in 1 .. Len(Answered) |->
             [role |-> "tool", step |-> step, index |-> Answered[j]]]
        /\ "raised" \notin Got /\ ~(Failed /\ config.stop_on_tool_error)
    BY <1>18 DEF FeedsBack, Between
  <2>2. \A i \in 1 .. Len(calls) : outcome[i] # "none"
    <3>1. \A i \in 1 .. Len(calls) : outcome[i] # "raised"
      BY <2>1 DEF Got
    <3>2. config.stop_on_tool_error => \A i \in 1 .. Len(calls) : outcome[i] \in {"ok", "none"}
      BY <2>1 DEF Got, Failed
    <3> QED BY <2>1, <3>1, <3>2 DEF Answering
  <2>3. Answered = [i \in 1 .. Len(calls) |-> i]
    BY <2>1, <2>2, AllAnswered
  <2>4. Len(calls) \in Nat /\ step \in Steps
    BY <2>1, RoundType
  <2>5. Len(Answered) = Len(calls) /\ \A j \in 1 .. Len(calls) : Answered[j] = j
    BY <2>3, <2>4
  <2>6. history' = history \o [j \in 1 .. Len(calls) |->
          [role |-> "tool", step |-> step, index |-> j]]
    BY <2>1, <2>5
  <2>7. PICK h \in Seq(Message) :
          /\ Paired(h)
          /\ history = Append(h, [role |-> "assistant", step |-> step, index |-> Len(calls)])
    BY <1>0, <2>1 DEF Messages
  <2>8. Len(calls) \in Indices
    <3>1. history[Len(history)] = [role |-> "assistant", step |-> step, index |-> Len(calls)]
          /\ Len(history) \in DOMAIN history
      BY <2>7
    <3>2. history[Len(history)] \in Message
      BY <1>0, <3>1
    <3> QED BY <3>1, <3>2 DEF Message
  <2>9. Paired(history')
    <3> DEFINE n == Len(calls)
    <3>1. n \in Indices /\ history = Append(h, [role |-> "assistant", step |-> step, index |-> n])
          /\ history' = history \o [j \in 1 .. n |-> [role |-> "tool", step |-> step, index |-> j]]
      BY <2>6, <2>7, <2>8
    <3> HIDE DEF n
    <3> QED BY <2>4, <2>7, <3>1, PairedAppend
  <2> QED BY <2>1, <2>9 DEF Messages, Between
<1>19. ASSUME NEW t \in Tools, NEW def \in Definition, Register(t, def)
      PROVE  Messages'
  BY <1>19, <1>0
  DEF Register, Messages, Between, calls
<1>20. CASE UNCHANGED vars
  BY <1>20, <1>0
  DEF vars, Messages, Between, calls
<1> HIDE DEF fixed, registryVars, controlVars, checkpointVars, threadVars, limitVars
<1> QED BY <1>1, <1>2, <1>3, <1>4, <1>5, <1>6, <1>7, <1>8, <1>9, <1>10,
          <1>11, <1>12, <1>13, <1>14, <1>15, <1>16, <1>17, <1>18, <1>19, <1>20
       DEF OneOf, Ends

-----------------------------------------------------------------------------
(* The invariant *)

\* A run starts in a state of the invariant.
LEMMA LoopInvInit == Init => LoopInv
<1> SUFFICES ASSUME Init PROVE LoopInv
  OBVIOUS
<1> USE DEF Init
<1>1. config \in Configs /\ config \in Config
  BY LoopLimits
<1>2. config.max_steps \in Nat /\ 1 <= config.max_steps
  BY <1>1, LoopLimits DEF Config
<1>3. <<>> \in Response
  <2>1. 0 \in 0 .. MaxCalls
    BY LoopLimits
  <2>2. <<>> \in [1 .. 0 -> Call]
    OBVIOUS
  <2> QED BY <2>1, <2>2 DEF Response
<1>4. TypeOK
  <2>1. ControlType
    <3>1. /\ overwrites \in 0 .. MaxOverwrites /\ step \in 0 .. config.max_steps
          /\ cursor \in 1 .. MaxCalls + 1
      BY <1>2, LoopLimits
    <3>2. registry \in [Tools -> Definition]
      BY LoopLimits
    <3> QED BY <1>1, <3>1, <3>2 DEF ControlType, Controls
  <2>2. GroupType
    BY <1>3 DEF GroupType, NoOutcomes, Outcome
  <2>3. BookType
    BY <1>3 DEF BookType, Requested, Outcome
  <2>4. RecordType
    BY <1>3 DEF RecordType
  <2> QED BY <2>1, <2>2, <2>3, <2>4, TypeParts
<1>5. Stage
  BY <1>2 DEF Stage, Between, NoOutcomes
<1>6. Latest
  BY DEF Latest
<1>7. AskedOnce
  <2>1. \A s \in Steps : s \in Nat
    BY LoopLimits DEF Steps
  <2> QED BY <2>1 DEF AskedOnce
<1>8. Threading
  BY DEF Threading, Awaited
<1>9. Charges
  <2>1. \A k \in Keys : ~Charged(k)
    BY DEF Charged
  <2> QED BY <2>1 DEF Charges
<1>10. Checks
  BY DEF Checks, Checked
<1>11. Reported
  <2>1. \A k \in Keys : k[1] \in Nat
    BY LoopLimits DEF Keys, Steps
  <2>2. \A k \in Keys : ~Over(k)
    BY <2>1 DEF Over
  <2> QED BY <2>2 DEF Reported, Between
<1>12. Stable
  BY DEF Stable
<1>13. Answering
  BY DEF Answering
<1>14. Messages
  BY DEF Messages, Paired, Between
<1> QED BY <1>4, <1>5, <1>6, <1>7, <1>8, <1>9, <1>10, <1>11, <1>12, <1>13, <1>14
        DEF LoopInv

\* Every step keeps it.
LEMMA LoopInvStep == LoopInv /\ [Next]_vars => LoopInv'
<1> SUFFICES ASSUME LoopInv, [Next]_vars PROVE LoopInv'
  OBVIOUS
<1>1. /\ TypeOK /\ Stage /\ Latest /\ AskedOnce /\ Threading /\ Charges /\ Checks
      /\ Reported /\ Stable /\ Answering /\ Messages
  BY DEF LoopInv
<1>2. OneOf
  BY <1>1, Effects
<1>3. TypeOK' /\ Stage' /\ Latest'
  BY <1>1, <1>2, TypeStep, StageStep, LatestStep
<1>4. AskedOnce' /\ Threading'
  BY <1>1, <1>2, AskedOnceStep, ThreadingStep
<1>5. Charges' /\ Checks'
  BY <1>1, <1>2, ChargesStep, ChecksStep
<1>6. Reported' /\ Stable'
  BY <1>1, <1>2, ReportedStep, StableStep
<1>7. Answering' /\ Messages'
  BY <1>1, <1>2, AnsweringStep, MessagesStep
<1> QED BY <1>3, <1>4, <1>5, <1>6, <1>7 DEF LoopInv

\* The inductive invariant holds in every state of every run.
THEOREM LoopInvariant == Spec => []LoopInv
<1> QED BY LoopInvInit, LoopInvStep, PTL DEF Spec

\* Every variable keeps its type, and a round is worked on only while it is one of
\* the max_steps rounds of the run.
THEOREM TypeCorrect == Spec => []TypeOK
<1>1. LoopInv => TypeOK
  BY DEF LoopInv
<1> QED BY <1>1, LoopInvariant, PTL

-----------------------------------------------------------------------------
(* What the caller may rely on *)

\* A callable that was entered belongs to a thread that was made for it, and was
\* entered once.
LEMMA EnteredOnce ==
  ASSUME LoopInv, NEW k \in Keys
  PROVE  /\ entered[k] \in {0, 1}
         /\ k \in EnteredKeys => /\ entered[k] = 1 /\ thread[k] \in {"running", "done"}
                                 /\ Passed(k) /\ Approved(k)
<1>1. TypeOK /\ Threading /\ Checks
  BY DEF LoopInv
<1>2. thread[k] \in {"idle", "queued", "running", "done"}
  BY <1>1 DEF TypeOK
<1>3. entered[k] \in {0, 1}
  BY <1>1, <1>2 DEF Threading
<1>4. k \in EnteredKeys => entered[k] = 1 /\ thread[k] \in {"running", "done"}
  BY <1>1, <1>2, <1>3 DEF Threading, EnteredKeys
<1> QED BY <1>1, <1>3, <1>4 DEF Checks

\* A checkpoint never repeats work: whatever checkpoints the caller presents, each
\* round asks the LLM once and no callable is entered twice (resume() refuses a
\* checkpoint that was used).
THEOREM RunsOnceHolds == Spec => []RunsOnce
<1>1. LoopInv => RunsOnce
  <2> SUFFICES ASSUME LoopInv PROVE RunsOnce
    OBVIOUS
  <2>1. \A s \in Steps : requests[s] \in {0, 1}
    BY DEF LoopInv, AskedOnce
  <2>2. \A k \in Keys : entered[k] \in {0, 1}
    BY EnteredOnce
  <2>3. \A x \in {0, 1} : x <= 1
    OBVIOUS
  <2> QED BY <2>1, <2>2, <2>3 DEF RunsOnce
<1> QED BY <1>1, LoopInvariant, PTL

\* No callable is entered unless the policy permits its tool and, where approval is
\* required, the caller approved that call.
THEOREM AuthorizedHolds == Spec => []Authorized
<1>1. LoopInv => Authorized
  <2> SUFFICES ASSUME LoopInv, NEW k \in EnteredKeys
               PROVE  /\ k[2] <= Len(response[k[1]])
                      /\ Permitted(CallAt(k).name)
                      /\ config.require_tool_approval => decision[k[1]][CallAt(k).id] = "approve"
    BY DEF Authorized
  <2>1. k \in Keys
    BY DEF EnteredKeys
  <2>2. Passed(k) /\ Approved(k)
    BY <2>1, EnteredOnce
  <2> QED BY <2>2 DEF Passed, Approved, Asking
<1> QED BY <1>1, LoopInvariant, PTL

\* The keys of a run are finitely many.
LEMMA KeysFinite == IsFiniteSet(Keys)
<1>1. 0 \in Int /\ 1 \in Int /\ StepBound - 1 \in Int /\ MaxCalls \in Int
  BY LoopLimits
<1>2. IsFiniteSet(0 .. StepBound - 1) /\ IsFiniteSet(1 .. MaxCalls)
  BY <1>1, FS_Interval
<1> QED BY <1>2, FS_Product DEF Keys, Steps, Indices

\* Calls that bear different numbers up to n are at most n.
LEMMA AtMost ==
  ASSUME NEW S \in SUBSET Keys, NEW n \in Nat, NEW f \in [S -> 1 .. n],
         \A j, k \in S : j # k => f[j] # f[k]
  PROVE  Cardinality(S) <= n /\ Cardinality(S) \in Nat
<1>1. IsFiniteSet(S)
  BY KeysFinite, FS_Subset
<1>2. IsFiniteSet(1 .. n) /\ Cardinality(1 .. n) = n
  <2>1. 1 \in Int /\ n \in Int
    OBVIOUS
  <2>2. IsFiniteSet(1 .. n) /\ Cardinality(1 .. n) = IF 1 > n THEN 0 ELSE n - 1 + 1
    BY <2>1, FS_Interval
  <2> QED BY <2>2
<1>3. f \in Injection(S, 1 .. n)
  BY DEF Injection, IsInjective
<1>4. Cardinality(S) <= Cardinality(1 .. n)
  BY <1>2, <1>3, FS_Injection
<1> QED BY <1>1, <1>2, <1>4, FS_CardinalityType

\* The callables entered in a run stay within the limits, counted over all rounds,
\* pauses and resumes: each has a number of its own that is within the limit.
THEOREM WithinLimitsHolds == Spec => []WithinLimits
<1>1. LoopInv => WithinLimits
  <2> SUFFICES ASSUME LoopInv PROVE WithinLimits
    OBVIOUS
  <2>1. TypeOK /\ Charges
    BY DEF LoopInv
  <2>2. /\ config.max_loop \in Limit /\ config.max_round \in Limit
        /\ \A t \in Tools : config.max_tool[t] \in Limit
    BY <2>1, RoundType DEF Config
  <2>3. ASSUME NEW k \in EnteredKeys
        PROVE  /\ k \in Keys /\ Passed(k) /\ Charged(k) /\ Numbered(k)
               /\ charge[k].total \in Nat \ {0} /\ charge[k].round \in Nat \ {0}
               /\ charge[k].tool \in Nat \ {0}
    <3>1. k \in Keys
      BY DEF EnteredKeys
    <3>2. Passed(k)
      BY <3>1, EnteredOnce
    <3>3. Charged(k)
      BY <3>2 DEF Passed
    <3>4. Numbered(k)
      BY <2>1, <3>1, <3>3 DEF Charges
    <3>5. charge[k].total \in Nat /\ charge[k].round \in Nat /\ charge[k].tool \in Nat
      BY <2>1, <3>1, ChargeType
    <3>6. charge[k].total > 0 /\ charge[k].round >= 1 /\ charge[k].tool >= 1
      BY <3>3, <3>4 DEF Charged, Numbered
    <3> QED BY <3>1, <3>2, <3>3, <3>4, <3>5, <3>6
  <2>4. ASSUME NEW j \in EnteredKeys, NEW k \in EnteredKeys, j # k
        PROVE  /\ charge[j].total # charge[k].total
               /\ j[1] = k[1] => charge[j].round # charge[k].round
               /\ CallAt(j).name = CallAt(k).name => charge[j].tool # charge[k].tool
    BY <2>1, <2>3, <2>4 DEF Charges
  <2>5. \A m \in Limit, c \in Nat \ {0} :
          /\ m \notin Nat => \A x : Within(x, m)
          /\ m \in Nat /\ Within(c, m) => c \in 1 .. m
          /\ m \in Nat => \A x \in Nat : x <= m => Within(x, m)
    BY DEF Limit, Within, Unlimited
  <2>6. Within(Cardinality(EnteredKeys), config.max_loop)
    <3> DEFINE m == config.max_loop
               f == [k \in EnteredKeys |-> charge[k].total]
    <3>1. CASE m \notin Nat
      BY <2>2, <2>5, <3>1
    <3>2. CASE m \in Nat
      <4>1. \A k \in EnteredKeys : charge[k].total \in 1 .. m
        BY <2>2, <2>3, <2>5, <3>2 DEF Passed
      <4>2. f \in [EnteredKeys -> 1 .. m] /\ \A j, k \in EnteredKeys : j # k => f[j] # f[k]
        BY <2>4, <4>1
      <4> HIDE DEF f, m
      <4>3. EnteredKeys \in SUBSET Keys
        BY DEF EnteredKeys
      <4>4. Cardinality(EnteredKeys) <= m /\ Cardinality(EnteredKeys) \in Nat
        BY <3>2, <4>2, <4>3, AtMost
      <4> QED BY <2>2, <2>5, <3>2, <4>4 DEF m
    <3> QED BY <3>1, <3>2
  <2>7. ASSUME NEW s \in Steps
        PROVE  Within(Cardinality({k \in EnteredKeys : k[1] = s}), config.max_round)
    <3> DEFINE m == config.max_round
               S == {k \in EnteredKeys : k[1] = s}
               f == [k \in S |-> charge[k].round]
    <3>1. CASE m \notin Nat
      BY <2>2, <2>5, <3>1
    <3>2. CASE m \in Nat
      <4>1. \A k \in S : charge[k].round \in 1 .. m
        BY <2>2, <2>3, <2>5, <3>2 DEF Passed
      <4>2. f \in [S -> 1 .. m] /\ \A j, k \in S : j # k => f[j] # f[k]
        BY <2>4, <4>1
      <4>3. S \in SUBSET Keys
        BY DEF EnteredKeys
      <4> HIDE DEF f, m, S
      <4>4. Cardinality(S) <= m /\ Cardinality(S) \in Nat
        BY <3>2, <4>2, <4>3, AtMost
      <4> QED BY <2>2, <2>5, <3>2, <4>4 DEF m, S
    <3> QED BY <3>1, <3>2
  <2>8. ASSUME NEW t \in Tools
        PROVE  Within(Cardinality({k \in EnteredKeys : CallAt(k).name = t}), config.max_tool[t])
    <3> DEFINE m == config.max_tool[t]
               S == {k \in EnteredKeys : CallAt(k).name = t}
               f == [k \in S |-> charge[k].tool]
    <3>1. CASE m \notin Nat
      BY <2>2, <2>5, <3>1
    <3>2. CASE m \in Nat
      <4>1. \A k \in S : charge[k].tool \in 1 .. m
        BY <2>2, <2>3, <2>5, <3>2 DEF Passed
      <4>2. f \in [S -> 1 .. m] /\ \A j, k \in S : j # k => f[j] # f[k]
        BY <2>4, <4>1
      <4>3. S \in SUBSET Keys
        BY DEF EnteredKeys
      <4> HIDE DEF f, m, S
      <4>4. Cardinality(S) <= m /\ Cardinality(S) \in Nat
        BY <3>2, <4>2, <4>3, AtMost
      <4> QED BY <2>2, <2>5, <3>2, <4>4 DEF m, S
    <3> QED BY <3>1, <3>2
  <2> QED BY <2>6, <2>7, <2>8 DEF WithinLimits
<1> QED BY <1>1, LoopInvariant, PTL

\* A run never pays for a call twice: the counter that resume() restores is the
\* number of calls that were charged.
THEOREM ChargedOnceHolds == Spec => []ChargedOnce
<1>1. ChargedOnce <=> requested.total = Cardinality(ChargedKeys)
  BY DEF ChargedOnce, ChargedKeys, Charged
<1>2. Init => ChargedOnce
  <2> SUFFICES ASSUME Init PROVE ChargedOnce
    OBVIOUS
  <2>1. ChargedKeys = {} /\ requested.total = 0
    BY DEF Init, ChargedKeys, Charged
  <2> QED BY <1>1, <2>1, FS_EmptySet
<1>3. LoopInv /\ ChargedOnce /\ [Next]_vars => ChargedOnce'
  <2> SUFFICES ASSUME LoopInv, ChargedOnce, [Next]_vars PROVE ChargedOnce'
    OBVIOUS
  <2>1. TypeOK /\ Stage /\ Latest /\ Threading /\ Charges
    BY DEF LoopInv
  <2>2. OneOf
    BY <2>1, Effects
  <2>3. ChargedOnce' <=> requested'.total = Cardinality(ChargedKeys')
    BY DEF ChargedOnce, ChargedKeys, Charged
  <2>4. CASE UNCHANGED limitVars
    BY <1>1, <2>3, <2>4 DEF limitVars, ChargedKeys, Charged
  <2>5. CASE Charging
    <3> DEFINE h == Here(cursor)
    <3>1. /\ h \in Keys /\ ~Charged(h) /\ charge'[h].total = requested.total + 1
          /\ requested'.total = requested.total + 1
          /\ \A j \in Keys : j # h => charge'[j] = charge[j]
      BY <2>1, <2>5, ChargingEffect
    <3>2. requested.total \in Nat
      BY <2>1, ChargeType
    <3> HIDE DEF h
    <3>3. charge'[h].total > 0
      BY <3>1, <3>2
    <3>4. ChargedKeys' = ChargedKeys \cup {h} /\ h \notin ChargedKeys
      BY <3>1, <3>3 DEF ChargedKeys, Charged
    <3>5. IsFiniteSet(ChargedKeys)
      BY KeysFinite, FS_Subset DEF ChargedKeys
    <3>6. Cardinality(ChargedKeys') = Cardinality(ChargedKeys) + 1
      BY <3>4, <3>5, FS_AddElement
    <3> QED BY <1>1, <2>3, <3>1, <3>6
  <2> QED BY <2>1, <2>2, <2>4, <2>5, ChargingStep DEF Asks
<1> QED BY <1>2, <1>3, LoopInvariant, PTL DEF Spec

\* Unless run() raised, the caller is told of every callable that was entered, and
\* is told of a success only if the callable ran to its end.
THEOREM EffectsReportedHolds == Spec => []EffectsReported
<1>1. LoopInv => EffectsReported
  <2> SUFFICES ASSUME LoopInv, pc \in {"request", "paused", "returned"}, reason # "exception"
               PROVE  /\ \A k \in EnteredKeys : results[k] \in Executed
                      /\ \A k \in Keys : results[k] = "ok" => entered[k] > 0 /\ thread[k] = "done"
    BY DEF EffectsReported
  <2>1. TypeOK /\ Threading /\ Reported
    BY DEF LoopInv
  <2>2. ASSUME NEW k \in EnteredKeys PROVE results[k] \in Executed
    <3>1. k \in Keys /\ thread[k] # "idle"
      BY EnteredOnce DEF EnteredKeys
    <3>2. ~Ahead(k)
      BY <2>1, <3>1 DEF Threading
    <3>3. Over(k)
      <4>1. k[1] \in Nat /\ step \in Nat
        BY <2>1, <3>1, KeyType, RoundType
      <4> QED BY <3>2, <4>1 DEF Ahead, Over
    <3> QED BY <2>1, <3>1, <3>3 DEF Reported
  <2>3. ASSUME NEW k \in Keys, results[k] = "ok" PROVE entered[k] > 0 /\ thread[k] = "done"
    BY <2>1, <2>3 DEF Reported
  <2> QED BY <2>2, <2>3
<1> QED BY <1>1, LoopInvariant, PTL

\* Without approval, a run that ends normally has shown the LLM what it executed.
THEOREM ExecutionsFedBackHolds == Spec => []ExecutionsFedBack
<1>1. LoopInv => ExecutionsFedBack
  <2> SUFFICES ASSUME LoopInv, pc = "returned", reason \in {"completed", "max_steps_exceeded"},
                      ~config.require_tool_approval, NEW k \in EnteredKeys
               PROVE  k[1] + 1 \in Steps /\ requests[k[1] + 1] = 1
    BY DEF ExecutionsFedBack
  <2>1. TypeOK /\ Stage /\ AskedOnce /\ Threading
    BY DEF LoopInv
  <2>2. k \in Keys /\ thread[k] # "idle"
    BY EnteredOnce DEF EnteredKeys
  <2>3. ~Ahead(k)
    BY <2>1, <2>2 DEF Threading
  <2>4. /\ k[1] \in Nat /\ step \in Nat /\ config.max_steps \in 1 .. StepBound
        /\ StepBound \in Nat /\ config.max_steps \in Nat
    BY <2>1, <2>2, KeyType, RoundType, LoopLimits
  <2>5. k[1] < step /\ step < config.max_steps
    BY <2>1, <2>3, <2>4 DEF Ahead, Stage, Asking
  <2>6. k[1] + 1 \in Steps
    BY <2>4, <2>5 DEF Steps
  <2>7. k[1] + 1 <= step /\ k[1] + 1 < config.max_steps
    BY <2>4, <2>5
  <2>8. \/ k[1] + 1 < step
        \/ k[1] + 1 = step /\ k[1] + 1 < config.max_steps /\ pc # "request"
    BY <2>4, <2>7
  <2> QED BY <2>1, <2>6, <2>8 DEF AskedOnce
<1> QED BY <1>1, LoopInvariant, PTL

\* As long as the application leaves the registry alone, only parallel safe tools
\* run at the same time, and only offered ones run at all.
THEOREM StableRegistryRespectedHolds == Spec => []StableRegistryRespected
<1>1. LoopInv => StableRegistryRespected
  <2> SUFFICES ASSUME LoopInv, overwrites = 0
               PROVE  /\ ParallelOnlySafe
                      /\ \A k \in EnteredKeys : CallAt(k).name \in Offered
    BY DEF StableRegistryRespected
  <2>1. TypeOK /\ Stage /\ Stable
    BY DEF LoopInv
  <2>2. ASSUME NEW k \in EnteredKeys PROVE CallAt(k).name \in Offered
    <3>1. k \in Keys /\ entered[k] = 1
      BY EnteredOnce DEF EnteredKeys
    <3> QED BY <2>1, <3>1 DEF Stable
  <2>3. ASSUME NEW j \in Keys, NEW k \in Keys, Concurrent(j, k)
        PROVE  ParallelSafe(CallAt(j).name)
    <3>1. /\ j # k /\ pc = "await" /\ j[1] = step /\ k[1] = step
          /\ j[2] \in waiting /\ k[2] \in waiting
      BY <2>3 DEF Concurrent, Awaited
    <3>2. j[2] # k[2]
      BY <2>1, <3>1, KeyType
    <3>3. parallel
      BY <2>1, <3>1, <3>2 DEF Stage
    <3>4. ParallelSafe(calls[j[2]].name)
      BY <2>1, <3>1, <3>3 DEF Stable
    <3> QED BY <3>1, <3>4 DEF CallAt, calls
  <2> QED BY <2>2, <2>3 DEF ParallelOnlySafe
<1> QED BY <1>1, LoopInvariant, PTL

\* Every LLM request carries each assistant message with exactly one result per
\* tool call, in call order.
THEOREM HistoryPairedHolds == Spec => []HistoryPaired
<1>1. LoopInv => HistoryPaired
  BY DEF LoopInv, Messages, Paired, HistoryPaired
<1> QED BY <1>1, LoopInvariant, PTL

\* No callable is entered after its timeout was reported, during a pause or after
\* run() returned: only while the loop waits for that call.
THEOREM NoLateStartHolds == Spec => NoLateStart
<1>1. LoopInv /\ [Next]_vars =>
        [\A k \in Keys : entered'[k] # entered[k] => Awaited(k)]_entered
  <2> SUFFICES ASSUME LoopInv, [Next]_vars, NEW k \in Keys, entered'[k] # entered[k]
               PROVE  Awaited(k)
    OBVIOUS
  <2>1. TypeOK /\ Stage /\ Latest /\ Threading
    BY DEF LoopInv
  <2>2. OneOf
    BY <2>1, Effects
  <2>3. thread[k] = "queued"
    BY <2>1, <2>2, EnteredStep
  <2> QED BY <2>1, <2>3 DEF Threading
<1> QED BY <1>1, LoopInvariant, PTL DEF Spec, NoLateStart
=============================================================================
