---------------------------- MODULE Supervision ----------------------------
(***************************************************************************)
(* The supervision trees of kernel/process.py: starting, killing and       *)
(* restarting processes that run as tasks of the event loop or isolated in *)
(* an operating system process of their own (kernel/process_runner.py).    *)
(*                                                                         *)
(* The registry's coroutines run one at a time and give way only where     *)
(* they wait: for a backoff, for a task they cancelled, for a thread that  *)
(* joins or hears from an operating system process.  Its lock is never     *)
(* held across such a point, so it excludes nothing.  A coroutine is a     *)
(* stack of frames, one for each call of kill(), of the handler of ended   *)
(* processes and of a start; busy holds the task that is between two       *)
(* waits, and no other task moves until it waits again.                    *)
(*                                                                         *)
(* Time passes less than restart_window_seconds.  The registry is called   *)
(* from one task, the shell's, inside which external agents run too.       *)
(***************************************************************************)
EXTENDS Naturals, Sequences, SequencesExt, FiniteSets, Lists

CONSTANTS
  Roots,         \* the trees a run may begin with
  Specs,         \* the programs that may be spawned later
  MaxRestarts,   \* max_restarts of a supervisor
  Backoff,       \* whether restart_backoff_seconds is positive
  MaxEnds,       \* bound on processes that crash or exit by themselves
  MaxCalls,      \* bound on what is requested from the shell
  MaxFaults      \* bound on starts that are refused or not heard of in time

\* What a file declares, as far as supervision goes.  Names are numbers.
Programs ==
  [name : Nat, mode : {"in_process", "isolated"},
   policy : {"permanent", "transient", "temporary"},
   strategy : {"one_for_one", "one_for_all", "rest_for_one"}]

\* Processes that were started, of which none has ended yet: each is in the list
\* of the one it was started by, and their names differ.
Tree(pr) ==
  /\ pr \in Seq([spec : Programs, parent : Nat, supervisor : Nat,
                 kids : Seq(Nat), state : {"running"}, os : {"none", "alive"},
                 charged : {0}, escalated : {FALSE}])
  /\ \A p \in DOMAIN pr :
       /\ pr[p].parent \in {0} \cup DOMAIN pr
       /\ pr[p].supervisor = pr[p].parent
       /\ pr[p].os = "alive" <=> pr[p].spec.mode = "isolated"
       /\ ToSet(pr[p].kids) = {q \in DOMAIN pr : pr[q].parent = p}
       /\ \A q \in DOMAIN pr : pr[q].spec.name = pr[p].spec.name => q = p

ConstantsAssumption ==
  /\ \A pr \in Roots : Tree(pr)
  /\ Specs \subseteq Programs
  /\ MaxRestarts \in Nat
ASSUME ConstantsAssumption

VARIABLES
  proc,       \* the processes, by pid: ProcessRecord
  stack,      \* the frames of each task: 0 is the shell, p the task of pid p
  busy,       \* the task that is running, if any
  result,     \* what the last call returned: "ok" or "raised"
  by_name,    \* _by_name; 0 if there is no such process
  ends, calls, faults,
  \* History variables: nothing below is read by an action.
  restarts,   \* the restarts that supervisors decided, each with its cause
  crossed,    \* a process began, failed or was killed while it was being killed
  dropped     \* a restart was given up that no supervisor was told of

counters == <<ends, calls, faults>>
history == <<restarts, crossed, dropped>>
vars == <<proc, stack, busy, result, by_name, counters, history>>

Pids == DOMAIN proc
Shell == 0
Up(p) == p # 0 /\ proc[p].state \in {"starting", "running"}
Over == {"killed", "crashed", "exited"}

\* A process as _run_path makes it.  One that is isolated has no record until
\* its operating system process has reported: it is "unborn".
Process(spec, parent, state, os) ==
  [spec |-> spec, parent |-> parent, supervisor |-> parent, kids |-> <<>>,
   state |-> state, os |-> os, charged |-> 0, escalated |-> FALSE]

NoSpec == [name |-> 0, mode |-> "none", policy |-> "none", strategy |-> "none"]
Frame(op, pid, at, todo) ==
  [op |-> op, pid |-> pid, at |-> at, todo |-> todo, auto |-> FALSE,
   parent |-> 0, new |-> 0, spec |-> NoSpec]
Kill(p, auto) == [Frame("kill", p, "enter", <<>>) EXCEPT !.auto = auto]
Handle(p, pr) == Frame("handle", p, "kids", pr[p].kids)
Start(parent, old, spec) ==
  [Frame("start", old, "enter", <<>>) EXCEPT !.parent = parent, !.spec = spec]
Body(at) == <<Frame("body", 0, at, <<>>)>>

Top(t) == Last(stack[t])
At(t, op, at) == stack[t] # <<>> /\ Top(t).op = op /\ Top(t).at = at
With(t, f) == Append(Front(stack[t]), f)
Moved(t, at) == With(t, [Top(t) EXCEPT !.at = at])

\* Task t runs on; only t may, if one is running.
Runs(t) == busy = {t}
Wakes(t) == busy = {}

Continue(t, frames) == stack' = [stack EXCEPT ![t] = frames] /\ busy' = {t}
Wait(t, frames) == stack' = [stack EXCEPT ![t] = frames] /\ busy' = {}
Call(t, at, f) == Continue(t, Append(Moved(t, at), f))
Return(t, r) ==
  /\ stack' = [stack EXCEPT ![t] = Front(@)]
  /\ busy' = IF Len(stack[t]) = 1 THEN {} ELSE {t}
  /\ result' = IF Len(stack[t]) = 1 THEN "ok" ELSE r

Init ==
  /\ proc \in Roots
  /\ stack = [t \in 0 .. Len(proc) |-> IF t = Shell THEN <<>> ELSE Body("run")]
  /\ LET names == {proc[p].spec.name : p \in Pids}
     IN by_name = [n \in names \cup {s.name : s \in Specs} |->
          IF n \in names THEN CHOOSE p \in Pids : proc[p].spec.name = n ELSE 0]
  /\ busy = {} /\ result = "ok"
  /\ ends = 0 /\ calls = 0 /\ faults = 0
  /\ restarts = {} /\ crossed = FALSE /\ dropped = FALSE

-----------------------------------------------------------------------------
(* The records *)

Without(s, p) == Those(s, ToSet(s) \ {p})

\* _unlink_child_locked
Unlink(pr, p) ==
  LET q == pr[p].parent
  IN IF q = 0 THEN pr
     ELSE [pr EXCEPT ![q].kids = Without(@, p), ![p].parent = 0]

\* _link_child_locked
Link(pr, q, p) ==
  IF q = 0 THEN pr
  ELSE [pr EXCEPT ![p].parent = q, ![p].supervisor = q,
                  ![q].kids = IF p \in ToSet(@) THEN @ ELSE Append(@, p)]

\* _restart_child: the new process takes the place of the old one in the
\* list, or the last place if the old one has left it.
Replace(pr, q, old, new) ==
  IF old = 0 THEN pr
  ELSE LET kids == pr[q].kids
           others == Without(kids, new)
       IN [pr EXCEPT ![q].kids =
             IF old \in ToSet(kids)
             THEN [i \in DOMAIN others |->
                     IF others[i] = old THEN new ELSE others[i]]
             ELSE Append(others, new)]

-----------------------------------------------------------------------------
(* The tasks of the processes: _run_process and _monitor_child *)

\* Mutant: a supervisor that ends leaves its children alone.
EndLeavingChildren(p, state) ==
  /\ proc' = [proc EXCEPT ![p].state = state, ![p].kids = <<>>,
                          ![p].os = IF @ = "alive" THEN "dead" ELSE @]
  /\ by_name' = [by_name EXCEPT ![proc[p].spec.name] = 0]
  /\ stack' = [stack EXCEPT ![p] = <<Frame("handle", p, "kids", <<>>)>>]
  /\ busy' = {p}

\* The process is over: its registrations go, then the handler runs.
End(p, state) ==
  /\ proc' = [proc EXCEPT ![p].state = state,
                          ![p].os = IF @ = "alive" THEN "dead" ELSE @]
  /\ by_name' = [by_name EXCEPT ![proc[p].spec.name] = 0]
  /\ stack' = [stack EXCEPT ![p] = <<Handle(p, proc)>>]
  /\ busy' = {p}

\* The task's first step, which does not look at the state it overwrites.
Begin(p) ==
  /\ Wakes(p) /\ At(p, "body", "new")
  /\ proc' = [proc EXCEPT ![p].state = "running"]
  /\ crossed' = (crossed \/ proc[p].state = "stopping")
  /\ Wait(p, Body("run"))
  /\ UNCHANGED <<result, by_name, counters, restarts, dropped>>

\* run() raises, or the operating system process dies or reports a crash.
\* A monitor no longer looks once a kill has begun.
Crash(p) ==
  /\ Wakes(p) /\ At(p, "body", "run") /\ ends < MaxEnds /\ ends' = ends + 1
  /\ proc[p].spec.mode = "isolated" => proc[p].state = "running"
  /\ crossed' = (crossed \/ proc[p].state = "stopping")
  /\ End(p, "crashed")
  /\ UNCHANGED <<result, calls, faults, restarts, dropped>>

\* run() returns.  During a kill that is no exit.
Exit(p) ==
  /\ Wakes(p) /\ At(p, "body", "run") /\ ends < MaxEnds /\ ends' = ends + 1
  /\ IF Up(p) THEN End(p, "exited")
     ELSE Wait(p, <<>>) /\ UNCHANGED <<proc, by_name>>
  /\ UNCHANGED <<result, calls, faults, history>>

\* A cancelled task ends.
Stop(p) ==
  /\ Wakes(p) /\ At(p, "body", "cancelled")
  /\ Wait(p, <<>>)
  /\ UNCHANGED <<proc, result, by_name, counters, history>>

\* A cancelled process fails in on_stop().
StopFails(p) ==
  /\ Wakes(p) /\ At(p, "body", "cancelled") /\ proc[p].spec.mode = "in_process"
  /\ ends < MaxEnds /\ ends' = ends + 1
  /\ crossed' = TRUE
  /\ End(p, "crashed")
  /\ UNCHANGED <<result, calls, faults, restarts, dropped>>

\* Mutant: the task is told to stop, but not cancelled.
CancelNothing(st, p) == st

\* What task.cancel() does to the frames of a task.  A body gets to clean up;
\* one that has not begun never does.  A wait inside a call is broken off, and
\* every frame with it, except that kill() swallows the cancellation while it
\* waits for a task, to which the cancellation is passed on.
Cancel(st, p) ==
  LET waits(u) == /\ st[u] # <<>>
                  /\ Last(st[u]).op = "kill" /\ Last(st[u]).at = "await"
      q == IF waits(p) THEN Last(st[p]).pid ELSE p
      cleans == Last(st[q]).op = "body" /\ Last(st[q]).at # "new"
  IN IF st[q] = <<>> \/ waits(q) THEN st
     ELSE [st EXCEPT ![q] = IF cleans THEN Body("cancelled") ELSE <<>>]

-----------------------------------------------------------------------------
(* kill *)

KillEnter(t) ==
  /\ Runs(t) /\ At(t, "kill", "enter")
  /\ LET p == Top(t).pid
     IN IF proc[p].state \in Over \cup {"unborn"}
        THEN Return(t, "raised") /\ UNCHANGED <<proc, crossed>>
        ELSE /\ proc' = [proc EXCEPT ![p].state = "stopping"]
             /\ Continue(t, With(t, [Top(t) EXCEPT !.at = "kids",
                                                   !.todo = proc[p].kids]))
             /\ crossed' = (crossed \/ proc[p].state = "stopping")
             /\ UNCHANGED result
  /\ UNCHANGED <<by_name, counters, restarts, dropped>>

\* The children first, and what their kill raises is suppressed.
KillChild(t) ==
  /\ Runs(t) /\ At(t, "kill", "kids") /\ Top(t).todo # <<>>
  /\ Continue(t, Append(With(t, [Top(t) EXCEPT !.todo = Tail(@)]),
                        Kill(Head(Top(t).todo), FALSE)))
  /\ UNCHANGED <<proc, result, by_name, counters, history>>

\* The task is cancelled and awaited.
CancelTask(t, p) ==
  IF stack[p] = <<>> THEN Continue(t, Moved(t, "finish"))
  ELSE /\ stack' = [Cancel(stack, p) EXCEPT ![t] = Moved(t, "await")]
       /\ busy' = {}

KillTask(t) ==
  /\ Runs(t) /\ At(t, "kill", "kids") /\ Top(t).todo = <<>>
  /\ IF proc[Top(t).pid].spec.mode = "isolated" THEN Wait(t, Moved(t, "join"))
     ELSE CancelTask(t, Top(t).pid)
  /\ result' = "ok"
  /\ UNCHANGED <<proc, by_name, counters, history>>

\* The operating system process has stopped, or was terminated.
KillJoined(t) ==
  /\ Wakes(t) /\ At(t, "kill", "join")
  /\ proc' = [proc EXCEPT ![Top(t).pid].os = "dead"]
  /\ CancelTask(t, Top(t).pid)
  /\ UNCHANGED <<result, by_name, counters, history>>

KillAwaited(t) ==
  /\ Wakes(t) /\ At(t, "kill", "await") /\ stack[Top(t).pid] = <<>>
  /\ Continue(t, Moved(t, "finish"))
  /\ UNCHANGED <<proc, result, by_name, counters, history>>

\* The name is freed, whoever has it by now.  A child killed on request is
\* restarted by its supervisor, whatever its policy.
KillFinish(t) ==
  /\ Runs(t) /\ At(t, "kill", "finish")
  /\ LET p == Top(t).pid
         q == proc[p].parent
         over == [proc EXCEPT ![p].state = "killed", ![p].kids = <<>>]
     IN /\ by_name' = [by_name EXCEPT ![proc[p].spec.name] = 0]
        /\ IF Top(t).auto /\ Up(q)
           THEN /\ proc' = over
                /\ Call(t, "restarted", Start(q, p, proc[p].spec))
                /\ UNCHANGED result
           ELSE proc' = Unlink(over, p) /\ Return(t, "ok")
  /\ UNCHANGED <<counters, history>>

KillRestarted(t) ==
  /\ Runs(t) /\ At(t, "kill", "restarted")
  /\ IF result = "raised" THEN Return(t, "raised") /\ UNCHANGED proc
     ELSE IF proc[Top(t).pid].spec.mode = "in_process"
     THEN Wait(t, Moved(t, "yield")) /\ UNCHANGED <<proc, result>>
     ELSE proc' = Unlink(proc, Top(t).pid) /\ Return(t, "ok")
  /\ dropped' = (dropped \/ result = "raised")
  /\ UNCHANGED <<by_name, counters, restarts, crossed>>

KillYielded(t) ==
  /\ Wakes(t) /\ At(t, "kill", "yield")
  /\ proc' = Unlink(proc, Top(t).pid) /\ Return(t, "ok")
  /\ UNCHANGED <<by_name, counters, history>>

-----------------------------------------------------------------------------
(* _handle_terminal_process *)

HandleChild(t) ==
  /\ Runs(t) /\ At(t, "handle", "kids") /\ Top(t).todo # <<>>
  /\ Continue(t, Append(With(t, [Top(t) EXCEPT !.todo = Tail(@)]),
                        Kill(Head(Top(t).todo), FALSE)))
  /\ UNCHANGED <<proc, result, by_name, counters, history>>

\* _affected_children_locked
Affected(q, p) ==
  LET kids == proc[q].kids
  IN IF p \notin ToSet(kids) THEN <<p>>
     ELSE CASE
       proc[q].spec.strategy = "one_for_all" -> kids
       [] proc[q].spec.strategy = "rest_for_one" ->
            SubSeq(kids, CHOOSE i \in DOMAIN kids : kids[i] = p, Len(kids))
       [] OTHER -> <<p>>

\* Mutant: a transient child that exited is restarted.
PolicyAllowsExit(c, abnormal) == proc[c].spec.policy # "temporary"

\* _restart_policy_allows
PolicyAllows(c, abnormal) ==
  \/ proc[c].spec.policy = "permanent"
  \/ proc[c].spec.policy = "transient" /\ abnormal

\* Mutant: the budget counts failures, not the restarts each asks for.
BudgetAllowsFailure(q, n) == proc[q].charged < MaxRestarts

\* _restart_budget_allows
BudgetAllows(q, n) == proc[q].charged + n <= MaxRestarts

\* What to do is decided, and charged, before the first restart.
HandleDecide(t) ==
  /\ Runs(t) /\ At(t, "handle", "kids") /\ Top(t).todo = <<>>
  /\ LET p == Top(t).pid
         q == proc[p].parent
         bare == [c \in Pids |->
           [proc[c] EXCEPT !.kids = IF c = p THEN <<>> ELSE @,
                           !.parent = IF c \in ToSet(proc[p].kids) THEN 0 ELSE @]]
         candidates == Those(Affected(q, p),
           {c \in Pids : PolicyAllows(c, proc[p].state = "crashed")})
     IN IF ~ Up(q) THEN proc' = bare /\ Return(t, "ok")
        ELSE IF candidates = <<>>
        THEN proc' = Unlink(bare, p) /\ Return(t, "ok")
        ELSE IF ~ BudgetAllows(q, Len(candidates))
        THEN /\ proc' = Unlink([bare EXCEPT ![q].escalated = TRUE], p)
             /\ Return(t, "ok")
        ELSE /\ proc' = [bare EXCEPT ![q].charged = @ + Len(candidates)]
             /\ Continue(t, With(t, [Top(t) EXCEPT !.at = "next", !.parent = q,
                                                   !.todo = candidates]))
             /\ UNCHANGED result
  /\ UNCHANGED <<by_name, counters, history>>

HandleNext(t) ==
  /\ Runs(t) /\ At(t, "handle", "next") /\ Top(t).todo # <<>>
  /\ IF Backoff THEN Wait(t, Moved(t, "backoff"))
     ELSE Continue(t, Moved(t, "check"))
  /\ UNCHANGED <<proc, result, by_name, counters, history>>

HandleDone(t) ==
  /\ Runs(t) /\ At(t, "handle", "next") /\ Top(t).todo = <<>>
  /\ Return(t, "ok")
  /\ UNCHANGED <<proc, by_name, counters, history>>

HandleWakes(t) ==
  /\ Wakes(t) /\ At(t, "handle", "backoff")
  /\ Continue(t, Moved(t, "check"))
  /\ UNCHANGED <<proc, result, by_name, counters, history>>

\* The supervisor may be gone by now, or the child: then the rest of the
\* restarts is given up.
HandleCheck(t) ==
  /\ Runs(t) /\ At(t, "handle", "check")
  /\ LET c == Head(Top(t).todo)
         q == Top(t).parent
     IN /\ IF ~ Up(q) \/ proc[c].parent # q THEN Return(t, "ok")
           ELSE /\ UNCHANGED result
                /\ IF proc[c].state \in {"starting", "running", "stopping"}
                   THEN Call(t, "restart", Kill(c, FALSE))
                   ELSE Continue(t, Moved(t, "restart"))
        /\ dropped' = (dropped \/ proc[c].parent # q)
  /\ UNCHANGED <<proc, by_name, counters, restarts, crossed>>

HandleRestart(t) ==
  /\ Runs(t) /\ At(t, "handle", "restart")
  /\ LET c == Head(Top(t).todo)
     IN IF ~ Up(Top(t).parent) THEN Return(t, "ok") /\ UNCHANGED restarts
        ELSE /\ Call(t, "restarted", Start(Top(t).parent, c, proc[c].spec))
             /\ restarts' = restarts \cup
                  {[by |-> Top(t).parent, child |-> c, failed |-> Top(t).pid]}
             /\ UNCHANGED result
  /\ UNCHANGED <<proc, by_name, counters, crossed, dropped>>

HandleRestarted(t) ==
  /\ Runs(t) /\ At(t, "handle", "restarted")
  /\ IF result = "ok"
     THEN /\ Continue(t, With(t, [Top(t) EXCEPT !.at = "next",
                                                !.todo = Tail(@)]))
          /\ UNCHANGED <<proc, result>>
     ELSE /\ proc' = [proc EXCEPT ![Top(t).parent].escalated = TRUE]
          /\ Return(t, "ok")
  /\ UNCHANGED <<by_name, counters, history>>

-----------------------------------------------------------------------------
(* _run_path, in process and isolated, for spawn_child and _restart_child *)

\* Mutant: nobody looks whether the name is taken.
MayRegisterTwice(f) == f.parent = 0 \/ Up(f.parent)

\* _validate_parent_running_locked, and the name must be free.
MayRegister(f) ==
  (f.parent = 0 \/ Up(f.parent)) /\ by_name[f.spec.name] = 0

\* What a start that fails means to its caller: spawn_child marks the parent.
Failed(t, pr) ==
  /\ proc' = IF Top(t).pid # 0 \/ Top(t).parent = 0 THEN pr
             ELSE [pr EXCEPT ![Top(t).parent].escalated = TRUE]
  /\ Return(t, "raised")

StartInProcess(t) ==
  /\ Runs(t) /\ At(t, "start", "enter") /\ Top(t).spec.mode = "in_process"
  /\ LET f == Top(t)
         new == Len(proc) + 1
         born == Append(proc, Process(f.spec, f.parent, "starting", "none"))
     IN IF ~ MayRegister(f) THEN Failed(t, proc) /\ UNCHANGED by_name
        ELSE /\ proc' = Replace(Link(born, f.parent, new), f.parent, f.pid, new)
             /\ by_name' = [by_name EXCEPT ![f.spec.name] = new]
             /\ stack' = [u \in 0 .. new |->
                  IF u = new THEN Body("new")
                  ELSE IF u = t THEN Front(stack[t]) ELSE stack[u]]
             /\ busy' = IF Len(stack[t]) = 1 THEN {} ELSE {t}
             /\ result' = "ok"
  /\ UNCHANGED <<counters, history>>

\* The file is gone by now, or what it has become does not load or declares
\* what no process may.
StartRefused(t) ==
  /\ Runs(t) /\ At(t, "start", "enter")
  /\ faults < MaxFaults /\ faults' = faults + 1
  /\ Failed(t, proc)
  /\ UNCHANGED <<by_name, ends, calls, history>>

\* The operating system process is started before the supervisor and the name
\* are looked at.
StartIsolated(t) ==
  /\ Runs(t) /\ At(t, "start", "enter") /\ Top(t).spec.mode = "isolated"
  /\ LET new == Len(proc) + 1
     IN /\ proc' = Append(proc, Process(Top(t).spec, 0, "unborn", "alive"))
        /\ stack' = [u \in 0 .. new |->
             IF u = new THEN <<>>
             ELSE IF u # t THEN stack[u]
             ELSE With(t, [Top(t) EXCEPT !.at = "wait", !.new = new])]
        /\ busy' = {}
  /\ UNCHANGED <<result, by_name, counters, history>>

\* "ready" arrives.
StartReady(t) ==
  /\ Wakes(t) /\ At(t, "start", "wait")
  /\ LET f == Top(t)
         born == [proc EXCEPT ![f.new].state = "running"]
         linked == Link(born, f.parent, f.new)
     IN IF ~ MayRegister(f)
        THEN Wait(t, Moved(t, "abort")) /\ UNCHANGED <<proc, by_name, result>>
        ELSE /\ proc' = Replace(linked, f.parent, f.pid, f.new)
             /\ by_name' = [by_name EXCEPT ![f.spec.name] = f.new]
             /\ stack' = [stack EXCEPT ![f.new] = Body("run"), ![t] = Front(@)]
             /\ busy' = IF Len(stack[t]) = 1 THEN {} ELSE {t}
             /\ result' = "ok"
  /\ UNCHANGED <<counters, history>>

\* startup_timeout_seconds pass, or the message is not understood.
StartTimeout(t) ==
  /\ Wakes(t) /\ At(t, "start", "wait")
  /\ faults < MaxFaults /\ faults' = faults + 1
  /\ Wait(t, Moved(t, "abort"))
  /\ UNCHANGED <<proc, result, by_name, ends, calls, history>>

\* _stop_child
Stopped(pr, p) == [pr EXCEPT ![p].os = "dead"]

StartAborted(t) ==
  /\ Wakes(t) /\ At(t, "start", "abort")
  /\ Failed(t, Stopped(proc, Top(t).new))
  /\ UNCHANGED <<by_name, counters, history>>

\* "crashed" arrives instead of "ready".
StartCrashes(t) ==
  /\ Wakes(t) /\ At(t, "start", "wait") /\ ends < MaxEnds /\ ends' = ends + 1
  /\ Wait(t, Moved(t, "crashed"))
  /\ UNCHANGED <<proc, result, by_name, calls, faults, history>>

\* The crash is recorded and handled as that of a child that had started,
\* inside the start itself; that of a new root is raised.
StartCrashed(t) ==
  /\ Wakes(t) /\ At(t, "start", "crashed")
  /\ LET f == Top(t)
         dead == [Stopped(proc, f.new) EXCEPT ![f.new].state = "crashed"]
     IN IF f.parent = 0
        THEN /\ proc' = Stopped(proc, f.new)
             /\ Wait(t, Moved(t, "abort")) /\ UNCHANGED result
        ELSE IF Up(f.parent)
        THEN /\ proc' = Link(dead, f.parent, f.new)
             /\ Call(t, "handled", Handle(f.new, proc)) /\ UNCHANGED result
        ELSE proc' = Replace(dead, f.parent, f.pid, f.new) /\ Return(t, "ok")
  /\ UNCHANGED <<by_name, counters, history>>

StartHandled(t) ==
  /\ Runs(t) /\ At(t, "start", "handled")
  /\ proc' = Replace(proc, Top(t).parent, Top(t).pid, Top(t).new)
  /\ Return(t, "ok")
  /\ UNCHANGED <<by_name, counters, history>>

-----------------------------------------------------------------------------

\* A kill from the shell, or a terminate_child.
ShellKill(p) ==
  /\ busy = {} /\ stack[Shell] = <<>> /\ calls < MaxCalls /\ calls' = calls + 1
  /\ Continue(Shell, <<Kill(p, TRUE)>>)
  /\ UNCHANGED <<proc, result, by_name, ends, faults, history>>

\* spawn_child
ShellSpawn(p, spec) ==
  /\ busy = {} /\ stack[Shell] = <<>> /\ Up(p)
  /\ calls < MaxCalls /\ calls' = calls + 1
  /\ Continue(Shell, <<Start(p, 0, spec)>>)
  /\ UNCHANGED <<proc, result, by_name, ends, faults, history>>

\* run_path
ShellRun(spec) ==
  /\ busy = {} /\ stack[Shell] = <<>> /\ calls < MaxCalls /\ calls' = calls + 1
  /\ Continue(Shell, <<Start(0, 0, [spec EXCEPT !.policy = "permanent"])>>)
  /\ UNCHANGED <<proc, result, by_name, ends, faults, history>>

-----------------------------------------------------------------------------
(* run_external_project: the agent has a record, but no task of its own *)

ShellExternal(spec) ==
  /\ spec.mode = "in_process"
  /\ busy = {} /\ stack[Shell] = <<>> /\ calls < MaxCalls /\ calls' = calls + 1
  /\ LET new == Len(proc) + 1
         agent == [spec EXCEPT !.mode = "external", !.policy = "temporary"]
     IN IF by_name[spec.name] # 0 THEN UNCHANGED <<proc, stack, by_name>>
        ELSE /\ proc' = Append(proc, Process(agent, 0, "running", "none"))
             /\ by_name' = [by_name EXCEPT ![spec.name] = new]
             /\ stack' = [u \in 0 .. new |->
                  CASE u = new -> <<>>
                    [] u = Shell -> <<Frame("external", new, "run", <<>>)>>
                    [] OTHER -> stack[u]]
  /\ UNCHANGED <<busy, result, ends, faults, history>>

\* on_start() may spawn a child; that it does so at most once is a bound.
ExternalSpawns(t, spec) ==
  /\ Wakes(t) /\ At(t, "external", "run")
  /\ Call(t, "spawned", Start(Top(t).pid, 0, spec))
  /\ UNCHANGED <<proc, result, by_name, counters, history>>

ExternalGoesOn(t) ==
  /\ Runs(t) /\ At(t, "external", "spawned")
  /\ Wait(t, Moved(t, "last"))
  /\ UNCHANGED <<proc, result, by_name, counters, history>>

\* on_stop() returns, or either raises.  Nothing is done about its children.
ExternalEnds(t, state) ==
  /\ Wakes(t) /\ (At(t, "external", "run") \/ At(t, "external", "last"))
  /\ ends < MaxEnds /\ ends' = ends + 1
  /\ LET p == Top(t).pid
     IN /\ proc' = [proc EXCEPT ![p].state = state]
        /\ by_name' = [by_name EXCEPT ![proc[p].spec.name] = 0]
  /\ Return(t, "ok")
  /\ UNCHANGED <<calls, faults, history>>

-----------------------------------------------------------------------------

\* A task that runs goes on to its next wait.
Turn(t) ==
  \/ KillEnter(t) \/ KillChild(t) \/ KillTask(t) \/ KillFinish(t)
  \/ KillRestarted(t)
  \/ HandleChild(t) \/ HandleDecide(t) \/ HandleNext(t) \/ HandleDone(t)
  \/ HandleCheck(t) \/ HandleRestart(t) \/ HandleRestarted(t)
  \/ StartRefused(t) \/ StartInProcess(t) \/ StartIsolated(t)
  \/ StartHandled(t) \/ ExternalGoesOn(t)

\* A wait of a task ends.
Resume(t) ==
  \/ KillJoined(t) \/ KillAwaited(t) \/ KillYielded(t) \/ HandleWakes(t)
  \/ StartReady(t) \/ StartTimeout(t) \/ StartAborted(t)
  \/ StartCrashes(t) \/ StartCrashed(t)

Next ==
  \/ \E t \in busy : Turn(t)
  \/ \E t \in DOMAIN stack : Resume(t)
  \/ \E s \in Specs :
       ShellRun(s) \/ ShellExternal(s) \/ ExternalSpawns(Shell, s)
  \/ \E state \in {"exited", "crashed"} : ExternalEnds(Shell, state)
  \/ \E p \in Pids :
       \/ Begin(p) \/ Crash(p) \/ Exit(p) \/ Stop(p) \/ StopFails(p)
       \/ ShellKill(p) \/ \E s \in Specs : ShellSpawn(p, s)

\* The event loop goes on as long as a task can run, threads that join or
\* read a queue come back (both have a timeout), and a cancelled task ends.
Fairness == WF_vars(\/ \E t \in busy : Turn(t)
                    \/ \E t \in DOMAIN stack : Resume(t)
                    \/ \E p \in Pids : Begin(p) \/ Stop(p))

Spec == Init /\ [][Next]_vars /\ Fairness

-----------------------------------------------------------------------------

(* Properties *)

Live == {p \in Pids : proc[p].state \in {"starting", "running", "stopping"}}

TypeOK ==
  /\ \A p \in Pids :
       /\ proc[p].parent \in {0} \cup Pids
       /\ proc[p].supervisor \in {0} \cup Pids
       /\ ToSet(proc[p].kids) \subseteq Pids
       /\ p \in Live \/ proc[p].state \in Over \cup {"unborn"}
       /\ proc[p].os \in {"none", "alive", "dead"}
       /\ proc[p].charged \in 0 .. MaxRestarts /\ proc[p].escalated \in BOOLEAN
  /\ DOMAIN stack = {Shell} \cup Pids
  /\ \A t \in DOMAIN stack : \A i \in DOMAIN stack[t] :
       /\ stack[t][i].op \in {"body", "kill", "handle", "start", "external"}
       /\ stack[t][i].pid \in {0} \cup Pids
  /\ busy \subseteq DOMAIN stack /\ Cardinality(busy) <= 1
  /\ result \in {"ok", "raised"}
  /\ \A n \in DOMAIN by_name : by_name[n] \in {0} \cup Pids

\* No call is under way: every task is over or in its run(), the shell's
\* perhaps in an external agent.
AtRest ==
  /\ busy = {}
  /\ \A t \in DOMAIN stack :
       \/ stack[t] = <<>> \/ At(t, "body", "run")
       \/ At(t, "external", "run") \/ At(t, "external", "last")

\* Nobody stops the children of an external agent when it ends.
OfExternal(p) ==
  proc[p].supervisor # 0 /\ proc[proc[p].supervisor].spec.mode = "external"

\* However kills, failures, starts and backoffs of a tree interleave, once
\* they are done a supervised process that is still live is in the list of a
\* live supervisor, and no operating system process outlives its record,
\* those of failed, late and refused starts included.  That is so as long as
\* no process begins, fails or is killed again while a kill of it is under
\* way, and for all but the children of external agents.
NoOrphans ==
  AtRest /\ ~ crossed => \A p \in Pids :
    /\ p \in Live /\ proc[p].supervisor # 0 /\ ~ OfExternal(p) =>
         /\ proc[p].parent = proc[p].supervisor /\ Up(proc[p].parent)
         /\ p \in ToSet(proc[proc[p].parent].kids)
    /\ proc[p].os = "alive" => p \in Live

\* As long as no kill is crossed, _by_name names exactly the live processes at
\* all times, between the waits of calls that are under way too, so no
\* two of them share a name (and with it a mailbox), although supervisors,
\* kill() and spawn_child() all free and take names between their waits and
\* two handlers may restart the same child.
NamesSound ==
  ~ crossed => \A p \in Pids :
    p \in Live <=> by_name[proc[p].spec.name] = p

\* A supervisor restarts only what its children's policies and its strategy
\* ask for, and never more than max_restarts of them, although the budget is
\* checked and charged before the waits after which the restarts happen, and
\* several failures are handled at a time.
RestartsWarranted ==
  /\ \A r \in restarts :
       LET policy == proc[r.child].spec.policy
       IN /\ policy # "temporary"
          /\ policy = "transient" => proc[r.failed].state # "exited"
          /\ r.child = r.failed \/ proc[r.by].spec.strategy # "one_for_one"
  /\ \A q \in Pids : Cardinality({r \in restarts : r.by = q}) <= MaxRestarts

\* Every permanent process that is over runs again under its name, unless its
\* supervisor is gone too or has been escalated to.
Restored ==
  \A p \in Pids :
    LET q == proc[p].supervisor
    IN proc[p].state \in Over /\ proc[p].spec.policy = "permanent" /\ Up(q) =>
         by_name[proc[p].spec.name] # 0 \/ proc[q].escalated

\* When failures and calls cease, every task that waits for another comes to
\* an end, and every permanent process has been restarted or escalated.  The
\* exceptions are crossed kills, a kill() whose restart raised to its caller
\* and restarts given up because a sibling was unlinked in a backoff.
Supervised == <>[](AtRest /\ (crossed \/ dropped \/ Restored))
=============================================================================
