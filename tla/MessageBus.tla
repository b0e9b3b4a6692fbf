----------------------------- MODULE MessageBus -----------------------------
(***************************************************************************)
(* Mailbox messaging: NativeIPCBus (src/ipc.rs), the receive loops of      *)
(* AgentProcess (kernel/process.py) and of the hosts in main.py, PID       *)
(* routing by ProcessRegistry.route_ipc_message, and the start, kill and   *)
(* cleanup paths that register and unregister mailboxes.                   *)
(*                                                                         *)
(* A mailbox is a tokio channel registered under a name.  recv_message     *)
(* starts a tokio task that waits for the channel and then completes an    *)
(* asyncio future.  The tasks of a channel wait for its mutex, which is    *)
(* fair: they take turns in the order in which they came.                  *)
(* asyncio.wait_for cancels the future when it expires but not the task,   *)
(* which stays in line: a stale task.                                      *)
(*                                                                         *)
(* Python code runs on one event loop under the GIL, so a call into the    *)
(* bus is one step.  Agents and hosts are numbered in the order in which   *)
(* they were created, which for agents is the order of their PIDs; the     *)
(* first ones are the hosts, which the process registry does not know.  A  *)
(* channel has the number of the agent or host it was created for.         *)
(***************************************************************************)
EXTENDS Naturals, Sequences, FiniteSets, SequencesExt

CONSTANTS
  Names,         \* mailbox names, numbers so that they are ordered
  Hosts,         \* names of the mailboxes the runtime registers at boot
  Capabilities,  \* capabilities each name declares
  Capacity,      \* buffer_size of every mailbox
  MaxAgents,     \* bound on the hosts and agents ever created
  MaxSent,       \* bound on the messages ever accepted
  MaxExpired,    \* bound on the receives that expire
  MaxKills       \* bound on the kill() calls on one agent at a time

Agents == 1 .. MaxAgents
Nobody == 0
Stale == 0
Ids == 1 .. MaxSent
Cap == UNION {Capabilities[n] : n \in Names}

ASSUME BusAssumption ==
  /\ Names \subseteq Nat \ {0} /\ IsFiniteSet(Names)
  /\ Hosts = 1 .. Cardinality(Hosts) /\ Hosts \subseteq Names
  /\ Cap \cap Names = {}
  /\ Capacity \in Nat \ {0}
  /\ MaxAgents \in Nat /\ Hosts \subseteq Agents
  /\ MaxSent \in Nat /\ MaxExpired \in Nat /\ MaxKills \in Nat

VARIABLES
  name,       \* the name of each agent
  state,      \* ProcessRecord.state; hosts are always running
  task,       \* the asyncio task of each agent: ProcessRecord.task
  killing,    \* kill() calls on each agent that have not finished
  resources,  \* agents with ProcessRecord.resources_registered
  by_name,    \* ProcessRegistry._by_name
  created,    \* hosts and agents created so far
  box,        \* NativeIPCBus.senders and receivers: the channel of a name
  queue,      \* the messages in each channel
  line,       \* whose futures the tasks of each channel are to complete
  future,     \* the future each agent awaits
  scheduled,  \* the message with which that future is being completed, or 0
  stack,      \* the calls each agent is in
  expired,    \* receives that expired
  \* History variables: nothing below is read by an action.
  sent,       \* accepted messages; the position of a message is its id
  received,   \* the messages each agent got, in order
  lost,       \* messages that were dropped
  cancelled,  \* futures of each channel that were cancelled
  robbed      \* mailboxes removed by a start that had not created them

registryVars == <<name, state, task, killing, resources, by_name, created>>
busVars == <<box, queue, line>>
futureVars == <<future, scheduled>>
agentVars == <<stack, expired>>
history == <<sent, received, lost, cancelled, robbed>>
vars == <<registryVars, busVars, futureVars, agentVars, history>>

Kinds == {"request", "response", "raw"}

Init ==
  /\ name = [a \in Agents |-> IF a \in Hosts THEN a ELSE 0]
  /\ state = [a \in Agents |-> IF a \in Hosts THEN "running" ELSE "unused"]
  /\ task = [a \in Agents |-> IF a \in Hosts THEN "running" ELSE "none"]
  /\ killing = [a \in Agents |-> 0]
  /\ resources = {}
  /\ by_name = [n \in Names |-> Nobody]
  /\ created = Cardinality(Hosts)
  /\ box = [n \in Names |-> IF n \in Hosts THEN n ELSE Nobody]
  /\ queue = [c \in Agents |-> <<>>]
  /\ line = [c \in Agents |-> <<>>]
  /\ future = [a \in Agents |-> "none"]
  /\ scheduled = [a \in Agents |-> 0]
  /\ stack = [a \in Agents |-> <<>>]
  /\ expired = 0
  /\ sent = <<>>
  /\ received = [a \in Agents |-> <<>>]
  /\ lost = {}
  /\ cancelled = [c \in Agents |-> 0]
  /\ robbed = {}

-----------------------------------------------------------------------------
(* Control of an agent: an empty stack is the main loop of run(); a frame  *)
(* is an on_message (or on_start, id 0; on_stop is the end of the last     *)
(* call), a request that waits for its response, or a receive.             *)

Call(call, m) == [call |-> call, id |-> m]
Top(a) == Last(stack[a])
In(a, call) == stack[a] # <<>> /\ Top(a).call = call
Push(a, frame) == [stack EXCEPT ![a] = Append(@, frame)]
Pop(a) == [stack EXCEPT ![a] = Front(@)]

\* User code is executing.
Executing(a) == task[a] = "running" /\ In(a, "on_message")

\* About to call recv_message.  The main loop looks at stop_event first.
AtReceive(a) ==
  /\ task[a] = "running" /\ future[a] = "none"
  /\ IF stack[a] = <<>> THEN state[a] = "running" ELSE ~ In(a, "on_message")

\* Future.cancel by asyncio.wait_for or with the task that awaits it: the task
\* in line becomes stale, and a set_result that is already scheduled fails.
CancelFuture(a) ==
  /\ line' = [c \in Agents |->
                [i \in DOMAIN line[c] |->
                  IF line[c][i] = a THEN Stale ELSE line[c][i]]]
  /\ lost' = lost \cup ({scheduled[a]} \ {0})
  /\ cancelled' = [c \in Agents |-> cancelled[c] +
        (IF \/ a \in ToSet(line[c])
            \/ scheduled[a] # 0 /\ sent[scheduled[a]].at = c
         THEN 1 ELSE 0)]
  /\ future' = [future EXCEPT ![a] = "none"]
  /\ scheduled' = [scheduled EXCEPT ![a] = 0]

-----------------------------------------------------------------------------
(* Lifecycle: ProcessRegistry registers and unregisters mailboxes.         *)

\* _run_path_in_process; on_start runs first.
Start(n) ==
  /\ created < MaxAgents /\ by_name[n] = Nobody /\ box[n] = Nobody
  /\ LET a == created + 1
     IN  /\ created' = a
         /\ name' = [name EXCEPT ![a] = n]
         /\ state' = [state EXCEPT ![a] = "running"]
         /\ task' = [task EXCEPT ![a] = "running"]
         /\ resources' = resources \cup {a}
         /\ by_name' = [by_name EXCEPT ![n] = a]
         /\ box' = [box EXCEPT ![n] = a]
         /\ stack' = Push(a, Call("on_message", 0))
  /\ UNCHANGED <<killing, queue, line, futureVars, expired, history>>

\* unregister_mailbox drops the sender, which closes the channel, and the
\* receiver unless a task still holds it.  If all the tasks are stale nobody can
\* tell what they still take from the channel: they end, and its messages with
\* them.
Unregister(n) ==
  /\ box' = [box EXCEPT ![n] = Nobody]
  /\ IF box[n] = Nobody \/ ToSet(line[box[n]]) \ {Stale} # {}
     THEN UNCHANGED <<queue, line, lost>>
     ELSE /\ lost' = lost \cup ToSet(queue[box[n]])
          /\ queue' = [queue EXCEPT ![box[n]] = <<>>]
          /\ line' = [line EXCEPT ![box[n]] = <<>>]

\* register_mailbox raises because the name is taken by a mailbox the registry
\* does not know, and _rollback_startup_locked unregisters that name.
StartRolledBack(n) ==
  /\ created < MaxAgents /\ by_name[n] = Nobody /\ box[n] # Nobody
  /\ created' = created + 1
  /\ Unregister(n)
  /\ robbed' = robbed \cup {box[n]}
  /\ UNCHANGED <<name, state, task, killing, resources, by_name, futureVars,
                 agentVars, sent, received, cancelled>>

\* The first section of kill() that holds the lock.  Until its children have been
\* killed the process goes on.
Kill(a) ==
  /\ a \notin Hosts /\ state[a] \in {"running", "stopping"}
  /\ killing[a] < MaxKills
  /\ killing' = [killing EXCEPT ![a] = @ + 1]
  /\ state' = [state EXCEPT ![a] = "stopping"]
  /\ UNCHANGED <<name, task, resources, by_name, created, busVars, futureVars,
                 agentVars, history>>

\* The coroutine is gone, its calls end and the future it awaits is cancelled.
Unwind(a, how) ==
  /\ task' = [task EXCEPT ![a] = how]
  /\ stack' = [stack EXCEPT ![a] = <<>>]
  /\ CancelFuture(a)

\* kill() cancels the task, in whatever it is doing.
CancelTask(a) ==
  /\ killing[a] > 0 /\ task[a] \in {"running", "exiting"}
  /\ Unwind(a, "done")
  /\ UNCHANGED <<name, state, killing, resources, by_name, created, box, queue,
                 expired, sent, received, robbed>>

\* The main loop sees stop_event and run() returns.
LoopEnds(a) ==
  /\ task[a] = "running" /\ stack[a] = <<>> /\ future[a] = "none"
  /\ state[a] = "stopping"
  /\ Unwind(a, "done")
  /\ UNCHANGED <<name, state, killing, resources, by_name, created, box, queue,
                 expired, sent, received, robbed>>

\* User code raises (on_stop, too, when kill() has cancelled the task), or
\* recv_message does because there is no such mailbox: run() raises and
\* _run_process records a crash, of a process that is being killed too.  The
\* hosts of main.py catch everything.
Crash(a) ==
  /\ a \notin Hosts
  /\ \/ Executing(a)
     \/ AtReceive(a) /\ box[name[a]] = Nobody
     \/ task[a] = "running" /\ killing[a] > 0
  /\ state' = [state EXCEPT ![a] = "crashed"]
  /\ Unwind(a, "exiting")
  /\ UNCHANGED <<name, killing, resources, by_name, created, box, queue, expired,
                 sent, received, robbed>>

\* _cleanup_locked: the name is given up whoever has it by now.
CleanupLocked(a) ==
  /\ by_name' = [by_name EXCEPT ![name[a]] = Nobody]
  /\ IF a \in resources THEN Unregister(name[a])
     ELSE UNCHANGED <<busVars, lost>>
  /\ resources' = resources \ {a}

\* The finally block of _run_process.
TerminalCleanup(a) ==
  /\ task[a] = "exiting"
  /\ task' = [task EXCEPT ![a] = "done"]
  /\ CleanupLocked(a)
  /\ UNCHANGED <<name, state, killing, created, futureVars, agentVars, sent,
                 received, cancelled, robbed>>

\* The last section of kill().
KillEnds(a) ==
  /\ killing[a] > 0 /\ task[a] = "done"
  /\ killing' = [killing EXCEPT ![a] = @ - 1]
  /\ state' = [state EXCEPT ![a] = "killed"]
  /\ CleanupLocked(a)
  /\ UNCHANGED <<name, task, created, futureVars, agentVars, sent, received,
                 cancelled, robbed>>

-----------------------------------------------------------------------------
(* Sending. *)

\* Mutant: off by one.
HasRoomOneMore(c) == Len(queue[c]) <= Capacity

\* try_send on the bounded channel
HasRoom(c) == Len(queue[c]) < Capacity

\* send_message accepts a message into a channel.
Accept(c, message) ==
  /\ Len(sent) < MaxSent /\ HasRoom(c)
  /\ sent' = Append(sent, message)
  /\ queue' = [queue EXCEPT ![c] = Append(@, Len(sent) + 1)]

\* resolve_delivery: a mailbox of that name, else the first agent in name order
\* that has the capability and a mailbox.  Capabilities are registered and
\* removed together with mailboxes.
Resolve(receiver) ==
  IF receiver \in Names THEN box[receiver]
  ELSE LET able == {n \in Names : receiver \in Capabilities[n] /\ box[n] # Nobody}
       IN  IF able = {} THEN Nobody
           ELSE box[CHOOSE n \in able : \A k \in able : n <= k]

\* The control plane (stdin, orchestrator, hosts) posts a message that is not in
\* the structured protocol, to a name or a capability.
Post(receiver) ==
  LET c == Resolve(receiver)
  IN  /\ c # Nobody
      /\ Accept(c, [src |-> 0, dst |-> 0, kind |-> "raw", corr |-> 0, at |-> c])
      /\ UNCHANGED <<registryVars, box, line, futureVars, agentVars, received,
                     lost, cancelled, robbed>>

\* Mutant: the state of the target is not checked.
RoutableAnyState(b) == b \notin Hosts /\ state[b] # "unused" /\ box[name[b]] # Nobody

\* route_ipc_message: the target has a record and is alive, and the bus knows
\* its name.  Anything else is answered with an error and changes nothing.
Routable(b) == b \notin Hosts /\ state[b] = "running" /\ box[name[b]] # Nobody

\* Addressed by PID, delivered by name.
Route(a, b, kind, corr) ==
  LET c == box[name[b]]
  IN  /\ Executing(a) /\ a \notin Hosts /\ state[a] = "running" /\ Routable(b)
      /\ Accept(c, [src |-> a, dst |-> b, kind |-> kind, corr |-> corr, at |-> c])
      /\ UNCHANGED <<registryVars, box, line, futureVars, expired, received,
                     lost, cancelled, robbed>>

\* AgentProcess.send
Send(a, b) == Route(a, b, "request", Len(sent) + 1) /\ UNCHANGED stack

\* AgentProcess.request, up to the first receive
Request(a, b) ==
  /\ Route(a, b, "request", Len(sent) + 1)
  /\ stack' = Push(a, Call("request", Len(sent) + 1))

\* AgentProcess.reply to the message on_message is handling
Reply(a) ==
  /\ Executing(a) /\ Top(a).id # 0
  /\ LET m == sent[Top(a).id]
     IN  m.kind = "request" /\ Route(a, m.src, "response", m.corr)
  /\ UNCHANGED stack

-----------------------------------------------------------------------------
(* Receiving. *)

\* recv_message starts a task for the channel that has the name now.
Listen(a) ==
  /\ AtReceive(a) /\ box[name[a]] # Nobody
  /\ line' = [line EXCEPT ![box[name[a]]] = Append(@, a)]
  /\ future' = [future EXCEPT ![a] = "pending"]
  /\ UNCHANGED <<registryVars, box, queue, scheduled, agentVars, history>>

\* AgentProcess.receive called by user code
CallReceive(a) ==
  /\ Executing(a) /\ a \notin Hosts
  /\ stack' = Push(a, Call("receive", 0))
  /\ UNCHANGED <<registryVars, busVars, futureVars, expired, history>>

\* Mutant: the message is read but left in the channel.
RestPeeked(c) == queue[c]

\* Mutant: what a stale task got goes back to the end of the channel.
RestPutBack(c) ==
  IF Head(line[c]) = Stale THEN Append(Tail(queue[c]), Head(queue[c]))
  ELSE Tail(queue[c])

\* receiver.recv(): the channel is first in, first out.
Rest(c) == Tail(queue[c])

\* Mutant: the task goes on to the next message.
LineAfterLoop(c) == line[c]

\* A task serves one recv_message call and ends.
LineAfter(c) == Tail(line[c])

\* schedule_future_result: set_result is scheduled on the event loop, unless the
\* future was cancelled; then the message is dropped.
Complete(c) ==
  IF Head(line[c]) = Stale
  THEN lost' = lost \cup {Head(queue[c])} /\ UNCHANGED futureVars
  ELSE /\ future' = [future EXCEPT ![Head(line[c])] = "message"]
       /\ scheduled' = [scheduled EXCEPT ![Head(line[c])] = Head(queue[c])]
       /\ UNCHANGED lost

\* The first task in line gets the next message.
Take(c) ==
  /\ line[c] # <<>> /\ queue[c] # <<>>
  /\ Complete(c)
  /\ queue' = [queue EXCEPT ![c] = Rest(c)]
  /\ line' = [line EXCEPT ![c] = LineAfter(c)]
  /\ UNCHANGED <<registryVars, box, agentVars, sent, received, cancelled, robbed>>

Open(c) == \E n \in Names : box[n] = c

\* The first task in line finds a closed, empty channel:
\* schedule_future_exception.
TakeNone(c) ==
  /\ ~ Open(c) /\ line[c] # <<>> /\ queue[c] = <<>>
  /\ future' = IF Head(line[c]) = Stale THEN future
               ELSE [future EXCEPT ![Head(line[c])] = "error"]
  /\ line' = [line EXCEPT ![c] = Tail(@)]
  /\ UNCHANGED <<registryVars, box, queue, scheduled, agentVars, history>>

\* The last owner of the receiver of a closed channel is gone.
DropChannel(c) ==
  /\ ~ Open(c) /\ line[c] = <<>> /\ queue[c] # <<>>
  /\ lost' = lost \cup ToSet(queue[c])
  /\ queue' = [queue EXCEPT ![c] = <<>>]
  /\ UNCHANGED <<registryVars, box, line, futureVars, agentVars, sent, received,
                 cancelled, robbed>>

\* A request returns its own response and a receive returns any message; else
\* the message goes to on_message, which may be nested in a request.
StackAfter(a, m) ==
  IF \/ In(a, "receive")
     \/ /\ In(a, "request")
        /\ sent[m].kind = "response" /\ sent[m].corr = Top(a).id
  THEN Pop(a) ELSE Push(a, Call("on_message", m))

\* The future completes with a message.  One that does not parse makes the run()
\* of an agent raise.
Receive(a) ==
  /\ future[a] = "message"
  /\ received' = [received EXCEPT ![a] = Append(@, scheduled[a])]
  /\ future' = [future EXCEPT ![a] = "none"]
  /\ scheduled' = [scheduled EXCEPT ![a] = 0]
  /\ IF sent[scheduled[a]].kind = "raw" /\ a \notin Hosts
     THEN /\ state' = [state EXCEPT ![a] = "crashed"]
          /\ task' = [task EXCEPT ![a] = "exiting"]
          /\ stack' = [stack EXCEPT ![a] = <<>>]
     ELSE /\ stack' = StackAfter(a, scheduled[a])
          /\ UNCHANGED <<state, task>>
  /\ UNCHANGED <<name, killing, resources, by_name, created, busVars, expired,
                 sent, lost, cancelled, robbed>>

\* The future completes with an exception: an agent crashes, a host goes on.
ReceiveFails(a) ==
  /\ future[a] = "error"
  /\ future' = [future EXCEPT ![a] = "none"]
  /\ IF a \in Hosts THEN UNCHANGED <<state, task, stack>>
     ELSE /\ state' = [state EXCEPT ![a] = "crashed"]
          /\ task' = [task EXCEPT ![a] = "exiting"]
          /\ stack' = [stack EXCEPT ![a] = <<>>]
  /\ UNCHANGED <<name, killing, resources, by_name, created, busVars, scheduled,
                 expired, history>>

\* on_start or on_message returns to the loop that called it.
Return(a) ==
  /\ Executing(a)
  /\ stack' = Pop(a)
  /\ UNCHANGED <<registryVars, busVars, futureVars, expired, history>>

\* asyncio.wait_for expires.  The main loop receives again; a request returns a
\* timeout error and a receive raises TimeoutError.
Expire(a) ==
  /\ future[a] # "none" /\ expired < MaxExpired
  /\ expired' = expired + 1
  /\ stack' = IF stack[a] = <<>> THEN stack ELSE Pop(a)
  /\ CancelFuture(a)
  /\ UNCHANGED <<registryVars, box, queue, sent, received, robbed>>

\* The deadline of a request has passed while on_message was nested in it.
DeadlinePassed(a) ==
  /\ AtReceive(a) /\ In(a, "request")
  /\ stack' = Pop(a)
  /\ UNCHANGED <<registryVars, busVars, futureVars, expired, history>>

-----------------------------------------------------------------------------
Next ==
  \/ \E n \in Names : Start(n) \/ StartRolledBack(n)
  \/ \E receiver \in Names \cup Cap : Post(receiver)
  \/ \E c \in Agents : Take(c) \/ TakeNone(c) \/ DropChannel(c)
  \/ \E a, b \in Agents : Send(a, b) \/ Request(a, b)
  \/ \E a \in Agents :
       \/ Kill(a) \/ CancelTask(a) \/ LoopEnds(a) \/ Crash(a)
       \/ TerminalCleanup(a) \/ KillEnds(a)
       \/ Reply(a) \/ Listen(a) \/ CallReceive(a) \/ Receive(a)
       \/ ReceiveFails(a) \/ Return(a) \/ Expire(a) \/ DeadlinePassed(a)

Spec == Init /\ [][Next]_vars

-----------------------------------------------------------------------------
(* Properties. *)

Message == [src : Agents \cup {0}, dst : Agents \cup {0}, kind : Kinds,
            corr : Ids \cup {0}, at : Agents]
Frame == [call : {"on_message", "request", "receive"}, id : Ids \cup {0}]

\* Every variable has its type, and no mailbox holds more than its capacity.
TypeOK ==
  /\ name \in [Agents -> Names \cup {0}]
  /\ state \in [Agents -> {"unused", "running", "stopping", "crashed", "killed"}]
  /\ task \in [Agents -> {"none", "running", "exiting", "done"}]
  /\ killing \in [Agents -> 0 .. MaxKills]
  /\ resources \subseteq Agents /\ robbed \subseteq Agents
  /\ by_name \in [Names -> Agents \cup {Nobody}]
  /\ box \in [Names -> Agents \cup {Nobody}]
  /\ created \in 0 .. MaxAgents
  /\ queue \in [Agents -> Seq(Ids)] /\ line \in [Agents -> Seq(Agents \cup {Stale})]
  /\ stack \in [Agents -> Seq(Frame)] /\ received \in [Agents -> Seq(Ids)]
  /\ \A c \in Agents : Len(queue[c]) <= Capacity
  /\ future \in [Agents -> {"none", "pending", "message", "error"}]
  /\ scheduled \in [Agents -> Ids \cup {0}]
  /\ expired \in 0 .. MaxExpired /\ cancelled \in [Agents -> Nat]
  /\ sent \in Seq(Message) /\ Len(sent) <= MaxSent /\ lost \subseteq Ids

\* Whatever stale tasks, time-outs, nested requests and re-registrations there
\* are, an agent gets messages in the order in which the bus accepted them, and
\* none of them twice.
ReceivedInOrder ==
  \A a \in Agents : \A i, j \in DOMAIN received[a] :
    i < j => received[a][i] < received[a][j]

\* A message routed to a PID is received by that process only, never by its
\* replacement, although route_ipc_message finds the mailbox by name.  The one
\* exception is a process whose mailbox a failed start has removed.
OnlyTheAddressee ==
  robbed = {} =>
    \A a \in Agents : \A i \in DOMAIN received[a] :
      sent[received[a][i]].dst \in {0, a}

\* The price of a time-out: while a channel is open, each future on it that was
\* cancelled has either cost one message or left a stale task that will, and
\* nothing else loses messages.
ExpiryCostsOneMessage ==
  \A c \in Agents : Open(c) =>
    cancelled[c] = Cardinality({i \in DOMAIN line[c] : line[c][i] = Stale})
                     + Cardinality({m \in lost : sent[m].at = c})

\* Every accepted message is in exactly one place: in its channel, on its way to
\* one future, received by one agent, or dropped.
Accounted ==
  \A m \in DOMAIN sent :
    LET queued == IF m \in ToSet(queue[sent[m].at]) THEN 1 ELSE 0
        onTheWay == Cardinality({a \in Agents : scheduled[a] = m})
        got == Cardinality({a \in Agents : m \in ToSet(received[a])})
        dropped == IF m \in lost THEN 1 ELSE 0
    IN  queued + onTheWay + got + dropped = 1

\* "`on_message(message)` | A structured IPC message arrives"
\* (docs/sdk_quickstart.md:73): a structured message the bus accepted is not
\* dropped while the process it is for is running.
ArrivedIsNotDropped ==
  \A m \in lost : sent[m].dst # 0 => state[sent[m].dst] # "running"

\* "Remove any partial registrations created before startup committed"
\* (kernel/process.py:1195): no mailbox is taken from a running process.
RollbackRemovesOnlyItsOwn ==
  [][\A n \in Names : box[n] # Nobody /\ box'[n] = Nobody
       => state'[box[n]] # "running"]_box
=============================================================================
