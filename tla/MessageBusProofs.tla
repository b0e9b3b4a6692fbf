-------------------------- MODULE MessageBusProofs --------------------------
(***************************************************************************)
(* What the message bus keeps true.  The inductive invariant BusInv has a  *)
(* part for the life of the agents and their mailboxes, one for the calls  *)
(* they are in, one for the futures, and the rest for the messages: where  *)
(* each is, in which order the channels hold and gave them, who may get    *)
(* them, and what was lost for which cancelled future.                     *)
(*                                                                         *)
(* For the messages a step has one of few effects, whatever caused it: see *)
(* Effects.                                                                *)
(***************************************************************************)
EXTENDS MessageBus, DataLemmas

\* The numbers, and the names.
LEMMA BusLimits ==
  /\ 0 \notin Names /\ Names \subseteq Nat /\ Hosts \subseteq Agents
  /\ Hosts \subseteq Names /\ Agents \subseteq Nat /\ 0 \notin Agents
  /\ MaxAgents \in Nat /\ MaxSent \in Nat /\ MaxExpired \in Nat /\ MaxKills \in Nat
  /\ Capacity \in Nat \ {0} /\ Nobody = 0 /\ Stale = 0
  /\ Cap \cap Names = {} /\ Ids \subseteq Nat /\ 0 \notin Ids
BY BusAssumption DEF Agents, Nobody, Stale, Ids

\* The hosts are the first.
LEMMA HostsFirst == Cardinality(Hosts) \in 0 .. MaxAgents /\ Hosts \subseteq 1 .. Cardinality(Hosts)
<1> DEFINE k == Cardinality(Hosts)
<1>1. IsFiniteSet(Hosts)
  BY BusAssumption, FS_Subset
<1>2. k \in Nat /\ Hosts = 1 .. k /\ Hosts \subseteq 1 .. MaxAgents /\ MaxAgents \in Nat
  BY <1>1, FS_CardinalityType, BusAssumption DEF Agents
<1> HIDE DEF k
<1>3. k <= MaxAgents
  <2>1. CASE k = 0
    BY <1>2, <2>1
  <2>2. CASE k # 0
    <3>1. k \in 1 .. k
      BY <1>2, <2>2
    <3> QED BY <1>2, <3>1
  <2> QED BY <2>1, <2>2
<1>4. k \in 0 .. MaxAgents
  BY <1>2, <1>3
<1> QED BY <1>2, <1>4 DEF k

-----------------------------------------------------------------------------
(* The inductive invariant *)

\* Agents and mailboxes: an open channel is that of the newest agent of its
\* name; before a mailbox is taken by a failed start, every agent with
\* resources has its own.
Alive(a) ==
  /\ a > created => name[a] = 0
  /\ name[a] = 0 => /\ task[a] = "none" /\ state[a] = "unused"
                    /\ a \notin resources /\ killing[a] = 0
  /\ a \in Hosts => name[a] = a /\ state[a] = "running" /\ a \notin resources
  /\ state[a] = "running" => task[a] = "running" /\ killing[a] = 0
  /\ task[a] \in {"running", "exiting"} => a \in Hosts \cup resources
Mailbox(n) ==
  box[n] # Nobody =>
    /\ name[box[n]] = n
    /\ \A a \in Agents : name[a] = n => a <= box[n]
Life ==
  /\ Hosts \subseteq 1 .. created
  /\ \A a \in Agents : Alive(a)
  /\ \A n \in Names : Mailbox(n)
  /\ robbed = {} => \A a \in Hosts \cup resources : box[name[a]] = a

\* Only an agent that runs awaits a future.
Awaiting == \A a \in Agents : future[a] # "none" => task[a] = "running"

\* The calls the agents are in are about messages, and requests have a sender.
Calls ==
  /\ \A m \in DOMAIN sent : sent[m].kind = "request" => sent[m].src \in Agents
  /\ \A a \in Agents : \A i \in DOMAIN stack[a] : stack[a][i].id \in 0 .. Len(sent)

\* A future is awaited by one task at most, and by none once it has a message.
Futures ==
  /\ \A c \in Agents : \A i \in DOMAIN line[c] :
       line[c][i] # Stale => future[line[c][i]] = "pending"
  /\ \A c, d \in Agents : \A i \in DOMAIN line[c], j \in DOMAIN line[d] :
       line[c][i] = line[d][j] /\ line[c][i] # Stale => c = d /\ i = j
  /\ \A a \in Agents : future[a] = "message" <=> scheduled[a] # 0

\* Every message is in one place.
Places ==
  /\ \A c \in Agents : \A m \in ToSet(queue[c]) :
       /\ m \in DOMAIN sent /\ sent[m].at = c /\ m \notin lost
       /\ \A a \in Agents : scheduled[a] # m /\ m \notin ToSet(received[a])
  /\ \A a \in Agents : scheduled[a] # 0 =>
       /\ scheduled[a] \in DOMAIN sent /\ scheduled[a] \notin lost
       /\ \A b \in Agents : /\ b # a => scheduled[b] # scheduled[a]
                            /\ scheduled[a] \notin ToSet(received[b])
  /\ \A a \in Agents : \A m \in ToSet(received[a]) :
       /\ m \in DOMAIN sent /\ m \notin lost
       /\ \A b \in Agents : b # a => m \notin ToSet(received[b])
  /\ lost \subseteq DOMAIN sent
  /\ \A m \in DOMAIN sent :
       \/ m \in ToSet(queue[sent[m].at]) \/ m \in lost
       \/ \E a \in Agents : scheduled[a] = m \/ m \in ToSet(received[a])

\* A channel is first in, first out, and the channels of a name follow each
\* other.
Channels ==
  /\ \A c \in Agents : \A i, j \in DOMAIN queue[c] :
       i < j => queue[c][i] < queue[c][j]
  /\ \A m \in DOMAIN sent : m \notin ToSet(queue[sent[m].at]) =>
       \A k \in ToSet(queue[sent[m].at]) : m < k
  /\ \A m \in DOMAIN sent :
       /\ name[sent[m].at] # 0
       /\ \A k \in DOMAIN sent :
            name[sent[m].at] = name[sent[k].at] /\ sent[m].at < sent[k].at => m < k

\* What an agent got comes from channels of its name, none of them newer than
\* the one it waits for, and precedes what it is about to get.
InOrder ==
  \A a \in Agents :
    /\ \A i, j \in DOMAIN received[a] : i < j => received[a][i] < received[a][j]
    /\ \A m \in ToSet(received[a]) : name[sent[m].at] = name[a]
    /\ scheduled[a] # 0 => /\ name[sent[scheduled[a]].at] = name[a]
                           /\ \A m \in ToSet(received[a]) : m < scheduled[a]
    /\ \A c \in Agents : a \in ToSet(line[c]) =>
         /\ name[a] # 0 /\ name[c] = name[a]
         /\ \A m \in ToSet(received[a]) : sent[m].at <= c

\* As long as no mailbox was taken, a message for an agent is in its own
\* channel, and agents wait for their own.
Addressed ==
  robbed = {} =>
    /\ \A m \in DOMAIN sent : sent[m].dst \in {0, sent[m].at}
    /\ \A a \in Agents :
         /\ \A c \in Agents : a \in ToSet(line[c]) => c = a
         /\ scheduled[a] # 0 => sent[scheduled[a]].at = a
         /\ \A m \in ToSet(received[a]) : sent[m].at = a

\* Each cancelled future of an open channel is in line or cost a message; a
\* channel that was never opened has none.
LostAt(c) == {m \in lost : sent[m].at = c}
Paid ==
  \A c \in Agents :
    /\ name[c] = 0 => line[c] = <<>> /\ cancelled[c] = 0
    /\ Open(c) => cancelled[c] = Count(line[c], Stale) + Cardinality(LostAt(c))

BusInv == /\ TypeOK /\ Life /\ Awaiting /\ Calls /\ Futures /\ Places /\ Channels
          /\ InOrder /\ Addressed /\ Paid

-----------------------------------------------------------------------------
(* The effects of a step on the messages *)

flow == <<sent, queue, line, future, scheduled, received, lost, cancelled>>

Opens ==
  \E a \in Agents, n \in Names :
    /\ name[a] = 0 /\ box[n] = Nobody
    /\ name' = [name EXCEPT ![a] = n] /\ box' = [box EXCEPT ![n] = a]
    /\ UNCHANGED <<flow, robbed>>

Accepts ==
  \E c \in Agents, message \in Message :
    /\ message.at = c /\ Open(c) /\ Accept(c, message)
    /\ robbed = {} => message.dst \in {0, c}
    /\ message.kind = "request" => message.src \in Agents
    /\ UNCHANGED <<line, futureVars, received, lost, cancelled, box, name, robbed>>

Cancels ==
  \E a \in Agents :
    CancelFuture(a) /\ UNCHANGED <<sent, queue, received, box, name, robbed>>

Closes ==
  \E n \in Names :
    /\ Unregister(n) /\ robbed \subseteq robbed'
    /\ UNCHANGED <<sent, futureVars, received, cancelled, name>>

Gets ==
  \E a \in Agents :
    /\ future[a] = "message"
    /\ received' = [received EXCEPT ![a] = Append(@, scheduled[a])]
    /\ future' = [future EXCEPT ![a] = "none"]
    /\ scheduled' = [scheduled EXCEPT ![a] = 0]
    /\ UNCHANGED <<sent, busVars, lost, cancelled, name, robbed>>

Fails ==
  \E a \in Agents :
    /\ future[a] = "error" /\ future' = [future EXCEPT ![a] = "none"]
    /\ UNCHANGED <<sent, busVars, scheduled, received, lost, cancelled, name, robbed>>

Effect ==
  \/ UNCHANGED <<flow, box, name, robbed>>
  \/ Opens \/ Accepts \/ Cancels \/ Closes \/ Gets \/ Fails
  \/ \E a \in Agents : Listen(a)
  \/ \E c \in Agents : Take(c) \/ TakeNone(c) \/ DropChannel(c)

\* The mailbox a message is delivered to is open.
LEMMA ResolveOpen ==
  ASSUME TypeOK, NEW r, Resolve(r) # Nobody
  PROVE  Resolve(r) \in Agents /\ Open(Resolve(r))
<1>0. box \in [Names -> Agents \cup {Nobody}]
  BY DEF TypeOK
<1>1. CASE r \in Names
  BY <1>0, <1>1 DEF Resolve, Open
<1>2. CASE r \notin Names
  <2> DEFINE able == {n \in Names : r \in Capabilities[n] /\ box[n] # Nobody}
  <2>1. able # {} /\ Resolve(r) = box[CHOOSE n \in able : \A k \in able : n <= k]
    BY <1>2 DEF Resolve
  <2>2. able \in SUBSET Nat /\ able \subseteq Names
    BY BusLimits
  <2>3. \A n \in able : box[n] # Nobody
    OBVIOUS
  <2> HIDE DEF able
  <2>4. \E n \in able : \A k \in able : n <= k
    BY <2>1, <2>2, LeastNumber
  <2> DEFINE x == CHOOSE n \in able : \A k \in able : n <= k
  <2>5. x \in able
    BY <2>4
  <2> HIDE DEF x
  <2>6. Resolve(r) = box[x]
    BY <2>1 DEF x
  <2> QED BY <1>0, <2>2, <2>3, <2>5, <2>6 DEF Open
<1> QED BY <1>1, <1>2

\* Route delivers to a channel that is open; to the addressee's own if no
\* mailbox was taken.
LEMMA RouteAccepts ==
  ASSUME TypeOK, Life, NEW a \in Agents, NEW b \in Agents, NEW k \in Kinds,
         NEW r \in Ids \cup {0}, Route(a, b, k, r)
  PROVE  Accepts
<1> DEFINE c == box[name[b]]
           message == [src |-> a, dst |-> b, kind |-> k, corr |-> r, at |-> c]
<1>1. /\ state[b] = "running" /\ b \notin Hosts /\ c # Nobody
      /\ Accept(c, message)
      /\ UNCHANGED <<line, futureVars, received, lost, cancelled, box, name, robbed>>
  BY DEF Route, Routable, registryVars
<1>2. task[b] = "running" /\ name[b] # 0
  BY <1>1, BusLimits DEF Life, Alive
<1>3. name[b] \in Names /\ c \in Agents
  BY <1>1, <1>2, BusLimits DEF TypeOK
<1>4. Open(c)
  BY <1>3 DEF Open
<1>5. robbed = {} => c = b
  BY <1>2 DEF Life, Alive
<1>6. message \in Message
  BY <1>3 DEF Message
<1>7. message.at = c /\ message.dst = b /\ message.src \in Agents
  OBVIOUS
<1> HIDE DEF message, c
<1>8. robbed = {} => message.dst \in {0, c}
  BY <1>5, <1>7
<1> QED BY <1>1, <1>3, <1>4, <1>6, <1>7, <1>8 DEF Accepts

\* The last frame of a stack.
LEMMA TopFrame ==
  ASSUME TypeOK, NEW a \in Agents, stack[a] # <<>>
  PROVE  /\ Len(stack[a]) \in DOMAIN stack[a] /\ Top(a) = stack[a][Len(stack[a])]
         /\ Top(a) \in Frame
         /\ Front(stack[a]) \in Seq(Frame)
         /\ \A i \in DOMAIN Front(stack[a]) :
              i \in DOMAIN stack[a] /\ Front(stack[a])[i] = stack[a][i]
<1>1. stack[a] \in Seq(Frame)
  BY DEF TypeOK
<1> DEFINE s == stack[a]
<1>2. Len(s) \in Nat \ {0} /\ DOMAIN s = 1 .. Len(s)
  BY <1>1
<1> HIDE DEF s
<1>3. Top(a) = s[Len(s)]
  BY DEF Top, Last, s
<1>4. /\ SubSeq(s, 1, Len(s) - 1) \in Seq(Frame)
      /\ Len(SubSeq(s, 1, Len(s) - 1)) = Len(s) - 1
      /\ \A i \in 1 .. Len(s) - 1 : SubSeq(s, 1, Len(s) - 1)[i] = s[i]
  <2>1. s \in Seq(Frame)
    BY <1>1 DEF s
  <2> QED BY <1>2, <2>1
<1> DEFINE f == SubSeq(s, 1, Len(s) - 1)
<1>5. Front(s) = f
  BY DEF Front
<1> HIDE DEF f
<1>6. DOMAIN f = 1 .. Len(s) - 1
  BY <1>4 DEF f
<1>7. \A i \in DOMAIN f : i \in DOMAIN s /\ f[i] = s[i]
  BY <1>2, <1>4, <1>6 DEF f
<1>8. s[Len(s)] \in Frame
  BY <1>1, <1>2 DEF s
<1> QED BY <1>2, <1>3, <1>4, <1>5, <1>7, <1>8 DEF f, s

\* A reply goes to the agent that sent the request.
LEMMA ReplyRoutes ==
  ASSUME TypeOK, Calls, NEW a \in Agents, Reply(a)
  PROVE  \E b \in Agents, r \in Ids \cup {0} : Route(a, b, "response", r)
<1>1. stack[a] # <<>> /\ Top(a).id # 0
  BY DEF Reply, Executing, In
<1>2. Top(a).id \in DOMAIN sent
  <2>1. Top(a).id \in 0 .. Len(sent)
    BY <1>1, TopFrame DEF Calls
  <2>2. sent \in Seq(Message)
    BY DEF TypeOK
  <2> QED BY <1>1, <2>1, <2>2
<1> DEFINE m == sent[Top(a).id]
<1>3. m \in Message
  <2>1. sent \in Seq(Message)
    BY DEF TypeOK
  <2> QED BY <1>2, <2>1
<1>4. m.kind = "request" /\ Route(a, m.src, "response", m.corr)
  BY DEF Reply
<1>5. m.src \in Agents
  BY <1>2, <1>4 DEF Calls
<1>6. m.corr \in Ids \cup {0}
  BY <1>3 DEF Message
<1> HIDE DEF m
<1> QED BY <1>4, <1>5, <1>6

\* Every step has one of these effects.
LEMMA Effects ==
  ASSUME TypeOK, Life, Calls, Next
  PROVE  Effect
<1>1. ASSUME NEW n \in Names, Start(n) PROVE Effect
  <2> DEFINE a == created + 1
  <2>1. a \in Agents /\ name[a] = 0
    BY <1>1, BusLimits DEF Start, TypeOK, Life, Alive, Agents
  <2>2. /\ name' = [name EXCEPT ![a] = n] /\ box' = [box EXCEPT ![n] = a]
        /\ box[n] = Nobody /\ UNCHANGED <<flow, robbed>>
    BY <1>1 DEF Start, flow, futureVars, history
  <2> HIDE DEF a
  <2>3. Opens
    BY <2>1, <2>2 DEF Opens
  <2> QED BY <2>3 DEF Effect
<1>2. ASSUME NEW n \in Names, StartRolledBack(n) PROVE Effect
  <2>1. Closes
    BY <1>2 DEF StartRolledBack, Closes, futureVars
  <2> QED BY <2>1 DEF Effect
<1>3. ASSUME NEW r \in Names \cup Cap, Post(r) PROVE Effect
  <2> DEFINE c == Resolve(r)
             message == [src |-> 0, dst |-> 0, kind |-> "raw", corr |-> 0, at |-> c]
  <2>1. /\ c # Nobody /\ Accept(c, message)
        /\ UNCHANGED <<line, futureVars, received, lost, cancelled, box, name, robbed>>
    BY <1>3 DEF Post, registryVars
  <2>2. c \in Agents /\ Open(c)
    BY <2>1, ResolveOpen
  <2>3. message \in Message /\ message.at = c /\ message.dst = 0 /\ message.kind # "request"
    BY <2>2 DEF Message, Kinds
  <2> HIDE DEF message, c
  <2>4. Accepts
    BY <2>1, <2>2, <2>3 DEF Accepts
  <2> QED BY <2>4 DEF Effect
<1>4. ASSUME NEW c \in Agents, Take(c) \/ TakeNone(c) \/ DropChannel(c) PROVE Effect
  BY <1>4 DEF Effect
<1>5. ASSUME NEW a \in Agents, NEW b \in Agents, Send(a, b) \/ Request(a, b)
      PROVE  Effect
  <2>1. Len(sent) < MaxSent /\ Len(sent) \in Nat
    BY <1>5 DEF Send, Request, Route, Accept, TypeOK
  <2>2. PICK r \in Ids : r = Len(sent) + 1
    BY <2>1, BusLimits DEF Ids
  <2>3. Route(a, b, "request", r)
    BY <1>5, <2>2 DEF Send, Request
  <2>4. Accepts
    BY <2>3, RouteAccepts DEF Kinds
  <2> QED BY <2>4 DEF Effect
<1>6. ASSUME NEW a \in Agents, Reply(a) PROVE Effect
  <2>1. PICK b \in Agents, r \in Ids \cup {0} : Route(a, b, "response", r)
    BY <1>6, ReplyRoutes
  <2>2. Accepts
    BY <2>1, RouteAccepts DEF Kinds
  <2> QED BY <2>2 DEF Effect
<1>7. ASSUME NEW a \in Agents,
             Kill(a) \/ CallReceive(a) \/ Return(a) \/ DeadlinePassed(a)
      PROVE  Effect
  BY <1>7 DEF Kill, CallReceive, Return, DeadlinePassed, Effect, flow, busVars,
              registryVars, futureVars, history
<1>8. ASSUME NEW a \in Agents, CancelTask(a) \/ LoopEnds(a) \/ Crash(a) \/ Expire(a)
      PROVE  Effect
  <2>1. Cancels
    BY <1>8 DEF CancelTask, LoopEnds, Crash, Expire, Unwind, Cancels, registryVars
  <2> QED BY <2>1 DEF Effect
<1>9. ASSUME NEW a \in Agents, TerminalCleanup(a) \/ KillEnds(a) PROVE Effect
  <2>1. task[a] \in {"exiting", "done"}
    BY <1>9 DEF TerminalCleanup, KillEnds
  <2>2. name[a] \in Names
    BY <2>1 DEF Life, Alive, TypeOK
  <2>3. /\ CleanupLocked(a)
        /\ UNCHANGED <<sent, futureVars, received, cancelled, name, robbed>>
    BY <1>9 DEF TerminalCleanup, KillEnds
  <2>4. CASE a \in resources
    <3>1. Closes
      BY <2>2, <2>3, <2>4 DEF CleanupLocked, Closes
    <3> QED BY <3>1 DEF Effect
  <2>5. CASE a \notin resources
    BY <2>3, <2>5 DEF CleanupLocked, Effect, flow, busVars, futureVars
  <2> QED BY <2>4, <2>5
<1>10. ASSUME NEW a \in Agents, Listen(a) PROVE Effect
  BY <1>10 DEF Effect
<1>11. ASSUME NEW a \in Agents, Receive(a) PROVE Effect
  <2>1. Gets
    BY <1>11 DEF Receive, Gets
  <2> QED BY <2>1 DEF Effect
<1>12. ASSUME NEW a \in Agents, ReceiveFails(a) PROVE Effect
  <2>1. Fails
    BY <1>12 DEF ReceiveFails, Fails, history
  <2> QED BY <2>1 DEF Effect
<1> QED BY <1>1, <1>2, <1>3, <1>4, <1>5, <1>6, <1>7, <1>8, <1>9, <1>10, <1>11,
           <1>12 DEF Next

-----------------------------------------------------------------------------
(* Agents and mailboxes *)

\* A step that leaves these alone.
LEMMA LifeUnchanged ==
  ASSUME Life, UNCHANGED <<name, state, task, killing, resources, created, box, robbed>>
  PROVE  Life'
BY DEF Life, Alive, Mailbox

\* A step that changes the state of one agent, not what it owns.
LEMMA LifeOfOne ==
  ASSUME TypeOK, Life, NEW a \in Agents,
         \A b \in Agents \ {a} :
           task'[b] = task[b] /\ state'[b] = state[b] /\ killing'[b] = killing[b],
         UNCHANGED <<name, resources, created, box, robbed>>, Alive(a)'
  PROVE  Life'
<1>1. ASSUME NEW b \in Agents PROVE Alive(b)'
  <2>1. CASE b = a
    BY <2>1
  <2>2. CASE b # a
    <3>1. Alive(b)
      BY DEF Life
    <3> QED BY <3>1, <2>2 DEF Alive
  <2> QED BY <2>1, <2>2
<1>2. \A n \in Names : Mailbox(n)'
  BY DEF Life, Mailbox
<1> QED BY <1>1, <1>2 DEF Life

\* An agent that ends, and still has its resources.
LEMMA LifeEnds ==
  ASSUME TypeOK, Life, NEW a \in Agents \ Hosts, task[a] = "running",
         task' = [task EXCEPT ![a] = "exiting"],
         state' = [state EXCEPT ![a] = "crashed"],
         UNCHANGED <<name, killing, resources, created, box, robbed>>
  PROVE  Life'
<1>1. Alive(a)
  BY DEF Life
<1>2. Alive(a)'
  BY <1>1 DEF Alive, TypeOK
<1>3. \A b \in Agents \ {a} :
        task'[b] = task[b] /\ state'[b] = state[b] /\ killing'[b] = killing[b]
  BY DEF TypeOK
<1> QED BY <1>2, <1>3, LifeOfOne

\* Names are given up, but never change.
LEMMA LifeCleanup ==
  ASSUME TypeOK, Life, NEW a \in Agents, task[a] \in {"exiting", "done"},
         task' = [task EXCEPT ![a] = "done"],
         \/ state' = state /\ killing' = killing
         \/ /\ state' = [state EXCEPT ![a] = "killed"] /\ killing[a] > 0
            /\ killing' = [killing EXCEPT ![a] = @ - 1],
         CleanupLocked(a), UNCHANGED <<name, created, robbed>>
  PROVE  Life'
<1>1. name[a] \in Names /\ a \notin Hosts /\ state[a] # "running"
  BY DEF Life, Alive, TypeOK
<1>2. /\ resources' = resources \ {a} /\ box \in [Names -> Agents \cup {Nobody}]
      /\ box' = IF a \in resources THEN [box EXCEPT ![name[a]] = Nobody] ELSE box
  BY DEF CleanupLocked, Unregister, busVars, TypeOK
<1>3. \A n \in Names : box'[n] # Nobody => box'[n] = box[n]
  BY <1>1, <1>2
<1>4. \A b \in Agents : state'[b] = "running" => state[b] = "running" /\ b # a /\ killing'[b] = killing[b]
  BY <1>1 DEF TypeOK
<1>5. \A b \in Agents : /\ b # a => task'[b] = task[b] /\ state'[b] = state[b]
                        /\ task'[a] = "done"
  BY DEF TypeOK
<1>6. ASSUME NEW b \in Agents PROVE Alive(b)'
  <2>0. Alive(b)
    BY DEF Life
  <2>1. CASE b = a
    <3>1. name[a] # 0 /\ task'[a] = "done" /\ state'[a] # "running"
      BY <1>1, <1>4, <1>5, BusLimits
    <3> QED BY <2>0, <2>1, <3>1, <1>1 DEF Alive
  <2>2. CASE b # a
    <3>1. task'[b] = task[b] /\ state'[b] = state[b] /\ killing'[b] = killing[b]
          /\ (b \in resources' <=> b \in resources)
      BY <2>2, <1>2, <1>5 DEF TypeOK
    <3> QED BY <2>0, <3>1 DEF Alive
  <2> QED BY <2>1, <2>2
<1>7. robbed' = {} => \A b \in Hosts \cup resources' : box'[name'[b]] = b
  <2> SUFFICES ASSUME robbed = {}, NEW b \in Hosts \cup resources'
               PROVE  box'[name[b]] = b
    OBVIOUS
  <2>1. b \in Agents /\ b # a /\ b \in Hosts \cup resources /\ box[name[b]] = b
    BY <1>1, <1>2, BusLimits DEF Life, TypeOK
  <2>2. CASE a \in resources
    <3>1. box[name[a]] = a
      BY <2>2 DEF Life
    <3>2. name[b] # name[a]
      BY <2>1, <3>1
    <3> QED BY <1>2, <2>1, <2>2, <3>2
  <2>3. CASE a \notin resources
    BY <1>2, <2>1, <2>3
  <2> QED BY <2>2, <2>3
<1>8. \A n \in Names : Mailbox(n)'
  BY <1>3 DEF Life, Mailbox
<1> QED BY <1>6, <1>7, <1>8 DEF Life

\* No step gives two agents one mailbox, lets a name outlive its agent's place
\* as the newest, or starts an agent twice.
LEMMA LifeStep ==
  ASSUME TypeOK, Life, Awaiting, Next
  PROVE  Life'
<1>1. ASSUME NEW n \in Names, Start(n) PROVE Life'
  <2> DEFINE a == created + 1
  <2>1. /\ a \in Agents /\ a > created /\ created \in Nat /\ a \notin Hosts
        /\ name[a] = 0 /\ n # 0 /\ a # 0
    BY <1>1, BusLimits DEF Start, TypeOK, Life, Alive, Agents
  <2>2. /\ created' = a /\ name' = [name EXCEPT ![a] = n]
        /\ state' = [state EXCEPT ![a] = "running"]
        /\ task' = [task EXCEPT ![a] = "running"]
        /\ resources' = resources \cup {a} /\ killing' = killing
        /\ box' = [box EXCEPT ![n] = a] /\ box[n] = Nobody /\ robbed' = robbed
    BY <1>1 DEF Start, history
  <2> HIDE DEF a
  <2>3. Hosts \subseteq 1 .. created'
    BY <2>1, <2>2 DEF Life, a
  <2>4. killing[a] = 0 /\ a \notin resources
    BY <2>1 DEF Life, Alive
  <2>5. ASSUME NEW b \in Agents PROVE Alive(b)'
    <3>1. CASE b = a
      <4>1. /\ name'[a] = n /\ task'[a] = "running" /\ state'[a] = "running"
            /\ a \in resources' /\ killing'[a] = 0
        BY <2>1, <2>2, <2>4 DEF TypeOK
      <4>2. ~ (a > created')
        BY <2>1, <2>2, BusLimits
      <4> QED BY <3>1, <4>1, <4>2, <2>1 DEF Alive
    <3>2. CASE b # a
      <4>0. Alive(b)
        BY DEF Life
      <4>1. /\ name'[b] = name[b] /\ task'[b] = task[b] /\ state'[b] = state[b]
            /\ (b \in resources' <=> b \in resources) /\ killing'[b] = killing[b]
        BY <2>2, <3>2 DEF TypeOK
      <4>2. b > created' => b > created
        BY <2>1, <2>2, BusLimits DEF a
      <4> QED BY <4>0, <4>1, <4>2 DEF Alive
    <3> QED BY <3>1, <3>2
  <2>6. ASSUME NEW k \in Names PROVE Mailbox(k)'
    <3>1. CASE k = n
      <4>1. box'[k] = a /\ name'[a] = n
        BY <3>1, <2>1, <2>2 DEF TypeOK
      <4>2. ASSUME NEW b \in Agents, name'[b] = k PROVE b <= a
        <5>1. CASE b = a
          BY <5>1, BusLimits
        <5>2. CASE b # a
          <6>1. name[b] # 0
            BY <4>2, <5>2, <2>1, <2>2, <3>1 DEF TypeOK
          <6>2. ~ (b > created)
            BY <6>1 DEF Life, Alive
          <6> QED BY <6>2, <2>1, BusLimits DEF Agents, a
        <5> QED BY <5>1, <5>2
      <4> QED BY <4>1, <4>2, <3>1 DEF Mailbox
    <3>2. CASE k # n
      <4> SUFFICES ASSUME box[k] # Nobody PROVE Mailbox(k)'
        BY <2>2, <3>2 DEF TypeOK, Mailbox
      <4>0. Mailbox(k)
        BY DEF Life
      <4>1. box'[k] = box[k] /\ box[k] \in Agents /\ name[box[k]] = k
        BY <2>2, <3>2, <4>0 DEF TypeOK, Mailbox
      <4>2. box[k] # a
        BY <4>1, <2>1, BusLimits
      <4>3. ASSUME NEW b \in Agents, name'[b] = k PROVE b <= box[k]
        <5>1. b # a
          BY <4>3, <2>1, <2>2, <3>2 DEF TypeOK
        <5>2. name[b] = k
          BY <4>3, <5>1, <2>2 DEF TypeOK
        <5> QED BY <5>2, <4>0 DEF Mailbox
      <4> QED BY <4>1, <4>2, <4>3, <2>2 DEF TypeOK, Mailbox
    <3> QED BY <3>1, <3>2
  <2>7. ASSUME robbed' = {}, NEW b \in Hosts \cup resources'
        PROVE  box'[name'[b]] = b
    <3>1. CASE b = a
      BY <3>1, <2>1, <2>2 DEF TypeOK
    <3>2. CASE b # a
      <4>1. b \in Agents /\ b \in Hosts \cup resources /\ name'[b] = name[b]
        BY <2>2, <2>7, <3>2, BusLimits DEF TypeOK
      <4>2. box[name[b]] = b /\ b # Nobody
        BY <4>1, <2>2, <2>7, BusLimits DEF Life
      <4>3. name[b] \in Names
        <5>1. name[b] # 0
          BY <4>1, BusLimits DEF Life, Alive
        <5> QED BY <4>1, <5>1 DEF TypeOK
      <4>4. name[b] # n
        BY <2>2, <4>2
      <4> QED BY <2>2, <4>1, <4>2, <4>3, <4>4 DEF TypeOK
    <3> QED BY <3>1, <3>2
  <2> QED BY <2>3, <2>5, <2>6, <2>7 DEF Life
<1>2. ASSUME NEW n \in Names, StartRolledBack(n) PROVE Life'
  <2>1. /\ created' = created + 1 /\ box' = [box EXCEPT ![n] = Nobody]
        /\ robbed' # {} /\ UNCHANGED <<name, state, task, killing, resources>>
    BY <1>2 DEF StartRolledBack, Unregister
  <2>2. created \in Nat /\ box \in [Names -> Agents \cup {Nobody}]
    BY DEF TypeOK
  <2>3. Hosts \subseteq 1 .. created' /\ \A a \in Agents : a > created' => a > created
    BY <2>1, <2>2, BusLimits DEF Life
  <2>4. \A k \in Names : box'[k] # Nobody => box'[k] = box[k]
    BY <2>1, <2>2
  <2>5. \A a \in Agents : Alive(a)'
    BY <2>1, <2>3 DEF Life, Alive
  <2>6. \A k \in Names : Mailbox(k)'
    BY <2>1, <2>4 DEF Life, Mailbox
  <2> QED BY <2>1, <2>3, <2>5, <2>6 DEF Life
<1>3. ASSUME NEW r \in Names \cup Cap, Post(r) PROVE Life'
  BY <1>3, LifeUnchanged DEF Post, registryVars
<1>4. ASSUME NEW c \in Agents, Take(c) \/ TakeNone(c) \/ DropChannel(c) PROVE Life'
  BY <1>4, LifeUnchanged DEF Take, TakeNone, DropChannel, registryVars, history
<1>5. ASSUME NEW a \in Agents, NEW b \in Agents, Send(a, b) \/ Request(a, b)
      PROVE  Life'
  BY <1>5, LifeUnchanged DEF Send, Request, Route, registryVars
<1>6. ASSUME NEW a \in Agents, Reply(a) PROVE Life'
  <2>1. UNCHANGED <<name, state, task, killing, resources, created, box, robbed>>
    BY <1>6 DEF Reply, Route, registryVars
  <2> QED BY <2>1, LifeUnchanged
<1>7. ASSUME NEW a \in Agents, Kill(a) PROVE Life'
  <2>1. /\ a \notin Hosts /\ state[a] \in {"running", "stopping"}
        /\ killing' = [killing EXCEPT ![a] = @ + 1]
        /\ state' = [state EXCEPT ![a] = "stopping"]
        /\ UNCHANGED <<name, task, resources, created, box, robbed>>
    BY <1>7 DEF Kill, busVars, history
  <2>2. Alive(a)
    BY DEF Life
  <2>3. Alive(a)'
    BY <2>1, <2>2 DEF Alive, TypeOK
  <2>4. \A b \in Agents \ {a} :
          task'[b] = task[b] /\ state'[b] = state[b] /\ killing'[b] = killing[b]
    BY <2>1 DEF TypeOK
  <2> QED BY <2>1, <2>3, <2>4, LifeOfOne
<1>8. ASSUME NEW a \in Agents, CallReceive(a) \/ Return(a) \/ DeadlinePassed(a)
      PROVE  Life'
  BY <1>8, LifeUnchanged DEF CallReceive, Return, DeadlinePassed, registryVars,
              busVars, history
<1>9. ASSUME NEW a \in Agents, CancelTask(a) \/ LoopEnds(a) PROVE Life'
  <2>1. /\ task[a] \in {"running", "exiting"} /\ task' = [task EXCEPT ![a] = "done"]
        /\ state[a] # "running"
        /\ UNCHANGED <<name, state, killing, resources, created, box, robbed>>
    BY <1>9 DEF CancelTask, LoopEnds, Unwind, Life, Alive, TypeOK
  <2>2. Alive(a)
    BY DEF Life
  <2>3. Alive(a)'
    BY <2>1, <2>2 DEF Alive, TypeOK
  <2>4. \A b \in Agents \ {a} :
          task'[b] = task[b] /\ state'[b] = state[b] /\ killing'[b] = killing[b]
    BY <2>1 DEF TypeOK
  <2> QED BY <2>1, <2>3, <2>4, LifeOfOne
<1>10. ASSUME NEW a \in Agents, Crash(a) PROVE Life'
  BY <1>10, LifeEnds DEF Crash, Unwind, Executing, AtReceive
<1>11. ASSUME NEW a \in Agents, TerminalCleanup(a) PROVE Life'
  BY <1>11, LifeCleanup DEF TerminalCleanup
<1>12. ASSUME NEW a \in Agents, KillEnds(a) PROVE Life'
  <2>1. task' = [task EXCEPT ![a] = "done"]
    BY <1>12 DEF KillEnds, TypeOK
  <2> QED BY <1>12, <2>1, LifeCleanup DEF KillEnds
<1>13. ASSUME NEW a \in Agents, Listen(a) \/ Expire(a) PROVE Life'
  BY <1>13, LifeUnchanged DEF Listen, Expire, registryVars, history
<1>14. ASSUME NEW a \in Agents, Receive(a) \/ ReceiveFails(a) PROVE Life'
  <2>1. UNCHANGED <<name, killing, resources, created, box, robbed>>
    BY <1>14 DEF Receive, ReceiveFails, busVars, history
  <2>2. \/ UNCHANGED <<state, task>>
        \/ /\ a \notin Hosts /\ state' = [state EXCEPT ![a] = "crashed"]
           /\ task' = [task EXCEPT ![a] = "exiting"]
    BY <1>14 DEF Receive, ReceiveFails
  <2>3. task[a] = "running"
    BY <1>14 DEF Receive, ReceiveFails, Awaiting
  <2> QED BY <2>1, <2>2, <2>3, LifeUnchanged, LifeEnds
<1> QED BY <1>1, <1>2, <1>3, <1>4, <1>5, <1>6, <1>7, <1>8, <1>9, <1>10, <1>11,
           <1>12, <1>13, <1>14 DEF Next

-----------------------------------------------------------------------------
(* Types *)

\* What the effects do to the channels, in terms of their elements.
LEMMA AcceptedType ==
  ASSUME TypeOK, NEW c \in Agents, NEW message \in Message, Accept(c, message)
  PROVE  /\ sent' = Append(sent, message) /\ sent' \in Seq(Message)
         /\ Len(sent') = Len(sent) + 1 /\ Len(sent) \in Nat /\ Len(sent') <= MaxSent
         /\ Len(sent) + 1 \in Ids
         /\ DOMAIN sent' = DOMAIN sent \cup {Len(sent) + 1}
         /\ Len(sent) + 1 \notin DOMAIN sent
         /\ \A m \in DOMAIN sent : sent'[m] = sent[m] /\ m < Len(sent) + 1
         /\ sent'[Len(sent) + 1] = message
         /\ queue' \in [Agents -> Seq(Ids)]
         /\ queue'[c] = Append(queue[c], Len(sent) + 1)
         /\ Len(queue'[c]) = Len(queue[c]) + 1 /\ Len(queue[c]) \in Nat
         /\ Len(queue'[c]) <= Capacity
         /\ \A d \in Agents : d # c => queue'[d] = queue[d]
         /\ ToSet(queue'[c]) = ToSet(queue[c]) \cup {Len(sent) + 1}
<1> DEFINE n == Len(sent) + 1
<1>1. /\ sent \in Seq(Message) /\ queue[c] \in Seq(Ids) /\ Len(sent) \in Nat
      /\ queue \in [Agents -> Seq(Ids)] /\ DOMAIN sent = 1 .. Len(sent)
  BY DEF TypeOK
<1>2. /\ Len(sent) < MaxSent /\ Len(queue[c]) < Capacity
      /\ sent' = Append(sent, message)
      /\ queue' = [queue EXCEPT ![c] = Append(queue[c], n)]
  BY DEF Accept, HasRoom
<1>3. n \in Ids /\ n <= MaxSent /\ n \notin DOMAIN sent /\ \A m \in DOMAIN sent : m < n
  BY <1>1, <1>2, BusLimits DEF Ids
<1>4. /\ sent' \in Seq(Message) /\ Len(sent') = n
      /\ \A m \in 1 .. Len(sent) : sent'[m] = sent[m]
      /\ sent'[n] = message
  BY <1>1, <1>2, AppendProperties
<1>5. DOMAIN sent' = DOMAIN sent \cup {n}
  <2>1. DOMAIN sent' = 1 .. n
    BY <1>4
  <2> QED BY <1>1, <2>1
<1> HIDE DEF n
<1>6. /\ Append(queue[c], n) \in Seq(Ids)
      /\ Len(Append(queue[c], n)) = Len(queue[c]) + 1
      /\ Len(queue[c]) \in Nat
      /\ ToSet(Append(queue[c], n)) = ToSet(queue[c]) \cup {n}
  BY <1>1, <1>3, AppendToList
<1>7. /\ queue' \in [Agents -> Seq(Ids)] /\ queue'[c] = Append(queue[c], n)
      /\ \A d \in Agents : d # c => queue'[d] = queue[d]
  BY <1>1, <1>2, <1>6
<1>8. Len(queue[c]) + 1 <= Capacity
  BY <1>2, <1>6, BusLimits
<1> QED BY <1>1, <1>2, <1>3, <1>4, <1>5, <1>6, <1>7, <1>8 DEF n

\* A future that is cancelled becomes a stale entry where it was in line.
LEMMA CancelledType ==
  ASSUME TypeOK, NEW a \in Agents, CancelFuture(a)
  PROVE  /\ line' \in [Agents -> Seq(Agents \cup {Stale})]
         /\ \A c \in Agents :
              /\ DOMAIN line'[c] = DOMAIN line[c]
              /\ \A i \in DOMAIN line[c] :
                   line'[c][i] = IF line[c][i] = a THEN Stale ELSE line[c][i]
         /\ lost' = lost \cup ({scheduled[a]} \ {0}) /\ lost' \subseteq Ids
         /\ cancelled' \in [Agents -> Nat]
         /\ future' = [future EXCEPT ![a] = "none"]
         /\ scheduled' = [scheduled EXCEPT ![a] = 0]
<1>1. ASSUME NEW c \in Agents
      PROVE  /\ line'[c] \in Seq(Agents \cup {Stale})
             /\ DOMAIN line'[c] = DOMAIN line[c]
             /\ \A i \in DOMAIN line[c] :
                  line'[c][i] = IF line[c][i] = a THEN Stale ELSE line[c][i]
  <2> DEFINE s == line[c]
             T == Agents \cup {Stale}
             r == [i \in DOMAIN s |-> IF s[i] = a THEN Stale ELSE s[i]]
  <2>1. line'[c] = r
    BY DEF CancelFuture
  <2>2. s \in Seq(T) /\ DOMAIN s = 1 .. Len(s) /\ Len(s) \in Nat
    BY DEF TypeOK
  <2>3. DOMAIN r = DOMAIN s /\ \A i \in DOMAIN s : r[i] = IF s[i] = a THEN Stale ELSE s[i]
    OBVIOUS
  <2>4. \A i \in 1 .. Len(s) : r[i] \in T
    BY <2>2, <2>3
  <2>5. r = [i \in 1 .. Len(s) |-> r[i]]
    BY <2>2, <2>3
  <2> HIDE DEF r, s, T
  <2>6. r \in Seq(T)
    BY <2>2, <2>4, <2>5
  <2> QED BY <2>1, <2>3, <2>6 DEF s, T
<1>2. line' \in [Agents -> Seq(Agents \cup {Stale})]
  <2>1. line' = [c \in Agents |-> line'[c]]
    BY DEF CancelFuture
  <2> QED BY <1>1, <2>1
<1>3. scheduled[a] \in Ids \cup {0} /\ lost \subseteq Ids
  BY DEF TypeOK
<1>4. cancelled' \in [Agents -> Nat]
  BY DEF CancelFuture, TypeOK
<1> QED BY <1>1, <1>2, <1>3, <1>4 DEF CancelFuture

\* A channel that is closed loses its messages and its line, or neither.
LEMMA ClosedType ==
  ASSUME TypeOK, NEW n \in Names, Unregister(n)
  PROVE  /\ queue' \in [Agents -> Seq(Ids)]
         /\ line' \in [Agents -> Seq(Agents \cup {Stale})]
         /\ \A c \in Agents : Len(queue'[c]) <= Capacity
         /\ lost' \subseteq Ids /\ box' \in [Names -> Agents \cup {Nobody}]
         /\ box' = [box EXCEPT ![n] = Nobody]
         /\ \/ UNCHANGED <<queue, line, lost>>
            \/ \E c \in Agents :
                 /\ c = box[n] /\ ToSet(line[c]) \subseteq {Stale}
                 /\ queue'[c] = <<>> /\ line'[c] = <<>>
                 /\ lost' = lost \cup ToSet(queue[c])
                 /\ \A d \in Agents : d # c => queue'[d] = queue[d] /\ line'[d] = line[d]
<1>1. /\ queue \in [Agents -> Seq(Ids)] /\ line \in [Agents -> Seq(Agents \cup {Stale})]
      /\ \A c \in Agents : Len(queue[c]) <= Capacity
      /\ lost \subseteq Ids /\ box \in [Names -> Agents \cup {Nobody}]
  BY DEF TypeOK
<1>2. box' = [box EXCEPT ![n] = Nobody] /\ box' \in [Names -> Agents \cup {Nobody}]
  BY <1>1 DEF Unregister
<1>3. CASE UNCHANGED <<queue, line, lost>>
  BY <1>1, <1>2, <1>3
<1>4. CASE ~ UNCHANGED <<queue, line, lost>>
  <2>1. PICK c \in Agents : c = box[n]
    BY <1>1, <1>4 DEF Unregister
  <2>2. /\ ToSet(line[c]) \subseteq {Stale}
        /\ lost' = lost \cup ToSet(queue[c])
        /\ queue' = [queue EXCEPT ![c] = <<>>] /\ line' = [line EXCEPT ![c] = <<>>]
    BY <1>4, <2>1 DEF Unregister
  <2>3. ToSet(queue[c]) \subseteq Ids
    BY <1>1, ElementsOfList
  <2>4. <<>> \in Seq(Ids) /\ <<>> \in Seq(Agents \cup {Stale}) /\ Len(<<>>) <= Capacity
    BY BusLimits
  <2>5. /\ queue' \in [Agents -> Seq(Ids)] /\ line' \in [Agents -> Seq(Agents \cup {Stale})]
        /\ queue'[c] = <<>> /\ line'[c] = <<>>
        /\ \A d \in Agents : d # c => queue'[d] = queue[d] /\ line'[d] = line[d]
    BY <1>1, <2>2, <2>4
  <2>6. \A d \in Agents : Len(queue'[d]) <= Capacity
    BY <1>1, <2>4, <2>5
  <2> QED BY <1>1, <1>2, <2>1, <2>2, <2>3, <2>5, <2>6
<1> QED BY <1>3, <1>4

\* The first in line leaves it.
LEMMA LineTail ==
  ASSUME TypeOK, NEW c \in Agents, line[c] # <<>>,
         line' = [line EXCEPT ![c] = Tail(line[c])]
  PROVE  /\ line' \in [Agents -> Seq(Agents \cup {Stale})]
         /\ Head(line[c]) \in Agents \cup {Stale} /\ Head(line[c]) = line[c][1]
         /\ 1 \in DOMAIN line[c]
         /\ \A i \in DOMAIN line'[c] :
              /\ i + 1 \in DOMAIN line[c] /\ line'[c][i] = line[c][i + 1]
              /\ i \in Nat /\ i + 1 # 1
         /\ ToSet(line[c]) = {Head(line[c])} \cup ToSet(line'[c])
         /\ \A d \in Agents : d # c => line'[d] = line[d]
         /\ Count(line[c], Stale) =
              Count(line'[c], Stale) + (IF Head(line[c]) = Stale THEN 1 ELSE 0)
         /\ Count(line'[c], Stale) \in Nat
<1> DEFINE T == Agents \cup {Stale}
<1>1. line \in [Agents -> Seq(T)] /\ line[c] \in Seq(T)
  BY DEF TypeOK
<1> HIDE DEF T
<1>2. /\ Head(line[c]) = line[c][1] /\ Head(line[c]) \in T /\ 1 \in DOMAIN line[c]
      /\ Tail(line[c]) \in Seq(T)
      /\ \A i \in DOMAIN Tail(line[c]) :
           i + 1 \in DOMAIN line[c] /\ Tail(line[c])[i] = line[c][i + 1]
      /\ ToSet(line[c]) = {Head(line[c])} \cup ToSet(Tail(line[c]))
  BY <1>1, FirstAndRest
<1>3. /\ line' \in [Agents -> Seq(T)] /\ line'[c] = Tail(line[c])
      /\ \A d \in Agents : d # c => line'[d] = line[d]
  BY <1>1, <1>2
<1>4. Count(line[c], Stale) =
        Count(Tail(line[c]), Stale) + (IF Head(line[c]) = Stale THEN 1 ELSE 0)
  BY <1>1, CountTail
<1>5. Count(Tail(line[c]), Stale) \in Nat
  BY <1>2, CountType
<1>6. \A i \in DOMAIN Tail(line[c]) : i \in Nat /\ i + 1 # 1
  <2>1. DOMAIN Tail(line[c]) = 1 .. Len(Tail(line[c]))
    BY <1>2
  <2> QED BY <2>1
<1> QED BY <1>2, <1>3, <1>4, <1>5, <1>6 DEF T

\* The first message of a channel leaves it.
LEMMA QueueTail ==
  ASSUME TypeOK, NEW c \in Agents, queue[c] # <<>>,
         queue' = [queue EXCEPT ![c] = Tail(queue[c])]
  PROVE  /\ queue' \in [Agents -> Seq(Ids)]
         /\ Head(queue[c]) \in Ids /\ Head(queue[c]) = queue[c][1]
         /\ 1 \in DOMAIN queue[c]
         /\ \A d \in Agents : Len(queue'[d]) <= Capacity
         /\ \A i \in DOMAIN queue'[c] :
              /\ i + 1 \in DOMAIN queue[c] /\ queue'[c][i] = queue[c][i + 1]
              /\ i \in Nat /\ 1 < i + 1
         /\ ToSet(queue[c]) = {Head(queue[c])} \cup ToSet(queue'[c])
         /\ \A d \in Agents : d # c => queue'[d] = queue[d]
<1>1. /\ queue \in [Agents -> Seq(Ids)] /\ queue[c] \in Seq(Ids)
      /\ \A d \in Agents : Len(queue[d]) <= Capacity
  BY DEF TypeOK
<1>2. /\ Head(queue[c]) = queue[c][1] /\ Head(queue[c]) \in Ids /\ 1 \in DOMAIN queue[c]
      /\ Tail(queue[c]) \in Seq(Ids)
      /\ Len(Tail(queue[c])) = Len(queue[c]) - 1 /\ Len(queue[c]) \in Nat
      /\ \A i \in DOMAIN Tail(queue[c]) :
           i + 1 \in DOMAIN queue[c] /\ Tail(queue[c])[i] = queue[c][i + 1]
      /\ ToSet(queue[c]) = {Head(queue[c])} \cup ToSet(Tail(queue[c]))
  BY <1>1, FirstAndRest
<1>3. /\ queue' \in [Agents -> Seq(Ids)] /\ queue'[c] = Tail(queue[c])
      /\ \A d \in Agents : d # c => queue'[d] = queue[d]
  BY <1>1, <1>2
<1>4. Len(Tail(queue[c])) <= Capacity
  <2>1. Len(queue[c]) <= Capacity /\ Capacity \in Nat
    BY <1>1, BusLimits
  <2> QED BY <2>1, <1>2
<1>5. \A d \in Agents : Len(queue'[d]) <= Capacity
  BY <1>1, <1>3, <1>4
<1>6. \A i \in DOMAIN Tail(queue[c]) : i \in Nat /\ 1 < i + 1
  <2>1. DOMAIN Tail(queue[c]) = 1 .. Len(Tail(queue[c]))
    BY <1>2
  <2> QED BY <2>1
<1> QED BY <1>2, <1>3, <1>5, <1>6

\* A receive waits at the channel that has the agent's name now: the newest of
\* that name, and its own as long as no mailbox was taken.
LEMMA ListenHere ==
  ASSUME TypeOK, Life, NEW a \in Agents, Listen(a)
  PROVE  \E c \in Agents :
           /\ line' = [line EXCEPT ![c] = Append(line[c], a)]
           /\ box[name[a]] = c /\ name[a] \in Names /\ name[c] = name[a]
           /\ \A b \in Agents : name[b] = name[a] => b <= c
           /\ robbed = {} => c = a
           /\ future[a] = "none" /\ future' = [future EXCEPT ![a] = "pending"]
           /\ UNCHANGED <<queue, scheduled, sent, received, lost, cancelled, name,
                          box, robbed>>
<1>1. /\ task[a] = "running" /\ future[a] = "none" /\ box[name[a]] # Nobody
      /\ line' = [line EXCEPT ![box[name[a]]] = Append(@, a)]
      /\ future' = [future EXCEPT ![a] = "pending"]
      /\ UNCHANGED <<queue, scheduled, sent, received, lost, cancelled, name, box,
                     robbed>>
  BY DEF Listen, AtReceive, registryVars, history
<1>2. name[a] \in Names
  BY <1>1, BusLimits DEF Life, Alive, TypeOK
<1>3. PICK c \in Agents : c = box[name[a]]
  BY <1>1, <1>2 DEF TypeOK
<1>4. name[c] = name[a] /\ \A b \in Agents : name[b] = name[a] => b <= c
  BY <1>1, <1>2, <1>3 DEF Life, Mailbox
<1>5. robbed = {} => c = a
  BY <1>1, <1>3 DEF Life, Alive
<1> QED BY <1>1, <1>2, <1>3, <1>4, <1>5

FlowTypeOK ==
  /\ sent \in Seq(Message) /\ Len(sent) <= MaxSent /\ lost \subseteq Ids
  /\ queue \in [Agents -> Seq(Ids)] /\ line \in [Agents -> Seq(Agents \cup {Stale})]
  /\ received \in [Agents -> Seq(Ids)]
  /\ \A c \in Agents : Len(queue[c]) <= Capacity
  /\ future \in [Agents -> {"none", "pending", "message", "error"}]
  /\ scheduled \in [Agents -> Ids \cup {0}] /\ cancelled \in [Agents -> Nat]

\* The effects keep the types of channels, futures and messages.
LEMMA FlowType ==
  ASSUME TypeOK, Life, Futures, Effect
  PROVE  FlowTypeOK'
<1>0. FlowTypeOK
  BY DEF TypeOK, FlowTypeOK
<1>1. CASE UNCHANGED flow
  BY <1>0, <1>1 DEF FlowTypeOK, flow
<1>2. CASE Accepts
  <2>1. PICK c \in Agents, message \in Message :
          /\ Accept(c, message)
          /\ UNCHANGED <<line, futureVars, received, lost, cancelled>>
    BY <1>2 DEF Accepts
  <2>2. /\ sent' \in Seq(Message) /\ Len(sent') <= MaxSent
        /\ queue' \in [Agents -> Seq(Ids)] /\ Len(queue'[c]) <= Capacity
        /\ \A d \in Agents : d # c => queue'[d] = queue[d]
    BY <2>1, AcceptedType
  <2>3. \A d \in Agents : Len(queue'[d]) <= Capacity
    BY <1>0, <2>2 DEF FlowTypeOK
  <2> QED BY <1>0, <2>1, <2>2, <2>3 DEF FlowTypeOK, futureVars
<1>3. CASE Cancels
  <2>1. PICK a \in Agents : CancelFuture(a) /\ UNCHANGED <<sent, queue, received>>
    BY <1>3 DEF Cancels
  <2>2. /\ line' \in [Agents -> Seq(Agents \cup {Stale})]
        /\ lost' \subseteq Ids /\ cancelled' \in [Agents -> Nat]
        /\ future' = [future EXCEPT ![a] = "none"]
        /\ scheduled' = [scheduled EXCEPT ![a] = 0]
    BY <2>1, CancelledType
  <2> QED BY <1>0, <2>1, <2>2 DEF FlowTypeOK
<1>4. CASE Closes
  <2>1. PICK n \in Names :
          Unregister(n) /\ UNCHANGED <<sent, futureVars, received, cancelled>>
    BY <1>4 DEF Closes
  <2>2. /\ queue' \in [Agents -> Seq(Ids)]
        /\ line' \in [Agents -> Seq(Agents \cup {Stale})]
        /\ \A c \in Agents : Len(queue'[c]) <= Capacity
        /\ lost' \subseteq Ids
    BY <2>1, ClosedType
  <2> QED BY <1>0, <2>1, <2>2 DEF FlowTypeOK, futureVars
<1>5. CASE Gets
  <2>1. PICK a \in Agents :
          /\ future[a] = "message"
          /\ received' = [received EXCEPT ![a] = Append(@, scheduled[a])]
          /\ future' = [future EXCEPT ![a] = "none"]
          /\ scheduled' = [scheduled EXCEPT ![a] = 0]
          /\ UNCHANGED <<sent, busVars, lost, cancelled>>
    BY <1>5 DEF Gets
  <2>2. scheduled[a] \in Ids /\ received[a] \in Seq(Ids)
    BY <1>0, <2>1 DEF Futures, FlowTypeOK
  <2>3. Append(received[a], scheduled[a]) \in Seq(Ids)
    BY <2>2, AppendToList
  <2>4. received' \in [Agents -> Seq(Ids)]
    BY <1>0, <2>1, <2>3 DEF FlowTypeOK
  <2> QED BY <1>0, <2>1, <2>4 DEF FlowTypeOK, busVars
<1>6. CASE Fails
  BY <1>0, <1>6 DEF Fails, FlowTypeOK, busVars
<1>7. ASSUME NEW a \in Agents, Listen(a) PROVE FlowTypeOK'
  <2>1. PICK c \in Agents : line' = [line EXCEPT ![c] = Append(line[c], a)]
    BY <1>7, ListenHere
  <2>2. line' \in [Agents -> Seq(Agents \cup {Stale})]
    <3> DEFINE T == Agents \cup {Stale}
    <3>1. a \in T /\ line \in [Agents -> Seq(T)]
      BY <1>0 DEF FlowTypeOK
    <3> HIDE DEF T
    <3>2. \A s \in Seq(T) : Append(s, a) \in Seq(T)
      BY <3>1, AppendToList
    <3>3. line' \in [Agents -> Seq(T)]
      BY <2>1, <3>1, <3>2
    <3> QED BY <3>3 DEF T
  <2>3. future' = [future EXCEPT ![a] = "pending"]
        /\ UNCHANGED <<queue, scheduled, sent, received, lost, cancelled>>
    BY <1>7 DEF Listen, history
  <2> QED BY <1>0, <2>2, <2>3 DEF FlowTypeOK
<1>8. ASSUME NEW c \in Agents, Take(c) PROVE FlowTypeOK'
  <2>1. /\ line[c] # <<>> /\ queue[c] # <<>> /\ Complete(c)
        /\ queue' = [queue EXCEPT ![c] = Tail(queue[c])]
        /\ line' = [line EXCEPT ![c] = Tail(line[c])]
        /\ UNCHANGED <<sent, received, cancelled>>
    BY <1>8 DEF Take, Rest, LineAfter
  <2>2. /\ line' \in [Agents -> Seq(Agents \cup {Stale})]
        /\ Head(line[c]) \in Agents \cup {Stale}
    BY <2>1, LineTail
  <2>3. /\ queue' \in [Agents -> Seq(Ids)] /\ Head(queue[c]) \in Ids
        /\ \A d \in Agents : Len(queue'[d]) <= Capacity
    BY <2>1, QueueTail
  <2>4. lost' \subseteq Ids
    BY <1>0, <2>1, <2>3 DEF Complete, FlowTypeOK
  <2>5. future' \in [Agents -> {"none", "pending", "message", "error"}]
        /\ scheduled' \in [Agents -> Ids \cup {0}]
    BY <1>0, <2>1, <2>2, <2>3 DEF Complete, futureVars, FlowTypeOK
  <2> QED BY <1>0, <2>1, <2>2, <2>3, <2>4, <2>5 DEF FlowTypeOK
<1>9. ASSUME NEW c \in Agents, TakeNone(c) PROVE FlowTypeOK'
  <2>1. /\ line[c] # <<>> /\ line' = [line EXCEPT ![c] = Tail(line[c])]
        /\ future' = IF Head(line[c]) = Stale THEN future
                     ELSE [future EXCEPT ![Head(line[c])] = "error"]
        /\ UNCHANGED <<queue, scheduled, sent, received, lost, cancelled>>
    BY <1>9 DEF TakeNone, history
  <2>2. /\ line' \in [Agents -> Seq(Agents \cup {Stale})]
        /\ Head(line[c]) \in Agents \cup {Stale}
    BY <2>1, LineTail
  <2>3. future' \in [Agents -> {"none", "pending", "message", "error"}]
    BY <1>0, <2>1, <2>2 DEF FlowTypeOK
  <2> QED BY <1>0, <2>1, <2>2, <2>3 DEF FlowTypeOK
<1>10. ASSUME NEW c \in Agents, DropChannel(c) PROVE FlowTypeOK'
  <2>1. /\ queue' = [queue EXCEPT ![c] = <<>>] /\ lost' = lost \cup ToSet(queue[c])
        /\ UNCHANGED <<line, futureVars, sent, received, cancelled>>
    BY <1>10 DEF DropChannel
  <2>2. <<>> \in Seq(Ids) /\ Len(<<>>) <= Capacity /\ queue[c] \in Seq(Ids)
    BY <1>0, BusLimits DEF FlowTypeOK
  <2>3. ToSet(queue[c]) \subseteq Ids
    BY <2>2, ElementsOfList
  <2>4. queue' \in [Agents -> Seq(Ids)] /\ \A d \in Agents : Len(queue'[d]) <= Capacity
    BY <1>0, <2>1, <2>2 DEF FlowTypeOK
  <2> QED BY <1>0, <2>1, <2>3, <2>4 DEF FlowTypeOK, futureVars
<1> QED BY <1>1, <1>2, <1>3, <1>4, <1>5, <1>6, <1>7, <1>8, <1>9, <1>10
        DEF Effect, Opens

\* The types of what the processes have.
ProcessTypeOK ==
  /\ name \in [Agents -> Names \cup {0}]
  /\ state \in [Agents -> {"unused", "running", "stopping", "crashed", "killed"}]
  /\ task \in [Agents -> {"none", "running", "exiting", "done"}]
  /\ killing \in [Agents -> 0 .. MaxKills]
  /\ resources \subseteq Agents
  /\ by_name \in [Names -> Agents \cup {Nobody}]
  /\ created \in 0 .. MaxAgents
RestTypeOK ==
  /\ robbed \subseteq Agents /\ box \in [Names -> Agents \cup {Nobody}]
  /\ stack \in [Agents -> Seq(Frame)] /\ expired \in 0 .. MaxExpired

\* Every action keeps the types of the process registry.
LEMMA ProcessType ==
  ASSUME TypeOK, Next
  PROVE  ProcessTypeOK'
<1>0. ProcessTypeOK /\ MaxKills \in Nat /\ MaxAgents \in Nat
  BY BusLimits DEF TypeOK, ProcessTypeOK
<1>1. ASSUME NEW n \in Names, Start(n) PROVE ProcessTypeOK'
  <2> DEFINE a == created + 1
  <2>1. a \in Agents /\ created \in Nat /\ a <= MaxAgents
    BY <1>0, <1>1 DEF Start, Agents, ProcessTypeOK
  <2>2. /\ created' = a /\ name' = [name EXCEPT ![a] = n]
        /\ state' = [state EXCEPT ![a] = "running"]
        /\ task' = [task EXCEPT ![a] = "running"]
        /\ resources' = resources \cup {a} /\ killing' = killing
        /\ by_name' = [by_name EXCEPT ![n] = a]
    BY <1>1 DEF Start
  <2>3. created' \in 0 .. MaxAgents
    BY <2>1, <2>2
  <2> HIDE DEF a
  <2> QED BY <1>0, <2>1, <2>2, <2>3 DEF ProcessTypeOK
<1>2. ASSUME NEW n \in Names, StartRolledBack(n) PROVE ProcessTypeOK'
  <2>1. /\ created < MaxAgents /\ created' = created + 1
        /\ UNCHANGED <<name, state, task, killing, resources, by_name>>
    BY <1>2 DEF StartRolledBack
  <2>2. created' \in 0 .. MaxAgents
    BY <1>0, <2>1 DEF ProcessTypeOK
  <2> QED BY <1>0, <2>1, <2>2 DEF ProcessTypeOK
<1>3. ASSUME UNCHANGED registryVars PROVE ProcessTypeOK'
  BY <1>0, <1>3 DEF registryVars, ProcessTypeOK
<1>4. ASSUME NEW a \in Agents, Kill(a) \/ CancelTask(a) \/ LoopEnds(a) \/ Crash(a)
      PROVE  ProcessTypeOK'
  <2>1. /\ UNCHANGED <<name, resources, by_name, created>>
        /\ state' \in {state, [state EXCEPT ![a] = "stopping"],
                       [state EXCEPT ![a] = "crashed"]}
        /\ task' \in {task, [task EXCEPT ![a] = "done"], [task EXCEPT ![a] = "exiting"]}
        /\ \/ killing' = killing
           \/ killing[a] < MaxKills /\ killing' = [killing EXCEPT ![a] = @ + 1]
    BY <1>4 DEF Kill, CancelTask, LoopEnds, Crash, Unwind
  <2>2. killing' \in [Agents -> 0 .. MaxKills]
    BY <1>0, <2>1 DEF ProcessTypeOK
  <2>3. task' \in [Agents -> {"none", "running", "exiting", "done"}]
    BY <1>0, <2>1 DEF ProcessTypeOK
  <2>4. state' \in [Agents -> {"unused", "running", "stopping", "crashed", "killed"}]
    BY <1>0, <2>1 DEF ProcessTypeOK
  <2> QED BY <1>0, <2>1, <2>2, <2>3, <2>4 DEF ProcessTypeOK
<1>5. ASSUME NEW a \in Agents, TerminalCleanup(a) \/ KillEnds(a) PROVE ProcessTypeOK'
  <2>1. /\ UNCHANGED <<name, created>> /\ resources' = resources \ {a}
        /\ state' \in {state, [state EXCEPT ![a] = "killed"]}
        /\ task' \in {task, [task EXCEPT ![a] = "done"]}
        /\ \/ killing' = killing
           \/ killing[a] > 0 /\ killing' = [killing EXCEPT ![a] = @ - 1]
        /\ by_name' = [by_name EXCEPT ![name[a]] = Nobody]
    BY <1>5 DEF TerminalCleanup, KillEnds, CleanupLocked
  <2>2. killing' \in [Agents -> 0 .. MaxKills]
    BY <1>0, <2>1 DEF ProcessTypeOK
  <2>3. task' \in [Agents -> {"none", "running", "exiting", "done"}]
    BY <1>0, <2>1 DEF ProcessTypeOK
  <2>4. state' \in [Agents -> {"unused", "running", "stopping", "crashed", "killed"}]
    BY <1>0, <2>1 DEF ProcessTypeOK
  <2>5. by_name' \in [Names -> Agents \cup {Nobody}]
    BY <1>0, <2>1 DEF ProcessTypeOK
  <2> QED BY <1>0, <2>1, <2>2, <2>3, <2>4, <2>5 DEF ProcessTypeOK
<1>6. ASSUME NEW a \in Agents, Receive(a) \/ ReceiveFails(a) PROVE ProcessTypeOK'
  <2>1. /\ UNCHANGED <<name, killing, resources, by_name, created>>
        /\ state' \in {state, [state EXCEPT ![a] = "crashed"]}
        /\ task' \in {task, [task EXCEPT ![a] = "exiting"]}
    BY <1>6 DEF Receive, ReceiveFails
  <2> QED BY <1>0, <2>1 DEF ProcessTypeOK
<1>7. ASSUME NEW a \in Agents, Reply(a) PROVE UNCHANGED registryVars
  BY <1>7 DEF Reply, Route
<1>8. ASSUME NEW a \in Agents, NEW b \in Agents, Send(a, b) \/ Request(a, b)
      PROVE  UNCHANGED registryVars
  BY <1>8 DEF Send, Request, Route
<1>9. ASSUME NEW r, Post(r) PROVE UNCHANGED registryVars
  BY <1>9 DEF Post
<1>10. ASSUME NEW c, Take(c) \/ TakeNone(c) \/ DropChannel(c)
       PROVE  UNCHANGED registryVars
  BY <1>10 DEF Take, TakeNone, DropChannel
<1>11. ASSUME NEW a, Listen(a) \/ CallReceive(a) \/ Return(a) \/ Expire(a)
                     \/ DeadlinePassed(a)
       PROVE  UNCHANGED registryVars
  BY <1>11 DEF Listen, CallReceive, Return, Expire, DeadlinePassed
<1> QED BY <1>1, <1>2, <1>3, <1>4, <1>5, <1>6, <1>7, <1>8, <1>9, <1>10, <1>11 DEF Next

\* A step changes the calls of one agent at most: it ends them all, returns
\* from one, or makes one about a message.
StackChange ==
  \/ stack' = stack
  \/ \E a \in Agents :
       \/ stack' = [stack EXCEPT ![a] = <<>>]
       \/ stack' = [stack EXCEPT ![a] = Front(stack[a])] /\ stack[a] # <<>>
       \/ \E f \in Frame : /\ stack' = [stack EXCEPT ![a] = Append(stack[a], f)]
                           /\ f.id \in 0 .. Len(sent')

\* A call that is made.
LEMMA Pushes ==
  ASSUME NEW a \in Agents, NEW k \in {"on_message", "request", "receive"},
         NEW m \in Ids \cup {0}, m \in 0 .. Len(sent'), stack' = Push(a, Call(k, m))
  PROVE  StackChange
<1>1. Call(k, m) \in Frame /\ Call(k, m).id = m
  BY DEF Frame, Call
<1>2. PICK f \in Frame : f = Call(k, m) /\ f.id = m
  BY <1>1
<1>3. stack' = [stack EXCEPT ![a] = Append(stack[a], f)] /\ f.id \in 0 .. Len(sent')
  BY <1>2 DEF Push
<1> QED BY <1>3 DEF StackChange

\* No action changes the calls of agents in another way.
LEMMA StackStep ==
  ASSUME TypeOK, Life, Calls, Places, Futures, Next
  PROVE  StackChange
<1>0. Len(sent) \in Nat /\ DOMAIN sent = 1 .. Len(sent)
  BY DEF TypeOK
<1>1. ASSUME NEW n \in Names, Start(n) PROVE StackChange
  <2> DEFINE a == created + 1
  <2>1. a \in Agents
    BY <1>1, BusLimits DEF Start, TypeOK, Agents
  <2>2. stack' = Push(a, Call("on_message", 0)) /\ 0 \in 0 .. Len(sent')
    BY <1>0, <1>1 DEF Start, history
  <2> HIDE DEF a
  <2> QED BY <2>1, <2>2, Pushes
<1>2. ASSUME NEW a \in Agents, NEW b \in Agents, Request(a, b) PROVE StackChange
  <2>1. PICK m \in Ids : m = Len(sent) + 1
    BY <1>0, <1>2, BusLimits DEF Request, Route, Accept, Ids
  <2>2. stack' = Push(a, Call("request", m)) /\ Route(a, b, "request", m)
    BY <1>2, <2>1 DEF Request
  <2>3. Accepts
    BY <2>2, RouteAccepts DEF Kinds
  <2>4. Len(sent') = Len(sent) + 1
    BY <2>3, AcceptedType DEF Accepts
  <2>5. m \in 0 .. Len(sent')
    BY <1>0, <2>1, <2>4
  <2> QED BY <2>2, <2>5, Pushes
<1>3. ASSUME NEW a \in Agents, CallReceive(a) PROVE StackChange
  <2>1. stack' = Push(a, Call("receive", 0)) /\ 0 \in 0 .. Len(sent')
    BY <1>0, <1>3 DEF CallReceive, history
  <2> QED BY <2>1, Pushes
<1>4. ASSUME NEW a \in Agents, Receive(a) PROVE StackChange
  <2>1. PICK m \in Ids : m = scheduled[a] /\ m \in DOMAIN sent
    BY <1>4, BusLimits DEF Receive, Futures, Places, TypeOK
  <2>2. m \in 0 .. Len(sent') /\ sent' = sent
    BY <1>0, <1>4, <2>1 DEF Receive
  <2>3. \/ stack' = [stack EXCEPT ![a] = <<>>]
        \/ stack' = Pop(a) /\ stack[a] # <<>>
        \/ stack' = Push(a, Call("on_message", m))
    BY <1>4, <2>1 DEF Receive, StackAfter, In
  <2> QED BY <2>2, <2>3, Pushes DEF StackChange, Pop
<1>5. ASSUME NEW a \in Agents, CancelTask(a) \/ LoopEnds(a) \/ Crash(a)
      PROVE  StackChange
  BY <1>5 DEF CancelTask, LoopEnds, Crash, Unwind, StackChange
<1>6. ASSUME NEW a \in Agents, ReceiveFails(a) \/ Return(a) \/ Expire(a)
                               \/ DeadlinePassed(a)
      PROVE  StackChange
  BY <1>6 DEF ReceiveFails, Return, Expire, DeadlinePassed, Executing, In, Pop,
              StackChange
<1>7. ASSUME NEW a \in Agents, Kill(a) \/ TerminalCleanup(a) \/ KillEnds(a)
                               \/ Reply(a) \/ Listen(a)
      PROVE  StackChange
  BY <1>7 DEF Kill, TerminalCleanup, KillEnds, Reply, Listen, agentVars, StackChange
<1>8. ASSUME NEW n, StartRolledBack(n) \/ Post(n) PROVE StackChange
  BY <1>8 DEF StartRolledBack, Post, agentVars, StackChange
<1>9. ASSUME NEW c, Take(c) \/ TakeNone(c) \/ DropChannel(c) PROVE StackChange
  BY <1>9 DEF Take, TakeNone, DropChannel, agentVars, StackChange
<1>10. ASSUME NEW a, NEW b, Send(a, b) PROVE StackChange
  BY <1>10 DEF Send, StackChange
<1> QED BY <1>1, <1>2, <1>3, <1>4, <1>5, <1>6, <1>7, <1>8, <1>9, <1>10 DEF Next

\* Every action keeps the types of mailboxes, calls and time-outs.
LEMMA RestType ==
  ASSUME TypeOK, Life, Calls, Places, Futures, Next
  PROVE  RestTypeOK'
<1>0. /\ robbed \subseteq Agents /\ box \in [Names -> Agents \cup {Nobody}]
      /\ stack \in [Agents -> Seq(Frame)] /\ expired \in 0 .. MaxExpired
      /\ MaxExpired \in Nat
  BY BusLimits DEF TypeOK
<1>1. stack' \in [Agents -> Seq(Frame)]
  <2>1. CASE stack' = stack
    BY <1>0, <2>1
  <2>2. ASSUME NEW a \in Agents, NEW s \in Seq(Frame), stack' = [stack EXCEPT ![a] = s]
        PROVE  stack' \in [Agents -> Seq(Frame)]
    BY <1>0, <2>2
  <2>3. <<>> \in Seq(Frame)
    OBVIOUS
  <2>4. \A a \in Agents, f \in Frame : Append(stack[a], f) \in Seq(Frame)
    <3> TAKE a \in Agents, f \in Frame
    <3>1. stack[a] \in Seq(Frame)
      BY <1>0
    <3> QED BY <3>1, AppendToList
  <2>5. \A a \in Agents : stack[a] # <<>> => Front(stack[a]) \in Seq(Frame)
    BY TopFrame
  <2>6. StackChange
    BY StackStep
  <2> QED BY <2>1, <2>2, <2>3, <2>4, <2>5, <2>6 DEF StackChange
<1>2. expired' \in 0 .. MaxExpired
  <2>1. \/ expired' = expired
        \/ expired < MaxExpired /\ expired' = expired + 1
    <3>1. ASSUME NEW n, Start(n) \/ StartRolledBack(n) \/ Post(n) PROVE expired' = expired
      BY <3>1 DEF Start, StartRolledBack, Post, agentVars
    <3>2. ASSUME NEW c, Take(c) \/ TakeNone(c) \/ DropChannel(c) PROVE expired' = expired
      BY <3>2 DEF Take, TakeNone, DropChannel, agentVars
    <3>3. ASSUME NEW a, NEW b, Send(a, b) \/ Request(a, b) PROVE expired' = expired
      BY <3>3 DEF Send, Request, Route
    <3>4. ASSUME NEW a, Kill(a) \/ CancelTask(a) \/ LoopEnds(a) \/ Crash(a)
                        \/ TerminalCleanup(a) \/ KillEnds(a)
          PROVE  expired' = expired
      BY <3>4 DEF Kill, CancelTask, LoopEnds, Crash, TerminalCleanup, KillEnds, agentVars
    <3>5. ASSUME NEW a, Reply(a) PROVE expired' = expired
      BY <3>5 DEF Reply, Route
    <3>6. ASSUME NEW a, Listen(a) \/ CallReceive(a) \/ Receive(a) \/ ReceiveFails(a)
                        \/ Return(a) \/ DeadlinePassed(a)
          PROVE  expired' = expired
      BY <3>6 DEF Listen, CallReceive, Receive, ReceiveFails, Return, DeadlinePassed,
                  agentVars
    <3>7. ASSUME NEW a, Expire(a)
          PROVE  expired < MaxExpired /\ expired' = expired + 1
      BY <3>7 DEF Expire
    <3> QED BY <3>1, <3>2, <3>3, <3>4, <3>5, <3>6, <3>7 DEF Next
  <2> QED BY <1>0, <2>1
<1>3. box' \in [Names -> Agents \cup {Nobody}]
  <2>1. Effect
    BY Effects
  <2>2. \/ box' = box
        \/ \E n \in Names, x \in Agents \cup {Nobody} : box' = [box EXCEPT ![n] = x]
    BY <2>1 DEF Effect, Opens, Accepts, Cancels, Closes, Gets, Fails, Listen, Take,
                TakeNone, DropChannel, Unregister, busVars
  <2> QED BY <1>0, <2>2
<1>4. robbed' \subseteq Agents
  <2>1. robbed' = robbed \/ \E n \in Names : box[n] # Nobody /\ robbed' = robbed \cup {box[n]}
    <3>1. ASSUME NEW n \in Names, Start(n) PROVE robbed' = robbed
      BY <3>1 DEF Start, history
    <3>2. ASSUME NEW n \in Names, StartRolledBack(n)
          PROVE  box[n] # Nobody /\ robbed' = robbed \cup {box[n]}
      BY <3>2 DEF StartRolledBack
    <3>3. ASSUME NEW c, Post(c) \/ Take(c) \/ TakeNone(c) \/ DropChannel(c)
          PROVE  robbed' = robbed
      BY <3>3 DEF Post, Take, TakeNone, DropChannel, history
    <3>4. ASSUME NEW a, NEW b, Send(a, b) \/ Request(a, b) PROVE robbed' = robbed
      BY <3>4 DEF Send, Request, Route
    <3>5. ASSUME NEW a, Kill(a) \/ CancelTask(a) \/ LoopEnds(a) \/ Crash(a)
                        \/ TerminalCleanup(a) \/ KillEnds(a)
          PROVE  robbed' = robbed
      BY <3>5 DEF Kill, CancelTask, LoopEnds, Crash, TerminalCleanup, KillEnds, history
    <3>6. ASSUME NEW a, Reply(a) PROVE robbed' = robbed
      BY <3>6 DEF Reply, Route
    <3>7. ASSUME NEW a, Listen(a) \/ CallReceive(a) \/ Receive(a) \/ ReceiveFails(a)
                        \/ Return(a) \/ Expire(a) \/ DeadlinePassed(a)
          PROVE  robbed' = robbed
      BY <3>7 DEF Listen, CallReceive, Receive, ReceiveFails, Return, Expire,
                  DeadlinePassed, history
    <3> QED BY <3>1, <3>2, <3>3, <3>4, <3>5, <3>6, <3>7 DEF Next
  <2> QED BY <1>0, <2>1
<1> QED BY <1>1, <1>2, <1>3, <1>4 DEF RestTypeOK

\* Every action keeps the types of all variables, and the capacity of
\* mailboxes.
LEMMA TypeStep ==
  ASSUME TypeOK, Life, Calls, Places, Futures, Next
  PROVE  TypeOK'
<1>1. FlowTypeOK'
  BY Effects, FlowType
<1>2. ProcessTypeOK' /\ RestTypeOK'
  BY ProcessType, RestType
<1> QED BY <1>1, <1>2 DEF FlowTypeOK, ProcessTypeOK, RestTypeOK, TypeOK

-----------------------------------------------------------------------------
(* Calls and futures *)

\* Messages are only added.
LEMMA SentGrows ==
  ASSUME TypeOK, Effect
  PROVE  \/ sent' = sent
         \/ Accepts
<1> QED BY DEF Effect, Opens, Cancels, Closes, Gets, Fails, Listen, Take, TakeNone,
               DropChannel, flow, history

\* Calls are about messages that were accepted.
LEMMA CallsKept ==
  ASSUME TypeOK, Life, Calls, Places, Futures, Next,
         \A m \in DOMAIN sent' : sent'[m].kind = "request" => sent'[m].src \in Agents,
         Len(sent') \in Nat, Len(sent) <= Len(sent')
  PROVE  Calls'
<1>1. StackChange
  BY StackStep
<1>2. 0 .. Len(sent) \subseteq 0 .. Len(sent') /\ stack \in [Agents -> Seq(Frame)]
  BY DEF TypeOK
<1>3. \A a \in Agents : \A i \in DOMAIN stack[a] : stack[a][i].id \in 0 .. Len(sent')
  BY <1>2 DEF Calls
<1>4. \A a \in Agents : \A i \in DOMAIN stack'[a] : stack'[a][i].id \in 0 .. Len(sent')
  <2>1. CASE stack' = stack
    BY <1>3, <2>1
  <2>2. ASSUME NEW a \in Agents, stack' = [stack EXCEPT ![a] = <<>>],
               NEW b \in Agents, NEW i \in DOMAIN stack'[b]
        PROVE  stack'[b][i].id \in 0 .. Len(sent')
    BY <1>2, <1>3, <2>2
  <2>3. ASSUME NEW a \in Agents, stack[a] # <<>>,
               stack' = [stack EXCEPT ![a] = Front(stack[a])],
               NEW b \in Agents, NEW i \in DOMAIN stack'[b]
        PROVE  stack'[b][i].id \in 0 .. Len(sent')
    <3>1. CASE b = a
      <4>1. stack'[b] = Front(stack[a])
        BY <1>2, <2>3, <3>1
      <4>2. i \in DOMAIN stack[a] /\ Front(stack[a])[i] = stack[a][i]
        BY <2>3, <4>1, TopFrame
      <4> QED BY <1>3, <4>1, <4>2
    <3>2. CASE b # a
      BY <1>2, <1>3, <2>3, <3>2
    <3> QED BY <3>1, <3>2
  <2>4. ASSUME NEW a \in Agents, NEW f \in Frame, f.id \in 0 .. Len(sent'),
               stack' = [stack EXCEPT ![a] = Append(stack[a], f)],
               NEW b \in Agents, NEW i \in DOMAIN stack'[b]
        PROVE  stack'[b][i].id \in 0 .. Len(sent')
    <3>1. CASE b = a
      <4>1. stack'[b] = Append(stack[a], f) /\ stack[a] \in Seq(Frame)
        BY <1>2, <2>4, <3>1
      <4>2. \/ stack'[b][i] = f
            \/ i \in DOMAIN stack[a] /\ stack'[b][i] = stack[a][i]
        <5> DEFINE s == stack[a]
        <5>1. i \in 1 .. Len(s) + 1 /\ s \in Seq(Frame) /\ Len(s) \in Nat /\ DOMAIN s = 1 .. Len(s)
          BY <2>4, <4>1, AppendProperties
        <5>2. Append(s, f)[Len(s) + 1] = f /\ \A j \in 1 .. Len(s) : Append(s, f)[j] = s[j]
          BY <5>1, AppendProperties
        <5> HIDE DEF s
        <5>3. i = Len(s) + 1 \/ i \in 1 .. Len(s)
          BY <5>1
        <5> QED BY <4>1, <5>1, <5>2, <5>3 DEF s
      <4> QED BY <1>3, <2>4, <4>2
    <3>2. CASE b # a
      BY <1>2, <1>3, <2>4, <3>2
    <3> QED BY <3>1, <3>2
  <2> QED BY <1>1, <2>1, <2>2, <2>3, <2>4 DEF StackChange
<1> QED BY <1>4 DEF Calls

\* The calls agents are in stay about messages that were accepted, so that a
\* reply finds its request.
LEMMA CallsStep ==
  ASSUME TypeOK, Life, Calls, Places, Futures, Next
  PROVE  Calls'
<1>0. Len(sent) \in Nat /\ DOMAIN sent = 1 .. Len(sent)
  BY DEF TypeOK
<1>1. CASE sent' = sent
  <2>1. \A m \in DOMAIN sent' : sent'[m].kind = "request" => sent'[m].src \in Agents
    BY <1>1 DEF Calls
  <2>2. Len(sent') \in Nat /\ Len(sent) <= Len(sent')
    BY <1>0, <1>1
  <2> QED BY <2>1, <2>2, CallsKept
<1>2. CASE Accepts
  <2>1. PICK c \in Agents, message \in Message :
          Accept(c, message) /\ (message.kind = "request" => message.src \in Agents)
    BY <1>2 DEF Accepts
  <2>2. /\ DOMAIN sent' = DOMAIN sent \cup {Len(sent) + 1}
        /\ \A m \in DOMAIN sent : sent'[m] = sent[m]
        /\ sent'[Len(sent) + 1] = message /\ Len(sent') = Len(sent) + 1
    BY <2>1, AcceptedType
  <2>3. \A m \in DOMAIN sent' : sent'[m].kind = "request" => sent'[m].src \in Agents
    BY <2>1, <2>2 DEF Calls
  <2>4. Len(sent') \in Nat /\ Len(sent) <= Len(sent')
    BY <1>0, <2>2
  <2> QED BY <2>3, <2>4, CallsKept
<1> QED BY <1>1, <1>2, Effects, SentGrows

\* Only an agent that runs awaits a future: the tasks in line are for futures
\* that are awaited.
LEMMA AwaitingStep ==
  ASSUME TypeOK, Awaiting, Futures, Next
  PROVE  Awaiting'
<1>0. /\ future \in [Agents -> {"none", "pending", "message", "error"}]
      /\ task \in [Agents -> {"none", "running", "exiting", "done"}]
  BY DEF TypeOK
<1>1. ASSUME UNCHANGED <<future, task>> PROVE Awaiting'
  BY <1>1 DEF Awaiting
<1>2. ASSUME NEW a \in Agents, future'[a] = "none",
             \A b \in Agents : b # a => future'[b] = future[b] /\ task'[b] = task[b]
      PROVE  Awaiting'
  BY <1>2 DEF Awaiting
<1>3. ASSUME NEW a \in Agents, task'[a] = "running",
             \A b \in Agents : b # a => future'[b] = future[b] /\ task'[b] = task[b]
      PROVE  Awaiting'
  BY <1>3 DEF Awaiting
<1>4. ASSUME NEW a \in Agents, task[a] # "running", future' = future,
             \A b \in Agents : b # a => task'[b] = task[b]
      PROVE  Awaiting'
  BY <1>4 DEF Awaiting
<1>5. ASSUME NEW n \in Names, Start(n) PROVE Awaiting'
  <2> DEFINE a == created + 1
  <2>1. a \in Agents
    BY <1>5, BusLimits DEF Start, TypeOK, Agents
  <2>2. task' = [task EXCEPT ![a] = "running"] /\ future' = future
    BY <1>5 DEF Start, futureVars
  <2> HIDE DEF a
  <2> QED BY <1>0, <1>3, <2>1, <2>2
<1>6. ASSUME NEW n, StartRolledBack(n) \/ Post(n) \/ DropChannel(n) PROVE Awaiting'
  BY <1>1, <1>6 DEF StartRolledBack, Post, DropChannel, futureVars, registryVars
<1>7. ASSUME NEW c \in Agents, Take(c) \/ TakeNone(c) PROVE Awaiting'
  <2>1. line[c] # <<>> /\ task' = task
    BY <1>7 DEF Take, TakeNone, registryVars
  <2> DEFINE h == Head(line[c])
  <2>2. h = line[c][1] /\ 1 \in DOMAIN line[c] /\ h \in Agents \cup {Stale}
    <3>1. line[c] \in Seq(Agents \cup {Stale})
      BY DEF TypeOK
    <3> QED BY <2>1, <3>1, FirstAndRest
  <2>3. CASE h = Stale
    BY <1>1, <1>7, <2>1, <2>3 DEF Take, TakeNone, Complete, futureVars
  <2>4. CASE h # Stale
    <3>1. h \in Agents /\ future[h] = "pending"
      BY <2>2, <2>4 DEF Futures
    <3>2. task[h] = "running"
      BY <3>1 DEF Awaiting
    <3>3. \A b \in Agents : b # h => future'[b] = future[b]
      BY <1>0, <1>7, <2>4 DEF Take, TakeNone, Complete
    <3> HIDE DEF h
    <3> QED BY <1>3, <2>1, <3>1, <3>2, <3>3
  <2> QED BY <2>3, <2>4
<1>8. ASSUME NEW a, NEW b, Send(a, b) \/ Request(a, b) PROVE Awaiting'
  BY <1>1, <1>8 DEF Send, Request, Route, registryVars, futureVars
<1>9. ASSUME NEW a \in Agents, CancelTask(a) \/ LoopEnds(a) \/ Crash(a)
      PROVE  Awaiting'
  <2>1. /\ future' = [future EXCEPT ![a] = "none"]
        /\ \E t : task' = [task EXCEPT ![a] = t]
    BY <1>9 DEF CancelTask, LoopEnds, Crash, Unwind, CancelFuture
  <2> QED BY <1>0, <1>2, <2>1
<1>10. ASSUME NEW a \in Agents, TerminalCleanup(a) \/ KillEnds(a) \/ Kill(a)
       PROVE  Awaiting'
  <2>1. /\ future' = future
        /\ \/ task' = task
           \/ task[a] # "running" /\ task' = [task EXCEPT ![a] = "done"]
    BY <1>10 DEF TerminalCleanup, KillEnds, Kill, futureVars
  <2> QED BY <1>0, <1>1, <1>4, <2>1
<1>11. ASSUME NEW a, Reply(a) PROVE Awaiting'
  BY <1>1, <1>11 DEF Reply, Route, registryVars, futureVars
<1>12. ASSUME NEW a \in Agents, Listen(a) PROVE Awaiting'
  <2>1. task[a] = "running" /\ task' = task /\ future' = [future EXCEPT ![a] = "pending"]
    BY <1>12 DEF Listen, AtReceive, registryVars
  <2> QED BY <1>0, <1>3, <2>1
<1>13. ASSUME NEW a, CallReceive(a) \/ Return(a) \/ DeadlinePassed(a) PROVE Awaiting'
  BY <1>1, <1>13 DEF CallReceive, Return, DeadlinePassed, registryVars, futureVars
<1>14. ASSUME NEW a \in Agents, Receive(a) \/ ReceiveFails(a) \/ Expire(a) PROVE Awaiting'
  <2>1. /\ future' = [future EXCEPT ![a] = "none"]
        /\ task' = task \/ task' = [task EXCEPT ![a] = "exiting"]
    BY <1>14 DEF Receive, ReceiveFails, Expire, CancelFuture, registryVars
  <2> QED BY <1>0, <1>2, <2>1
<1> QED BY <1>5, <1>6, <1>7, <1>8, <1>9, <1>10, <1>11, <1>12, <1>13, <1>14 DEF Next

-----------------------------------------------------------------------------
(* Messages: what a step leaves alone *)

Traffic == Futures /\ Places /\ Channels /\ InOrder /\ Addressed /\ Paid

\* The accepted messages.
LEMMA SentType ==
  ASSUME TypeOK
  PROVE  \A m \in DOMAIN sent : sent[m] \in Message /\ sent[m].at \in Agents /\ m \in Nat /\ m # 0
<1> SUFFICES ASSUME NEW m \in DOMAIN sent
             PROVE  sent[m] \in Message /\ sent[m].at \in Agents /\ m \in Nat /\ m # 0
  OBVIOUS
<1>1. sent \in Seq(Message)
  BY DEF TypeOK
<1>2. sent[m] \in Message /\ m \in Nat /\ m # 0
  BY <1>1
<1> QED BY <1>2 DEF Message

\* Whoever is in line is an agent, or stale.
LEMMA LineType ==
  ASSUME TypeOK
  PROVE  \A c \in Agents : \A i \in DOMAIN line[c] :
           line[c][i] # Stale => line[c][i] \in Agents
<1> SUFFICES ASSUME NEW c \in Agents, NEW i \in DOMAIN line[c]
             PROVE  line[c][i] # Stale => line[c][i] \in Agents
  OBVIOUS
<1>1. line[c] \in Seq(Agents \cup {Stale})
  BY DEF TypeOK
<1>2. line[c][i] \in Agents \cup {Stale}
  BY <1>1
<1> QED BY <1>2

\* A step that leaves lines and futures alone.
LEMMA FuturesSame ==
  ASSUME Futures, UNCHANGED <<line, future, scheduled>>
  PROVE  Futures'
BY DEF Futures

\* A step that moves no message.
LEMMA PlacesSame ==
  ASSUME Places, UNCHANGED <<sent, queue, scheduled, received, lost>>
  PROVE  Places'
BY DEF Places

\* A step that leaves channels and names alone.
LEMMA ChannelsSame ==
  ASSUME Channels, UNCHANGED <<sent, queue, name>>
  PROVE  Channels'
BY DEF Channels

\* Fewer agents in line, fewer messages on their way.
LEMMA InOrderLess ==
  ASSUME InOrder, UNCHANGED <<sent, received, name>>,
         \A a \in Agents : scheduled'[a] \in {0, scheduled[a]},
         \A a, c \in Agents : a \in ToSet(line'[c]) => a \in ToSet(line[c])
  PROVE  InOrder'
BY DEF InOrder

\* The same for the addressees; mailboxes that were taken stay taken.
LEMMA AddressedLess ==
  ASSUME Addressed, UNCHANGED <<sent, received>>, robbed \subseteq robbed',
         \A a \in Agents : scheduled'[a] \in {0, scheduled[a]},
         \A a, c \in Agents : a \in ToSet(line'[c]) => a \in ToSet(line[c])
  PROVE  Addressed'
<1> SUFFICES ASSUME robbed' = {} PROVE Addressed'
  BY DEF Addressed
<1>1. robbed = {}
  OBVIOUS
<1> QED BY <1>1 DEF Addressed

\* Messages that are dropped, from a channel or on their way.
LEMMA PlacesDrop ==
  ASSUME Places, NEW D, D \subseteq DOMAIN sent, UNCHANGED <<sent, received>>,
         lost' = lost \cup D,
         \A c \in Agents : ToSet(queue'[c]) = ToSet(queue[c]) \ D,
         \A a \in Agents : scheduled'[a] = IF scheduled[a] \in D THEN 0 ELSE scheduled[a],
         \A m \in D : \A a \in Agents : m \notin ToSet(received[a]),
         \A m \in DOMAIN sent : sent[m].at \in Agents /\ m # 0
  PROVE  Places'
<1>1. \A c \in Agents : \A m \in ToSet(queue'[c]) :
        /\ m \in DOMAIN sent' /\ sent'[m].at = c /\ m \notin lost'
        /\ \A a \in Agents : scheduled'[a] # m /\ m \notin ToSet(received'[a])
  <2> SUFFICES ASSUME NEW c \in Agents, NEW m \in ToSet(queue'[c])
               PROVE  /\ m \in DOMAIN sent' /\ sent'[m].at = c /\ m \notin lost'
                      /\ \A a \in Agents : scheduled'[a] # m /\ m \notin ToSet(received'[a])
    OBVIOUS
  <2>1. m \in ToSet(queue[c]) /\ m \notin D
    OBVIOUS
  <2> QED BY <2>1 DEF Places
<1>2. \A a \in Agents : scheduled'[a] # 0 =>
        /\ scheduled'[a] \in DOMAIN sent' /\ scheduled'[a] \notin lost'
        /\ \A b \in Agents : /\ b # a => scheduled'[b] # scheduled'[a]
                             /\ scheduled'[a] \notin ToSet(received'[b])
  BY DEF Places
<1>3. \A a \in Agents : \A m \in ToSet(received'[a]) :
        /\ m \in DOMAIN sent' /\ m \notin lost'
        /\ \A b \in Agents : b # a => m \notin ToSet(received'[b])
  BY DEF Places
<1>4. lost' \subseteq DOMAIN sent'
  BY DEF Places
<1>5. \A m \in DOMAIN sent' :
        \/ m \in ToSet(queue'[sent'[m].at]) \/ m \in lost'
        \/ \E a \in Agents : scheduled'[a] = m \/ m \in ToSet(received'[a])
  <2> SUFFICES ASSUME NEW m \in DOMAIN sent, m \notin lost'
               PROVE  \/ m \in ToSet(queue'[sent[m].at])
                      \/ \E a \in Agents : scheduled'[a] = m \/ m \in ToSet(received[a])
    OBVIOUS
  <2>1. m \notin D /\ m \notin lost /\ sent[m].at \in Agents
    OBVIOUS
  <2>2. \/ m \in ToSet(queue[sent[m].at])
        \/ \E a \in Agents : scheduled[a] = m \/ m \in ToSet(received[a])
    BY <2>1 DEF Places
  <2> QED BY <2>1, <2>2
<1> QED BY <1>1, <1>2, <1>3, <1>4, <1>5 DEF Places

\* The messages that are lost in a channel.
LEMMA LostFinite ==
  ASSUME TypeOK, NEW c \in Agents
  PROVE  IsFiniteSet(LostAt(c)) /\ Cardinality(LostAt(c)) \in Nat
<1>1. LostAt(c) \subseteq 1 .. MaxSent
  BY DEF TypeOK, LostAt, Ids
<1>2. IsFiniteSet(1 .. MaxSent)
  BY BusLimits, FS_Interval
<1> QED BY <1>1, <1>2, FS_Subset, FS_CardinalityType

\* Channels whose price does not change.
LEMMA PaidAs ==
  ASSUME NEW c \in Agents, Paid, Open(c)' => Open(c), name'[c] = name[c],
         line'[c] = line[c], cancelled'[c] = cancelled[c], LostAt(c)' = LostAt(c)
  PROVE  /\ name'[c] = 0 => line'[c] = <<>> /\ cancelled'[c] = 0
         /\ Open(c)' => cancelled'[c] = Count(line'[c], Stale) + Cardinality(LostAt(c)')
BY DEF Paid

-----------------------------------------------------------------------------
(* Messages: each effect *)

\* A new mailbox: its channel is empty, and nothing was lost there.
LEMMA OpensTraffic ==
  ASSUME TypeOK, Life, Traffic, Opens
  PROVE  Traffic'
<1>1. PICK a \in Agents, n \in Names :
        /\ name[a] = 0 /\ box[n] = Nobody
        /\ name' = [name EXCEPT ![a] = n] /\ box' = [box EXCEPT ![n] = a]
        /\ UNCHANGED <<flow, robbed>>
  BY DEF Opens
<1>2. \A b \in Agents : name[b] # 0 => name'[b] = name[b]
  BY <1>1 DEF TypeOK
<1>3. \A m \in DOMAIN sent : sent[m].at \in Agents
  BY SentType
<1>4. Futures' /\ Places'
  BY <1>1, FuturesSame, PlacesSame DEF Traffic, flow
<1>5. Channels'
  <2>1. \A m \in DOMAIN sent : name'[sent[m].at] = name[sent[m].at] /\ name[sent[m].at] # 0
    BY <1>2, <1>3 DEF Traffic, Channels
  <2> QED BY <1>1, <2>1 DEF Traffic, Channels, flow
<1>6. InOrder'
  <2> SUFFICES ASSUME NEW b \in Agents
               PROVE  /\ \A i, j \in DOMAIN received[b] : i < j => received[b][i] < received[b][j]
                      /\ \A m \in ToSet(received[b]) : name'[sent[m].at] = name'[b]
                      /\ scheduled[b] # 0 => /\ name'[sent[scheduled[b]].at] = name'[b]
                                             /\ \A m \in ToSet(received[b]) : m < scheduled[b]
                      /\ \A c \in Agents : b \in ToSet(line[c]) =>
                           /\ name'[b] # 0 /\ name'[c] = name'[b]
                           /\ \A m \in ToSet(received[b]) : sent[m].at <= c
    BY <1>1 DEF InOrder, flow
  <2>1. \A m \in DOMAIN sent : name[sent[m].at] # 0 /\ sent[m].at \in Agents
    BY <1>3 DEF Traffic, Channels
  <2>2. \A m \in ToSet(received[b]) : m \in DOMAIN sent
    BY DEF Traffic, Places
  <2>3. scheduled[b] # 0 => scheduled[b] \in DOMAIN sent
    BY DEF Traffic, Places
  <2> QED BY <1>2, <2>1, <2>2, <2>3 DEF Traffic, InOrder
<1>7. Addressed'
  BY <1>1, AddressedLess DEF Traffic, flow
<1>8. Paid'
  <2> SUFFICES ASSUME NEW c \in Agents
               PROVE  /\ name'[c] = 0 => line'[c] = <<>> /\ cancelled'[c] = 0
                      /\ Open(c)' => cancelled'[c] = Count(line'[c], Stale)
                                                       + Cardinality(LostAt(c)')
    BY DEF Paid
  <2>0. LostAt(c)' = LostAt(c) /\ line' = line /\ cancelled' = cancelled
    BY <1>1 DEF LostAt, flow
  <2>1. CASE c = a
    <3>1. line[c] = <<>> /\ cancelled[c] = 0 /\ name'[c] # 0
      BY <1>1, <2>1, BusLimits DEF Traffic, Paid, TypeOK
    <3>2. LostAt(c) = {}
      BY <1>1, <2>1 DEF Traffic, Places, Channels, LostAt
    <3>3. Count(<<>>, Stale) = 0 /\ Cardinality({}) = 0
      <4>1. {i \in DOMAIN <<>> : <<>>[i] = Stale} = {}
        OBVIOUS
      <4> QED BY <4>1, FS_EmptySet DEF Count
    <3> QED BY <2>0, <3>1, <3>2, <3>3
  <2>2. CASE c # a
    <3>1. name'[c] = name[c] /\ (Open(c)' => Open(c))
      BY <1>1, <2>2 DEF TypeOK, Open
    <3> QED BY <2>0, <3>1, PaidAs DEF Traffic
  <2> QED BY <2>1, <2>2
<1> QED BY <1>4, <1>5, <1>6, <1>7, <1>8 DEF Traffic

\* A message is accepted: it is the newest of all, and its channel is the newest
\* of its name.
LEMMA AcceptsTraffic ==
  ASSUME TypeOK, Life, Traffic, Accepts
  PROVE  Traffic'
<1>1. PICK c \in Agents, message \in Message :
        /\ message.at = c /\ Open(c) /\ Accept(c, message)
        /\ robbed = {} => message.dst \in {0, c}
        /\ UNCHANGED <<line, futureVars, received, lost, cancelled, box, name, robbed>>
  BY DEF Accepts
<1>2. PICK n \in Ids : n = Len(sent) + 1
  BY <1>1, AcceptedType
<1>3. /\ DOMAIN sent' = DOMAIN sent \cup {n} /\ n \notin DOMAIN sent
      /\ \A m \in DOMAIN sent : sent'[m] = sent[m] /\ m < n
      /\ sent'[n] = message
      /\ queue'[c] = Append(queue[c], n)
      /\ ToSet(queue'[c]) = ToSet(queue[c]) \cup {n}
      /\ \A d \in Agents : d # c => queue'[d] = queue[d]
  BY <1>1, <1>2, AcceptedType
<1>4. UNCHANGED <<line, future, scheduled, received, lost, cancelled, box, name, robbed>>
  BY <1>1 DEF futureVars
<1>5. /\ \A d \in Agents : \A m \in ToSet(queue[d]) : m \in DOMAIN sent
      /\ lost \subseteq DOMAIN sent
      /\ \A a \in Agents : \A m \in ToSet(received[a]) : m \in DOMAIN sent
      /\ \A a \in Agents : scheduled[a] # 0 => scheduled[a] \in DOMAIN sent
  BY DEF Traffic, Places
<1>6. \A m \in DOMAIN sent : sent[m].at \in Agents /\ m \in Nat /\ m # 0
  BY SentType
<1>7. n \in Nat /\ n # 0
  BY BusLimits
<1>8. /\ name[c] # 0 /\ \A b \in Agents : name[b] = name[c] => b <= c
  <2>1. PICK k \in Names : box[k] = c
    BY <1>1 DEF Open
  <2> QED BY <2>1, BusLimits DEF Life, Mailbox
<1>9. Futures'
  BY <1>4, FuturesSame DEF Traffic
<1>10. Places'
  <2>1. \A d \in Agents : \A m \in ToSet(queue'[d]) :
          \/ m \in ToSet(queue[d])
          \/ d = c /\ m = n
    BY <1>3
  <2>2. \A d \in Agents : \A m \in ToSet(queue'[d]) :
          /\ m \in DOMAIN sent' /\ sent'[m].at = d /\ m \notin lost'
          /\ \A a \in Agents : scheduled'[a] # m /\ m \notin ToSet(received'[a])
    <3> SUFFICES ASSUME NEW d \in Agents, NEW m \in ToSet(queue'[d])
                 PROVE  /\ m \in DOMAIN sent' /\ sent'[m].at = d /\ m \notin lost
                        /\ \A a \in Agents : scheduled[a] # m /\ m \notin ToSet(received[a])
      BY <1>4
    <3>1. CASE m \in ToSet(queue[d])
      BY <1>3, <3>1 DEF Traffic, Places
    <3>2. CASE d = c /\ m = n
      BY <1>1, <1>3, <1>5, <1>7, <3>2
    <3> QED BY <2>1, <3>1, <3>2
  <2>3. \A a \in Agents : scheduled'[a] # 0 =>
          /\ scheduled'[a] \in DOMAIN sent' /\ scheduled'[a] \notin lost'
          /\ \A b \in Agents : /\ b # a => scheduled'[b] # scheduled'[a]
                               /\ scheduled'[a] \notin ToSet(received'[b])
    BY <1>3, <1>4 DEF Traffic, Places
  <2>4. \A a \in Agents : \A m \in ToSet(received'[a]) :
          /\ m \in DOMAIN sent' /\ m \notin lost'
          /\ \A b \in Agents : b # a => m \notin ToSet(received'[b])
    BY <1>3, <1>4 DEF Traffic, Places
  <2>5. lost' \subseteq DOMAIN sent'
    BY <1>3, <1>4, <1>5
  <2>6. \A m \in DOMAIN sent' :
          \/ m \in ToSet(queue'[sent'[m].at]) \/ m \in lost'
          \/ \E a \in Agents : scheduled'[a] = m \/ m \in ToSet(received'[a])
    <3> SUFFICES ASSUME NEW m \in DOMAIN sent'
                 PROVE  \/ m \in ToSet(queue'[sent'[m].at]) \/ m \in lost
                        \/ \E a \in Agents : scheduled[a] = m \/ m \in ToSet(received[a])
      BY <1>4
    <3>1. CASE m = n
      BY <1>1, <1>3, <3>1
    <3>2. CASE m \in DOMAIN sent
      <4>1. /\ sent'[m].at = sent[m].at /\ sent[m].at \in Agents
            /\ m \in ToSet(queue[sent[m].at]) => m \in ToSet(queue'[sent[m].at])
        BY <1>3, <1>6, <3>2
      <4> QED BY <4>1, <3>2 DEF Traffic, Places
    <3> QED BY <1>3, <3>1, <3>2
  <2> QED BY <2>2, <2>3, <2>4, <2>5, <2>6 DEF Places
<1>11. Channels'
  <2>1. ASSUME NEW d \in Agents, NEW i \in DOMAIN queue'[d], NEW j \in DOMAIN queue'[d],
               i < j
        PROVE  queue'[d][i] < queue'[d][j]
    <3>1. CASE d # c
      BY <1>3, <2>1, <3>1 DEF Traffic, Channels
    <3>2. CASE d = c
      <4> DEFINE q == queue[c]
      <4>1. q \in Seq(Ids) /\ Len(q) \in Nat /\ DOMAIN q = 1 .. Len(q)
        BY DEF TypeOK
      <4>2. /\ \A k \in 1 .. Len(q) : queue'[c][k] = q[k]
            /\ queue'[c][Len(q) + 1] = n
            /\ DOMAIN queue'[c] = 1 .. Len(q) + 1
        BY <1>3, <4>1, AppendProperties
      <4>3. \A k \in DOMAIN q : q[k] \in ToSet(q)
        BY DEF ToSet
      <4>4. \A k \in DOMAIN q : q[k] < n
        BY <1>3, <1>5, <4>3
      <4>5. \A k, l \in DOMAIN q : k < l => q[k] < q[l]
        BY DEF Traffic, Channels
      <4> HIDE DEF q
      <4>6. i \in 1 .. Len(q) /\ (j \in 1 .. Len(q) \/ j = Len(q) + 1)
        BY <2>1, <3>2, <4>1, <4>2
      <4> QED BY <2>1, <3>2, <4>1, <4>2, <4>4, <4>5, <4>6
    <3> QED BY <3>1, <3>2
  <2>2. ASSUME NEW m \in DOMAIN sent', m \notin ToSet(queue'[sent'[m].at]),
               NEW k \in ToSet(queue'[sent'[m].at])
        PROVE  m < k
    <3>1. m # n
      BY <1>1, <1>3, <2>2
    <3>2. m \in DOMAIN sent /\ sent'[m] = sent[m] /\ m < n /\ sent[m].at \in Agents
      BY <1>3, <1>6, <3>1
    <3>3. CASE k = n
      BY <3>2, <3>3
    <3>4. CASE k # n
      <4>1. m \notin ToSet(queue[sent[m].at]) /\ k \in ToSet(queue[sent[m].at])
        BY <1>3, <2>2, <3>2, <3>4
      <4> QED BY <4>1, <3>2 DEF Traffic, Channels
    <3> QED BY <3>3, <3>4
  <2>3. ASSUME NEW m \in DOMAIN sent'
        PROVE  name[sent'[m].at] # 0
    BY <1>1, <1>3, <1>8 DEF Traffic, Channels
  <2>4. ASSUME NEW m \in DOMAIN sent', NEW k \in DOMAIN sent',
               name[sent'[m].at] = name[sent'[k].at], sent'[m].at < sent'[k].at
        PROVE  m < k
    <3>1. CASE m = n
      <4>1. sent'[k].at \in Agents /\ c < sent'[k].at /\ name[sent'[k].at] = name[c]
        BY <1>1, <1>3, <1>6, <2>4, <3>1
      <4>2. sent'[k].at <= c /\ sent'[k].at \in Nat /\ c \in Nat
        BY <1>8, <4>1, BusLimits
      <4>3. FALSE
        BY <4>1, <4>2
      <4> QED BY <4>3
    <3>2. CASE m # n /\ k = n
      BY <1>3, <3>2
    <3>3. CASE m # n /\ k # n
      BY <1>3, <2>4, <3>3 DEF Traffic, Channels
    <3> QED BY <3>1, <3>2, <3>3
  <2> QED BY <1>4, <2>1, <2>2, <2>3, <2>4 DEF Channels
<1>12. InOrder'
  <2> SUFFICES ASSUME NEW b \in Agents
               PROVE  /\ \A i, j \in DOMAIN received[b] : i < j => received[b][i] < received[b][j]
                      /\ \A m \in ToSet(received[b]) : name[sent'[m].at] = name[b]
                      /\ scheduled[b] # 0 => /\ name[sent'[scheduled[b]].at] = name[b]
                                             /\ \A m \in ToSet(received[b]) : m < scheduled[b]
                      /\ \A d \in Agents : b \in ToSet(line[d]) =>
                           /\ name[b] # 0 /\ name[d] = name[b]
                           /\ \A m \in ToSet(received[b]) : sent'[m].at <= d
    BY <1>4 DEF InOrder
  <2> QED BY <1>3, <1>5 DEF Traffic, InOrder
<1>13. Addressed'
  <2> SUFFICES ASSUME robbed = {}
               PROVE  /\ \A m \in DOMAIN sent' : sent'[m].dst \in {0, sent'[m].at}
                      /\ \A a \in Agents :
                           /\ \A d \in Agents : a \in ToSet(line[d]) => d = a
                           /\ scheduled[a] # 0 => sent'[scheduled[a]].at = a
                           /\ \A m \in ToSet(received[a]) : sent'[m].at = a
    BY <1>4 DEF Addressed
  <2> QED BY <1>1, <1>3, <1>5 DEF Traffic, Addressed
<1>14. Paid'
  <2>1. ASSUME NEW d \in Agents PROVE LostAt(d)' = LostAt(d) /\ (Open(d)' => Open(d))
    BY <1>3, <1>4, <1>5 DEF LostAt, Open
  <2> QED BY <1>4, <2>1, PaidAs DEF Traffic, Paid
<1> QED BY <1>9, <1>10, <1>11, <1>12, <1>13, <1>14 DEF Traffic

\* A future is cancelled: its entry in line becomes stale, or the message that
\* was on its way is lost.
LEMMA CancelsTraffic ==
  ASSUME TypeOK, Life, Traffic, Cancels
  PROVE  Traffic'
<1>1. PICK a \in Agents :
        CancelFuture(a) /\ UNCHANGED <<sent, queue, received, box, name, robbed>>
  BY DEF Cancels
<1>2. /\ \A c \in Agents :
           /\ DOMAIN line'[c] = DOMAIN line[c]
           /\ \A i \in DOMAIN line[c] :
                line'[c][i] = IF line[c][i] = a THEN Stale ELSE line[c][i]
      /\ lost' = lost \cup ({scheduled[a]} \ {0})
      /\ future' = [future EXCEPT ![a] = "none"]
      /\ scheduled' = [scheduled EXCEPT ![a] = 0]
      /\ line' \in [Agents -> Seq(Agents \cup {Stale})]
  BY <1>1, CancelledType
<1>3. /\ future \in [Agents -> {"none", "pending", "message", "error"}]
      /\ scheduled \in [Agents -> Ids \cup {0}] /\ cancelled \in [Agents -> Nat]
      /\ line \in [Agents -> Seq(Agents \cup {Stale})]
  BY DEF TypeOK
<1>4. /\ \A b \in Agents : b # a => future'[b] = future[b] /\ scheduled'[b] = scheduled[b]
      /\ future'[a] = "none" /\ scheduled'[a] = 0
  BY <1>2, <1>3
<1>5. a # Stale /\ Stale = 0
  BY BusLimits
<1>6. \A b, c \in Agents : b \in ToSet(line'[c]) => b \in ToSet(line[c])
  <2> SUFFICES ASSUME NEW b \in Agents, NEW c \in Agents, NEW i \in DOMAIN line'[c],
                      line'[c][i] = b
               PROVE  b \in ToSet(line[c])
    BY DEF ToSet
  <2>1. b # Stale
    BY BusLimits
  <2>2. i \in DOMAIN line[c] /\ line[c][i] = b
    BY <1>2, <2>1
  <2> QED BY <2>2 DEF ToSet
<1>7. Futures'
  <2>1. ASSUME NEW c \in Agents, NEW i \in DOMAIN line'[c], line'[c][i] # Stale
        PROVE  i \in DOMAIN line[c] /\ line[c][i] = line'[c][i] /\ line'[c][i] # a
               /\ line'[c][i] \in Agents
    <3>1. i \in DOMAIN line[c] /\ line[c][i] = line'[c][i] /\ line'[c][i] # a
      BY <1>2, <1>5, <2>1
    <3>2. line[c][i] \in Agents \cup {Stale}
      BY <1>3, <3>1
    <3> QED BY <2>1, <3>1, <3>2
  <2>2. \A c \in Agents : \A i \in DOMAIN line'[c] :
          line'[c][i] # Stale => future'[line'[c][i]] = "pending"
    BY <1>4, <2>1 DEF Traffic, Futures
  <2>3. \A c, d \in Agents : \A i \in DOMAIN line'[c], j \in DOMAIN line'[d] :
          line'[c][i] = line'[d][j] /\ line'[c][i] # Stale => c = d /\ i = j
    BY <2>1 DEF Traffic, Futures
  <2>4. \A b \in Agents : future'[b] = "message" <=> scheduled'[b] # 0
    BY <1>4 DEF Traffic, Futures
  <2> QED BY <2>2, <2>3, <2>4 DEF Futures
<1>8. Places'
  <2> DEFINE D == {scheduled[a]} \ {0}
  <2>1. /\ D \subseteq DOMAIN sent
        /\ \A m \in D : \A b \in Agents : m \notin ToSet(received[b])
        /\ \A m \in D : \A c \in Agents : m \notin ToSet(queue[c])
    BY DEF Traffic, Places
  <2>2. \A b \in Agents : scheduled'[b] = IF scheduled[b] \in D THEN 0 ELSE scheduled[b]
    BY <1>4 DEF Traffic, Places
  <2>3. lost' = lost \cup D
    BY <1>2
  <2> HIDE DEF D
  <2>4. \A c \in Agents : ToSet(queue'[c]) = ToSet(queue[c]) \ D
    BY <1>1, <2>1
  <2>5. \A m \in DOMAIN sent : sent[m].at \in Agents /\ m # 0
    BY SentType
  <2> QED BY <1>1, <2>1, <2>2, <2>3, <2>4, <2>5, PlacesDrop DEF Traffic
<1>9. Channels'
  BY <1>1, ChannelsSame DEF Traffic
<1>10. \A b \in Agents : scheduled'[b] \in {0, scheduled[b]}
  BY <1>4
<1>11. InOrder' /\ Addressed'
  BY <1>1, <1>6, <1>10, InOrderLess, AddressedLess DEF Traffic
<1>12. Paid'
  <2> SUFFICES ASSUME NEW c \in Agents
               PROVE  /\ name'[c] = 0 => line'[c] = <<>> /\ cancelled'[c] = 0
                      /\ Open(c)' => cancelled'[c] = Count(line'[c], Stale)
                                                       + Cardinality(LostAt(c)')
    BY DEF Paid
  <2>0. /\ name'[c] = name[c] /\ (Open(c)' => Open(c))
        /\ cancelled[c] \in Nat /\ line[c] \in Seq(Agents \cup {Stale})
        /\ line'[c] \in Seq(Agents \cup {Stale})
    BY <1>1, <1>2, <1>3 DEF Open
  <2>01. cancelled'[c] = cancelled[c] +
           (IF \/ a \in ToSet(line[c])
               \/ scheduled[a] # 0 /\ sent[scheduled[a]].at = c
            THEN 1 ELSE 0)
    BY <1>1 DEF CancelFuture
  <2>02. Count(line[c], Stale) \in Nat /\ Count(line'[c], Stale) \in Nat
    BY <2>0, CountType
  <2>03. IsFiniteSet(LostAt(c)) /\ Cardinality(LostAt(c)) \in Nat
    BY LostFinite
  <2>1. CASE a \in ToSet(line[c])
    <3>1. PICK p \in DOMAIN line[c] : line[c][p] = a
      BY <2>1 DEF ToSet
    <3>2. scheduled[a] = 0
      BY <3>1, <1>5 DEF Traffic, Futures
    <3>3. LostAt(c)' = LostAt(c)
      BY <1>1, <1>2, <3>2 DEF LostAt
    <3>4. line[c] # <<>> /\ name[c] # 0
      BY <3>1 DEF Traffic, Paid
    <3>5. Count(line'[c], Stale) = Count(line[c], Stale) + 1
      <4> DEFINE A == {i \in DOMAIN line[c] : line[c][i] = Stale}
                 B == {i \in DOMAIN line'[c] : line'[c][i] = Stale}
      <4>1. \A i \in DOMAIN line[c] : line[c][i] = a => i = p
        BY <3>1, <1>5 DEF Traffic, Futures
      <4>2. B = A \cup {p}
        BY <1>2, <3>1, <4>1
      <4>3. p \notin A
        BY <1>5, <3>1
      <4>4. IsFiniteSet(A)
        BY <2>0, CountType
      <4> HIDE DEF A, B
      <4>5. Cardinality(B) = Cardinality(A) + 1
        BY <4>2, <4>3, <4>4, FS_AddElement
      <4> QED BY <4>5 DEF A, B, Count
    <3>6. cancelled'[c] = cancelled[c] + 1
      BY <2>01, <2>1
    <3>7. Open(c)' => cancelled[c] = Count(line[c], Stale) + Cardinality(LostAt(c))
      BY <2>0 DEF Traffic, Paid
    <3>8. Cardinality(LostAt(c)') = Cardinality(LostAt(c))
      BY <3>3
    <3>9. ASSUME Open(c)'
          PROVE  cancelled[c] + 1 = (Count(line[c], Stale) + 1) + Cardinality(LostAt(c))
      BY <2>02, <2>03, <3>7, <3>9
    <3> QED BY <2>0, <3>4, <3>5, <3>6, <3>8, <3>9
  <2>2. CASE a \notin ToSet(line[c])
    <3>1. line'[c] = line[c]
      <4>1. \A i \in DOMAIN line[c] : line'[c][i] = line[c][i]
        BY <1>2, <2>2 DEF ToSet
      <4>2. DOMAIN line'[c] = DOMAIN line[c]
        BY <1>2
      <4> QED BY <2>0, <4>1, <4>2
    <3>2. CASE scheduled[a] # 0 /\ sent[scheduled[a]].at = c
      <4>1. scheduled[a] \in DOMAIN sent /\ scheduled[a] \notin lost
        BY <3>2 DEF Traffic, Places
      <4>2. name[c] # 0
        BY <3>2, <4>1 DEF Traffic, Channels
      <4>3. LostAt(c)' = LostAt(c) \cup {scheduled[a]} /\ scheduled[a] \notin LostAt(c)
        BY <1>1, <1>2, <3>2, <4>1 DEF LostAt
      <4>4. Cardinality(LostAt(c)') = Cardinality(LostAt(c)) + 1
        BY <2>03, <4>3, FS_AddElement
      <4>5. cancelled'[c] = cancelled[c] + 1
        BY <2>01, <3>2
      <4>6. Open(c)' => cancelled[c] = Count(line[c], Stale) + Cardinality(LostAt(c))
        BY <2>0 DEF Traffic, Paid
      <4> QED BY <2>0, <2>02, <2>03, <3>1, <4>2, <4>4, <4>5, <4>6
    <3>3. CASE ~ (scheduled[a] # 0 /\ sent[scheduled[a]].at = c)
      <4>1. LostAt(c)' = LostAt(c)
        BY <1>1, <1>2, <3>3 DEF LostAt
      <4>2. cancelled'[c] = cancelled[c]
        BY <2>0, <2>01, <2>2, <3>3
      <4> QED BY <2>0, <3>1, <4>1, <4>2, PaidAs DEF Traffic
    <3> QED BY <3>2, <3>3
  <2> QED BY <2>1, <2>2
<1> QED BY <1>7, <1>8, <1>9, <1>11, <1>12 DEF Traffic

\* A mailbox is unregistered: its channel is closed, and may be gone.
LEMMA ClosesTraffic ==
  ASSUME TypeOK, Life, Traffic, Closes
  PROVE  Traffic'
<1>1. PICK n \in Names :
        /\ Unregister(n) /\ robbed \subseteq robbed'
        /\ UNCHANGED <<sent, futureVars, received, cancelled, name>>
  BY DEF Closes
<1>2. /\ box' = [box EXCEPT ![n] = Nobody]
      /\ \/ UNCHANGED <<queue, line, lost>>
         \/ \E c \in Agents :
              /\ c = box[n] /\ ToSet(line[c]) \subseteq {Stale}
              /\ queue'[c] = <<>> /\ line'[c] = <<>>
              /\ lost' = lost \cup ToSet(queue[c])
              /\ \A d \in Agents : d # c => queue'[d] = queue[d] /\ line'[d] = line[d]
  BY <1>1, ClosedType
<1>3. /\ UNCHANGED <<sent, future, scheduled, received, cancelled, name>>
      /\ box \in [Names -> Agents \cup {Nobody}]
  BY <1>1 DEF futureVars, TypeOK
<1>4. \A c \in Agents : Open(c)' => Open(c)
  BY <1>2, <1>3, BusLimits DEF Open
<1>5. CASE UNCHANGED <<queue, line, lost>>
  <2>1. Futures' /\ Places' /\ Channels'
    BY <1>3, <1>5, FuturesSame, PlacesSame, ChannelsSame DEF Traffic
  <2>2. InOrder' /\ Addressed'
    BY <1>1, <1>3, <1>5, InOrderLess, AddressedLess DEF Traffic
  <2>3. \A c \in Agents : LostAt(c)' = LostAt(c)
    BY <1>3, <1>5 DEF LostAt
  <2>4. Paid'
    BY <1>3, <1>4, <1>5, <2>3, PaidAs DEF Traffic, Paid
  <2> QED BY <2>1, <2>2, <2>4 DEF Traffic
<1>6. ASSUME NEW c \in Agents,
             c = box[n], ToSet(line[c]) \subseteq {Stale},
             queue'[c] = <<>>, line'[c] = <<>>, lost' = lost \cup ToSet(queue[c]),
             \A d \in Agents : d # c => queue'[d] = queue[d] /\ line'[d] = line[d]
      PROVE  Traffic'
  <2>1. ToSet(<<>>) = {} /\ DOMAIN <<>> = {}
    BY DEF ToSet
  <2>2. Futures'
    BY <1>3, <1>6, <2>1 DEF Traffic, Futures
  <2>3. Places'
    <3> DEFINE D == ToSet(queue[c])
    <3>1. /\ D \subseteq DOMAIN sent
          /\ \A m \in D : \A b \in Agents : m \notin ToSet(received[b]) /\ scheduled[b] # m
          /\ \A m \in D : \A d \in Agents : d # c => m \notin ToSet(queue[d])
      BY DEF Traffic, Places
    <3>2. \A d \in Agents : ToSet(queue'[d]) = ToSet(queue[d]) \ D
      BY <1>6, <2>1, <3>1
    <3>3. lost' = lost \cup D
      BY <1>6
    <3> HIDE DEF D
    <3>4. \A b \in Agents : scheduled'[b] = IF scheduled[b] \in D THEN 0 ELSE scheduled[b]
      BY <1>3, <3>1
    <3>5. \A m \in DOMAIN sent : sent[m].at \in Agents /\ m # 0
      BY SentType
    <3> QED BY <1>3, <3>1, <3>2, <3>3, <3>4, <3>5, PlacesDrop DEF Traffic
  <2>4. Channels'
    <3>1. \A d \in Agents : queue'[d] = queue[d] \/ queue'[d] = <<>>
      BY <1>6
    <3> QED BY <1>3, <2>1, <3>1, SentType DEF Traffic, Channels
  <2>5. \A b, d \in Agents : b \in ToSet(line'[d]) => b \in ToSet(line[d])
    BY <1>6, <2>1
  <2>6. InOrder' /\ Addressed'
    BY <1>1, <1>3, <2>5, InOrderLess, AddressedLess DEF Traffic
  <2>7. ASSUME NEW d \in Agents
        PROVE  /\ name'[d] = 0 => line'[d] = <<>> /\ cancelled'[d] = 0
               /\ Open(d)' => cancelled'[d] = Count(line'[d], Stale)
                                                + Cardinality(LostAt(d)')
    <3>1. CASE d = c
      <4>1. ~ Open(c)'
        <5> SUFFICES ASSUME NEW k \in Names, box'[k] = c PROVE FALSE
          BY DEF Open
        <5>1. k # n /\ box[k] = c
          BY <1>2, <1>3, BusLimits
        <5>2. name[c] = n /\ name[c] = k
          BY <1>6, <5>1, BusLimits DEF Life, Mailbox
        <5> QED BY <5>1, <5>2
      <4>2. name'[d] # 0
        BY <1>3, <1>6, <3>1, BusLimits DEF Life, Mailbox
      <4> QED BY <3>1, <4>1, <4>2
    <3>2. CASE d # c
      <4>1. LostAt(d)' = LostAt(d)
        BY <1>3, <1>6, <3>2 DEF Traffic, Places, LostAt
      <4> QED BY <1>3, <1>4, <1>6, <3>2, <4>1, PaidAs DEF Traffic
    <3> QED BY <3>1, <3>2
  <2>8. Paid'
    BY <2>7 DEF Paid
  <2> QED BY <2>2, <2>3, <2>4, <2>6, <2>8 DEF Traffic
<1> QED BY <1>2, <1>5, <1>6

\* A message arrives.
LEMMA GetsTraffic ==
  ASSUME TypeOK, Life, Traffic, Gets
  PROVE  Traffic'
<1>1. PICK a \in Agents :
        /\ future[a] = "message"
        /\ received' = [received EXCEPT ![a] = Append(@, scheduled[a])]
        /\ future' = [future EXCEPT ![a] = "none"]
        /\ scheduled' = [scheduled EXCEPT ![a] = 0]
        /\ UNCHANGED <<sent, busVars, lost, cancelled, name, robbed>>
  BY DEF Gets
<1>2. PICK x \in Ids : x = scheduled[a] /\ x # 0 /\ x \in DOMAIN sent
  BY <1>1, BusLimits DEF Traffic, Futures, Places, TypeOK
<1>3. UNCHANGED <<sent, queue, line, box, lost, cancelled, name, robbed>>
  BY <1>1 DEF busVars
<1>4. /\ future \in [Agents -> {"none", "pending", "message", "error"}]
      /\ scheduled \in [Agents -> Ids \cup {0}] /\ received \in [Agents -> Seq(Ids)]
  BY DEF TypeOK
<1>5. /\ \A b \in Agents : b # a => /\ future'[b] = future[b]
                                    /\ scheduled'[b] = scheduled[b]
                                    /\ received'[b] = received[b]
      /\ future'[a] = "none" /\ scheduled'[a] = 0
      /\ received'[a] = Append(received[a], x)
  BY <1>1, <1>2, <1>4
<1>6. ToSet(received'[a]) = ToSet(received[a]) \cup {x}
  BY <1>4, <1>5, AppendToList
<1>7. \A c \in Agents : \A i \in DOMAIN line[c] : line[c][i] # a
  BY <1>1, BusLimits DEF Traffic, Futures
<1>8. \A c \in Agents : a \notin ToSet(line[c])
  BY <1>7 DEF ToSet
<1>9. Futures'
  <2>1. \A c \in Agents : \A i \in DOMAIN line[c] :
          line[c][i] # Stale => line[c][i] \in Agents
    BY LineType
  <2>2. \A c \in Agents : \A i \in DOMAIN line'[c] :
          line'[c][i] # Stale => future'[line'[c][i]] = "pending"
    BY <1>3, <1>5, <1>7, <2>1 DEF Traffic, Futures
  <2>3. \A c, d \in Agents : \A i \in DOMAIN line'[c], j \in DOMAIN line'[d] :
          line'[c][i] = line'[d][j] /\ line'[c][i] # Stale => c = d /\ i = j
    BY <1>3 DEF Traffic, Futures
  <2>4. \A b \in Agents : future'[b] = "message" <=> scheduled'[b] # 0
    BY <1>5 DEF Traffic, Futures
  <2> QED BY <2>2, <2>3, <2>4 DEF Futures
<1>10. Places'
  <2>0. /\ \A c \in Agents : x \notin ToSet(queue[c])
        /\ x \notin lost
        /\ \A b \in Agents : /\ b # a => scheduled[b] # x
                             /\ x \notin ToSet(received[b])
    BY <1>2 DEF Traffic, Places
  <2>1. \A c \in Agents : \A m \in ToSet(queue'[c]) :
          /\ m \in DOMAIN sent' /\ sent'[m].at = c /\ m \notin lost'
          /\ \A b \in Agents : scheduled'[b] # m /\ m \notin ToSet(received'[b])
    <3> SUFFICES ASSUME NEW c \in Agents, NEW m \in ToSet(queue[c])
                 PROVE  /\ m \in DOMAIN sent /\ sent[m].at = c /\ m \notin lost
                        /\ \A b \in Agents : scheduled'[b] # m /\ m \notin ToSet(received'[b])
      BY <1>3
    <3>1. /\ m \in DOMAIN sent /\ sent[m].at = c /\ m \notin lost /\ m # x
          /\ \A b \in Agents : scheduled[b] # m /\ m \notin ToSet(received[b])
      BY <2>0 DEF Traffic, Places
    <3>2. m # 0
      BY <3>1, SentType
    <3> QED BY <1>5, <1>6, <3>1, <3>2
  <2>2. \A b \in Agents : scheduled'[b] # 0 =>
          /\ scheduled'[b] \in DOMAIN sent' /\ scheduled'[b] \notin lost'
          /\ \A d \in Agents : /\ d # b => scheduled'[d] # scheduled'[b]
                               /\ scheduled'[b] \notin ToSet(received'[d])
    <3> SUFFICES ASSUME NEW b \in Agents, b # a, scheduled[b] # 0
                 PROVE  /\ scheduled[b] \in DOMAIN sent /\ scheduled[b] \notin lost
                        /\ \A d \in Agents :
                             /\ d # b => scheduled'[d] # scheduled[b]
                             /\ scheduled[b] \notin ToSet(received'[d])
      BY <1>3, <1>5
    <3>1. /\ scheduled[b] \in DOMAIN sent /\ scheduled[b] \notin lost
          /\ scheduled[b] # x
          /\ \A d \in Agents :
               /\ d # b => scheduled[d] # scheduled[b]
               /\ scheduled[b] \notin ToSet(received[d])
      BY <2>0 DEF Traffic, Places
    <3> QED BY <1>5, <1>6, <3>1
  <2>3. \A b \in Agents : \A m \in ToSet(received'[b]) :
          /\ m \in DOMAIN sent' /\ m \notin lost'
          /\ \A d \in Agents : d # b => m \notin ToSet(received'[d])
    <3> SUFFICES ASSUME NEW b \in Agents, NEW m \in ToSet(received'[b])
                 PROVE  /\ m \in DOMAIN sent /\ m \notin lost
                        /\ \A d \in Agents : d # b => m \notin ToSet(received'[d])
      BY <1>3
    <3>1. CASE m = x
      <4>1. b = a
        BY <1>5, <2>0, <3>1
      <4> QED BY <1>2, <1>5, <2>0, <3>1, <4>1
    <3>2. CASE m # x
      <4>1. m \in ToSet(received[b])
        BY <1>5, <1>6, <3>2
      <4>2. /\ m \in DOMAIN sent /\ m \notin lost
            /\ \A d \in Agents : d # b => m \notin ToSet(received[d])
        BY <4>1 DEF Traffic, Places
      <4> QED BY <1>5, <1>6, <3>2, <4>2
    <3> QED BY <3>1, <3>2
  <2>4. lost' \subseteq DOMAIN sent'
    BY <1>3 DEF Traffic, Places
  <2>5. \A m \in DOMAIN sent' :
          \/ m \in ToSet(queue'[sent'[m].at]) \/ m \in lost'
          \/ \E b \in Agents : scheduled'[b] = m \/ m \in ToSet(received'[b])
    <3> SUFFICES ASSUME NEW m \in DOMAIN sent
                 PROVE  \/ m \in ToSet(queue[sent[m].at]) \/ m \in lost
                        \/ \E b \in Agents : scheduled'[b] = m \/ m \in ToSet(received'[b])
      BY <1>3
    <3>1. \/ m \in ToSet(queue[sent[m].at]) \/ m \in lost
          \/ \E b \in Agents : scheduled[b] = m \/ m \in ToSet(received[b])
      BY DEF Traffic, Places
    <3>2. \A b \in Agents : /\ scheduled[b] = m => scheduled'[b] = m \/ m \in ToSet(received'[b])
                            /\ m \in ToSet(received[b]) => m \in ToSet(received'[b])
      BY <1>2, <1>5, <1>6
    <3> QED BY <3>1, <3>2
  <2> QED BY <2>1, <2>2, <2>3, <2>4, <2>5 DEF Places
<1>11. Channels'
  BY <1>3, ChannelsSame DEF Traffic
<1>12. InOrder'
  <2> SUFFICES ASSUME NEW b \in Agents
               PROVE  /\ \A i, j \in DOMAIN received'[b] : i < j => received'[b][i] < received'[b][j]
                      /\ \A m \in ToSet(received'[b]) : name[sent[m].at] = name[b]
                      /\ scheduled'[b] # 0 =>
                           /\ name[sent[scheduled'[b]].at] = name[b]
                           /\ \A m \in ToSet(received'[b]) : m < scheduled'[b]
                      /\ \A d \in Agents : b \in ToSet(line[d]) =>
                           /\ name[b] # 0 /\ name[d] = name[b]
                           /\ \A m \in ToSet(received'[b]) : sent[m].at <= d
    BY <1>3 DEF InOrder
  <2>1. CASE b # a
    BY <1>5, <2>1 DEF Traffic, InOrder
  <2>2. CASE b = a
    <3>1. \A m \in ToSet(received[a]) : m < x /\ name[sent[m].at] = name[a]
      BY <1>2 DEF Traffic, InOrder
    <3>2. name[sent[x].at] = name[a]
      BY <1>2 DEF Traffic, InOrder
    <3>3. ASSUME NEW i \in DOMAIN received'[a], NEW j \in DOMAIN received'[a], i < j
          PROVE  received'[a][i] < received'[a][j]
      <4> DEFINE q == received[a]
      <4>1. q \in Seq(Ids) /\ Len(q) \in Nat /\ DOMAIN q = 1 .. Len(q)
        BY <1>4
      <4>2. /\ \A k \in 1 .. Len(q) : received'[a][k] = q[k]
            /\ received'[a][Len(q) + 1] = x
            /\ DOMAIN received'[a] = 1 .. Len(q) + 1
        BY <1>5, <4>1, AppendProperties
      <4>3. \A k \in DOMAIN q : q[k] \in ToSet(q)
        BY DEF ToSet
      <4>4. \A k \in DOMAIN q : q[k] < x
        BY <3>1, <4>3
      <4>5. \A k, l \in DOMAIN q : k < l => q[k] < q[l]
        BY DEF Traffic, InOrder
      <4> HIDE DEF q
      <4>6. i \in 1 .. Len(q) /\ (j \in 1 .. Len(q) \/ j = Len(q) + 1)
        BY <3>3, <4>1, <4>2
      <4> QED BY <3>3, <4>1, <4>2, <4>4, <4>5, <4>6
    <3> QED BY <1>5, <1>6, <1>8, <2>2, <3>1, <3>2, <3>3
  <2> QED BY <2>1, <2>2
<1>13. Addressed'
  <2> SUFFICES ASSUME robbed = {}
               PROVE  /\ \A m \in DOMAIN sent : sent[m].dst \in {0, sent[m].at}
                      /\ \A b \in Agents :
                           /\ \A d \in Agents : b \in ToSet(line[d]) => d = b
                           /\ scheduled'[b] # 0 => sent[scheduled'[b]].at = b
                           /\ \A m \in ToSet(received'[b]) : sent[m].at = b
    BY <1>3 DEF Addressed
  <2>1. sent[x].at = a
    BY <1>2 DEF Traffic, Addressed
  <2> QED BY <1>5, <1>6, <2>1, ZenonT(60) DEF Traffic, Addressed
<1>14. Paid'
  <2>1. ASSUME NEW d \in Agents PROVE LostAt(d)' = LostAt(d) /\ (Open(d)' => Open(d))
    BY <1>3 DEF LostAt, Open
  <2> QED BY <1>3, <2>1, PaidAs DEF Traffic, Paid
<1> QED BY <1>9, <1>10, <1>11, <1>12, <1>13, <1>14 DEF Traffic

\* An error arrives.
LEMMA FailsTraffic ==
  ASSUME TypeOK, Life, Traffic, Fails
  PROVE  Traffic'
<1>1. PICK a \in Agents :
        /\ future[a] = "error" /\ future' = [future EXCEPT ![a] = "none"]
        /\ UNCHANGED <<sent, busVars, scheduled, received, lost, cancelled, name, robbed>>
  BY DEF Fails
<1>2. /\ UNCHANGED <<sent, queue, line, box, scheduled, received, lost, cancelled, name,
                     robbed>>
      /\ future \in [Agents -> {"none", "pending", "message", "error"}]
  BY <1>1 DEF busVars, TypeOK
<1>3. Futures'
  <2>1. /\ \A b \in Agents : b # a => future'[b] = future[b]
        /\ future'[a] = "none" /\ future[a] = "error"
    BY <1>1, <1>2
  <2>2. \A c \in Agents : \A i \in DOMAIN line[c] :
          line[c][i] # Stale => line[c][i] \in Agents
    BY LineType
  <2> QED BY <1>2, <2>1, <2>2 DEF Traffic, Futures
<1>4. Places' /\ Channels' /\ InOrder' /\ Addressed'
  BY <1>2, PlacesSame, ChannelsSame, InOrderLess, AddressedLess DEF Traffic
<1>5. Paid'
  <2>1. ASSUME NEW d \in Agents PROVE LostAt(d)' = LostAt(d) /\ (Open(d)' => Open(d))
    BY <1>2 DEF LostAt, Open
  <2> QED BY <1>2, <2>1, PaidAs DEF Traffic, Paid
<1> QED BY <1>3, <1>4, <1>5 DEF Traffic

\* A receive: the agent is the last in line for the newest channel of its name.
LEMMA ListenTraffic ==
  ASSUME TypeOK, Life, Traffic, NEW a \in Agents, Listen(a)
  PROVE  Traffic'
<1>1. PICK c \in Agents :
        /\ line' = [line EXCEPT ![c] = Append(line[c], a)]
        /\ name[a] \in Names /\ name[c] = name[a]
        /\ \A b \in Agents : name[b] = name[a] => b <= c
        /\ robbed = {} => c = a
        /\ future[a] = "none" /\ future' = [future EXCEPT ![a] = "pending"]
        /\ UNCHANGED <<queue, scheduled, sent, received, lost, cancelled, name, box,
                       robbed>>
  BY ListenHere
<1>2. /\ future \in [Agents -> {"none", "pending", "message", "error"}]
      /\ line \in [Agents -> Seq(Agents \cup {Stale})] /\ a # Stale /\ name[a] # 0
  BY <1>1, BusLimits DEF TypeOK
<1>3. /\ \A d \in Agents : d # c => line'[d] = line[d]
      /\ line'[c] = Append(line[c], a)
      /\ \A b \in Agents : b # a => future'[b] = future[b]
      /\ future'[a] = "pending"
  BY <1>1, <1>2
<1>4. ToSet(line'[c]) = ToSet(line[c]) \cup {a} /\ line[c] \in Seq(Agents \cup {Stale})
  <2>1. line[c] \in Seq(Agents \cup {Stale}) /\ a \in Agents \cup {Stale}
    BY <1>2
  <2> QED BY <1>3, <2>1, AppendToList
<1>5. \A d \in Agents : \A i \in DOMAIN line[d] : line[d][i] # a
  BY <1>1, <1>2 DEF Traffic, Futures
<1>6. PICK p \in Nat :
        /\ p \notin DOMAIN line[c] /\ DOMAIN line'[c] = DOMAIN line[c] \cup {p}
        /\ line'[c][p] = a /\ \A i \in DOMAIN line[c] : line'[c][i] = line[c][i]
  <2> DEFINE s == line[c]
             T == Agents \cup {Stale}
  <2>1. s \in Seq(T) /\ a \in T
    BY <1>4
  <2> HIDE DEF T, s
  <2>2. /\ Len(s) \in Nat /\ DOMAIN s = 1 .. Len(s)
        /\ DOMAIN Append(s, a) = 1 .. Len(s) + 1
        /\ Append(s, a)[Len(s) + 1] = a
        /\ \A i \in 1 .. Len(s) : Append(s, a)[i] = s[i]
    BY <2>1, AppendProperties
  <2>3. Len(s) + 1 \in Nat /\ Len(s) + 1 \notin DOMAIN s /\ 1 .. Len(s) + 1 = DOMAIN s \cup {Len(s) + 1}
    BY <2>2
  <2>4. line'[c] = Append(s, a)
    BY <1>3 DEF s
  <2> QED BY <2>2, <2>3, <2>4 DEF s
<1>7. Futures'
  <2>1. \A d \in Agents : \A i \in DOMAIN line'[d] :
          \/ d = c /\ i = p /\ line'[d][i] = a
          \/ i \in DOMAIN line[d] /\ line'[d][i] = line[d][i] /\ line[d][i] # a
    BY <1>3, <1>5, <1>6
  <2>2. \A d \in Agents : \A i \in DOMAIN line[d] :
          line[d][i] # Stale => line[d][i] \in Agents
    BY LineType
  <2>3. \A d \in Agents : \A i \in DOMAIN line'[d] :
          line'[d][i] # Stale => future'[line'[d][i]] = "pending"
    BY <1>3, <2>1, <2>2 DEF Traffic, Futures
  <2>4. \A d, e \in Agents : \A i \in DOMAIN line'[d], j \in DOMAIN line'[e] :
          line'[d][i] = line'[e][j] /\ line'[d][i] # Stale => d = e /\ i = j
    BY <2>1 DEF Traffic, Futures
  <2>5. \A b \in Agents : future'[b] = "message" <=> scheduled'[b] # 0
    BY <1>1, <1>3 DEF Traffic, Futures
  <2> QED BY <2>3, <2>4, <2>5 DEF Futures
<1>8. Places' /\ Channels'
  BY <1>1, PlacesSame, ChannelsSame DEF Traffic
<1>9. \A b, d \in Agents : b \in ToSet(line'[d]) =>
        b \in ToSet(line[d]) \/ (b = a /\ d = c)
  BY <1>3, <1>4
<1>10. InOrder'
  <2> SUFFICES ASSUME NEW b \in Agents
               PROVE  /\ \A i, j \in DOMAIN received[b] : i < j => received[b][i] < received[b][j]
                      /\ \A m \in ToSet(received[b]) : name[sent[m].at] = name[b]
                      /\ scheduled[b] # 0 =>
                           /\ name[sent[scheduled[b]].at] = name[b]
                           /\ \A m \in ToSet(received[b]) : m < scheduled[b]
                      /\ \A d \in Agents : b \in ToSet(line'[d]) =>
                           /\ name[b] # 0 /\ name[d] = name[b]
                           /\ \A m \in ToSet(received[b]) : sent[m].at <= d
    BY <1>1 DEF InOrder
  <2>1. \A m \in ToSet(received[b]) : name[sent[m].at] = name[b] /\ sent[m].at \in Agents
    BY SentType DEF Traffic, InOrder, Places
  <2>2. ASSUME NEW d \in Agents, b \in ToSet(line'[d])
        PROVE  /\ name[b] # 0 /\ name[d] = name[b]
               /\ \A m \in ToSet(received[b]) : sent[m].at <= d
    <3>1. CASE b \in ToSet(line[d])
      BY <3>1 DEF Traffic, InOrder
    <3>2. CASE b = a /\ d = c
      BY <1>1, <1>2, <2>1, <3>2
    <3> QED BY <1>9, <2>2, <3>1, <3>2
  <2> QED BY <2>2 DEF Traffic, InOrder
<1>11. Addressed'
  <2> SUFFICES ASSUME robbed = {}
               PROVE  /\ \A m \in DOMAIN sent : sent[m].dst \in {0, sent[m].at}
                      /\ \A b \in Agents :
                           /\ \A d \in Agents : b \in ToSet(line'[d]) => d = b
                           /\ scheduled[b] # 0 => sent[scheduled[b]].at = b
                           /\ \A m \in ToSet(received[b]) : sent[m].at = b
    BY <1>1 DEF Addressed
  <2> QED BY <1>1, <1>9 DEF Traffic, Addressed
<1>12. Paid'
  <2> SUFFICES ASSUME NEW d \in Agents
               PROVE  /\ name'[d] = 0 => line'[d] = <<>> /\ cancelled'[d] = 0
                      /\ Open(d)' => cancelled'[d] = Count(line'[d], Stale)
                                                       + Cardinality(LostAt(d)')
    BY DEF Paid
  <2>1. LostAt(d)' = LostAt(d) /\ (Open(d)' => Open(d)) /\ UNCHANGED <<name, cancelled>>
    BY <1>1 DEF LostAt, Open
  <2>2. CASE d # c
    BY <1>3, <2>1, <2>2, PaidAs DEF Traffic
  <2>3. CASE d = c
    <3>1. Count(line'[c], Stale) = Count(line[c], Stale)
      <4>1. a \in Agents \cup {Stale} /\ a # Stale
        BY <1>2
      <4> QED BY <1>3, <1>4, <4>1, CountAppend
    <3>2. name[c] # 0
      BY <1>1, <1>2
    <3> QED BY <2>1, <2>3, <3>1, <3>2 DEF Traffic, Paid
  <2> QED BY <2>2, <2>3
<1> QED BY <1>7, <1>8, <1>10, <1>11, <1>12 DEF Traffic

\* What is left in line was there before, and waits for other futures than the
\* one whose task leaves.
LEMMA LineLeft ==
  ASSUME TypeOK, Futures, NEW c \in Agents, line[c] # <<>>,
         line' = [line EXCEPT ![c] = Tail(line[c])]
  PROVE  /\ \A d \in Agents : \A i \in DOMAIN line'[d] : line'[d][i] # Stale =>
              /\ line'[d][i] \in Agents /\ line'[d][i] # Head(line[c])
              /\ future[line'[d][i]] = "pending"
         /\ \A d, e \in Agents : \A i \in DOMAIN line'[d], j \in DOMAIN line'[e] :
              line'[d][i] = line'[e][j] /\ line'[d][i] # Stale => d = e /\ i = j
         /\ \A a, d \in Agents : a \in ToSet(line'[d]) => a \in ToSet(line[d])
<1>1. /\ Head(line[c]) = line[c][1] /\ 1 \in DOMAIN line[c]
      /\ \A i \in DOMAIN line'[c] :
           /\ i + 1 \in DOMAIN line[c] /\ line'[c][i] = line[c][i + 1]
           /\ i \in Nat /\ i + 1 # 1
      /\ ToSet(line[c]) = {Head(line[c])} \cup ToSet(line'[c])
      /\ \A d \in Agents : d # c => line'[d] = line[d]
  BY LineTail
<1>2. ASSUME NEW d \in Agents, NEW i \in DOMAIN line'[d]
      PROVE  \E p \in DOMAIN line[d] :
               /\ line'[d][i] = line[d][p] /\ (d = c => p # 1)
               /\ p = IF d = c THEN i + 1 ELSE i
  BY <1>1
<1>3. ASSUME NEW d \in Agents, NEW i \in DOMAIN line'[d], line'[d][i] # Stale
      PROVE  /\ line'[d][i] \in Agents /\ line'[d][i] # Head(line[c])
             /\ future[line'[d][i]] = "pending"
  <2>1. PICK p \in DOMAIN line[d] : line'[d][i] = line[d][p] /\ (d = c => p # 1)
    BY <1>2
  <2> QED BY <1>1, <1>3, <2>1, LineType DEF Futures
<1>4. ASSUME NEW d \in Agents, NEW e \in Agents, NEW i \in DOMAIN line'[d],
             NEW j \in DOMAIN line'[e], line'[d][i] = line'[e][j], line'[d][i] # Stale
      PROVE  d = e /\ i = j
  <2>1. PICK p \in DOMAIN line[d] : /\ line'[d][i] = line[d][p]
                                    /\ p = IF d = c THEN i + 1 ELSE i
    BY <1>2
  <2>2. PICK q \in DOMAIN line[e] : /\ line'[e][j] = line[e][q]
                                    /\ q = IF e = c THEN j + 1 ELSE j
    BY <1>2
  <2>3. d = e /\ p = q
    BY <1>4, <2>1, <2>2 DEF Futures
  <2>4. CASE d = c
    <3>1. i \in Nat /\ j \in Nat /\ i + 1 = j + 1
      BY <1>1, <2>1, <2>2, <2>3, <2>4
    <3> QED BY <2>3, <3>1
  <2>5. CASE d # c
    BY <2>1, <2>2, <2>3, <2>5
  <2> QED BY <2>4, <2>5
<1>5. \A a, d \in Agents : a \in ToSet(line'[d]) => a \in ToSet(line[d])
  BY <1>1
<1> QED BY <1>3, <1>4, <1>5

\* The first message leaves a channel.
LEMMA QueueLeft ==
  ASSUME TypeOK, Channels, NEW c \in Agents, queue[c] # <<>>,
         queue' = [queue EXCEPT ![c] = Tail(queue[c])], UNCHANGED <<sent, name>>
  PROVE  /\ Channels' /\ Head(queue[c]) \in ToSet(queue[c])
         /\ \A d \in Agents : d # c => ToSet(queue'[d]) = ToSet(queue[d])
         /\ ToSet(queue'[c]) = ToSet(queue[c]) \ {Head(queue[c])}
<1> DEFINE x == Head(queue[c])
<1>1. /\ x \in Ids /\ x = queue[c][1] /\ 1 \in DOMAIN queue[c]
      /\ \A i \in DOMAIN queue'[c] :
           /\ i + 1 \in DOMAIN queue[c] /\ queue'[c][i] = queue[c][i + 1]
           /\ i \in Nat /\ 1 < i + 1
      /\ ToSet(queue[c]) = {x} \cup ToSet(queue'[c])
      /\ \A d \in Agents : d # c => queue'[d] = queue[d]
  BY QueueTail
<1> HIDE DEF x
<1>2. \A i \in DOMAIN queue'[c] : x < queue'[c][i]
  BY <1>1 DEF Channels
<1>3. \A k \in ToSet(queue'[c]) : x < k
  BY <1>2 DEF ToSet
<1>4. x \notin ToSet(queue'[c])
  <2>1. x \in Nat
    BY <1>1, BusLimits
  <2> QED BY <1>3, <2>1
<1>5. ToSet(queue'[c]) = ToSet(queue[c]) \ {x}
  BY <1>1, <1>4
<1>6. \A d \in Agents : \A i, j \in DOMAIN queue'[d] : i < j => queue'[d][i] < queue'[d][j]
  <2> SUFFICES ASSUME NEW d \in Agents, NEW i \in DOMAIN queue'[d],
                      NEW j \in DOMAIN queue'[d], i < j
               PROVE  queue'[d][i] < queue'[d][j]
    OBVIOUS
  <2>1. CASE d = c
    <3>1. i + 1 < j + 1
      BY <1>1, <2>1
    <3> QED BY <1>1, <2>1, <3>1 DEF Channels
  <2>2. CASE d # c
    BY <1>1, <2>2 DEF Channels
  <2> QED BY <2>1, <2>2
<1>7. ASSUME NEW m \in DOMAIN sent, m \notin ToSet(queue'[sent[m].at]),
             NEW k \in ToSet(queue'[sent[m].at])
      PROVE  m < k
  <2>1. sent[m].at \in Agents
    BY SentType
  <2>2. CASE m = x /\ sent[m].at = c
    BY <1>3, <1>7, <2>2
  <2>3. CASE ~ (m = x /\ sent[m].at = c)
    <3>1. m \notin ToSet(queue[sent[m].at]) /\ k \in ToSet(queue[sent[m].at])
      BY <1>1, <1>5, <1>7, <2>1, <2>3
    <3> QED BY <3>1 DEF Channels
  <2> QED BY <2>2, <2>3
<1>8. Channels'
  BY <1>6, <1>7 DEF Channels
<1>9. \A d \in Agents : d # c => ToSet(queue'[d]) = ToSet(queue[d])
  BY <1>1
<1> QED BY <1>1, <1>5, <1>8, <1>9 DEF x

\* The first task in line gets the first message of the channel: for a future
\* that is awaited, or for nobody.
LEMMA TakeTraffic ==
  ASSUME TypeOK, Life, Traffic, NEW c \in Agents, Take(c)
  PROVE  Traffic'
<1> DEFINE h == Head(line[c])
           x == Head(queue[c])
<1>1. /\ line[c] # <<>> /\ queue[c] # <<>> /\ Complete(c)
      /\ queue' = [queue EXCEPT ![c] = Tail(queue[c])]
      /\ line' = [line EXCEPT ![c] = Tail(line[c])]
      /\ UNCHANGED <<sent, received, cancelled, name, box, robbed>>
  BY DEF Take, Rest, LineAfter, registryVars
<1>2. /\ h \in Agents \cup {Stale} /\ h = line[c][1] /\ 1 \in DOMAIN line[c]
      /\ ToSet(line[c]) = {h} \cup ToSet(line'[c])
      /\ \A d \in Agents : d # c => line'[d] = line[d]
      /\ Count(line[c], Stale) =
           Count(line'[c], Stale) + (IF h = Stale THEN 1 ELSE 0)
      /\ Count(line'[c], Stale) \in Nat
  BY <1>1, LineTail
<1>3. /\ \A d \in Agents : \A i \in DOMAIN line'[d] : line'[d][i] # Stale =>
           /\ line'[d][i] \in Agents /\ line'[d][i] # h
           /\ future[line'[d][i]] = "pending"
      /\ \A d, e \in Agents : \A i \in DOMAIN line'[d], j \in DOMAIN line'[e] :
           line'[d][i] = line'[e][j] /\ line'[d][i] # Stale => d = e /\ i = j
      /\ \A a, d \in Agents : a \in ToSet(line'[d]) => a \in ToSet(line[d])
  BY <1>1, LineLeft DEF Traffic
<1>4. /\ Channels' /\ x \in ToSet(queue[c])
      /\ \A d \in Agents : d # c => ToSet(queue'[d]) = ToSet(queue[d])
      /\ ToSet(queue'[c]) = ToSet(queue[c]) \ {x}
  BY <1>1, QueueLeft DEF Traffic
<1>5. \/ h = Stale /\ lost' = lost \cup {x} /\ UNCHANGED <<future, scheduled>>
      \/ /\ h # Stale /\ lost' = lost
         /\ future' = [future EXCEPT ![h] = "message"]
         /\ scheduled' = [scheduled EXCEPT ![h] = x]
  BY <1>1 DEF Complete, futureVars
<1> HIDE DEF h, x
<1>6. /\ x \in DOMAIN sent /\ sent[x].at = c /\ x \notin lost
      /\ \A a \in Agents : scheduled[a] # x /\ x \notin ToSet(received[a])
  BY <1>4 DEF Traffic, Places
<1>7. x \in Nat /\ x # 0
  BY <1>6, SentType
<1>8. name[c] # 0
  BY <1>1 DEF Traffic, Paid
<1>9. \A d \in Agents : Open(d)' => Open(d)
  BY <1>1 DEF Open
<1>10. CASE h = Stale
  <2>1. lost' = lost \cup {x} /\ UNCHANGED <<future, scheduled>>
    BY <1>5, <1>10
  <2>2. Futures'
    BY <1>3, <2>1 DEF Traffic, Futures
  <2>3. Places'
    <3> DEFINE D == {x}
    <3>1. /\ D \subseteq DOMAIN sent /\ lost' = lost \cup D
          /\ \A m \in D : \A b \in Agents : m \notin ToSet(received[b])
      BY <1>6, <2>1
    <3>2. \A d \in Agents : d # c => x \notin ToSet(queue[d])
      BY <1>6 DEF Traffic, Places
    <3>3. \A d \in Agents : ToSet(queue'[d]) = ToSet(queue[d]) \ D
      BY <1>4, <3>2
    <3>4. \A b \in Agents : scheduled'[b] = IF scheduled[b] \in D THEN 0 ELSE scheduled[b]
      BY <1>6, <2>1
    <3>5. \A m \in DOMAIN sent : sent[m].at \in Agents /\ m # 0
      BY SentType
    <3> HIDE DEF D
    <3> QED BY <1>1, <3>1, <3>3, <3>4, <3>5, PlacesDrop DEF Traffic
  <2>4. InOrder' /\ Addressed'
    BY <1>1, <1>3, <2>1, InOrderLess, AddressedLess DEF Traffic
  <2>5. ASSUME NEW d \in Agents
        PROVE  /\ name'[d] = 0 => line'[d] = <<>> /\ cancelled'[d] = 0
               /\ Open(d)' => cancelled'[d] = Count(line'[d], Stale)
                                                + Cardinality(LostAt(d)')
    <3>1. CASE d # c
      <4>1. LostAt(d)' = LostAt(d)
        BY <1>1, <1>6, <2>1, <3>1 DEF LostAt
      <4> QED BY <1>1, <1>2, <1>9, <3>1, <4>1, PaidAs DEF Traffic
    <3>2. CASE d = c
      <4>1. LostAt(c)' = LostAt(c) \cup {x} /\ x \notin LostAt(c)
        BY <1>1, <1>6, <2>1 DEF LostAt
      <4>2. IsFiniteSet(LostAt(c)) /\ Cardinality(LostAt(c)) \in Nat
        BY LostFinite
      <4>3. Cardinality(LostAt(c)') = Cardinality(LostAt(c)) + 1
        BY <4>1, <4>2, FS_AddElement
      <4>4. Count(line[c], Stale) = Count(line'[c], Stale) + 1
        BY <1>2, <1>10
      <4>5. ASSUME Open(c)'
            PROVE  cancelled[c] = (Count(line'[c], Stale) + 1) + Cardinality(LostAt(c))
        BY <1>9, <4>4, <4>5 DEF Traffic, Paid
      <4>6. ASSUME Open(c)'
            PROVE  cancelled[c] = Count(line'[c], Stale) + (Cardinality(LostAt(c)) + 1)
        BY <1>2, <4>2, <4>5, <4>6
      <4> QED BY <1>1, <1>8, <3>2, <4>3, <4>6
    <3> QED BY <3>1, <3>2
  <2>6. Paid'
    BY <2>5 DEF Paid
  <2> QED BY <1>4, <2>2, <2>3, <2>4, <2>6 DEF Traffic
<1>11. CASE h # Stale
  <2>0. /\ future \in [Agents -> {"none", "pending", "message", "error"}]
        /\ scheduled \in [Agents -> Ids \cup {0}]
    BY DEF TypeOK
  <2>1. /\ h \in Agents /\ lost' = lost
        /\ \A b \in Agents : b # h => future'[b] = future[b] /\ scheduled'[b] = scheduled[b]
        /\ future'[h] = "message" /\ scheduled'[h] = x
    BY <1>2, <1>5, <1>11, <2>0
  <2>2. future[h] = "pending" /\ scheduled[h] = 0
    BY <1>2, <1>11, <2>1 DEF Traffic, Futures
  <2>3. Futures'
    <3>1. \A d \in Agents : \A i \in DOMAIN line'[d] :
            line'[d][i] # Stale => future'[line'[d][i]] = "pending"
      BY <1>3, <2>1
    <3>2. \A b \in Agents : future'[b] = "message" <=> scheduled'[b] # 0
      BY <1>7, <2>1 DEF Traffic, Futures
    <3> QED BY <1>3, <3>1, <3>2 DEF Futures
  <2>4. Places'
    <3>1. \A d \in Agents : \A m \in ToSet(queue'[d]) : m \in ToSet(queue[d]) /\ m # x
      BY <1>4, <1>6 DEF Traffic, Places
    <3>2. \A d \in Agents : \A m \in ToSet(queue'[d]) :
            /\ m \in DOMAIN sent' /\ sent'[m].at = d /\ m \notin lost'
            /\ \A b \in Agents : scheduled'[b] # m /\ m \notin ToSet(received'[b])
      BY <1>1, <2>1, <3>1, SMTT(30) DEF Traffic, Places
    <3>3. \A b \in Agents : scheduled'[b] # 0 =>
            /\ scheduled'[b] \in DOMAIN sent' /\ scheduled'[b] \notin lost'
            /\ \A d \in Agents : /\ d # b => scheduled'[d] # scheduled'[b]
                                 /\ scheduled'[b] \notin ToSet(received'[d])
      <4> SUFFICES ASSUME NEW b \in Agents, scheduled'[b] # 0
                   PROVE  /\ scheduled'[b] \in DOMAIN sent /\ scheduled'[b] \notin lost
                          /\ \A d \in Agents :
                               /\ d # b => scheduled'[d] # scheduled'[b]
                               /\ scheduled'[b] \notin ToSet(received[d])
        BY <1>1, <2>1
      <4>1. CASE b = h
        BY <1>6, <2>1, <4>1
      <4>2. CASE b # h
        <5>1. scheduled'[b] = scheduled[b] /\ scheduled[b] # x
          BY <1>6, <2>1, <4>2
        <5> QED BY <2>1, <5>1 DEF Traffic, Places
      <4> QED BY <4>1, <4>2
    <3>4. \A b \in Agents : \A m \in ToSet(received'[b]) :
            /\ m \in DOMAIN sent' /\ m \notin lost'
            /\ \A d \in Agents : d # b => m \notin ToSet(received'[d])
      BY <1>1, <2>1 DEF Traffic, Places
    <3>5. lost' \subseteq DOMAIN sent'
      BY <1>1, <2>1 DEF Traffic, Places
    <3>6. \A m \in DOMAIN sent' :
            \/ m \in ToSet(queue'[sent'[m].at]) \/ m \in lost'
            \/ \E b \in Agents : scheduled'[b] = m \/ m \in ToSet(received'[b])
      <4> SUFFICES ASSUME NEW m \in DOMAIN sent
                   PROVE  \/ m \in ToSet(queue'[sent[m].at]) \/ m \in lost
                          \/ \E b \in Agents : scheduled'[b] = m \/ m \in ToSet(received[b])
        BY <1>1, <2>1
      <4>1. CASE m = x
        BY <2>1, <4>1
      <4>2. CASE m # x
        <5>1. /\ sent[m].at \in Agents /\ m # 0
              /\ m \in ToSet(queue[sent[m].at]) => m \in ToSet(queue'[sent[m].at])
          BY <1>4, <4>2, SentType
        <5>2. \A b \in Agents : scheduled[b] = m => scheduled'[b] = m
          BY <2>1, <2>2, <5>1
        <5> QED BY <5>1, <5>2 DEF Traffic, Places
      <4> QED BY <4>1, <4>2
    <3> QED BY <3>2, <3>3, <3>4, <3>5, <3>6 DEF Places
  <2>5. h \in ToSet(line[c])
    BY <1>2
  <2>6. InOrder'
    <3>1. name[h] # 0 /\ name[c] = name[h]
      BY <2>1, <2>5 DEF Traffic, InOrder
    <3>2. ASSUME NEW m \in ToSet(received[h]) PROVE m < x
      <4>1. /\ m \in DOMAIN sent /\ name[sent[m].at] = name[h] /\ sent[m].at <= c
            /\ sent[m].at \in Nat /\ c \in Nat
        <5>1. m \in DOMAIN sent
          BY <2>1 DEF Traffic, Places
        <5>2. name[sent[m].at] = name[h] /\ sent[m].at <= c
          BY <2>1, <2>5 DEF Traffic, InOrder
        <5>3. sent[m].at \in Agents
          BY <5>1, SentType
        <5> QED BY <5>1, <5>2, <5>3, BusLimits
      <4>2. CASE sent[m].at = c
        <5>1. m \notin ToSet(queue[c])
          BY <2>1 DEF Traffic, Places
        <5> QED BY <1>4, <4>1, <4>2, <5>1 DEF Traffic, Channels
      <4>3. CASE sent[m].at < c
        BY <1>6, <3>1, <4>1, <4>3 DEF Traffic, Channels
      <4> QED BY <4>1, <4>2, <4>3
    <3> SUFFICES ASSUME NEW b \in Agents
                 PROVE  /\ \A i, j \in DOMAIN received[b] : i < j => received[b][i] < received[b][j]
                        /\ \A m \in ToSet(received[b]) : name[sent[m].at] = name[b]
                        /\ scheduled'[b] # 0 =>
                             /\ name[sent[scheduled'[b]].at] = name[b]
                             /\ \A m \in ToSet(received[b]) : m < scheduled'[b]
                        /\ \A d \in Agents : b \in ToSet(line'[d]) =>
                             /\ name[b] # 0 /\ name[d] = name[b]
                             /\ \A m \in ToSet(received[b]) : sent[m].at <= d
      BY <1>1 DEF InOrder
    <3>3. CASE b = h
      BY <1>3, <1>6, <2>1, <3>1, <3>2, <3>3 DEF Traffic, InOrder
    <3>4. CASE b # h
      BY <1>3, <2>1, <3>4 DEF Traffic, InOrder
    <3> QED BY <3>3, <3>4
  <2>7. Addressed'
    <3> SUFFICES ASSUME robbed = {}
                 PROVE  /\ \A m \in DOMAIN sent : sent[m].dst \in {0, sent[m].at}
                        /\ \A b \in Agents :
                             /\ \A d \in Agents : b \in ToSet(line'[d]) => d = b
                             /\ scheduled'[b] # 0 => sent[scheduled'[b]].at = b
                             /\ \A m \in ToSet(received[b]) : sent[m].at = b
      BY <1>1 DEF Addressed
    <3>1. c = h
      BY <2>1, <2>5 DEF Traffic, Addressed
    <3> QED BY <1>3, <1>6, <2>1, <3>1 DEF Traffic, Addressed
  <2>8. ASSUME NEW d \in Agents
        PROVE  /\ name'[d] = 0 => line'[d] = <<>> /\ cancelled'[d] = 0
               /\ Open(d)' => cancelled'[d] = Count(line'[d], Stale)
                                                + Cardinality(LostAt(d)')
    <3>0. LostAt(d)' = LostAt(d)
      BY <1>1, <2>1 DEF LostAt
    <3>1. CASE d # c
      BY <1>1, <1>2, <1>9, <3>0, <3>1, PaidAs DEF Traffic
    <3>2. CASE d = c
      <4>1. Count(line[c], Stale) = Count(line'[c], Stale)
        BY <1>2, <1>11
      <4> QED BY <1>1, <1>8, <1>9, <3>0, <3>2, <4>1 DEF Traffic, Paid
    <3> QED BY <3>1, <3>2
  <2>9. Paid'
    BY <2>8 DEF Paid
  <2> QED BY <1>4, <2>3, <2>4, <2>6, <2>7, <2>9 DEF Traffic
<1> QED BY <1>10, <1>11

\* A task finds its channel closed and empty.
LEMMA TakeNoneTraffic ==
  ASSUME TypeOK, Life, Traffic, NEW c \in Agents, TakeNone(c)
  PROVE  Traffic'
<1> DEFINE h == Head(line[c])
<1>1. /\ ~ Open(c) /\ line[c] # <<>>
      /\ line' = [line EXCEPT ![c] = Tail(line[c])]
      /\ future' = IF h = Stale THEN future ELSE [future EXCEPT ![h] = "error"]
      /\ UNCHANGED <<sent, queue, scheduled, received, lost, cancelled, name, box, robbed>>
  BY DEF TakeNone, registryVars, history
<1>2. /\ h \in Agents \cup {Stale} /\ h = line[c][1] /\ 1 \in DOMAIN line[c]
      /\ \A d \in Agents : d # c => line'[d] = line[d]
  BY <1>1, LineTail
<1>3. /\ \A d \in Agents : \A i \in DOMAIN line'[d] : line'[d][i] # Stale =>
           /\ line'[d][i] \in Agents /\ line'[d][i] # h
           /\ future[line'[d][i]] = "pending"
      /\ \A d, e \in Agents : \A i \in DOMAIN line'[d], j \in DOMAIN line'[e] :
           line'[d][i] = line'[e][j] /\ line'[d][i] # Stale => d = e /\ i = j
      /\ \A a, d \in Agents : a \in ToSet(line'[d]) => a \in ToSet(line[d])
  BY <1>1, LineLeft DEF Traffic
<1> HIDE DEF h
<1>4. Futures'
  <2>0. future \in [Agents -> {"none", "pending", "message", "error"}]
    BY DEF TypeOK
  <2>1. \A b \in Agents : b # h => future'[b] = future[b]
    BY <1>1, <1>2, <2>0
  <2>2. h # Stale => h \in Agents /\ future'[h] = "error" /\ future[h] = "pending"
    BY <1>1, <1>2, <2>0 DEF Traffic, Futures
  <2>3. h = Stale => future' = future
    BY <1>1
  <2>4. \A d \in Agents : \A i \in DOMAIN line'[d] :
          line'[d][i] # Stale => future'[line'[d][i]] = "pending"
    BY <1>3, <2>1
  <2>5. \A b \in Agents : future'[b] = "message" <=> scheduled'[b] # 0
    BY <1>1, <2>1, <2>2, <2>3 DEF Traffic, Futures
  <2> QED BY <1>3, <2>4, <2>5 DEF Futures
<1>5. Places' /\ Channels' /\ InOrder' /\ Addressed'
  BY <1>1, <1>3, PlacesSame, ChannelsSame, InOrderLess, AddressedLess DEF Traffic
<1>6. ASSUME NEW d \in Agents
      PROVE  /\ name'[d] = 0 => line'[d] = <<>> /\ cancelled'[d] = 0
             /\ Open(d)' => cancelled'[d] = Count(line'[d], Stale)
                                              + Cardinality(LostAt(d)')
  <2>1. LostAt(d)' = LostAt(d) /\ (Open(d)' => Open(d))
    BY <1>1 DEF LostAt, Open
  <2>2. CASE d # c
    BY <1>1, <1>2, <2>1, <2>2, PaidAs DEF Traffic
  <2>3. CASE d = c
    BY <1>1, <2>1, <2>3 DEF Traffic, Paid
  <2> QED BY <2>2, <2>3
<1>7. Paid'
  BY <1>6 DEF Paid
<1> QED BY <1>4, <1>5, <1>7 DEF Traffic

\* A closed channel that nobody holds is gone, with its messages.
LEMMA DropTraffic ==
  ASSUME TypeOK, Life, Traffic, NEW c \in Agents, DropChannel(c)
  PROVE  Traffic'
<1>1. /\ ~ Open(c) /\ lost' = lost \cup ToSet(queue[c])
      /\ queue' = [queue EXCEPT ![c] = <<>>]
      /\ UNCHANGED <<sent, line, future, scheduled, received, cancelled, name, box, robbed>>
  BY DEF DropChannel, registryVars, futureVars
<1>2. /\ queue'[c] = <<>> /\ \A d \in Agents : d # c => queue'[d] = queue[d]
      /\ ToSet(<<>>) = {} /\ DOMAIN <<>> = {}
  BY <1>1 DEF TypeOK, ToSet
<1>3. Futures'
  BY <1>1, FuturesSame DEF Traffic
<1>4. Places'
  <2> DEFINE D == ToSet(queue[c])
  <2>1. /\ D \subseteq DOMAIN sent
        /\ \A m \in D : \A b \in Agents : m \notin ToSet(received[b]) /\ scheduled[b] # m
        /\ \A m \in D : \A d \in Agents : d # c => m \notin ToSet(queue[d])
    BY DEF Traffic, Places
  <2>2. \A d \in Agents : ToSet(queue'[d]) = ToSet(queue[d]) \ D
    BY <1>2, <2>1
  <2>3. lost' = lost \cup D
    BY <1>1
  <2> HIDE DEF D
  <2>4. \A b \in Agents : scheduled'[b] = IF scheduled[b] \in D THEN 0 ELSE scheduled[b]
    BY <1>1, <2>1
  <2>5. \A m \in DOMAIN sent : sent[m].at \in Agents /\ m # 0
    BY SentType
  <2> QED BY <1>1, <2>1, <2>2, <2>3, <2>4, <2>5, PlacesDrop DEF Traffic
<1>5. Channels'
  <2>1. \A d \in Agents : queue'[d] = queue[d] \/ queue'[d] = <<>>
    BY <1>2
  <2> QED BY <1>1, <1>2, <2>1, SentType DEF Traffic, Channels
<1>6. InOrder' /\ Addressed'
  BY <1>1, InOrderLess, AddressedLess DEF Traffic
<1>7. ASSUME NEW d \in Agents
      PROVE  /\ name'[d] = 0 => line'[d] = <<>> /\ cancelled'[d] = 0
             /\ Open(d)' => cancelled'[d] = Count(line'[d], Stale)
                                              + Cardinality(LostAt(d)')
  <2>1. Open(d)' => Open(d)
    BY <1>1 DEF Open
  <2>2. CASE d # c
    <3>1. LostAt(d)' = LostAt(d)
      BY <1>1, <2>2 DEF Traffic, Places, LostAt
    <3> QED BY <1>1, <2>1, <2>2, <3>1, PaidAs DEF Traffic
  <2>3. CASE d = c
    BY <1>1, <2>1, <2>3 DEF Traffic, Paid
  <2> QED BY <2>2, <2>3
<1>8. Paid'
  BY <1>7 DEF Paid
<1> QED BY <1>3, <1>4, <1>5, <1>6, <1>8 DEF Traffic

\* What a step does to the messages keeps them in place, in order, for their
\* addressee and paid for.
LEMMA TrafficStep ==
  ASSUME TypeOK, Life, Traffic, Effect
  PROVE  Traffic'
<1>1. CASE UNCHANGED <<flow, box, name, robbed>>
  <2>1. UNCHANGED <<sent, queue, line, future, scheduled, received, lost, cancelled, box,
                    name, robbed>>
    BY <1>1 DEF flow
  <2>2. Futures' /\ Places' /\ Channels' /\ InOrder' /\ Addressed'
    BY <2>1, FuturesSame, PlacesSame, ChannelsSame, InOrderLess, AddressedLess DEF Traffic
  <2>3. Paid'
    BY <2>1 DEF Traffic, Paid, Open, LostAt
  <2> QED BY <2>2, <2>3 DEF Traffic
<1> QED BY <1>1, OpensTraffic, AcceptsTraffic, CancelsTraffic, ClosesTraffic, GetsTraffic,
           FailsTraffic, ListenTraffic, TakeTraffic, TakeNoneTraffic, DropTraffic DEF Effect

-----------------------------------------------------------------------------
(* The theorems *)

\* Initially the hosts run, each with its mailbox.
LEMMA InitLife == Init => Life /\ Awaiting /\ Calls
<1> SUFFICES ASSUME Init PROVE Life /\ Awaiting /\ Calls
  OBVIOUS
<1>0. Cardinality(Hosts) \in Nat /\ Hosts \subseteq 1 .. Cardinality(Hosts)
  BY HostsFirst
<1>1. ASSUME NEW a \in Agents PROVE Alive(a)
  <2>1. a \in Nat /\ a # 0 /\ (a \in Hosts => ~ (a > Cardinality(Hosts)))
    BY <1>0, BusLimits
  <2>2. /\ name[a] = IF a \in Hosts THEN a ELSE 0
        /\ state[a] = IF a \in Hosts THEN "running" ELSE "unused"
        /\ task[a] = IF a \in Hosts THEN "running" ELSE "none"
        /\ killing[a] = 0 /\ resources = {} /\ created = Cardinality(Hosts)
    BY DEF Init
  <2> QED BY <2>1, <2>2 DEF Alive
<1>2. ASSUME NEW n \in Names PROVE Mailbox(n)
  <2> SUFFICES ASSUME box[n] # Nobody
               PROVE  /\ name[box[n]] = n
                      /\ \A a \in Agents : name[a] = n => a <= box[n]
    BY DEF Mailbox
  <2>1. n \in Hosts /\ box[n] = n /\ n \in Agents /\ n # 0
    BY BusLimits DEF Init
  <2>2. name = [a \in Agents |-> IF a \in Hosts THEN a ELSE 0]
    BY DEF Init
  <2>3. name[n] = n /\ \A a \in Agents : name[a] = n => a = n
    BY <2>1, <2>2
  <2> QED BY <2>1, <2>3, BusLimits
<1>3. \A a \in Hosts \cup resources : box[name[a]] = a
  BY BusLimits DEF Init
<1>4. Life
  BY <1>0, <1>1, <1>2, <1>3 DEF Life, Init
<1>5. Awaiting /\ Calls
  BY DEF Init, Awaiting, Calls
<1> QED BY <1>4, <1>5

\* Initially there are no messages.
LEMMA InitTraffic == Init => Traffic
<1> SUFFICES ASSUME Init PROVE Traffic
  OBVIOUS
<1>1. /\ \A c \in Agents : /\ queue[c] = <<>> /\ line[c] = <<>> /\ received[c] = <<>>
                           /\ scheduled[c] = 0 /\ future[c] = "none" /\ cancelled[c] = 0
      /\ sent = <<>> /\ lost = {}
  BY DEF Init
<1>2. ToSet(<<>>) = {} /\ DOMAIN <<>> = {}
  BY DEF ToSet
<1>3. Futures
  BY <1>1, <1>2 DEF Futures
<1>4. Places
  BY <1>1, <1>2 DEF Places
<1>5. Channels
  BY <1>1, <1>2 DEF Channels
<1>6. InOrder
  BY <1>1, <1>2 DEF InOrder
<1>7. Addressed
  BY <1>1, <1>2 DEF Addressed
<1>8. Paid
  <2>1. Count(<<>>, Stale) = 0 /\ Cardinality({}) = 0
    <3>1. {i \in DOMAIN <<>> : <<>>[i] = Stale} = {}
      OBVIOUS
    <3> QED BY <3>1, FS_EmptySet DEF Count
  <2>2. \A c \in Agents : LostAt(c) = {}
    BY <1>1 DEF LostAt
  <2>3. \A c \in Agents : /\ Cardinality(LostAt(c)) = 0 /\ Count(line[c], Stale) = 0
                          /\ line[c] = <<>> /\ cancelled[c] = 0
    BY <1>1, <2>1, <2>2
  <2> QED BY <2>3 DEF Paid
<1> QED BY <1>3, <1>4, <1>5, <1>6, <1>7, <1>8 DEF Traffic

\* The initial values have their types.
LEMMA InitType == Init => TypeOK
<1> SUFFICES ASSUME Init PROVE TypeOK
  OBVIOUS
<1>1. ProcessTypeOK
  <2>1. created \in 0 .. MaxAgents
    BY HostsFirst DEF Init
  <2>2. 0 \in 0 .. MaxKills
    BY BusLimits
  <2> QED BY <2>1, <2>2, BusLimits DEF Init, ProcessTypeOK
<1>2. RestTypeOK
  <2>1. <<>> \in Seq(Frame) /\ 0 \in 0 .. MaxExpired
    BY BusLimits
  <2> QED BY <2>1, BusLimits DEF Init, RestTypeOK
<1>3. FlowTypeOK
  <2>1. /\ <<>> \in Seq(Ids) /\ <<>> \in Seq(Message) /\ Len(<<>>) = 0
        /\ <<>> \in Seq(Agents \cup {Stale}) /\ 0 <= MaxSent /\ 0 <= Capacity
    BY BusLimits
  <2> QED BY <2>1 DEF Init, FlowTypeOK
<1> QED BY <1>1, <1>2, <1>3 DEF FlowTypeOK, ProcessTypeOK, RestTypeOK, TypeOK

\* The invariant is inductive: every step of NativeIPCBus, ProcessRegistry and
\* the receive loops keeps it.
LEMMA BusInvStep == BusInv /\ [Next]_vars => BusInv'
<1> SUFFICES ASSUME BusInv, [Next]_vars PROVE BusInv'
  OBVIOUS
<1>0. Traffic
  BY DEF BusInv, Traffic
<1>1. CASE Next
  <2>1. TypeOK' /\ Life' /\ Awaiting' /\ Calls'
    BY <1>1, TypeStep, LifeStep, AwaitingStep, CallsStep DEF BusInv
  <2>2. Traffic'
    BY <1>0, <1>1, Effects, TrafficStep DEF BusInv
  <2> QED BY <2>1, <2>2 DEF BusInv, Traffic
<1>2. CASE UNCHANGED vars
  <2>1. /\ UNCHANGED <<name, state, task, killing, resources, by_name, created, box,
                       stack, expired, robbed>>
        /\ UNCHANGED flow /\ UNCHANGED <<future, sent>>
    BY <1>2 DEF vars, registryVars, busVars, futureVars, agentVars, history, flow
  <2>2. Effect
    BY <2>1 DEF Effect
  <2>3. Traffic' /\ Life'
    BY <1>0, <2>1, <2>2, TrafficStep, LifeUnchanged DEF BusInv
  <2>4. Awaiting' /\ Calls'
    BY <2>1 DEF BusInv, Awaiting, Calls
  <2>5. FlowTypeOK'
    BY <2>2, FlowType DEF BusInv
  <2>6. TypeOK'
    BY <2>1, <2>5 DEF BusInv, TypeOK, FlowTypeOK
  <2> QED BY <2>3, <2>4, <2>6 DEF BusInv, Traffic
<1> QED BY <1>1, <1>2

\* The inductive invariant holds for any numbers of names, agents, messages,
\* time-outs and kills.
THEOREM BusInvariant == Spec => []BusInv
<1>1. Init => BusInv
  BY InitType, InitLife, InitTraffic DEF BusInv, Traffic
<1> QED BY <1>1, BusInvStep, PTL DEF Spec

\* Every variable of the bus and the registry has its type, and no mailbox
\* holds more than buffer_size messages (try_send in src/ipc.rs).
THEOREM TypeCorrect == Spec => []TypeOK
<1>1. BusInv => TypeOK
  BY DEF BusInv
<1> QED BY <1>1, BusInvariant, PTL

\* Every agent gets messages in the order in which send_message accepted them
\* and none twice, through stale recv_message tasks, nested requests, crashes
\* and re-registered mailboxes.
THEOREM MessagesInOrder == Spec => []ReceivedInOrder
<1>1. BusInv => ReceivedInOrder
  BY DEF BusInv, InOrder, ReceivedInOrder
<1> QED BY <1>1, BusInvariant, PTL

\* What route_ipc_message sends to a PID no other process gets, its
\* replacement under the same name included, unless _rollback_startup_locked
\* has taken a mailbox.
THEOREM AddresseesOnly == Spec => []OnlyTheAddressee
<1>1. BusInv => OnlyTheAddressee
  <2> SUFFICES ASSUME BusInv, robbed = {}, NEW a \in Agents, NEW i \in DOMAIN received[a]
               PROVE  sent[received[a][i]].dst \in {0, a}
    BY DEF OnlyTheAddressee
  <2>1. received[a][i] \in ToSet(received[a])
    BY DEF ToSet
  <2>2. received[a][i] \in DOMAIN sent
    BY <2>1 DEF BusInv, Places
  <2> QED BY <2>1, <2>2 DEF BusInv, Addressed
<1> QED BY <1>1, BusInvariant, PTL

\* In an open channel every receive that expired or was cancelled has cost one
\* message or left one stale task, and no message is lost otherwise.
THEOREM TimeoutsArePaidFor == Spec => []ExpiryCostsOneMessage
<1>1. BusInv => ExpiryCostsOneMessage
  BY DEF BusInv, Paid, LostAt, Count, ExpiryCostsOneMessage
<1> QED BY <1>1, BusInvariant, PTL

\* The four places of a message exclude each other.
LEMMA OnePlace ==
  ASSUME BusInv, NEW m \in DOMAIN sent
  PROVE  LET queued == IF m \in ToSet(queue[sent[m].at]) THEN 1 ELSE 0
             onTheWay == Cardinality({a \in Agents : scheduled[a] = m})
             got == Cardinality({a \in Agents : m \in ToSet(received[a])})
             dropped == IF m \in lost THEN 1 ELSE 0
         IN  queued + onTheWay + got + dropped = 1
<1> DEFINE queued == IF m \in ToSet(queue[sent[m].at]) THEN 1 ELSE 0
           S == {a \in Agents : scheduled[a] = m}
           R == {a \in Agents : m \in ToSet(received[a])}
           dropped == IF m \in lost THEN 1 ELSE 0
<1>0. sent[m].at \in Agents /\ m # 0
  BY SentType DEF BusInv
<1>1. Cardinality({}) = 0 /\ \A a : Cardinality({a}) = 1
  BY FS_EmptySet, FS_Singleton
<1>2. CASE m \in ToSet(queue[sent[m].at])
  <2>1. S = {} /\ R = {} /\ m \notin lost
    BY <1>0, <1>2 DEF BusInv, Places
  <2>2. queued = 1 /\ dropped = 0 /\ Cardinality(S) = 0 /\ Cardinality(R) = 0
    BY <1>1, <1>2, <2>1
  <2> HIDE DEF queued, dropped, S, R
  <2>3. queued + Cardinality(S) + Cardinality(R) + dropped = 1
    BY <2>2
  <2> QED BY <2>3 DEF queued, dropped, S, R
<1>3. CASE m \in lost
  <2>1. S = {} /\ R = {} /\ m \notin ToSet(queue[sent[m].at])
    BY <1>0, <1>3 DEF BusInv, Places
  <2>2. queued = 0 /\ dropped = 1 /\ Cardinality(S) = 0 /\ Cardinality(R) = 0
    BY <1>1, <1>3, <2>1
  <2> HIDE DEF queued, dropped, S, R
  <2>3. queued + Cardinality(S) + Cardinality(R) + dropped = 1
    BY <2>2
  <2> QED BY <2>3 DEF queued, dropped, S, R
<1>4. ASSUME NEW a \in Agents, scheduled[a] = m
      PROVE  queued + Cardinality(S) + Cardinality(R) + dropped = 1
  <2>1. S = {a} /\ R = {} /\ m \notin ToSet(queue[sent[m].at]) /\ m \notin lost
    BY <1>0, <1>4 DEF BusInv, Places
  <2>2. queued = 0 /\ dropped = 0 /\ Cardinality(S) = 1 /\ Cardinality(R) = 0
    BY <1>1, <2>1
  <2> HIDE DEF queued, dropped, S, R
  <2> QED BY <2>2
<1>5. ASSUME NEW a \in Agents, m \in ToSet(received[a])
      PROVE  queued + Cardinality(S) + Cardinality(R) + dropped = 1
  <2>1. S = {} /\ R = {a} /\ m \notin ToSet(queue[sent[m].at]) /\ m \notin lost
    BY <1>0, <1>5 DEF BusInv, Places
  <2>2. queued = 0 /\ dropped = 0 /\ Cardinality(S) = 0 /\ Cardinality(R) = 1
    BY <1>1, <2>1
  <2> HIDE DEF queued, dropped, S, R
  <2> QED BY <2>2
<1>6. \/ m \in ToSet(queue[sent[m].at]) \/ m \in lost
      \/ \E a \in Agents : scheduled[a] = m \/ m \in ToSet(received[a])
  BY DEF BusInv, Places
<1> QED BY <1>2, <1>3, <1>4, <1>5, <1>6

\* Every message the bus accepted is queued, on its way, received or dropped,
\* once.
THEOREM MessagesAreAccounted == Spec => []Accounted
<1>1. BusInv => Accounted
  BY OnePlace DEF Accounted
<1> QED BY <1>1, BusInvariant, PTL
=============================================================================
