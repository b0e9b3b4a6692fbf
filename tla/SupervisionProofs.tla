------------------------- MODULE SupervisionProofs -------------------------
(***************************************************************************)
(* What the supervision trees keep true, for every tree a run may begin    *)
(* with, every number of processes, failures and requests, and every       *)
(* interleaving of their tasks.                                            *)
(*                                                                         *)
(* Shape says what the frames of the tasks may be: what each waits for,    *)
(* and what it knows of the processes it is about.  Restarts are within    *)
(* the budget because those that handlers still owe are charged too        *)
(* (Books).  In a regular behaviour, one that is not crossed, one frame    *)
(* stops a process (Sole), and a live process whose supervisor is not up   *)
(* is on the list of a frame that will kill it (Watched).                  *)
(***************************************************************************)
EXTENDS Supervision, DataLemmas

-----------------------------------------------------------------------------
(* The inductive invariant: types *)

AnyProgram ==
  [name : Nat, mode : {"in_process", "isolated", "external", "none"},
   policy : {"permanent", "transient", "temporary", "none"},
   strategy : {"one_for_one", "one_for_all", "rest_for_one", "none"}]
Alive == {"starting", "running", "stopping"}
Records ==
  [spec : AnyProgram, parent : Nat, supervisor : Nat, kids : Seq(Nat),
   state : {"unborn"} \cup Alive \cup Over, os : {"none", "alive", "dead"},
   charged : Nat, escalated : BOOLEAN]
Places ==
  {"new", "run", "cancelled", "enter", "kids", "join", "await", "finish",
   "restarted", "yield", "next", "backoff", "check", "restart", "wait", "abort",
   "crashed", "handled", "spawned", "last"}
Frames ==
  [op : {"body", "kill", "handle", "start", "external"}, pid : Nat,
   at : Places, todo : Seq(Nat), auto : BOOLEAN, parent : Nat, new : Nat,
   spec : AnyProgram]

Names == DOMAIN by_name
Tasks == DOMAIN stack

Typed ==
  /\ proc \in Seq(Records)
  /\ stack \in [0 .. Len(proc) -> Seq(Frames)]
  /\ busy = {} \/ \E t \in Tasks : busy = {t}
  /\ result \in {"ok", "raised"}
  /\ by_name \in [Names -> 0 .. Len(proc)]
  /\ \A s \in Specs : s.name \in Names
  /\ restarts \subseteq [by : Pids, child : Pids, failed : Pids]
  /\ crossed \in BOOLEAN

-----------------------------------------------------------------------------
(* The inductive invariant: processes and frames *)

\* A list of children.
Kids(pr, list) ==
  /\ ToSet(list) \subseteq DOMAIN pr
  /\ \A c \in ToSet(list) :
       pr[c].state # "unborn" /\ pr[c].spec.mode # "external"

\* The records, pr, and the names that there may be, nm.
RecordOK(pr, nm, p) ==
  /\ pr[p].parent \in {0} \cup DOMAIN pr
  /\ pr[p].supervisor \in {0} \cup DOMAIN pr
  /\ pr[p].spec.name \in nm /\ pr[p].spec.mode # "none"
  /\ pr[p].os # "none" => pr[p].spec.mode = "isolated"
  /\ pr[p].charged <= MaxRestarts
  /\ pr[p].state = "unborn" =>
       /\ pr[p].spec.mode = "isolated" /\ pr[p].parent = 0
       /\ pr[p].supervisor = 0 /\ ToSet(pr[p].kids) = {}
  /\ Kids(pr, pr[p].kids)
  /\ \A c \in ToSet(pr[p].kids) :
       pr[c].state \in Over \/ pr[c].supervisor = p
RecordsOK(pr, nm) == \A p \in DOMAIN pr : RecordOK(pr, nm, p)

KillOK(pr, f) ==
  /\ f.at \in {"enter", "kids", "join", "await", "finish", "restarted", "yield"}
  /\ f.pid \in DOMAIN pr /\ Kids(pr, f.todo)
  /\ pr[f.pid].spec.mode = "external" => pr[f.pid].state \in Over
  /\ f.at # "enter" => /\ pr[f.pid].state # "unborn"
                       /\ pr[f.pid].spec.mode # "external"
  /\ f.at \in {"restarted", "yield"} => pr[f.pid].state \in Over
  /\ f.at = "join" => pr[f.pid].spec.mode = "isolated"
  /\ f.at \in {"await", "finish"} => pr[f.pid].os # "alive"

\* What RestartsWarranted asks of a restart.
Warranted(pr, by, c, failed) ==
  /\ pr[c].spec.policy # "temporary"
  /\ pr[c].spec.policy = "transient" => pr[failed].state # "exited"
  /\ c = failed \/ pr[by].spec.strategy # "one_for_one"

HandleOK(pr, f) ==
  /\ f.at \in {"kids", "next", "backoff", "check", "restart", "restarted"}
  /\ f.pid \in DOMAIN pr /\ Kids(pr, f.todo)
  /\ pr[f.pid].state \in Over /\ pr[f.pid].spec.mode # "external"
  /\ f.at # "kids" =>
       /\ f.parent \in DOMAIN pr
       /\ \A c \in ToSet(f.todo) : Warranted(pr, f.parent, c, f.pid)
  /\ f.at \in {"backoff", "check", "restart", "restarted"} => f.todo # <<>>

StartOK(pr, nm, f) ==
  /\ f.at \in {"enter", "wait", "abort", "crashed", "handled"}
  /\ f.spec.name \in nm /\ f.spec.mode \in {"in_process", "isolated"}
  /\ f.parent \in {0} \cup DOMAIN pr
  /\ f.parent # 0 => pr[f.parent].state # "unborn"
  /\ f.pid # 0 => /\ f.pid \in DOMAIN pr /\ f.parent # 0
                  /\ pr[f.pid].state \in Over
  /\ f.at # "enter" => /\ f.new \in DOMAIN pr /\ pr[f.new].spec = f.spec
                       /\ f.spec.mode = "isolated" /\ f.new # f.pid
  /\ f.at = "handled" => pr[f.new].state \in Over

ExternalOK(pr, f) ==
  /\ f.at \in {"run", "spawned", "last"}
  /\ f.pid \in DOMAIN pr /\ pr[f.pid].spec.mode = "external"

FrameOK(pr, nm, f) ==
  /\ f.op = "kill" => KillOK(pr, f)
  /\ f.op = "handle" => HandleOK(pr, f)
  /\ f.op = "start" => StartOK(pr, nm, f)
  /\ f.op = "external" => ExternalOK(pr, f)
  /\ f.op = "body" => f.pid = 0

\* f waits for the result of g.
Awaiting(f, g) ==
  \/ f.op \in {"kill", "handle"} /\ f.at = "kids" /\ g.op = "kill"
  \/ f.op = "handle" /\ f.at = "restart" /\ g.op = "kill" /\ g.pid = Head(f.todo)
  \/ f.op \in {"kill", "handle"} /\ f.at = "restarted" /\ g.op = "start"
  \/ f.op = "start" /\ f.at = "handled" /\ g.op = "handle"
  \/ f.op = "external" /\ f.at = "spawned" /\ g.op = "start"

\* What task t may begin with.
Bottom(t, f) ==
  \/ t = 0 /\ f.op \in {"kill", "start", "external"}
  \/ t # 0 /\ f.op = "body"
  \/ t # 0 /\ f.op = "handle" /\ f.pid = t

StackOK(pr, nm, t, s) ==
  /\ \A i \in DOMAIN s : FrameOK(pr, nm, s[i])
  /\ \A i \in DOMAIN s : i + 1 \in DOMAIN s => Awaiting(s[i], s[i + 1])
  /\ s # <<>> => Bottom(t, s[1])

Stacks == \A t \in Tasks : StackOK(proc, Names, t, stack[t])

\* An operating system process was started, and is not registered yet.
Starting(t) ==
  /\ stack[t] # <<>> /\ Top(t).op = "start"
  /\ Top(t).at \in {"wait", "abort", "crashed"}

\* What a task knows at the point where it is.
TopOK(t) ==
  /\ Starting(t) => proc[Top(t).new].state = "unborn"
  /\ At(t, "kill", "finish") => stack[Top(t).pid] = <<>>
  /\ At(t, "handle", "restart") => proc[Head(Top(t).todo)].state \in Over

Tops ==
  /\ \A t \in Tasks : TopOK(t)
  /\ \A t, u \in Tasks :
       Starting(t) /\ Starting(u) /\ Top(t).new = Top(u).new => t = u

\* The process of a task that is in its body is live.
Bodily(t) == stack[t] # <<>> /\ stack[t][1].op = "body"
Bodies ==
  \A p \in Pids :
    /\ proc[p].state = "unborn" \/ proc[p].spec.mode = "external" =>
         stack[p] = <<>>
    /\ Bodily(p) => proc[p].state \in Alive

\* The external agent in the shell's task is the only one that is not over.
Agent(p) == stack[0] # <<>> /\ stack[0][1].op = "external" /\ stack[0][1].pid = p
Agents ==
  \A p \in Pids :
    /\ Agent(p) => proc[p].state = "running"
    /\ proc[p].spec.mode = "external" /\ proc[p].state \notin Over => Agent(p)

Shape ==
  /\ Typed /\ RecordsOK(proc, Names) /\ Stacks /\ Tops /\ Bodies /\ Agents

-----------------------------------------------------------------------------
(* The inductive invariant: restarts *)

\* The restarts under q that f, a handler, has still to make.
Owes(f, q) ==
  IF f.op # "handle" \/ f.at = "kids" \/ f.parent # q THEN 0
  ELSE IF f.at = "restarted" THEN Len(f.todo) - 1 ELSE Len(f.todo)
Owed(q) ==
  UNION {UNION {{<<t, i>>} \X (1 .. Owes(stack[t][i], q)) :
                  i \in DOMAIN stack[t]} : t \in Tasks}
Made(q) == {r \in restarts : r.by = q}

Books ==
  \A q \in Pids :
    /\ IsFiniteSet(Owed(q)) /\ IsFiniteSet(Made(q))
    /\ Cardinality(Owed(q)) + Cardinality(Made(q)) <= proc[q].charged

Justified ==
  \A r \in restarts : /\ proc[r.failed].state \in Over
                      /\ Warranted(proc, r.by, r.child, r.failed)

-----------------------------------------------------------------------------
(* The inductive invariant: regular behaviours *)

\* f is a kill of p, or the handler of its end, that stops its children.
Holds(f, p) ==
  /\ f.pid = p
  /\ \/ f.op = "handle" /\ f.at = "kids"
     \/ f.op = "kill" /\ f.at \in {"kids", "join", "await", "finish"}

Sole ==
  /\ \A t \in Tasks : \A i \in DOMAIN stack[t] :
       LET f == stack[t][i]
       IN f.op = "kill" /\ Holds(f, f.pid) => proc[f.pid].state = "stopping"
  /\ \A t, u \in Tasks : \A i \in DOMAIN stack[t] : \A j \in DOMAIN stack[u] :
       \A p \in Pids :
         Holds(stack[t][i], p) /\ Holds(stack[u][j], p) => t = u /\ i = j

Named == \A p \in Pids : p \in Live <=> by_name[proc[p].spec.name] = p

\* Process p is of a supervisor that answers for it.
Supervises(pr, p) ==
  /\ pr[p].state \in Alive /\ pr[p].supervisor # 0
  /\ pr[pr[p].supervisor].spec.mode # "external"

Linked(pr) ==
  \A p \in DOMAIN pr : Supervises(pr, p) =>
    /\ pr[p].parent = pr[p].supervisor
    /\ p \in ToSet(pr[pr[p].supervisor].kids)

\* Frame i of s will kill p, or is at it.
Takes(s, i, p) ==
  /\ s[i].op \in {"kill", "handle"} /\ s[i].at = "kids"
  /\ \/ p \in ToSet(s[i].todo)
     \/ i + 1 \in DOMAIN s /\ s[i + 1].op = "kill" /\ s[i + 1].pid = p
Doomed(q, p) ==
  \E t \in Tasks : \E i \in DOMAIN stack[t] :
    stack[t][i].pid = q /\ Takes(stack[t], i, p)
Watched ==
  \A p \in Pids : LET q == proc[p].supervisor
                  IN Supervises(proc, p) => Up(q) \/ Doomed(q, p)

Reaped ==
  \A p \in Pids : proc[p].os = "alive" =>
    \/ proc[p].state \in Alive
    \/ \E t \in Tasks : Starting(t) /\ Top(t).new = p

Regular == ~ crossed => Sole /\ Named /\ Linked(proc) /\ Watched /\ Reaped

TreeInv == Shape /\ Books /\ Justified /\ Regular

-----------------------------------------------------------------------------
(* Stacks *)

\* The last frame and those below it.
LEMMA EndsOf ==
  ASSUME NEW T, NEW s \in Seq(T), s # <<>>
  PROVE  /\ Len(s) \in Nat \ {0} /\ DOMAIN s = 1 .. Len(s)
         /\ Last(s) = s[Len(s)] /\ Last(s) \in T
         /\ Front(s) \in Seq(T) /\ Len(Front(s)) = Len(s) - 1
         /\ DOMAIN Front(s) = 1 .. Len(s) - 1
         /\ \A i \in 1 .. Len(s) - 1 : Front(s)[i] = s[i]
<1>1. Len(s) \in Nat \ {0} /\ DOMAIN s = 1 .. Len(s)
  OBVIOUS
<1>2. Last(s) = s[Len(s)] /\ Last(s) \in T
  BY <1>1 DEF Last
<1>3. /\ Front(s) \in Seq(T) /\ Len(Front(s)) = Len(s) - 1
      /\ \A i \in 1 .. Len(s) - 1 : Front(s)[i] = s[i]
  <2> DEFINE e == SubSeq(s, 1, Len(s) - 1)
  <2>1. \A i \in 1 .. Len(s) - 1 : s[i] \in T
    BY <1>1
  <2>2. 1 \in Int /\ Len(s) - 1 \in Int /\ Len(s) - 1 - 1 + 1 = Len(s) - 1
    BY <1>1
  <2>3. /\ e \in Seq(T)
        /\ Len(e) = IF 1 <= Len(s) - 1 THEN Len(s) - 1 - 1 + 1 ELSE 0
        /\ \A i \in 1 .. Len(s) - 1 - 1 + 1 : e[i] = s[1 + i - 1]
    BY <2>1, <2>2, SubSeqProperties
  <2>4. Front(s) = e
    BY DEF Front
  <2> HIDE DEF e
  <2>5. \A i \in 1 .. Len(s) - 1 : 1 + i - 1 = i
    OBVIOUS
  <2>6. Len(e) = Len(s) - 1
    <3> DEFINE n == Len(s)
    <3>1. Len(e) = (IF 1 <= n - 1 THEN n - 1 - 1 + 1 ELSE 0) /\ n \in Nat \ {0}
      BY <1>1, <2>3
    <3> HIDE DEF n
    <3>2. Len(e) = n - 1
      BY <3>1
    <3> QED BY <3>2 DEF n
  <2> QED BY <2>2, <2>3, <2>4, <2>5, <2>6
<1>4. DOMAIN Front(s) = 1 .. Len(s) - 1
  BY <1>3
<1> QED BY <1>1, <1>2, <1>3, <1>4

\* One frame more.
LEMMA OneMore ==
  ASSUME NEW T, NEW s \in Seq(T), NEW g \in T
  PROVE  LET r == Append(s, g)
         IN /\ r \in Seq(T) /\ r # <<>> /\ Len(r) = Len(s) + 1
            /\ Len(s) \in Nat /\ DOMAIN r = 1 .. Len(s) + 1
            /\ r[Len(s) + 1] = g /\ Last(r) = g
            /\ \A i \in DOMAIN s : i # Len(s) + 1 /\ r[i] = s[i]
<1> DEFINE r == Append(s, g)
<1>1. /\ r \in Seq(T) /\ Len(r) = Len(s) + 1 /\ Len(s) \in Nat
      /\ r[Len(s) + 1] = g /\ \A i \in 1 .. Len(s) : r[i] = s[i]
  BY AppendProperties
<1>2. r # <<>> /\ DOMAIN r = 1 .. Len(s) + 1
  BY <1>1
<1>3. Last(r) = g
  BY <1>1, <1>2 DEF Last
<1>4. \A i \in DOMAIN s : i # Len(s) + 1 /\ r[i] = s[i]
  BY <1>1
<1> QED BY <1>1, <1>2, <1>3, <1>4

\* Another last frame.
LEMMA OtherTop ==
  ASSUME NEW T, NEW s \in Seq(T), s # <<>>, NEW f \in T
  PROVE  LET r == Append(Front(s), f)
         IN /\ r \in Seq(T) /\ r # <<>> /\ Len(r) = Len(s)
            /\ Len(s) \in Nat \ {0} /\ DOMAIN r = DOMAIN s
            /\ DOMAIN s = 1 .. Len(s)
            /\ r[Len(s)] = f /\ Last(r) = f
            /\ \A i \in DOMAIN s : i # Len(s) => r[i] = s[i]
<1>1. /\ Len(s) \in Nat \ {0} /\ DOMAIN s = 1 .. Len(s)
      /\ Front(s) \in Seq(T) /\ Len(Front(s)) = Len(s) - 1
      /\ DOMAIN Front(s) = 1 .. Len(s) - 1
      /\ \A i \in 1 .. Len(s) - 1 : Front(s)[i] = s[i]
  BY EndsOf
<1> DEFINE e == Front(s)
           r == Append(e, f)
<1>2. /\ r \in Seq(T) /\ r # <<>> /\ Len(r) = Len(e) + 1
      /\ DOMAIN r = 1 .. Len(e) + 1
      /\ r[Len(e) + 1] = f /\ Last(r) = f
      /\ \A i \in DOMAIN e : r[i] = e[i]
  <2>1. e \in Seq(T)
    BY <1>1
  <2> HIDE DEF e
  <2> QED BY <2>1, OneMore
<1> HIDE DEF r
<1>3. Len(r) = Len(s) /\ DOMAIN r = DOMAIN s /\ r[Len(s)] = f
  BY <1>1, <1>2
<1>4. ASSUME NEW i \in DOMAIN s, i # Len(s) PROVE r[i] = s[i]
  <2>1. i \in 1 .. Len(s) - 1
    BY <1>1, <1>4
  <2> QED BY <2>1, <1>1, <1>2
<1> QED BY <1>1, <1>2, <1>3, <1>4 DEF r

\* What every step leaves of the processes.
Grows(pr, pr2) ==
  /\ DOMAIN pr \subseteq DOMAIN pr2
  /\ \A p \in DOMAIN pr :
       /\ pr2[p].spec = pr[p].spec
       /\ pr[p].state \in Over => /\ pr2[p].state \in Over
                                  /\ pr2[p].state = "exited" =>
                                       pr[p].state = "exited"
       /\ pr[p].state # "unborn" => /\ pr2[p].state # "unborn"
                                    /\ pr2[p].supervisor = pr[p].supervisor
       /\ pr2[p].os = "alive" => pr[p].os = "alive"

\* A list of children remains one.
LEMMA KidsKept ==
  ASSUME NEW pr, NEW pr2, Grows(pr, pr2), NEW list, Kids(pr, list)
  PROVE  Kids(pr2, list)
BY DEF Grows, Kids

\* Frames keep what they know.
LEMMA FrameKept ==
  ASSUME NEW pr, NEW pr2, Grows(pr, pr2), NEW nm, NEW f, FrameOK(pr, nm, f)
  PROVE  FrameOK(pr2, nm, f)
<1>1. f.op = "kill" => KillOK(pr2, f)
  <2> SUFFICES ASSUME f.op = "kill" PROVE KillOK(pr2, f)
    OBVIOUS
  <2>1. KillOK(pr, f)
    BY DEF FrameOK
  <2>2. Kids(pr2, f.todo)
    BY <2>1, KidsKept DEF KillOK
  <2> QED BY <2>1, <2>2 DEF KillOK, Grows
<1>2. f.op = "handle" => HandleOK(pr2, f)
  <2> SUFFICES ASSUME f.op = "handle" PROVE HandleOK(pr2, f)
    OBVIOUS
  <2>1. HandleOK(pr, f)
    BY DEF FrameOK
  <2>2. Kids(pr2, f.todo)
    BY <2>1, KidsKept DEF HandleOK
  <2>3. ASSUME f.at # "kids", NEW c \in ToSet(f.todo)
        PROVE  Warranted(pr2, f.parent, c, f.pid)
    <3>1. Warranted(pr, f.parent, c, f.pid) /\ c \in DOMAIN pr
      BY <2>1, <2>3 DEF HandleOK, Kids
    <3>2. f.parent \in DOMAIN pr /\ f.pid \in DOMAIN pr /\ pr[f.pid].state \in Over
      BY <2>1, <2>3 DEF HandleOK
    <3> QED BY <3>1, <3>2 DEF Warranted, Grows
  <2> QED BY <2>1, <2>2, <2>3 DEF HandleOK, Grows
<1>3. f.op = "start" => StartOK(pr2, nm, f)
  BY DEF FrameOK, StartOK, Grows
<1>4. f.op = "external" => ExternalOK(pr2, f)
  BY DEF FrameOK, ExternalOK, Grows
<1> QED BY <1>1, <1>2, <1>3, <1>4 DEF FrameOK

\* The frames of a task keep what they know when the records grow.
LEMMA StackKept ==
  ASSUME NEW pr, NEW pr2, Grows(pr, pr2), NEW nm, NEW t, NEW s,
         StackOK(pr, nm, t, s)
  PROVE  StackOK(pr2, nm, t, s)
BY FrameKept DEF StackOK

\* The last frame is as it should be after it has gone on, ...
LEMMA StackSwap ==
  ASSUME NEW pr, NEW nm, NEW t, NEW s \in Seq(Frames), s # <<>>,
         StackOK(pr, nm, t, s), NEW f \in Frames, FrameOK(pr, nm, f),
         f.op = Last(s).op, f.pid = Last(s).pid
  PROVE  StackOK(pr, nm, t, Append(Front(s), f))
<1> DEFINE r == Append(Front(s), f)
           n == Len(s)
<1>1. /\ n \in Nat \ {0} /\ DOMAIN r = DOMAIN s /\ DOMAIN s = 1 .. n
      /\ r[n] = f /\ \A i \in DOMAIN s : i # n => r[i] = s[i]
  BY OtherTop
<1>2. f.op = s[n].op /\ f.pid = s[n].pid
  BY DEF Last
<1> HIDE DEF r, n
<1>3. \A i \in DOMAIN r : FrameOK(pr, nm, r[i])
  BY <1>1 DEF StackOK
<1>4. ASSUME NEW i \in DOMAIN r, i + 1 \in DOMAIN r PROVE Awaiting(r[i], r[i + 1])
  <2>1. i # n /\ Awaiting(s[i], s[i + 1])
    BY <1>1, <1>4 DEF StackOK
  <2>2. r[i] = s[i] /\ r[i + 1].op = s[i + 1].op /\ r[i + 1].pid = s[i + 1].pid
    BY <2>1, <1>1, <1>2, <1>4
  <2> QED BY <2>1, <2>2 DEF Awaiting
<1>5. Bottom(t, r[1])
  <2>1. Bottom(t, s[1]) /\ 1 \in DOMAIN s
    BY <1>1 DEF StackOK
  <2>2. r[1].op = s[1].op /\ r[1].pid = s[1].pid
    BY <2>1, <1>1, <1>2
  <2> QED BY <2>1, <2>2 DEF Bottom
<1> QED BY <1>3, <1>4, <1>5 DEF StackOK, r

\* ... when it waits for another, ...
LEMMA StackPush ==
  ASSUME NEW pr, NEW nm, NEW t, NEW s \in Seq(Frames), s # <<>>,
         StackOK(pr, nm, t, s), NEW g \in Frames, FrameOK(pr, nm, g),
         Awaiting(Last(s), g)
  PROVE  StackOK(pr, nm, t, Append(s, g))
<1> DEFINE r == Append(s, g)
           n == Len(s)
<1>1. /\ n \in Nat /\ DOMAIN r = 1 .. n + 1 /\ r[n + 1] = g
      /\ \A i \in DOMAIN s : r[i] = s[i]
  BY OneMore
<1>2. Last(s) = s[n] /\ n \in Nat \ {0} /\ DOMAIN s = 1 .. n
  BY EndsOf
<1> HIDE DEF r, n
<1>3. \A i \in DOMAIN r : FrameOK(pr, nm, r[i])
  BY <1>1, <1>2 DEF StackOK
<1>4. ASSUME NEW i \in DOMAIN r, i + 1 \in DOMAIN r PROVE Awaiting(r[i], r[i + 1])
  <2>1. i \in DOMAIN s
    BY <1>1, <1>2, <1>4
  <2>2. CASE i = n
    BY <2>1, <2>2, <1>1, <1>2
  <2>3. CASE i # n
    <3>1. i + 1 \in DOMAIN s
      BY <2>1, <2>3, <1>2
    <3> QED BY <2>1, <3>1, <1>1 DEF StackOK
  <2> QED BY <2>2, <2>3
<1>5. Bottom(t, r[1])
  BY <1>1, <1>2 DEF StackOK
<1> QED BY <1>3, <1>4, <1>5 DEF StackOK, r

\* ... and when the last frame is gone.
LEMMA StackPop ==
  ASSUME NEW pr, NEW nm, NEW t, NEW s \in Seq(Frames), s # <<>>,
         StackOK(pr, nm, t, s)
  PROVE  /\ StackOK(pr, nm, t, Front(s))
         /\ Front(s) # <<>> =>
              /\ Len(s) > 1 /\ Last(Front(s)) = s[Len(s) - 1]
              /\ Awaiting(Last(Front(s)), Last(s))
              /\ FrameOK(pr, nm, Last(Front(s)))
              /\ Front(s)[1] = s[1]
<1> DEFINE r == Front(s)
           n == Len(s)
<1>1. /\ n \in Nat \ {0} /\ DOMAIN s = 1 .. n /\ Last(s) = s[n]
      /\ r \in Seq(Frames) /\ Len(r) = n - 1 /\ DOMAIN r = 1 .. n - 1
      /\ \A i \in 1 .. n - 1 : r[i] = s[i]
  BY EndsOf
<1> HIDE DEF r, n
<1>2. \A i \in DOMAIN r : FrameOK(pr, nm, r[i])
  BY <1>1 DEF StackOK
<1>3. \A i \in DOMAIN r : i + 1 \in DOMAIN r => Awaiting(r[i], r[i + 1])
  BY <1>1 DEF StackOK
<1>4. ASSUME r # <<>>
      PROVE  /\ n > 1 /\ r[1] = s[1] /\ Last(r) = r[n - 1]
             /\ r[n - 1] = s[n - 1] /\ n - 1 \in DOMAIN s /\ n \in DOMAIN s
  <2>1. Last(r) = r[Len(r)] /\ Len(r) \in Nat \ {0}
    BY <1>1, <1>4, EndsOf
  <2> QED BY <2>1, <1>1
<1>5. r # <<>> => Bottom(t, r[1])
  BY <1>1, <1>4 DEF StackOK
<1>6. ASSUME r # <<>>
      PROVE Awaiting(s[n - 1], s[n]) /\ FrameOK(pr, nm, s[n - 1])
  <2>1. (n - 1) + 1 = n
    BY <1>1
  <2> QED BY <2>1, <1>4, <1>6 DEF StackOK
<1>7. StackOK(pr, nm, t, r)
  BY <1>2, <1>3, <1>5 DEF StackOK
<1> QED BY <1>1, <1>4, <1>6, <1>7 DEF r, n

-----------------------------------------------------------------------------
(* The records *)

\* What the lists of children have nothing to do with.
Alike(a, b) ==
  a.spec = b.spec /\ a.state = b.state /\ a.os = b.os /\ a.charged = b.charged

\* What the fields of a record are.
LEMMA RecordFields ==
  ASSUME NEW r \in Records
  PROVE  /\ r.spec \in AnyProgram /\ r.parent \in Nat /\ r.supervisor \in Nat
         /\ r.kids \in Seq(Nat)
         /\ r.state \in {"unborn"} \cup Alive \cup Over
         /\ r.os \in {"none", "alive", "dead"} /\ r.charged \in Nat
         /\ r.escalated \in BOOLEAN
BY DEF Records

\* A list as long as another.
LEMMA AsLong ==
  ASSUME NEW T, NEW s \in Seq(T), NEW r, r = [x \in DOMAIN s |-> r[x]],
         \A x \in DOMAIN s : r[x] \in T
  PROVE  r \in Seq(T) /\ Len(r) = Len(s) /\ DOMAIN r = DOMAIN s
<1>1. DOMAIN s = 1 .. Len(s) /\ Len(s) \in Nat
  OBVIOUS
<1>2. r \in [1 .. Len(s) -> T]
  BY <1>1
<1> QED BY <1>1, <1>2

\* A list without one of its members.
LEMMA WithoutIs ==
  ASSUME NEW s \in Seq(Nat), NEW p
  PROVE  Without(s, p) \in Seq(Nat) /\ ToSet(Without(s, p)) = ToSet(s) \ {p}
<1>1. /\ Without(s, p) \in Seq(Nat)
      /\ ToSet(Without(s, p)) = ToSet(s) \cap (ToSet(s) \ {p})
  BY ThoseProperties DEF Without
<1> QED BY <1>1

\* _unlink_child_locked takes a process off one list, and changes no other.
LEMMA UnlinkIs ==
  ASSUME NEW pr \in Seq(Records), NEW p \in DOMAIN pr,
         pr[p].parent \in {0} \cup DOMAIN pr
  PROVE  LET r == Unlink(pr, p)
         IN /\ r \in Seq(Records) /\ DOMAIN r = DOMAIN pr /\ Len(r) = Len(pr)
            /\ \A x \in DOMAIN pr :
                 /\ Alike(r[x], pr[x]) /\ r[x].supervisor = pr[x].supervisor
                 /\ r[x].parent = IF x = p THEN 0 ELSE pr[x].parent
                 /\ ToSet(r[x].kids) \subseteq ToSet(pr[x].kids)
                 /\ ToSet(pr[x].kids) \ {p} \subseteq ToSet(r[x].kids)
<1> DEFINE q == pr[p].parent
           r == Unlink(pr, p)
<1>1. \A x \in DOMAIN pr : pr[x] \in Records
  OBVIOUS
<1>2. CASE q = 0
  <2>1. r = pr
    BY <1>2 DEF Unlink
  <2> QED BY <2>1, <1>2 DEF Alike
<1>3. CASE q # 0
  <2>1. q \in DOMAIN pr /\ pr[q].kids \in Seq(Nat)
    BY <1>1, <1>3, RecordFields
  <2> DEFINE k == Without(pr[q].kids, p)
  <2>2. k \in Seq(Nat) /\ ToSet(k) = ToSet(pr[q].kids) \ {p}
    BY <2>1, WithoutIs
  <2>3. r = [pr EXCEPT ![q].kids = k, ![p].parent = 0]
    BY <1>3 DEF Unlink
  <2> HIDE DEF k, q, r
  <2>4. DOMAIN r = DOMAIN pr /\ r = [x \in DOMAIN pr |-> r[x]]
    BY <2>3
  <2> DEFINE kk(x) == IF x = q THEN k ELSE pr[x].kids
             nn(x) == IF x = p THEN 0 ELSE pr[x].parent
  <2>5. ASSUME NEW x \in DOMAIN pr
        PROVE  r[x] = [pr[x] EXCEPT !.kids = kk(x), !.parent = nn(x),
                                    !.supervisor = pr[x].supervisor]
    <3>1. pr[x] = [pr[x] EXCEPT !.supervisor = pr[x].supervisor]
      BY <1>1 DEF Records
    <3> QED BY <3>1, <2>3, <2>1, <1>1 DEF Records
  <2>6. ASSUME NEW x \in DOMAIN pr
        PROVE  /\ r[x] \in Records
               /\ Alike(r[x], pr[x]) /\ r[x].supervisor = pr[x].supervisor
               /\ r[x].parent = nn(x) /\ r[x].kids = kk(x)
    <3>1. /\ pr[x] \in Records /\ kk(x) \in Seq(Nat) /\ nn(x) \in Nat
          /\ pr[x].supervisor \in Nat
      BY <1>1, <2>2, RecordFields
    <3> HIDE DEF kk, nn, q, k, r
    <3>2. r[x] = [pr[x] EXCEPT !.kids = kk(x), !.parent = nn(x),
                               !.supervisor = pr[x].supervisor]
      BY <2>5
    <3>3. ASSUME NEW a, a = pr[x], NEW b, b = kk(x), NEW c, c = nn(x),
                 NEW d, d = pr[x].supervisor, NEW e, e = r[x]
          PROVE  /\ e \in Records /\ Alike(e, a) /\ e.kids = b /\ e.parent = c
                 /\ e.supervisor = d
      <4>1. e = [a EXCEPT !.kids = b, !.parent = c, !.supervisor = d]
        BY <3>2, <3>3
      <4>2. a \in Records /\ b \in Seq(Nat) /\ c \in Nat /\ d \in Nat
        BY <3>1, <3>3
      <4> QED BY <4>1, <4>2 DEF Records, Alike
    <3> QED BY <3>3
  <2>7. r \in Seq(Records) /\ Len(r) = Len(pr)
    BY <2>4, <2>6, AsLong
  <2> QED BY <2>2, <2>4, <2>6, <2>7 DEF r
<1> QED BY <1>2, <1>3

\* _link_child_locked puts a process on the list of its supervisor, once.
LEMMA LinkIs ==
  ASSUME NEW pr \in Seq(Records), NEW p \in DOMAIN pr,
         NEW q \in {0} \cup DOMAIN pr
  PROVE  LET r == Link(pr, q, p)
         IN /\ r \in Seq(Records) /\ DOMAIN r = DOMAIN pr /\ Len(r) = Len(pr)
            /\ \A x \in DOMAIN pr :
                 /\ Alike(r[x], pr[x])
                 /\ x # p \/ q = 0 => /\ r[x].supervisor = pr[x].supervisor
                                      /\ r[x].parent = pr[x].parent
                 /\ x # q \/ q = 0 => r[x].kids = pr[x].kids
            /\ q # 0 => /\ r[p].supervisor = q /\ r[p].parent = q
                        /\ ToSet(r[q].kids) = ToSet(pr[q].kids) \cup {p}
<1> DEFINE r == Link(pr, q, p)
<1>1. \A x \in DOMAIN pr : pr[x] \in Records
  OBVIOUS
<1>2. CASE q = 0
  <2>1. r = pr
    BY <1>2 DEF Link
  <2> QED BY <2>1, <1>2 DEF Alike
<1>3. CASE q # 0
  <2>1. q \in DOMAIN pr /\ pr[q].kids \in Seq(Nat) /\ p \in Nat
    BY <1>1, <1>3, RecordFields
  <2> DEFINE k == IF p \in ToSet(pr[q].kids) THEN pr[q].kids
                  ELSE Append(pr[q].kids, p)
  <2>2. k \in Seq(Nat) /\ ToSet(k) = ToSet(pr[q].kids) \cup {p}
    <3>1. /\ Append(pr[q].kids, p) \in Seq(Nat)
          /\ ToSet(Append(pr[q].kids, p)) = ToSet(pr[q].kids) \cup {p}
      BY <2>1, AppendToList
    <3> QED BY <2>1, <3>1
  <2>3. r = [pr EXCEPT ![p].parent = q, ![p].supervisor = q, ![q].kids = k]
    BY <1>3, <1>1, <2>1 DEF Link, Records
  <2> HIDE DEF k, r
  <2>4. DOMAIN r = DOMAIN pr /\ r = [x \in DOMAIN pr |-> r[x]]
    BY <2>3
  <2> DEFINE kk(x) == IF x = q THEN k ELSE pr[x].kids
             nn(x) == IF x = p THEN q ELSE pr[x].parent
             ss(x) == IF x = p THEN q ELSE pr[x].supervisor
  <2>5. ASSUME NEW x \in DOMAIN pr
        PROVE  r[x] = [pr[x] EXCEPT !.kids = kk(x), !.parent = nn(x),
                                    !.supervisor = ss(x)]
    <3>1. CASE x = p /\ x = q
      BY <3>1, <2>3, <2>1, <1>1 DEF Records
    <3>2. CASE x = p /\ x # q
      BY <3>2, <2>3, <2>1, <1>1 DEF Records
    <3>3. CASE x # p /\ x = q
      BY <3>3, <2>3, <2>1, <1>1 DEF Records
    <3>4. CASE x # p /\ x # q
      BY <3>4, <2>3, <2>1, <1>1 DEF Records
    <3> QED BY <3>1, <3>2, <3>3, <3>4
  <2>6. ASSUME NEW x \in DOMAIN pr
        PROVE  /\ r[x] \in Records /\ Alike(r[x], pr[x])
               /\ r[x].kids = kk(x) /\ r[x].parent = nn(x)
               /\ r[x].supervisor = ss(x)
    <3>1. /\ pr[x] \in Records /\ kk(x) \in Seq(Nat) /\ nn(x) \in Nat
          /\ ss(x) \in Nat
      BY <1>1, <2>1, <2>2, RecordFields
    <3> HIDE DEF kk, nn, ss
    <3>2. r[x] = [pr[x] EXCEPT !.kids = kk(x), !.parent = nn(x),
                               !.supervisor = ss(x)]
      BY <2>5
    <3>3. ASSUME NEW a, a = pr[x], NEW b, b = kk(x), NEW c, c = nn(x),
                 NEW d, d = ss(x), NEW e, e = r[x]
          PROVE  /\ e \in Records /\ Alike(e, a) /\ e.kids = b /\ e.parent = c
                 /\ e.supervisor = d
      <4>1. e = [a EXCEPT !.kids = b, !.parent = c, !.supervisor = d]
        BY <3>2, <3>3
      <4>2. a \in Records /\ b \in Seq(Nat) /\ c \in Nat /\ d \in Nat
        BY <3>1, <3>3
      <4> QED BY <4>1, <4>2 DEF Records, Alike
    <3> QED BY <3>3
  <2>7. r \in Seq(Records) /\ Len(r) = Len(pr)
    BY <2>4, <2>6, AsLong
  <2> QED BY <1>3, <2>1, <2>2, <2>4, <2>6, <2>7 DEF r
<1> QED BY <1>2, <1>3

\* A new process takes a place in the list.
LEMMA ReplaceIs ==
  ASSUME NEW pr \in Seq(Records), NEW q, NEW old, NEW new \in DOMAIN pr,
         old # 0 => q \in DOMAIN pr /\ old # new,
         NEW r, r = Replace(pr, q, old, new)
  PROVE  /\ r \in Seq(Records) /\ DOMAIN r = DOMAIN pr /\ Len(r) = Len(pr)
         /\ \A x \in DOMAIN pr :
              /\ Alike(r[x], pr[x]) /\ r[x].supervisor = pr[x].supervisor
              /\ r[x].parent = pr[x].parent
              /\ x # q \/ old = 0 => r[x].kids = pr[x].kids
         /\ old # 0 =>
              /\ ToSet(r[q].kids) \subseteq ToSet(pr[q].kids) \cup {new}
              /\ ToSet(pr[q].kids) \ {old} \subseteq ToSet(r[q].kids)
<1>1. \A x \in DOMAIN pr : pr[x] \in Records
  OBVIOUS
<1>2. CASE old = 0
  <2>1. r = pr
    BY <1>2 DEF Replace
  <2> QED BY <2>1, <1>2 DEF Alike
<1>3. CASE old # 0
  <2>1. q \in DOMAIN pr /\ old # new /\ pr[q].kids \in Seq(Nat) /\ new \in Nat
    BY <1>1, <1>3, RecordFields
  <2> DEFINE kids == pr[q].kids
             others == Without(kids, new)
             swap == [i \in DOMAIN others |->
                        IF others[i] = old THEN new ELSE others[i]]
             k == IF old \in ToSet(kids) THEN swap ELSE Append(others, new)
  <2>2. others \in Seq(Nat) /\ ToSet(others) = ToSet(kids) \ {new}
    BY <2>1, WithoutIs
  <2>3. Append(others, new) \in Seq(Nat)
        /\ ToSet(Append(others, new)) = ToSet(others) \cup {new}
    <3> HIDE DEF others, kids
    <3>1. new \in Nat /\ others \in Seq(Nat)
      BY <2>1, <2>2
    <3> QED BY <3>1, AppendToList
  <2>4. /\ swap \in Seq(Nat)
        /\ old \in ToSet(kids) => new \in ToSet(swap)
        /\ ToSet(swap) \subseteq ToSet(others) \cup {new}
        /\ ToSet(others) \ {old} \subseteq ToSet(swap)
    <3> HIDE DEF others, kids
    <3>1. \A i \in DOMAIN others : others[i] \in Nat
      BY <2>2
    <3>2. swap \in Seq(Nat) /\ DOMAIN swap = DOMAIN others
      <4>1. /\ swap = [i \in DOMAIN others |-> swap[i]]
            /\ \A i \in DOMAIN others : swap[i] \in Nat
        BY <2>1, <3>1
      <4> HIDE DEF swap
      <4> QED BY <4>1, <2>2, AsLong
    <3>3. ToSet(swap) \subseteq ToSet(others) \cup {new}
          /\ ToSet(others) \ {old} \subseteq ToSet(swap)
      BY <3>2 DEF ToSet
    <3>4. ASSUME old \in ToSet(kids) PROVE new \in ToSet(swap)
      <4>1. old \in ToSet(others)
        BY <2>1, <2>2, <3>4
      <4>2. PICK i \in DOMAIN others : others[i] = old
        BY <4>1 DEF ToSet
      <4> QED BY <4>2, <3>2 DEF ToSet
    <3> QED BY <3>2, <3>3, <3>4
  <2>5. /\ k \in Seq(Nat) /\ ToSet(k) \subseteq ToSet(kids) \cup {new}
        /\ ToSet(kids) \ {old} \subseteq ToSet(k)
    <3> HIDE DEF others, kids, swap
    <3> QED BY <2>2, <2>3, <2>4
  <2>6. r = [pr EXCEPT ![q].kids = k]
    BY <1>3, <1>1, <2>1 DEF Replace, Records
  <2> HIDE DEF k
  <2>7. DOMAIN r = DOMAIN pr /\ r = [x \in DOMAIN pr |-> r[x]]
    BY <2>6
  <2>8. ASSUME NEW x \in DOMAIN pr
        PROVE  r[x] = [pr[x] EXCEPT !.kids = IF x = q THEN k ELSE @]
    BY <2>6, <2>1, <1>1 DEF Records
  <2>9. ASSUME NEW x \in DOMAIN pr
        PROVE  /\ r[x] \in Records
               /\ Alike(r[x], pr[x]) /\ r[x].supervisor = pr[x].supervisor
               /\ r[x].parent = pr[x].parent
               /\ r[x].kids = IF x = q THEN k ELSE pr[x].kids
    <3>1. ASSUME NEW a, a = pr[x], NEW b, b = IF x = q THEN k ELSE pr[x].kids,
                 NEW e, e = r[x]
          PROVE  /\ e \in Records /\ Alike(e, a) /\ e.supervisor = a.supervisor
                 /\ e.parent = a.parent /\ e.kids = b
      <4>1. e = [a EXCEPT !.kids = b]
        BY <2>8, <3>1
      <4>2. a \in Records /\ b \in Seq(Nat)
        BY <1>1, <2>5, <3>1, RecordFields
      <4> QED BY <4>1, <4>2 DEF Records, Alike
    <3> QED BY <3>1
  <2>10. r \in Seq(Records) /\ Len(r) = Len(pr)
    BY <2>7, <2>9, AsLong
  <2> QED BY <1>3, <2>1, <2>5, <2>7, <2>9, <2>10
<1> QED BY <1>2, <1>3


-----------------------------------------------------------------------------
(* Steps *)

\* The last frame of t is f now, under one more, g, or it is gone.
Turned(t, f, g) ==
  LET n == Len(stack[t])
  IN /\ stack[t] # <<>> /\ Len(stack'[t]) \in {n - 1, n, n + 1}
     /\ \A i \in DOMAIN stack'[t] :
          /\ i < n => stack'[t][i] = stack[t][i]
          /\ i = n => stack'[t][i] = f
          /\ i = n + 1 => stack'[t][i] = g
     /\ f.op = Top(t).op /\ f.pid = Top(t).pid

\* The other tasks go on as they were, or are cancelled, or are new.
Spared(t) ==
  \A u \in Tasks' \ {t} :
    \/ u \in Tasks /\ stack'[u] = stack[u]
    \/ stack'[u] = <<>>
    \/ u # 0 /\ \E x \in {"new", "run", "cancelled"} : stack'[u] = Body(x)

\* Of the others, only bodies are cancelled.
Mild(t) ==
  \A u \in Tasks \ {t} :
    u \in Tasks' /\ (stack'[u] = stack[u] \/ stack[u] = <<>> \/ Bodily(u))

\* No frame but t's owes a restart, or holds a process, that did not before.
NoMoreOwed ==
  \A q : \A u \in Tasks' : \A i \in DOMAIN stack'[u] :
    \/ Owes(stack'[u][i], q) = 0
    \/ /\ u \in Tasks /\ i \in DOMAIN stack[u]
       /\ Owes(stack'[u][i], q) <= Owes(stack[u][i], q)
NoMoreHeld ==
  \A u \in Tasks' : \A i \in DOMAIN stack'[u] : \A p :
    Holds(stack'[u][i], p) =>
      /\ u \in Tasks /\ i \in DOMAIN stack[u] /\ Holds(stack[u][i], p)
      /\ stack'[u][i].op = stack[u][i].op

\* What follows from the types of the records and the frames, ...
LEMMA StacksOf ==
  ASSUME NEW pr \in Seq(Records), NEW st \in [0 .. Len(pr) -> Seq(Frames)]
  PROVE  /\ DOMAIN st = 0 .. Len(pr) /\ Len(pr) \in Nat
         /\ DOMAIN pr = 1 .. Len(pr) /\ 0 \in DOMAIN st
         /\ DOMAIN pr \subseteq DOMAIN st
         /\ \A t \in DOMAIN st : t = 0 \/ t \in DOMAIN pr
         /\ \A t \in DOMAIN st :
              /\ st[t] \in Seq(Frames) /\ Len(st[t]) \in Nat
              /\ DOMAIN st[t] = 1 .. Len(st[t])
              /\ \A i \in DOMAIN st[t] : st[t][i] \in Frames
         /\ \A p \in DOMAIN pr : pr[p] \in Records
<1>1. DOMAIN st = 0 .. Len(pr) /\ Len(pr) \in Nat /\ DOMAIN pr = 1 .. Len(pr)
  OBVIOUS
<1>2. ASSUME NEW t \in DOMAIN st
      PROVE  /\ st[t] \in Seq(Frames) /\ Len(st[t]) \in Nat
             /\ DOMAIN st[t] = 1 .. Len(st[t])
             /\ \A i \in DOMAIN st[t] : st[t][i] \in Frames
  <2>1. st[t] \in Seq(Frames)
    OBVIOUS
  <2> QED BY <2>1
<1>3. \A p \in DOMAIN pr : pr[p] \in Records
  OBVIOUS
<1> QED BY <1>1, <1>2, <1>3

\* ... for those before a step, ...
LEMMA TheStacks ==
  ASSUME Typed
  PROVE  /\ Tasks = 0 .. Len(proc) /\ Len(proc) \in Nat /\ Pids = 1 .. Len(proc)
         /\ 0 \in Tasks /\ Pids \subseteq Tasks
         /\ \A t \in Tasks : t = 0 \/ t \in Pids
         /\ \A t \in Tasks :
              /\ stack[t] \in Seq(Frames) /\ Len(stack[t]) \in Nat
              /\ DOMAIN stack[t] = 1 .. Len(stack[t])
              /\ \A i \in DOMAIN stack[t] : stack[t][i] \in Frames
         /\ \A p \in Pids : proc[p] \in Records
<1>1. proc \in Seq(Records) /\ stack \in [0 .. Len(proc) -> Seq(Frames)]
  BY DEF Typed
<1> QED BY <1>1, StacksOf DEF Tasks, Pids

\* ... and for those after it.
LEMMA StacksThen ==
  ASSUME Typed'
  PROVE  /\ Tasks' = 0 .. Len(proc') /\ Len(proc') \in Nat
         /\ Pids' = 1 .. Len(proc') /\ 0 \in Tasks' /\ Pids' \subseteq Tasks'
         /\ \A t \in Tasks' : t = 0 \/ t \in Pids'
         /\ \A t \in Tasks' :
              /\ stack'[t] \in Seq(Frames) /\ Len(stack'[t]) \in Nat
              /\ DOMAIN stack'[t] = 1 .. Len(stack'[t])
              /\ \A i \in DOMAIN stack'[t] : stack'[t][i] \in Frames
         /\ \A p \in Pids' : proc'[p] \in Records
<1>1. proc' \in Seq(Records) /\ stack' \in [0 .. Len(proc') -> Seq(Frames)]
  BY DEF Typed
<1> QED BY <1>1, StacksOf DEF Tasks, Pids

\* What the fields of a frame are.
LEMMA FrameFields ==
  ASSUME NEW f \in Frames
  PROVE  /\ f.op \in {"body", "kill", "handle", "start", "external"}
         /\ f.pid \in Nat /\ f.at \in Places /\ f.todo \in Seq(Nat)
         /\ f.parent \in Nat /\ f.new \in Nat /\ f.spec \in AnyProgram
         /\ Len(f.todo) \in Nat
BY DEF Frames

\* Frames as calls make them.
LEMMA BodyFrames ==
  ASSUME NEW x \in Places
  PROVE  Body(x) \in Seq(Frames)
<1>1. Frame("body", 0, x, <<>>) \in Frames
  BY DEF Frame, Frames, NoSpec, AnyProgram
<1> QED BY <1>1 DEF Body

\* A call of kill(), ...
LEMMA KillFrame ==
  ASSUME NEW p \in Nat, NEW auto \in BOOLEAN
  PROVE  LET f == Kill(p, auto)
         IN /\ f \in Frames /\ f.op = "kill" /\ f.pid = p /\ f.at = "enter"
            /\ f.todo = <<>>
<1> DEFINE k == Frame("kill", p, "enter", <<>>)
<1>1. /\ k \in Frames /\ k.op = "kill" /\ k.pid = p /\ k.at = "enter"
      /\ k.todo = <<>>
  BY DEF Frame, Frames, NoSpec, AnyProgram, Places
<1>2. Kill(p, auto) = [k EXCEPT !.auto = auto]
  BY DEF Kill
<1> HIDE DEF k
<1> QED BY <1>1, <1>2 DEF Frames

\* ... of a start, ...
LEMMA StartFrame ==
  ASSUME NEW parent \in Nat, NEW old \in Nat, NEW spec \in AnyProgram
  PROVE  LET f == Start(parent, old, spec)
         IN /\ f \in Frames /\ f.op = "start" /\ f.pid = old /\ f.at = "enter"
            /\ f.parent = parent /\ f.spec = spec
<1> DEFINE k == Frame("start", old, "enter", <<>>)
<1>1. k \in Frames /\ k.op = "start" /\ k.pid = old /\ k.at = "enter"
  BY DEF Frame, Frames, NoSpec, AnyProgram, Places
<1>2. Start(parent, old, spec) = [k EXCEPT !.parent = parent, !.spec = spec]
  BY DEF Start
<1> HIDE DEF k
<1> QED BY <1>1, <1>2 DEF Frames

\* ... and of the handler of ended processes.
LEMMA HandleFrame ==
  ASSUME NEW pr \in Seq(Records), NEW p \in DOMAIN pr
  PROVE  LET f == Handle(p, pr)
         IN /\ f \in Frames /\ f.op = "handle" /\ f.pid = p /\ f.at = "kids"
            /\ f.todo = pr[p].kids
<1>1. pr[p] \in Records /\ p \in Nat
  OBVIOUS
<1>2. pr[p].kids \in Seq(Nat)
  BY <1>1, RecordFields
<1> QED BY <1>1, <1>2 DEF Handle, Frame, Frames, NoSpec, AnyProgram, Places

\* A frame that has gone on.
LEMMA FrameMoved ==
  ASSUME NEW f \in Frames, NEW x \in Places
  PROVE  LET g == [f EXCEPT !.at = x]
         IN /\ g \in Frames /\ g.op = f.op /\ g.pid = f.pid /\ g.at = x
            /\ g.todo = f.todo /\ g.parent = f.parent /\ g.new = f.new
            /\ g.spec = f.spec
BY DEF Frames

\* A frame that has gone on and has learned something.
LEMMA FrameWith ==
  ASSUME NEW f \in Frames, NEW x \in Places, NEW todo \in Seq(Nat),
         NEW q \in Nat
  PROVE  /\ LET g == [f EXCEPT !.at = x, !.todo = todo]
            IN /\ g \in Frames /\ g.op = f.op /\ g.pid = f.pid /\ g.at = x
               /\ g.todo = todo /\ g.parent = f.parent /\ g.new = f.new
         /\ LET g == [f EXCEPT !.todo = todo]
            IN /\ g \in Frames /\ g.op = f.op /\ g.pid = f.pid /\ g.at = f.at
               /\ g.todo = todo /\ g.parent = f.parent /\ g.new = f.new
         /\ LET g == [f EXCEPT !.at = x, !.parent = q, !.todo = todo]
            IN /\ g \in Frames /\ g.op = f.op /\ g.pid = f.pid /\ g.at = x
               /\ g.todo = todo /\ g.parent = q /\ g.new = f.new
         /\ LET g == [f EXCEPT !.at = x, !.new = q]
            IN /\ g \in Frames /\ g.op = f.op /\ g.pid = f.pid /\ g.at = x
               /\ g.todo = f.todo /\ g.parent = f.parent /\ g.new = q
               /\ g.spec = f.spec
BY DEF Frames

\* The last frame of a task.
LEMMA TheTop ==
  ASSUME Typed, Stacks, NEW t \in Tasks, stack[t] # <<>>
  PROVE  LET n == Len(stack[t])
         IN /\ n \in Nat \ {0} /\ n \in DOMAIN stack[t] /\ Top(t) = stack[t][n]
            /\ Top(t) \in Frames /\ FrameOK(proc, Names, Top(t))
            /\ n = 1 => Bottom(t, Top(t))
<1>1. stack[t] \in Seq(Frames)
  BY TheStacks
<1>2. /\ Len(stack[t]) \in Nat \ {0} /\ DOMAIN stack[t] = 1 .. Len(stack[t])
      /\ Top(t) = stack[t][Len(stack[t])] /\ Top(t) \in Frames
  BY <1>1, EndsOf DEF Top
<1>3. StackOK(proc, Names, t, stack[t])
  BY DEF Stacks
<1> QED BY <1>2, <1>3 DEF StackOK

\* The three ways in which a task goes on.
LEMMA Swapped ==
  ASSUME Typed, NEW t \in Tasks, stack[t] # <<>>, NEW f \in Frames,
         stack'[t] = With(t, f), f.op = Top(t).op, f.pid = Top(t).pid, NEW g
  PROVE  /\ Turned(t, f, g) /\ stack'[t] # <<>> /\ stack'[t] \in Seq(Frames)
         /\ Len(stack'[t]) = Len(stack[t]) /\ Top(t)' = f
<1>1. stack[t] \in Seq(Frames)
  BY TheStacks
<1> DEFINE s == stack[t]
           r == Append(Front(s), f)
<1>2. r = stack'[t]
  BY DEF With
<1>3. /\ r \in Seq(Frames) /\ r # <<>> /\ Len(r) = Len(s)
      /\ Len(s) \in Nat \ {0} /\ DOMAIN r = 1 .. Len(s)
      /\ r[Len(s)] = f /\ Last(r) = f
      /\ \A i \in DOMAIN s : i # Len(s) => r[i] = s[i]
      /\ DOMAIN s = 1 .. Len(s)
  BY <1>1, OtherTop
<1>4. Top(t)' = f
  BY <1>2, <1>3 DEF Top
<1> HIDE DEF r
<1> QED BY <1>2, <1>3, <1>4 DEF Turned

\* ... a call within it, ...
LEMMA Pushed ==
  ASSUME Typed, NEW t \in Tasks, stack[t] # <<>>, NEW f \in Frames,
         NEW g \in Frames,
         stack'[t] = Append(With(t, f), g), f.op = Top(t).op, f.pid = Top(t).pid
  PROVE  /\ Turned(t, f, g) /\ stack'[t] # <<>> /\ stack'[t] \in Seq(Frames)
         /\ Len(stack'[t]) = Len(stack[t]) + 1 /\ Top(t)' = g
<1>1. stack[t] \in Seq(Frames)
  BY TheStacks
<1> DEFINE s == stack[t]
           e == Append(Front(s), f)
           r == Append(e, g)
<1>2. r = stack'[t]
  BY DEF With
<1>3. /\ e \in Seq(Frames) /\ e # <<>> /\ Len(e) = Len(s)
      /\ Len(s) \in Nat \ {0} /\ DOMAIN e = 1 .. Len(s)
      /\ e[Len(s)] = f /\ \A i \in DOMAIN s : i # Len(s) => e[i] = s[i]
      /\ DOMAIN s = 1 .. Len(s)
  BY <1>1, OtherTop
<1> HIDE DEF e
<1>4. /\ r \in Seq(Frames) /\ r # <<>> /\ Len(r) = Len(e) + 1
      /\ DOMAIN r = 1 .. Len(e) + 1 /\ r[Len(e) + 1] = g /\ Last(r) = g
      /\ \A i \in DOMAIN e : i # Len(e) + 1 /\ r[i] = e[i]
  BY <1>3, OneMore
<1>5. Top(t)' = g
  BY <1>2, <1>4 DEF Top
<1> HIDE DEF r
<1>6. DOMAIN stack'[t] = 1 .. Len(s) + 1
  BY <1>2, <1>3, <1>4
<1>7. ASSUME NEW i \in DOMAIN stack'[t]
      PROVE  /\ i < Len(s) => stack'[t][i] = s[i]
             /\ i = Len(s) => stack'[t][i] = f
             /\ i = Len(s) + 1 => stack'[t][i] = g
  BY <1>2, <1>3, <1>4, <1>6, <1>7
<1> QED BY <1>2, <1>3, <1>4, <1>5, <1>7 DEF Turned

\* ... and a return.
LEMMA Popped ==
  ASSUME Typed, NEW t \in Tasks, stack[t] # <<>>, stack'[t] = Front(stack[t]),
         NEW g
  PROVE  /\ Turned(t, Top(t), g) /\ stack'[t] \in Seq(Frames)
         /\ Len(stack'[t]) = Len(stack[t]) - 1
<1>1. stack[t] \in Seq(Frames)
  BY TheStacks
<1>2. /\ Len(stack[t]) \in Nat \ {0} /\ Front(stack[t]) \in Seq(Frames)
      /\ Len(Front(stack[t])) = Len(stack[t]) - 1
      /\ DOMAIN Front(stack[t]) = 1 .. Len(stack[t]) - 1
      /\ \A i \in 1 .. Len(stack[t]) - 1 : Front(stack[t])[i] = stack[t][i]
  BY <1>1, EndsOf
<1> QED BY <1>2 DEF Turned

\* What t owes and holds after its turn.
LEMMA OwedStep ==
  ASSUME Typed, Typed', NEW t \in Tasks, Spared(t), t \in Tasks',
         NEW f \in Frames, NEW g, Turned(t, f, g),
         \A q : Owes(f, q) <= Owes(Top(t), q),
         Len(stack'[t]) > Len(stack[t]) => \A q : Owes(g, q) = 0
  PROVE  NoMoreOwed
<1> SUFFICES ASSUME NEW q, NEW u \in Tasks', NEW i \in DOMAIN stack'[u],
                    Owes(stack'[u][i], q) # 0
             PROVE  /\ u \in Tasks /\ i \in DOMAIN stack[u]
                    /\ Owes(stack'[u][i], q) <= Owes(stack[u][i], q)
  BY DEF NoMoreOwed
<1>1. /\ stack[t] \in Seq(Frames) /\ stack[t] # <<>> /\ stack'[t] \in Seq(Frames)
      /\ DOMAIN stack'[u] = 1 .. Len(stack'[u]) /\ Len(stack'[u]) \in Nat
      /\ stack'[u] \in Seq(Frames)
  BY TheStacks, StacksThen DEF Turned
<1>2. /\ Len(stack[t]) \in Nat \ {0} /\ Top(t) = stack[t][Len(stack[t])]
      /\ DOMAIN stack[t] = 1 .. Len(stack[t])
  BY <1>1, EndsOf DEF Top
<1>3. CASE u = t
  <2> DEFINE n == Len(stack[t])
  <2>1. /\ Len(stack'[t]) \in {n - 1, n, n + 1} /\ i \in Nat \ {0}
        /\ i <= Len(stack'[t])
        /\ i < n => stack'[t][i] = stack[t][i]
        /\ i = n => stack'[t][i] = f
        /\ i = n + 1 => stack'[t][i] = g
    BY <1>1, <1>3 DEF Turned
  <2>2. i # n + 1
    BY <1>2, <1>3, <2>1
  <2>3. i \in 1 .. n
    BY <1>2, <2>1, <2>2
  <2>4. stack[t][i] \in Frames
    BY <1>1, <1>2, <2>3
  <2>5. Owes(stack[t][i], q) \in Int
    BY <2>4, FrameFields DEF Owes
  <2>6. CASE i = n
    BY <2>6, <2>1, <2>3, <1>2, <1>3
  <2>7. CASE i # n
    BY <2>7, <2>1, <2>3, <2>5, <1>2, <1>3
  <2> QED BY <2>6, <2>7
<1>4. CASE u # t
  <2>1. CASE u \in Tasks /\ stack'[u] = stack[u]
    <3>1. stack'[u][i] \in Frames
      BY <1>1
    <3>2. Owes(stack[u][i], q) \in Int
      BY <2>1, <3>1, FrameFields DEF Owes
    <3> QED BY <2>1, <3>2
  <2>2. CASE stack'[u] = <<>>
    BY <2>2
  <2>3. ASSUME NEW x, stack'[u] = Body(x) PROVE FALSE
    <3>1. i = 1 /\ stack'[u][i].op = "body"
      BY <2>3 DEF Body, Frame
    <3> QED BY <3>1 DEF Owes
  <2> QED BY <1>4, <2>1, <2>2, <2>3 DEF Spared
<1> QED BY <1>3, <1>4

\* No more frames stop a process after its turn than did before.
LEMMA HeldStep ==
  ASSUME Typed, Typed', NEW t \in Tasks, Spared(t), t \in Tasks',
         NEW f \in Frames, NEW g, Turned(t, f, g),
         Holds(f, f.pid) => Holds(Top(t), f.pid),
         Len(stack'[t]) > Len(stack[t]) => ~ Holds(g, g.pid)
  PROVE  NoMoreHeld
<1> SUFFICES ASSUME NEW u \in Tasks', NEW i \in DOMAIN stack'[u], NEW p,
                    Holds(stack'[u][i], p)
             PROVE  /\ u \in Tasks /\ i \in DOMAIN stack[u]
                    /\ Holds(stack[u][i], p)
                    /\ stack'[u][i].op = stack[u][i].op
  BY DEF NoMoreHeld
<1>1. /\ stack[t] \in Seq(Frames) /\ stack[t] # <<>> /\ stack'[t] \in Seq(Frames)
      /\ DOMAIN stack'[u] = 1 .. Len(stack'[u]) /\ Len(stack'[u]) \in Nat
  BY TheStacks, StacksThen DEF Turned
<1>2. /\ Len(stack[t]) \in Nat \ {0} /\ Top(t) = stack[t][Len(stack[t])]
      /\ DOMAIN stack[t] = 1 .. Len(stack[t])
  BY <1>1, EndsOf DEF Top
<1>3. CASE u = t
  <2> DEFINE n == Len(stack[t])
  <2>1. /\ Len(stack'[t]) \in {n - 1, n, n + 1} /\ i \in Nat \ {0}
        /\ i <= Len(stack'[t])
        /\ i < n => stack'[t][i] = stack[t][i]
        /\ i = n => stack'[t][i] = f
        /\ i = n + 1 => stack'[t][i] = g
    BY <1>1, <1>3 DEF Turned
  <2>2. i # n + 1
    BY <1>2, <1>3, <2>1 DEF Holds
  <2>3. i \in 1 .. n
    BY <1>2, <2>1, <2>2
  <2>6. CASE i = n
    <3>1. stack'[t][i] = f /\ Top(t) = stack[t][i] /\ f.op = Top(t).op
      BY <2>6, <2>1, <1>2 DEF Turned
    <3>2. Holds(f, p) /\ f.pid = p
      BY <3>1, <1>3 DEF Holds
    <3> QED BY <3>1, <3>2, <2>3, <1>2, <1>3
  <2>7. CASE i # n
    BY <2>7, <2>1, <2>3, <1>2, <1>3
  <2> QED BY <2>6, <2>7
<1>4. CASE u # t
  <2>1. CASE u \in Tasks /\ stack'[u] = stack[u]
    BY <2>1
  <2>2. CASE stack'[u] = <<>>
    BY <2>2
  <2>3. ASSUME NEW x, stack'[u] = Body(x) PROVE FALSE
    <3>1. i = 1 /\ stack'[u][i].op = "body"
      BY <2>3 DEF Body, Frame
    <3> QED BY <3>1 DEF Holds
  <2> QED BY <1>4, <2>1, <2>2, <2>3 DEF Spared
<1> QED BY <1>3, <1>4

\* A body is all there is of a task.
LEMMA BodyAlone ==
  ASSUME NEW pr, NEW nm, NEW t, NEW s \in Seq(Frames), StackOK(pr, nm, t, s),
         s # <<>>, s[1].op = "body"
  PROVE  Len(s) = 1 /\ Last(s) = s[1] /\ s[1].pid = 0
<1>1. Len(s) \in Nat \ {0} /\ DOMAIN s = 1 .. Len(s) /\ Last(s) = s[Len(s)]
  BY EndsOf
<1>2. ~ (2 \in DOMAIN s)
  <2> SUFFICES ASSUME 1 + 1 \in DOMAIN s PROVE FALSE
    OBVIOUS
  <2>1. Awaiting(s[1], s[1 + 1])
    <3>1. 1 \in DOMAIN s
      BY <1>1
    <3> QED BY <3>1 DEF StackOK
  <2> QED BY <2>1 DEF Awaiting
<1>3. Len(s) = 1
  BY <1>1, <1>2
<1> QED BY <1>1, <1>3 DEF StackOK, FrameOK

\* A list of those that are to be killed loses only those that are over.
LEMMA DoomedStep ==
  ASSUME Typed, Stacks, Typed', NEW t \in Tasks, Mild(t), t \in Tasks',
         NEW f \in Frames, NEW g \in Frames, Turned(t, f, g),
         Top(t).op \in {"kill", "handle"} /\ Top(t).at = "kids" =>
           \/ Top(t).todo = <<>>
           \/ /\ f.at = "kids" /\ g.op = "kill"
              /\ ToSet(Top(t).todo) \subseteq ToSet(f.todo) \cup {g.pid}
              /\ Len(stack'[t]) = Len(stack[t]) + 1,
         NEW p, NEW q, Doomed(q, p),
         Len(stack'[t]) < Len(stack[t]) /\ Top(t).op = "kill" => Top(t).pid # p
  PROVE  Doomed(q, p)'
<1>0. PICK u \in Tasks : \E i \in DOMAIN stack[u] :
        stack[u][i].pid = q /\ Takes(stack[u], i, p)
  BY DEF Doomed
<1>1. PICK i \in DOMAIN stack[u] : stack[u][i].pid = q /\ Takes(stack[u], i, p)
  BY <1>0
<1>2. CASE u # t
  <2>1. ~ Bodily(u)
    <3> SUFFICES ASSUME Bodily(u) PROVE FALSE
      OBVIOUS
    <3>1. Len(stack[u]) = 1 /\ stack[u] \in Seq(Frames) /\ DOMAIN stack[u] = 1 .. 1
      BY TheStacks, BodyAlone DEF Stacks, Bodily
    <3>2. stack[u][i].op = "body"
      BY <3>1 DEF Bodily
    <3> QED BY <3>2, <1>1 DEF Takes
  <2>2. u \in Tasks' /\ stack'[u] = stack[u]
    BY <1>1, <1>2, <2>1 DEF Mild
  <2>3. stack'[u][i].pid = q /\ Takes(stack'[u], i, p) /\ i \in DOMAIN stack'[u]
    BY <1>1, <2>2
  <2> QED BY <2>2, <2>3 DEF Doomed
<1>3. CASE u = t
  <2> DEFINE n == Len(stack[t])
             s == stack[t]
             r == stack'[t]
  <2>1. s \in Seq(Frames) /\ s # <<>> /\ r \in Seq(Frames)
    BY TheStacks, StacksThen DEF Turned
  <2>2. n \in Nat \ {0} /\ DOMAIN s = 1 .. n /\ Top(t) = s[n]
    BY <2>1, EndsOf DEF Top
  <2>3. /\ Len(r) \in {n - 1, n, n + 1} /\ DOMAIN r = 1 .. Len(r)
        /\ \A j \in DOMAIN r : /\ j < n => r[j] = s[j]
                               /\ j = n => r[j] = f
                               /\ j = n + 1 => r[j] = g
        /\ f.op = s[n].op /\ f.pid = s[n].pid
    BY <2>1, <2>2 DEF Turned
  <2>4. i \in 1 .. n /\ s[i].pid = q /\ Takes(s, i, p)
    BY <1>1, <1>3, <2>2
  <2>5. SUFFICES i \in DOMAIN r /\ r[i].pid = q /\ Takes(r, i, p)
    BY DEF Doomed
  <2>6. Top(t).op \in {"kill", "handle"} /\ Top(t).at = "kids" =>
           \/ Top(t).todo = <<>>
           \/ /\ f.at = "kids" /\ g.op = "kill"
              /\ ToSet(Top(t).todo) \subseteq ToSet(f.todo) \cup {g.pid}
              /\ Len(r) = n + 1
    OBVIOUS
  <2>7. Len(r) < n /\ s[n].op = "kill" => s[n].pid # p
    BY <2>2
  <2>10. i \in Nat \ {0} /\ i <= n /\ Len(r) \in Nat /\ n <= Len(r) + 1
    BY <2>2, <2>3, <2>4
  <2> HIDE DEF n, s, r
  <2>8. CASE i = n
    <3>1. /\ s[n].op \in {"kill", "handle"} /\ s[n].at = "kids"
          /\ p \in ToSet(s[n].todo)
      BY <2>8, <2>4, <2>2 DEF Takes
    <3>2. s[n].todo # <<>>
      BY <3>1 DEF ToSet
    <3>3. /\ f.at = "kids" /\ g.op = "kill" /\ p \in ToSet(f.todo) \cup {g.pid}
          /\ Len(r) = n + 1
      BY <3>1, <3>2, <2>6, <2>2
    <3>4. n \in DOMAIN r /\ n + 1 \in DOMAIN r /\ r[n] = f /\ r[n + 1] = g
      BY <3>3, <2>3, <2>2
    <3> QED BY <3>1, <3>3, <3>4, <2>3, <2>4, <2>8 DEF Takes
  <2>9. CASE i # n
    <3>1. i \in DOMAIN r /\ r[i] = s[i] /\ i + 1 \in DOMAIN s
      BY <2>9, <2>2, <2>3, <2>4
    <3>2. CASE p \in ToSet(s[i].todo)
      BY <3>1, <3>2, <2>4 DEF Takes
    <3>3. CASE s[i + 1].op = "kill" /\ s[i + 1].pid = p
      <4>1. CASE i + 1 < n
        <5>0. i + 1 \in DOMAIN r
          <6>1. n \in Nat
            BY <2>2
          <6>2. i + 1 \in 1 .. Len(r)
            BY <4>1, <6>1, <2>10
          <6> QED BY <6>2, <2>3
        <5>1. r[i + 1] = s[i + 1]
          BY <5>0, <4>1, <2>3
        <5> QED BY <5>0, <5>1, <3>1, <3>3, <2>4 DEF Takes
      <4>2. CASE i + 1 = n
        <5>0. ~ (Len(r) < n)
          BY <4>2, <3>3, <2>7
        <5>1. n \in DOMAIN r
          <6>1. n \in Nat \ {0} /\ Len(r) \in Nat /\ ~ (Len(r) < n)
            BY <5>0, <2>2, <2>10
          <6>2. n \in 1 .. Len(r)
            BY <6>1
          <6> QED BY <6>2, <2>3
        <5>2. i + 1 \in DOMAIN r /\ r[i + 1] = f
          BY <4>2, <5>1, <2>3
        <5> QED BY <5>2, <4>2, <3>1, <3>3, <2>3, <2>4 DEF Takes
      <4> QED BY <4>1, <4>2, <3>1, <2>2, <2>4
    <3> QED BY <3>2, <3>3, <2>4 DEF Takes
  <2> QED BY <2>8, <2>9
<1> QED BY <1>2, <1>3

-----------------------------------------------------------------------------
(* What steps keep: the restarts *)

\* Where no frame owes more, the restarts owed are among those that were.
LEMMA OwedSubset ==
  ASSUME Typed, Typed', NoMoreOwed, NEW q
  PROVE  Owed(q)' \subseteq Owed(q)
<1> SUFFICES ASSUME NEW x, x \in Owed(q)' PROVE x \in Owed(q)
  OBVIOUS
<1>1. PICK u \in Tasks' : x \in UNION {{<<u, i>>} \X (1 .. Owes(stack'[u][i], q)) :
                                         i \in DOMAIN stack'[u]}
  BY DEF Owed
<1>2. PICK i \in DOMAIN stack'[u] : x \in {<<u, i>>} \X (1 .. Owes(stack'[u][i], q))
  BY <1>1
<1>3. PICK k \in 1 .. Owes(stack'[u][i], q) : x = <<<<u, i>>, k>>
  BY <1>2
<1>4. Owes(stack'[u][i], q) # 0
  BY <1>3
<1>5. /\ u \in Tasks /\ i \in DOMAIN stack[u]
      /\ Owes(stack'[u][i], q) <= Owes(stack[u][i], q)
  BY <1>4 DEF NoMoreOwed
<1>6. Owes(stack[u][i], q) \in Int
  BY <1>5, TheStacks, FrameFields DEF Owes
<1>7. k \in 1 .. Owes(stack[u][i], q)
  <2>1. stack'[u][i] \in Frames
    BY StacksThen
  <2>2. Owes(stack'[u][i], q) \in Int
    BY <2>1, FrameFields DEF Owes
  <2> QED BY <2>2, <1>3, <1>5, <1>6
<1>8. x \in {<<u, i>>} \X (1 .. Owes(stack[u][i], q))
  BY <1>3, <1>7
<1>9. x \in UNION {{<<u, j>>} \X (1 .. Owes(stack[u][j], q)) : j \in DOMAIN stack[u]}
  BY <1>5, <1>8
<1> QED BY <1>5, <1>9 DEF Owed

\* Nothing is owed to what is no process.
LEMMA OwedNone ==
  ASSUME Typed, Stacks, NEW q, q \notin Pids
  PROVE  Owed(q) = {}
<1> SUFFICES ASSUME NEW u \in Tasks, NEW i \in DOMAIN stack[u]
             PROVE  1 .. Owes(stack[u][i], q) = {}
  BY DEF Owed
<1>1. FrameOK(proc, Names, stack[u][i])
  BY DEF Stacks, StackOK
<1>2. Owes(stack[u][i], q) = 0
  BY <1>1 DEF FrameOK, HandleOK, Owes, Pids
<1> QED BY <1>2

\* The budget is kept by a step that restarts nothing and owes nothing new.
LEMMA BooksStep ==
  ASSUME Typed, Typed', Stacks, Books, NoMoreOwed, restarts' = restarts,
         \A q \in Pids : proc'[q].charged = proc[q].charged
  PROVE  Books'
<1> SUFFICES ASSUME NEW q \in Pids'
             PROVE  /\ IsFiniteSet(Owed(q)') /\ IsFiniteSet(Made(q)')
                    /\ Cardinality(Owed(q)') + Cardinality(Made(q)')
                         <= proc'[q].charged
  BY DEF Books
<1>1. Owed(q)' \subseteq Owed(q) /\ Made(q)' = Made(q)
  BY OwedSubset DEF Made
<1>2. CASE q \in Pids
  <2>1. /\ IsFiniteSet(Owed(q)) /\ IsFiniteSet(Made(q))
        /\ Cardinality(Owed(q)) + Cardinality(Made(q)) <= proc[q].charged
        /\ proc[q].charged \in Nat
    BY <1>2, TheStacks, RecordFields DEF Books
  <2>2. /\ IsFiniteSet(Owed(q)') /\ Cardinality(Owed(q)') <= Cardinality(Owed(q))
        /\ Cardinality(Owed(q)') \in Nat /\ Cardinality(Owed(q)) \in Nat
        /\ Cardinality(Made(q)) \in Nat
    BY <1>1, <2>1, FS_Subset, FS_CardinalityType
  <2> QED BY <1>1, <1>2, <2>1, <2>2
<1>3. CASE q \notin Pids
  <2>1. Owed(q)' = {} /\ Made(q)' = {}
    BY <1>1, <1>3, OwedNone DEF Made, Typed
  <2>2. proc'[q].charged \in Nat
    BY StacksThen, RecordFields
  <2> QED BY <2>1, <2>2, FS_EmptySet
<1> QED BY <1>2, <1>3

\* Restarts stay warranted: programs do not change, and what is over stays so.
LEMMA JustStep ==
  ASSUME Typed, Grows(proc, proc'), restarts' = restarts, Justified
  PROVE  Justified'
<1> SUFFICES ASSUME NEW r \in restarts
             PROVE  /\ proc'[r.failed].state \in Over
                    /\ Warranted(proc', r.by, r.child, r.failed)
  BY DEF Justified
<1>1. r.by \in Pids /\ r.child \in Pids /\ r.failed \in Pids
  BY DEF Typed
<1>2. proc[r.failed].state \in Over /\ Warranted(proc, r.by, r.child, r.failed)
  BY DEF Justified
<1> QED BY <1>1, <1>2 DEF Grows, Warranted, Pids

-----------------------------------------------------------------------------
(* What steps keep: the shape *)

\* A task that is in its body, and in no call.
LEMMA BodyOK ==
  ASSUME NEW pr, NEW nm, NEW t, t # 0, NEW x
  PROVE  /\ StackOK(pr, nm, t, Body(x)) /\ Body(x) # <<>>
         /\ Len(Body(x)) = 1 /\ DOMAIN Body(x) = {1}
         /\ Last(Body(x)).op = "body" /\ Last(Body(x)).at = x
         /\ Body(x)[1].op = "body" /\ Body(x)[1].pid = 0
<1> DEFINE f == Frame("body", 0, x, <<>>)
<1>1. f.op = "body" /\ f.pid = 0 /\ f.at = x
  BY DEF Frame
<1>2. Body(x) = <<f>>
  BY DEF Body
<1> HIDE DEF f
<1>3. DOMAIN Body(x) = {1} /\ Body(x)[1] = f /\ Len(Body(x)) = 1 /\ Body(x) # <<>>
  BY <1>2
<1>4. Last(Body(x)) = f
  BY <1>3 DEF Last
<1> QED BY <1>1, <1>3, <1>4 DEF StackOK, FrameOK, Bottom

\* The other tasks know what they knew.
LEMMA OtherTops ==
  ASSUME NEW t, Spared(t), NEW u \in Tasks' \ {t},
         stack'[u] # <<>>, Top(u)'.op # "body"
  PROVE  u \in Tasks /\ stack'[u] = stack[u] /\ Top(u)' = Top(u)
<1>1. ASSUME NEW x, stack'[u] = Body(x), u # 0 PROVE FALSE
  <2>1. Last(stack'[u]).op = "body"
    BY <1>1, BodyOK
  <2> QED BY <2>1 DEF Top
<1>2. u \in Tasks /\ stack'[u] = stack[u]
  BY <1>1 DEF Spared
<1> QED BY <1>2 DEF Top

\* A step in which only task t acts keeps the shape, if it does for t.
LEMMA ShapeKept ==
  ASSUME Shape, Typed', Names' = Names, RecordsOK(proc', Names),
         Grows(proc, proc'), NEW t \in Tasks, t = 0 \/ stack[t] # <<>>,
         Spared(t), StackOK(proc', Names, t, stack'[t]), TopOK(t)',
         Starting(t)' =>
           Top(t)'.new \notin Pids \/ (Starting(t) /\ Top(t)'.new = Top(t).new),
         \A p \in Pids : proc[p].state = "unborn" =>
           proc'[p].state = "unborn" \/ (Starting(t) /\ Top(t).new = p),
         \A p \in Pids \ {t} :
           stack[p] = <<>> /\ proc[p].state # "unborn" => stack'[p] = <<>>,
         Bodies', Agents'
  PROVE  Shape'
<1>1. /\ Typed /\ Stacks /\ RecordsOK(proc, Names)
      /\ \A u \in Tasks : TopOK(u)
      /\ \A u, v \in Tasks :
           Starting(u) /\ Starting(v) /\ Top(u).new = Top(v).new => u = v
  BY DEF Shape, Tops
<1>2. \A u \in Tasks : StackOK(proc, Names, u, stack[u])
  BY <1>1 DEF Stacks
<1>3. Stacks'
  <2> SUFFICES ASSUME NEW u \in Tasks' PROVE StackOK(proc', Names, u, stack'[u])
    BY DEF Stacks
  <2>1. CASE u = t
    BY <2>1
  <2>2. CASE u \in Tasks /\ stack'[u] = stack[u]
    BY <2>2, <1>2, StackKept
  <2>3. CASE stack'[u] = <<>>
    BY <2>3 DEF StackOK
  <2>4. ASSUME u # 0, NEW x, stack'[u] = Body(x)
        PROVE  StackOK(proc', Names, u, stack'[u])
    BY <2>4, BodyOK
  <2> QED BY <2>1, <2>2, <2>3, <2>4 DEF Spared
<1>4. ASSUME NEW u \in Tasks', Starting(u)', u # t
      PROVE  /\ u \in Tasks /\ Starting(u) /\ Top(u)' = Top(u)
             /\ Top(u).new \in Pids /\ proc[Top(u).new].state = "unborn"
             /\ Starting(t) => Top(u).new # Top(t).new
  <2>1. u \in Tasks /\ stack'[u] = stack[u] /\ Top(u)' = Top(u)
    BY <1>4, OtherTops DEF Starting
  <2>2. Starting(u)
    BY <1>4, <2>1 DEF Starting
  <2>3. FrameOK(proc, Names, Top(u))
    BY <1>1, <2>1, <2>2, TheTop DEF Starting
  <2>4. Top(u).new \in Pids
    BY <2>2, <2>3 DEF FrameOK, StartOK, Starting, Pids
  <2>5. proc[Top(u).new].state = "unborn"
    BY <1>1, <2>1, <2>2 DEF TopOK
  <2>6. Starting(t) => Top(u).new # Top(t).new
    BY <1>1, <1>4, <2>1, <2>2
  <2> QED BY <2>1, <2>2, <2>4, <2>5, <2>6
<1>5. ASSUME NEW u \in Tasks' PROVE TopOK(u)'
  <2>1. CASE u = t
    BY <2>1
  <2>2. CASE u # t
    <3>1. Starting(u)' => proc'[Top(u)'.new].state = "unborn"
      BY <1>4, <2>2
    <3>2. ASSUME At(u, "kill", "finish")' PROVE stack'[Top(u)'.pid] = <<>>
      <4>1. u \in Tasks /\ stack'[u] = stack[u] /\ Top(u)' = Top(u)
        BY <2>2, <3>2, OtherTops DEF At
      <4>2. At(u, "kill", "finish") /\ stack[u] # <<>>
        BY <3>2, <4>1 DEF At
      <4>3. stack[Top(u).pid] = <<>>
        BY <1>1, <4>1, <4>2 DEF TopOK
      <4>4. FrameOK(proc, Names, Top(u))
        BY <1>1, <4>1, <4>2, TheTop
      <4>5. Top(u).pid \in Pids /\ proc[Top(u).pid].state # "unborn"
        BY <4>2, <4>4 DEF FrameOK, KillOK, At, Pids
      <4>6. Top(u).pid # t
        BY <1>1, <4>3, <4>5, TheStacks
      <4> QED BY <4>1, <4>3, <4>5, <4>6
    <3>3. ASSUME At(u, "handle", "restart")'
          PROVE  proc'[Head(Top(u)'.todo)].state \in Over
      <4>1. u \in Tasks /\ stack'[u] = stack[u] /\ Top(u)' = Top(u)
        BY <2>2, <3>3, OtherTops DEF At
      <4>2. At(u, "handle", "restart") /\ stack[u] # <<>>
        BY <3>3, <4>1 DEF At
      <4>3. proc[Head(Top(u).todo)].state \in Over
        BY <1>1, <4>1, <4>2 DEF TopOK
      <4>4. FrameOK(proc, Names, Top(u)) /\ Top(u) \in Frames
        BY <1>1, <4>1, <4>2, TheTop
      <4>5. Kids(proc, Top(u).todo) /\ Top(u).todo # <<>>
        BY <4>2, <4>4 DEF FrameOK, HandleOK, At
      <4>6. Head(Top(u).todo) \in ToSet(Top(u).todo)
        BY <4>4, <4>5, FrameFields, FirstAndRest
      <4>7. Head(Top(u).todo) \in DOMAIN proc
        BY <4>5, <4>6 DEF Kids
      <4> QED BY <4>1, <4>3, <4>7 DEF Grows
    <3> QED BY <3>1, <3>2, <3>3 DEF TopOK
  <2> QED BY <2>1, <2>2
<1>6. ASSUME NEW u \in Tasks', NEW v \in Tasks', Starting(u)', Starting(v)',
             Top(u)'.new = Top(v)'.new
      PROVE  u = v
  <2>1. CASE u # t /\ v # t
    BY <1>1, <1>4, <1>6, <2>1
  <2>2. CASE u = t /\ v # t
    BY <1>4, <1>6, <2>2
  <2>3. CASE u # t /\ v = t
    BY <1>4, <1>6, <2>3
  <2> QED BY <2>1, <2>2, <2>3
<1>7. Tops'
  BY <1>5, <1>6 DEF Tops
<1> QED BY <1>3, <1>7 DEF Shape

-----------------------------------------------------------------------------
(* Quiet steps: no process begins or ends *)

Calm(pr, pr2) ==
  /\ DOMAIN pr2 = DOMAIN pr
  /\ \A p \in DOMAIN pr :
       /\ pr2[p].spec = pr[p].spec /\ pr2[p].state = pr[p].state
       /\ pr2[p].supervisor = pr[p].supervisor
       /\ pr2[p].os = "alive" => pr[p].os = "alive"

\* Another task is left alone or cancelled.
Leaves(t) ==
  /\ Tasks' = Tasks
  /\ \A u \in Tasks \ {t} :
       \/ stack'[u] = stack[u]
       \/ /\ u # 0 /\ stack[u] # <<>>
          /\ stack'[u] = <<>> \/ (Bodily(u) /\ stack'[u] = Body("cancelled"))

Quiet(t) ==
  /\ Typed' /\ by_name' = by_name /\ crossed' = crossed
  /\ Calm(proc, proc') /\ RecordsOK(proc', Names) /\ Leaves(t)
  /\ ~ crossed => Mild(t) /\ Linked(proc')

\* A quiet step leaves alone what a step of one task may not touch.
LEMMA QuietSpares ==
  ASSUME NEW t, Quiet(t)
  PROVE  Spared(t) /\ Grows(proc, proc') /\ Names' = Names /\ Tasks' = Tasks
BY DEF Quiet, Leaves, Spared, Calm, Grows, Names

\* A task keeps the call it began with.
LEMMA TurnedBottom ==
  ASSUME Typed, Typed', NEW t \in Tasks, t \in Tasks', NEW f, NEW g,
         Turned(t, f, g)
  PROVE  /\ stack'[t] # <<>> => /\ stack'[t][1].op = stack[t][1].op
                                /\ stack'[t][1].pid = stack[t][1].pid
         /\ stack'[t] = <<>> => Top(t) = stack[t][1]
<1> DEFINE n == Len(stack[t])
           r == stack'[t]
<1>1. /\ stack[t] \in Seq(Frames) /\ stack[t] # <<>> /\ r \in Seq(Frames)
  BY TheStacks, StacksThen DEF Turned
<1>2. n \in Nat \ {0} /\ Top(t) = stack[t][n]
  BY <1>1, EndsOf DEF Top
<1>3. /\ Len(r) \in {n - 1, n, n + 1} /\ DOMAIN r = 1 .. Len(r)
      /\ \A i \in DOMAIN r : /\ i < n => r[i] = stack[t][i]
                             /\ i = n => r[i] = f
      /\ f.op = stack[t][n].op /\ f.pid = stack[t][n].pid
  BY <1>1, <1>2 DEF Turned
<1>4. ASSUME r # <<>>
      PROVE  r[1].op = stack[t][1].op /\ r[1].pid = stack[t][1].pid
  <2>1. 1 \in DOMAIN r
    BY <1>1, <1>4
  <2>2. 1 < n \/ 1 = n
    <3> HIDE DEF n
    <3> QED BY <1>2
  <2> QED BY <2>1, <2>2, <1>3
<1>5. ASSUME r = <<>> PROVE Top(t) = stack[t][1]
  <2>1. Len(r) = 0
    BY <1>5
  <2>2. n = 1
    BY <2>1, <1>2, <1>3
  <2> QED BY <2>2, <1>2
<1> QED BY <1>4, <1>5

\* A quiet step keeps the shape, if it does for the task that acts.
LEMMA QuietShape ==
  ASSUME Shape, NEW t \in Tasks, Quiet(t), NEW f, NEW g, Turned(t, f, g),
         StackOK(proc', Names, t, stack'[t]), TopOK(t)',
         Starting(t)' => Starting(t) /\ Top(t)'.new = Top(t).new,
         Top(t).op = "external" => stack'[t] # <<>>
  PROVE  Shape'
<1>1. /\ Typed /\ Typed' /\ Bodies /\ Agents /\ Pids' = Pids /\ Tasks' = Tasks
      /\ Pids \subseteq Tasks /\ 0 \in Tasks
  BY TheStacks DEF Shape, Quiet, Calm, Leaves, Pids
<1>2. stack[t] # <<>>
  BY DEF Turned
<1>3. /\ stack'[t] # <<>> => /\ stack'[t][1].op = stack[t][1].op
                             /\ stack'[t][1].pid = stack[t][1].pid
      /\ stack'[t] = <<>> => Top(t) = stack[t][1]
  BY <1>1, TurnedBottom
<1>4. Bodies'
  <2> SUFFICES ASSUME NEW p \in Pids
               PROVE  /\ proc'[p].state = "unborn" \/ proc'[p].spec.mode = "external"
                           => stack'[p] = <<>>
                      /\ Bodily(p)' => proc'[p].state \in Alive
    BY <1>1 DEF Bodies
  <2>1. proc'[p].state = proc[p].state /\ proc'[p].spec = proc[p].spec
    BY DEF Quiet, Calm, Pids
  <2>2. ASSUME stack[p] = <<>> PROVE stack'[p] = <<>>
    BY <1>1, <1>2, <2>2 DEF Quiet, Leaves
  <2>3. ASSUME Bodily(p)' PROVE Bodily(p)
    <3>1. CASE p = t
      BY <3>1, <2>3, <1>2, <1>3 DEF Bodily
    <3>2. CASE p # t
      BY <3>2, <2>3, <1>1 DEF Quiet, Leaves, Bodily
    <3> QED BY <3>1, <3>2
  <2> QED BY <2>1, <2>2, <2>3, <1>1 DEF Bodies
<1>5. Agents'
  <2> SUFFICES ASSUME NEW p \in Pids
               PROVE  /\ Agent(p)' => proc'[p].state = "running"
                      /\ proc'[p].spec.mode = "external"
                           /\ proc'[p].state \notin Over => Agent(p)'
    BY <1>1 DEF Agents
  <2>1. proc'[p].state = proc[p].state /\ proc'[p].spec = proc[p].spec
    BY DEF Quiet, Calm, Pids
  <2>2. Agent(p)' <=> Agent(p)
    <3>1. CASE t = 0
      BY <3>1, <1>2, <1>3 DEF Agent
    <3>2. CASE t # 0
      BY <3>2, <1>1 DEF Agent, Quiet, Leaves
    <3> QED BY <3>1, <3>2
  <2> QED BY <2>1, <2>2, <1>1 DEF Agents
<1>6. Spared(t) /\ Grows(proc, proc') /\ Names' = Names
  BY QuietSpares
<1>7. \A p \in Pids : proc'[p].state = proc[p].state
  BY DEF Quiet, Calm, Pids
<1>8. ASSUME NEW p \in Pids \ {t}, stack[p] = <<>> PROVE stack'[p] = <<>>
  BY <1>1, <1>8 DEF Quiet, Leaves
<1>9. RecordsOK(proc', Names)
  BY DEF Quiet
<1>10. \A p \in Pids : proc[p].state = "unborn" =>
         proc'[p].state = "unborn" \/ (Starting(t) /\ Top(t).new = p)
  BY <1>7
<1>11. \A p \in Pids \ {t} :
         stack[p] = <<>> /\ proc[p].state # "unborn" => stack'[p] = <<>>
  BY <1>8
<1>12. Starting(t)' =>
         Top(t)'.new \notin Pids \/ (Starting(t) /\ Top(t)'.new = Top(t).new)
  OBVIOUS
<1> QED BY <1>1, <1>2, <1>4, <1>5, <1>6, <1>9, <1>10, <1>11, <1>12, ShapeKept

\* One frame stops a process.
LEMMA SoleStep ==
  ASSUME Typed, Stacks, Sole, NoMoreHeld,
         \A p \in Pids : proc[p].state = "stopping" =>
           \/ proc'[p].state = "stopping"
           \/ \A u \in Tasks' : \A i \in DOMAIN stack'[u] :
                ~ Holds(stack'[u][i], p)
  PROVE  Sole'
<1>1. ASSUME NEW u \in Tasks', NEW i \in DOMAIN stack'[u], NEW p,
             Holds(stack'[u][i], p)
      PROVE  p \in Pids
  <2>1. u \in Tasks /\ i \in DOMAIN stack[u] /\ Holds(stack[u][i], p)
    BY <1>1 DEF NoMoreHeld
  <2>2. FrameOK(proc, Names, stack[u][i])
    BY <2>1 DEF Stacks, StackOK
  <2> QED BY <2>1, <2>2 DEF Holds, FrameOK, KillOK, HandleOK, Pids
<1>2. ASSUME NEW u \in Tasks', NEW i \in DOMAIN stack'[u],
             stack'[u][i].op = "kill",
             Holds(stack'[u][i], stack'[u][i].pid)
      PROVE  proc'[stack'[u][i].pid].state = "stopping"
  <2> DEFINE p == stack'[u][i].pid
  <2>1. p \in Pids
    BY <1>1, <1>2
  <2>2. /\ u \in Tasks /\ i \in DOMAIN stack[u] /\ Holds(stack[u][i], p)
        /\ stack[u][i].op = "kill"
    BY <1>2 DEF NoMoreHeld
  <2>3. stack[u][i].pid = p
    BY <2>2 DEF Holds
  <2>4. proc[p].state = "stopping"
    BY <2>2, <2>3 DEF Sole
  <2> QED BY <1>2, <2>1, <2>4
<1>3. ASSUME NEW u \in Tasks', NEW v \in Tasks', NEW i \in DOMAIN stack'[u],
             NEW j \in DOMAIN stack'[v], NEW p \in Pids',
             Holds(stack'[u][i], p), Holds(stack'[v][j], p)
      PROVE  u = v /\ i = j
  <2>1. p \in Pids
    BY <1>1, <1>3
  <2>2. /\ u \in Tasks /\ i \in DOMAIN stack[u] /\ Holds(stack[u][i], p)
        /\ v \in Tasks /\ j \in DOMAIN stack[v] /\ Holds(stack[v][j], p)
    BY <1>3 DEF NoMoreHeld
  <2> QED BY <2>1, <2>2 DEF Sole
<1> QED BY <1>2, <1>3 DEF Sole

\* A quiet step of a regular behaviour leaves it regular: it stops nobody new,
\* and loses sight of nobody that is to be killed or reaped.
LEMMA QuietRegular ==
  ASSUME Shape, Regular, NEW t \in Tasks, Quiet(t), NEW f \in Frames,
         NEW g \in Frames, Turned(t, f, g),
         Holds(f, f.pid) => Holds(Top(t), f.pid),
         Len(stack'[t]) > Len(stack[t]) => ~ Holds(g, g.pid),
         Top(t).op \in {"kill", "handle"} /\ Top(t).at = "kids" =>
           \/ Top(t).todo = <<>>
           \/ /\ f.at = "kids" /\ g.op = "kill"
              /\ ToSet(Top(t).todo) \subseteq ToSet(f.todo) \cup {g.pid}
              /\ Len(stack'[t]) = Len(stack[t]) + 1,
         Len(stack'[t]) < Len(stack[t]) /\ Top(t).op = "kill" =>
           proc[Top(t).pid].state \notin Alive,
         Starting(t) => \/ Starting(t)' /\ Top(t)'.new = Top(t).new
                        \/ proc'[Top(t).new].os # "alive"
  PROVE  Regular'
<1> SUFFICES ASSUME ~ crossed'
             PROVE  Sole' /\ Named' /\ Linked(proc') /\ Watched' /\ Reaped'
  BY DEF Regular
<1>1. Sole /\ Named /\ Watched /\ Reaped /\ Linked(proc') /\ Mild(t)
  BY DEF Quiet, Regular
<1>2. /\ Typed /\ Typed' /\ Stacks /\ Pids' = Pids /\ Tasks' = Tasks
      /\ by_name' = by_name /\ Spared(t)
      /\ \A p \in Pids : /\ proc'[p].state = proc[p].state
                         /\ proc'[p].spec = proc[p].spec
                         /\ proc'[p].supervisor = proc[p].supervisor
                         /\ proc'[p].os = "alive" => proc[p].os = "alive"
  BY QuietSpares DEF Shape, Quiet, Calm, Pids
<1>3. Sole'
  <2>1. NoMoreHeld
    BY <1>2, HeldStep
  <2> QED BY <2>1, <1>1, <1>2, SoleStep
<1>4. Named'
  BY <1>1, <1>2 DEF Named, Live
<1>5. Watched'
  <2> SUFFICES ASSUME NEW p \in Pids, Supervises(proc', p),
                      NEW q, q = proc'[p].supervisor
               PROVE  Up(q)' \/ Doomed(q, p)'
    BY <1>2 DEF Watched
  <2>1. /\ q \in Pids /\ q = proc[p].supervisor /\ proc[p].state \in Alive
        /\ Supervises(proc, p)
    BY <1>2 DEF Supervises, Shape, RecordsOK, RecordOK, Pids
  <2>2. Up(q) \/ Doomed(q, p)
    BY <2>1, <1>1 DEF Watched
  <2>3. Up(q) => Up(q)'
    BY <2>1, <1>2 DEF Up
  <2>4. ASSUME Doomed(q, p) PROVE Doomed(q, p)'
    <3>1. Len(stack'[t]) < Len(stack[t]) /\ Top(t).op = "kill" => Top(t).pid # p
      BY <2>1
    <3> QED BY <2>4, <3>1, <1>1, <1>2, DoomedStep
  <2> QED BY <2>2, <2>3, <2>4
<1>6. Reaped'
  <2> SUFFICES ASSUME NEW p \in Pids, proc'[p].os = "alive",
                      proc[p].state \notin Alive
               PROVE  \E u \in Tasks : Starting(u)' /\ Top(u)'.new = p
    BY <1>2 DEF Reaped
  <2>1. PICK u \in Tasks : Starting(u) /\ Top(u).new = p
    BY <1>1, <1>2 DEF Reaped
  <2>2. CASE u = t
    BY <2>1, <2>2
  <2>3. CASE u # t
    <3>1. ~ Bodily(u)
      <4> SUFFICES ASSUME Bodily(u) PROVE FALSE
        OBVIOUS
      <4>1. stack[u] \in Seq(Frames) /\ StackOK(proc, Names, u, stack[u])
        BY <1>2, TheStacks DEF Stacks
      <4>2. Last(stack[u]).op = "body"
        BY <4>1, BodyAlone DEF Bodily
      <4> QED BY <4>2, <2>1 DEF Starting, Top
    <3>2. stack'[u] = stack[u]
      BY <1>1, <2>1, <2>3, <3>1 DEF Mild, Starting
    <3> QED BY <3>2, <2>1 DEF Starting, Top
  <2> QED BY <2>2, <2>3
<1> QED BY <1>1, <1>3, <1>4, <1>5, <1>6

\* Records that differ in nothing that the tree is about.
Same(pr, pr2) ==
  /\ Calm(pr, pr2)
  /\ \A p \in DOMAIN pr :
       /\ pr2[p].parent = pr[p].parent /\ pr2[p].kids = pr[p].kids
       /\ pr2[p].charged = pr[p].charged
       /\ pr[p].spec.mode # "isolated" => pr2[p].os = pr[p].os

\* Records that differ in nothing that matters make the same tree.
LEMMA SameTree ==
  ASSUME NEW pr, NEW pr2, NEW nm, Same(pr, pr2), RecordsOK(pr, nm)
  PROVE  /\ RecordsOK(pr2, nm)
         /\ \A p \in DOMAIN pr : pr2[p].charged = pr[p].charged
         /\ Linked(pr) => Linked(pr2)
<1>1. DOMAIN pr2 = DOMAIN pr
  BY DEF Same, Calm
<1>2. ASSUME NEW p \in DOMAIN pr PROVE RecordOK(pr2, nm, p)
  <2>1. RecordOK(pr, nm, p)
    BY DEF RecordsOK
  <2>2. Kids(pr2, pr2[p].kids)
    BY <2>1, <1>1 DEF RecordOK, Kids, Same, Calm
  <2>3. \A c \in ToSet(pr2[p].kids) :
          pr2[c].state \in Over \/ pr2[c].supervisor = p
    <3> SUFFICES ASSUME NEW c \in ToSet(pr[p].kids)
                 PROVE  pr2[c].state \in Over \/ pr2[c].supervisor = p
      BY DEF Same
    <3>1. c \in DOMAIN pr /\ (pr[c].state \in Over \/ pr[c].supervisor = p)
      BY <2>1 DEF RecordOK, Kids
    <3> QED BY <3>1 DEF Same, Calm
  <2>4. /\ pr2[p].spec = pr[p].spec /\ pr2[p].state = pr[p].state
        /\ pr2[p].supervisor = pr[p].supervisor /\ pr2[p].parent = pr[p].parent
        /\ pr2[p].kids = pr[p].kids /\ pr2[p].charged = pr[p].charged
        /\ pr[p].spec.mode # "isolated" => pr2[p].os = pr[p].os
    BY DEF Same, Calm
  <2> QED BY <2>1, <2>2, <2>3, <2>4, <1>1 DEF RecordOK
<1>3. ASSUME Linked(pr), NEW p \in DOMAIN pr, Supervises(pr2, p)
      PROVE  /\ pr2[p].parent = pr2[p].supervisor
             /\ p \in ToSet(pr2[pr2[p].supervisor].kids)
  <2>1. RecordOK(pr, nm, p)
    BY DEF RecordsOK
  <2>2. pr[p].supervisor \in DOMAIN pr /\ Supervises(pr, p)
    BY <1>3, <2>1 DEF Supervises, Same, Calm, RecordOK
  <2>3. pr[p].parent = pr[p].supervisor /\ p \in ToSet(pr[pr[p].supervisor].kids)
    BY <1>3, <2>2 DEF Linked
  <2> QED BY <2>2, <2>3 DEF Same, Calm
<1> QED BY <1>1, <1>2, <1>3 DEF RecordsOK, Linked, Same

\* An operating system process is gone, or a supervisor is told.
LEMMA SameDead ==
  ASSUME NEW pr \in Seq(Records), NEW x \in DOMAIN pr,
         pr[x].spec.mode = "isolated", NEW pr2, pr2 = [pr EXCEPT ![x].os = "dead"]
  PROVE  /\ pr2 \in Seq(Records) /\ Len(pr2) = Len(pr) /\ Same(pr, pr2)
         /\ pr2[x].os = "dead" /\ pr2[x].state = pr[x].state
<1>1. DOMAIN pr2 = DOMAIN pr /\ pr2 = [p \in DOMAIN pr |-> pr2[p]]
  OBVIOUS
<1>2. ASSUME NEW p \in DOMAIN pr
      PROVE  /\ pr2[p] \in Records
             /\ pr2[p].spec = pr[p].spec /\ pr2[p].state = pr[p].state
             /\ pr2[p].supervisor = pr[p].supervisor
             /\ pr2[p].parent = pr[p].parent /\ pr2[p].kids = pr[p].kids
             /\ pr2[p].charged = pr[p].charged
             /\ pr2[p].os = IF p = x THEN "dead" ELSE pr[p].os
  <2>1. ASSUME NEW a, a = pr[p], NEW b, b = pr2[p]
        PROVE  /\ b \in Records
               /\ b.spec = a.spec /\ b.state = a.state
               /\ b.supervisor = a.supervisor
               /\ b.parent = a.parent /\ b.kids = a.kids
               /\ b.charged = a.charged
               /\ b.os = IF p = x THEN "dead" ELSE a.os
    <3>1. a \in Records
      BY <2>1
    <3>2. b = IF p = x THEN [a EXCEPT !.os = "dead"] ELSE a
      BY <2>1
    <3> QED BY <3>1, <3>2 DEF Records
  <2> QED BY <2>1
<1>3. pr2 \in Seq(Records) /\ Len(pr2) = Len(pr)
  BY <1>1, <1>2, AsLong
<1>4. Same(pr, pr2)
  BY <1>1, <1>2 DEF Same, Calm
<1>5. pr2[x].os = "dead" /\ pr2[x].state = pr[x].state
  BY <1>2
<1> QED BY <1>3, <1>4, <1>5

\* A supervisor that is marked as escalated is the same in the tree.
LEMMA SameTold ==
  ASSUME NEW pr \in Seq(Records), NEW pr2,
         DOMAIN pr2 = DOMAIN pr, pr2 = [p \in DOMAIN pr |-> pr2[p]],
         \A p \in DOMAIN pr : \/ pr2[p] = pr[p]
                             \/ pr2[p] = [pr[p] EXCEPT !.escalated = TRUE]
  PROVE  /\ pr2 \in Seq(Records) /\ Len(pr2) = Len(pr) /\ Same(pr, pr2)
         /\ \A p \in DOMAIN pr : pr2[p].os = pr[p].os
<1>1. ASSUME NEW p \in DOMAIN pr
      PROVE  /\ pr2[p] \in Records
             /\ pr2[p].spec = pr[p].spec /\ pr2[p].state = pr[p].state
             /\ pr2[p].supervisor = pr[p].supervisor
             /\ pr2[p].parent = pr[p].parent /\ pr2[p].kids = pr[p].kids
             /\ pr2[p].charged = pr[p].charged /\ pr2[p].os = pr[p].os
  <2>1. ASSUME NEW a, a = pr[p], NEW b, b = pr2[p]
        PROVE  /\ b \in Records
               /\ b.spec = a.spec /\ b.state = a.state
               /\ b.supervisor = a.supervisor
               /\ b.parent = a.parent /\ b.kids = a.kids
               /\ b.charged = a.charged /\ b.os = a.os
    <3>1. a \in Records
      BY <2>1
    <3>2. b = a \/ b = [a EXCEPT !.escalated = TRUE]
      BY <2>1
    <3> QED BY <3>1, <3>2 DEF Records
  <2> QED BY <2>1
<1>2. pr2 \in Seq(Records) /\ Len(pr2) = Len(pr)
  BY <1>1, AsLong
<1>3. Same(pr, pr2)
  BY <1>1 DEF Same, Calm
<1> QED BY <1>1, <1>2, <1>3

\* Frames are where they should be after tasks were cancelled.
LEMMA StackTyped ==
  ASSUME Typed, NEW t \in Tasks, Len(proc') = Len(proc),
         stack' = [u \in Tasks |-> stack'[u]], Leaves(t),
         stack'[t] \in Seq(Frames)
  PROVE  stack' \in [0 .. Len(proc') -> Seq(Frames)]
<1>1. Tasks = 0 .. Len(proc') /\ \A u \in Tasks : stack[u] \in Seq(Frames)
  BY TheStacks
<1>2. ASSUME NEW u \in Tasks PROVE stack'[u] \in Seq(Frames)
  <2>1. Body("cancelled") \in Seq(Frames) /\ <<>> \in Seq(Frames)
    BY BodyFrames DEF Places
  <2> QED BY <2>1, <1>1 DEF Leaves
<1> QED BY <1>1, <1>2

\* A step of a task that cancels nobody.
LEMMA QuietIs ==
  ASSUME Shape, Regular, NEW t \in Tasks, stack[t] # <<>>,
         proc' \in Seq(Records), Len(proc') = Len(proc), Calm(proc, proc'),
         RecordsOK(proc', Names),
         ~ crossed => Linked(proc'),
         NEW s \in Seq(Frames), stack' = [stack EXCEPT ![t] = s],
         busy' = {} \/ busy' = {t}, result' \in {"ok", "raised"},
         UNCHANGED <<by_name, crossed>>,
         restarts' \subseteq [by : Pids, child : Pids, failed : Pids]
  PROVE  Quiet(t) /\ stack'[t] = s
<1>1. Typed /\ stack'[t] = s /\ Tasks' = Tasks
  BY DEF Shape, Tasks
<1>2. \A u \in Tasks \ {t} : stack'[u] = stack[u]
  BY DEF Tasks
<1>3. Leaves(t) /\ Mild(t)
  BY <1>1, <1>2 DEF Leaves, Mild
<1>4. stack' = [u \in Tasks |-> stack'[u]]
  BY DEF Tasks
<1>5. stack' \in [0 .. Len(proc') -> Seq(Frames)]
  BY <1>1, <1>3, <1>4, StackTyped
<1>6. Typed'
  BY <1>1, <1>5 DEF Typed, Names, Calm, Pids
<1> QED BY <1>1, <1>3, <1>6 DEF Quiet

\* A quiet step that changes the last frame.
LEMMA QuietSwap ==
  ASSUME TreeInv, NEW t \in Tasks, stack[t] # <<>>, Quiet(t),
         \A p \in Pids : proc'[p].charged = proc[p].charged,
         restarts' = restarts,
         NEW f \in Frames, stack'[t] = With(t, f),
         f.op = Top(t).op, f.pid = Top(t).pid, FrameOK(proc', Names, f),
         f.op = "kill" /\ f.at = "finish" => stack'[f.pid] = <<>>,
         f.op = "handle" /\ f.at = "restart" => proc'[Head(f.todo)].state \in Over,
         f.op = "start" /\ f.at \in {"wait", "abort", "crashed"} =>
           Starting(t) /\ f.new = Top(t).new,
         Starting(t) =>
           \/ f.at \in {"wait", "abort", "crashed"} /\ f.new = Top(t).new
           \/ proc'[Top(t).new].os # "alive",
         \A q : Owes(f, q) <= Owes(Top(t), q),
         Holds(f, f.pid) => Holds(Top(t), f.pid),
         Top(t).op \in {"kill", "handle"} /\ Top(t).at = "kids" => Top(t).todo = <<>>
  PROVE  TreeInv'
<1>1. Shape /\ Regular /\ Books /\ Justified /\ Typed /\ Stacks /\ Typed' /\ Tops
  BY DEF TreeInv, Shape, Quiet
<1>2. Spared(t) /\ Grows(proc, proc') /\ Names' = Names /\ Tasks' = Tasks
  BY QuietSpares
<1>3. /\ Turned(t, f, f) /\ stack'[t] # <<>> /\ Len(stack'[t]) = Len(stack[t])
      /\ Top(t)' = f /\ Len(stack[t]) \in Nat
  BY <1>1, Swapped, TheStacks
<1>4. stack[t] \in Seq(Frames) /\ StackOK(proc, Names, t, stack[t])
  BY <1>1, TheStacks DEF Stacks
<1>5. StackOK(proc', Names, t, stack'[t])
  <2>1. StackOK(proc', Names, t, stack[t])
    BY <1>2, <1>4, StackKept
  <2>2. StackOK(proc', Names, t, Append(Front(stack[t]), f))
    BY <2>1, <1>4, StackSwap DEF Top
  <2> QED BY <2>2 DEF With
<1>6. Starting(t)' => Starting(t) /\ Top(t)'.new = Top(t).new
  BY <1>3 DEF Starting
<1>7. TopOK(t)'
  <2>1. Starting(t)' => proc'[Top(t)'.new].state = "unborn"
    <3> SUFFICES ASSUME Starting(t)' PROVE proc'[Top(t).new].state = "unborn"
      BY <1>6
    <3>1. proc[Top(t).new].state = "unborn"
      BY <1>1, <1>6 DEF Tops, TopOK
    <3>2. FrameOK(proc, Names, Top(t)) /\ Starting(t)
      BY <1>1, <1>6, TheTop
    <3>3. Top(t).new \in DOMAIN proc
      BY <3>2 DEF FrameOK, StartOK, Starting
    <3> QED BY <3>1, <3>3 DEF Quiet, Calm
  <2>2. At(t, "kill", "finish")' => stack'[Top(t)'.pid] = <<>>
    BY <1>3 DEF At
  <2>3. At(t, "handle", "restart")' => proc'[Head(Top(t)'.todo)].state \in Over
    BY <1>3 DEF At
  <2> QED BY <2>1, <2>2, <2>3 DEF TopOK
<1>8. Shape'
  BY <1>1, <1>3, <1>5, <1>6, <1>7, QuietShape
<1>9. Books'
  <2>1. NoMoreOwed
    BY <1>1, <1>2, <1>3, OwedStep
  <2> QED BY <2>1, <1>1, BooksStep
<1>10. Justified'
  BY <1>1, <1>2, JustStep
<1>11. Regular'
  <2>1. Starting(t) => \/ Starting(t)' /\ Top(t)'.new = Top(t).new
                       \/ proc'[Top(t).new].os # "alive"
    BY <1>3 DEF Starting
  <2>2. Top(t).op \in {"kill", "handle"} /\ Top(t).at = "kids" =>
           \/ Top(t).todo = <<>>
           \/ /\ f.at = "kids" /\ f.op = "kill"
              /\ ToSet(Top(t).todo) \subseteq ToSet(f.todo) \cup {f.pid}
              /\ Len(stack'[t]) = Len(stack[t]) + 1
    OBVIOUS
  <2>3. /\ ~ (Len(stack'[t]) > Len(stack[t]))
        /\ ~ (Len(stack'[t]) < Len(stack[t]))
    BY <1>3
  <2> QED BY <2>1, <2>2, <2>3, <1>1, <1>3, QuietRegular
<1> QED BY <1>8, <1>9, <1>10, <1>11 DEF TreeInv

\* A quiet step that calls kill() or starts a process.
LEMMA QuietPush ==
  ASSUME TreeInv, NEW t \in Tasks, stack[t] # <<>>, Quiet(t),
         \A p \in Pids : proc'[p].charged = proc[p].charged,
         restarts' = restarts,
         NEW f \in Frames, NEW g \in Frames, stack'[t] = Append(With(t, f), g),
         f.op = Top(t).op, f.pid = Top(t).pid,
         FrameOK(proc, Names, f), FrameOK(proc, Names, g), Awaiting(f, g),
         g.op \in {"kill", "start"}, g.at = "enter", Top(t).op # "start",
         \A q : Owes(f, q) <= Owes(Top(t), q),
         Holds(f, f.pid) => Holds(Top(t), f.pid),
         Top(t).op \in {"kill", "handle"} /\ Top(t).at = "kids" =>
           /\ f.at = "kids" /\ g.op = "kill"
           /\ ToSet(Top(t).todo) \subseteq ToSet(f.todo) \cup {g.pid}
  PROVE  TreeInv'
<1>1. Shape /\ Regular /\ Books /\ Justified /\ Typed /\ Stacks /\ Typed' /\ Tops
  BY DEF TreeInv, Shape, Quiet
<1>2. Spared(t) /\ Grows(proc, proc') /\ Names' = Names /\ Tasks' = Tasks
  BY QuietSpares
<1>3. /\ Turned(t, f, g) /\ stack'[t] # <<>>
      /\ Len(stack'[t]) = Len(stack[t]) + 1
      /\ Top(t)' = g /\ Len(stack[t]) \in Nat
  BY <1>1, Pushed, TheStacks
<1>4. stack[t] \in Seq(Frames) /\ StackOK(proc, Names, t, stack[t])
  BY <1>1, TheStacks DEF Stacks
<1>5. StackOK(proc', Names, t, stack'[t])
  <2> DEFINE r == Append(Front(stack[t]), f)
  <2>1. StackOK(proc, Names, t, r)
    BY <1>4, StackSwap DEF Top
  <2>2. r \in Seq(Frames) /\ r # <<>> /\ Last(r) = f
    BY <1>4, OtherTop
  <2> HIDE DEF r
  <2>3. StackOK(proc, Names, t, Append(r, g))
    BY <2>1, <2>2, StackPush
  <2> QED BY <2>3, <1>2, StackKept DEF With, r
<1>6. ~ Starting(t)' /\ ~ Starting(t)
  BY <1>3 DEF Starting
<1>7. TopOK(t)'
  BY <1>3, <1>6 DEF TopOK, At
<1>8. Shape'
  BY <1>1, <1>3, <1>5, <1>6, <1>7, QuietShape
<1>9. Books'
  <2>1. \A q : Owes(g, q) = 0
    BY DEF Owes
  <2>2. NoMoreOwed
    BY <2>1, <1>1, <1>2, <1>3, OwedStep
  <2> QED BY <2>2, <1>1, BooksStep
<1>10. Justified'
  BY <1>1, <1>2, JustStep
<1>11. Regular'
  <2>1. ~ Holds(g, g.pid)
    BY DEF Holds
  <2>2. Top(t).op \in {"kill", "handle"} /\ Top(t).at = "kids" =>
           \/ Top(t).todo = <<>>
           \/ /\ f.at = "kids" /\ g.op = "kill"
              /\ ToSet(Top(t).todo) \subseteq ToSet(f.todo) \cup {g.pid}
              /\ Len(stack'[t]) = Len(stack[t]) + 1
    BY <1>3
  <2>3. ~ (Len(stack'[t]) < Len(stack[t]))
    BY <1>3
  <2> QED BY <2>1, <2>2, <2>3, <1>1, <1>3, <1>6, QuietRegular
<1> QED BY <1>8, <1>9, <1>10, <1>11 DEF TreeInv

\* What the caller knows when a call returns.
LEMMA PopTop ==
  ASSUME Typed, Stacks, Typed', NEW t \in Tasks, stack[t] # <<>>,
         Grows(proc, proc'), stack'[t] = Front(stack[t]), t \in Tasks',
         Top(t).op = "kill" => proc'[Top(t).pid].state \in Over \cup {"unborn"}
  PROVE  /\ TopOK(t)' /\ ~ Starting(t)' /\ StackOK(proc', Names, t, stack'[t])
<1>1. stack[t] \in Seq(Frames) /\ StackOK(proc, Names, t, stack[t])
  BY TheStacks DEF Stacks
<1>2. /\ StackOK(proc, Names, t, Front(stack[t]))
      /\ Front(stack[t]) # <<>> =>
           /\ Awaiting(Last(Front(stack[t])), Last(stack[t]))
           /\ FrameOK(proc, Names, Last(Front(stack[t])))
  BY <1>1, StackPop
<1>3. StackOK(proc', Names, t, stack'[t])
  BY <1>2, StackKept
<1>4. CASE stack'[t] = <<>>
  BY <1>3, <1>4 DEF TopOK, At, Starting
<1>5. CASE stack'[t] # <<>>
  <2> DEFINE h == Last(stack'[t])
  <2>1. Top(t)' = h /\ h \in Frames
    BY <1>5, StacksThen, EndsOf DEF Top
  <2>2. Awaiting(h, Top(t)) /\ FrameOK(proc, Names, h)
    BY <1>2, <1>5 DEF Top
  <2>3. ~ Starting(t)' /\ ~ At(t, "kill", "finish")'
    BY <2>1, <2>2 DEF Starting, At, Awaiting
  <2>4. ASSUME At(t, "handle", "restart")'
        PROVE  proc'[Head(Top(t)'.todo)].state \in Over
    <3>1. h.op = "handle" /\ h.at = "restart"
      BY <2>1, <2>4 DEF At
    <3>2. Top(t).op = "kill" /\ Top(t).pid = Head(h.todo)
      BY <3>1, <2>2 DEF Awaiting
    <3>3. Kids(proc, h.todo) /\ h.todo # <<>>
      BY <3>1, <2>2 DEF FrameOK, HandleOK
    <3>4. Head(h.todo) \in ToSet(h.todo)
      BY <3>3, <2>1, FrameFields, FirstAndRest
    <3>5. proc'[Head(h.todo)].state # "unborn"
      BY <3>3, <3>4 DEF Kids, Grows
    <3> QED BY <3>2, <3>5, <2>1
  <2> QED BY <1>3, <2>3, <2>4 DEF TopOK
<1> QED BY <1>4, <1>5

\* A quiet step that returns to the caller.
LEMMA QuietPop ==
  ASSUME TreeInv, NEW t \in Tasks, stack[t] # <<>>, Quiet(t),
         \A p \in Pids : proc'[p].charged = proc[p].charged,
         restarts' = restarts, stack'[t] = Front(stack[t]),
         Top(t).op # "external",
         Top(t).op = "kill" => proc[Top(t).pid].state \in Over \cup {"unborn"},
         Top(t).op \in {"kill", "handle"} /\ Top(t).at = "kids" => Top(t).todo = <<>>,
         Starting(t) => proc'[Top(t).new].os # "alive"
  PROVE  TreeInv'
<1>1. Shape /\ Regular /\ Books /\ Justified /\ Typed /\ Stacks /\ Typed' /\ Tops
  BY DEF TreeInv, Shape, Quiet
<1>2. Spared(t) /\ Grows(proc, proc') /\ Names' = Names /\ Tasks' = Tasks
  BY QuietSpares
<1>3. Top(t) \in Frames /\ FrameOK(proc, Names, Top(t))
  BY <1>1, TheTop
<1>4. /\ Turned(t, Top(t), Top(t)) /\ Len(stack'[t]) = Len(stack[t]) - 1
      /\ Len(stack[t]) \in Nat
  BY <1>1, Popped, TheStacks
<1>5. TopOK(t)' /\ ~ Starting(t)' /\ StackOK(proc', Names, t, stack'[t])
  <2>1. Top(t).op = "kill" => proc'[Top(t).pid].state \in Over \cup {"unborn"}
    BY <1>3 DEF FrameOK, KillOK, Quiet, Calm
  <2> QED BY <2>1, <1>1, <1>2, PopTop
<1>6. Shape'
  BY <1>1, <1>4, <1>5, QuietShape
<1>7. \A q : Owes(Top(t), q) \in Int
  BY <1>3, FrameFields DEF Owes
<1>8. ~ (Len(stack'[t]) > Len(stack[t]))
  BY <1>4
<1>9. Books'
  <2>1. NoMoreOwed
    BY <1>1, <1>2, <1>3, <1>4, <1>7, <1>8, OwedStep
  <2> QED BY <2>1, <1>1, BooksStep
<1>10. Justified'
  BY <1>1, <1>2, JustStep
<1>11. Regular'
  <2>1. Top(t).op = "kill" => proc[Top(t).pid].state \notin Alive
    BY DEF Alive, Over
  <2> QED BY <2>1, <1>1, <1>3, <1>4, <1>8, QuietRegular
<1> QED BY <1>6, <1>9, <1>10, <1>11 DEF TreeInv

-----------------------------------------------------------------------------
(* The trees in quiet steps *)

\* Records are as they should be after their lists have changed.
LEMMA CalmRecords ==
  ASSUME NEW pr, NEW pr2, NEW nm, RecordsOK(pr, nm), Calm(pr, pr2),
         \A x \in DOMAIN pr :
           /\ pr2[x].charged <= MaxRestarts
           /\ pr2[x].os # "none" => pr[x].os # "none"
           /\ pr2[x].parent \in {0, pr[x].parent}
           /\ \A c \in ToSet(pr2[x].kids) :
                \/ c \in ToSet(pr[x].kids)
                \/ /\ c \in DOMAIN pr /\ pr[c].state # "unborn"
                   /\ pr[c].spec.mode # "external" /\ pr[x].state # "unborn"
                   /\ pr[c].state \in Over \/ pr[c].supervisor = x
  PROVE  RecordsOK(pr2, nm)
<1> SUFFICES ASSUME NEW p \in DOMAIN pr PROVE RecordOK(pr2, nm, p)
  BY DEF RecordsOK, Calm
<1>1. RecordOK(pr, nm, p) /\ DOMAIN pr2 = DOMAIN pr
  BY DEF RecordsOK, Calm
<1>2. ASSUME NEW c \in ToSet(pr2[p].kids)
      PROVE  /\ c \in DOMAIN pr2 /\ pr2[c].state # "unborn"
             /\ pr2[c].spec.mode # "external"
             /\ pr2[c].state \in Over \/ pr2[c].supervisor = p
             /\ pr[p].state # "unborn"
  <2>1. /\ c \in DOMAIN pr /\ pr[c].state # "unborn"
        /\ pr[c].spec.mode # "external"
        /\ pr[c].state \in Over \/ pr[c].supervisor = p
        /\ pr[p].state # "unborn"
    <3>1. CASE c \in ToSet(pr[p].kids)
      BY <1>1, <3>1 DEF RecordOK, Kids
    <3>2. CASE c \notin ToSet(pr[p].kids)
      BY <1>2, <3>2
    <3> QED BY <3>1, <3>2
  <2> QED BY <2>1, <1>1 DEF Calm
<1>3. pr2[p].state = "unborn" => ToSet(pr2[p].kids) = {}
  BY <1>2 DEF Calm
<1>4. Kids(pr2, pr2[p].kids)
  BY <1>2 DEF Kids
<1>5. /\ pr2[p].spec = pr[p].spec /\ pr2[p].state = pr[p].state
      /\ pr2[p].supervisor = pr[p].supervisor
  BY DEF Calm
<1> QED BY <1>1, <1>2, <1>3, <1>4, <1>5 DEF RecordOK

\* A process that is not alive leaves its list.
LEMMA UnlinkQuiet ==
  ASSUME NEW pr \in Seq(Records), NEW nm, RecordsOK(pr, nm), NEW p \in DOMAIN pr,
         pr[p].state \notin Alive, NEW r, r = Unlink(pr, p)
  PROVE  /\ r \in Seq(Records) /\ Len(r) = Len(pr) /\ Calm(pr, r)
         /\ RecordsOK(r, nm)
         /\ Linked(pr) => Linked(r)
         /\ \A x \in DOMAIN pr : r[x].charged = pr[x].charged
<1>1. \A x \in DOMAIN pr : RecordOK(pr, nm, x)
  BY DEF RecordsOK
<1>2. /\ r \in Seq(Records) /\ DOMAIN r = DOMAIN pr /\ Len(r) = Len(pr)
      /\ \A x \in DOMAIN pr :
           /\ Alike(r[x], pr[x]) /\ r[x].supervisor = pr[x].supervisor
           /\ r[x].parent = IF x = p THEN 0 ELSE pr[x].parent
           /\ ToSet(r[x].kids) \subseteq ToSet(pr[x].kids)
           /\ ToSet(pr[x].kids) \ {p} \subseteq ToSet(r[x].kids)
  <2>1. pr[p].parent \in {0} \cup DOMAIN pr
    BY <1>1 DEF RecordOK
  <2> QED BY <2>1, UnlinkIs
<1>3. Calm(pr, r) /\ \A x \in DOMAIN pr : r[x].charged = pr[x].charged
  BY <1>2 DEF Calm, Alike
<1>4. RecordsOK(r, nm)
  <2>1. ASSUME NEW x \in DOMAIN pr
        PROVE  /\ r[x].charged <= MaxRestarts
               /\ r[x].os # "none" => pr[x].os # "none"
               /\ r[x].parent \in {0, pr[x].parent}
               /\ \A c \in ToSet(r[x].kids) : c \in ToSet(pr[x].kids)
    BY <1>1, <1>2 DEF RecordOK, Alike
  <2> QED BY <2>1, <1>3, CalmRecords
<1>5. ASSUME Linked(pr), NEW x \in DOMAIN pr, Supervises(r, x)
      PROVE  r[x].parent = r[x].supervisor /\ x \in ToSet(r[r[x].supervisor].kids)
  <2>1. pr[x].supervisor \in DOMAIN pr /\ Supervises(pr, x)
    BY <1>1, <1>3, <1>5 DEF Supervises, Calm, RecordOK
  <2>2. pr[x].parent = pr[x].supervisor /\ x \in ToSet(pr[pr[x].supervisor].kids)
    BY <1>5, <2>1 DEF Linked
  <2>3. x # p
    BY <2>1 DEF Supervises
  <2> QED BY <2>1, <2>2, <2>3, <1>2
<1>6. Linked(pr) => Linked(r)
  BY <1>2, <1>5 DEF Linked
<1> QED BY <1>2, <1>3, <1>4, <1>6

\* One takes the place of another that is over.
LEMMA ReplaceQuiet ==
  ASSUME NEW pr \in Seq(Records), NEW nm, RecordsOK(pr, nm), NEW q, NEW old,
         NEW new \in DOMAIN pr,
         old # 0 => /\ q \in DOMAIN pr /\ pr[q].state # "unborn" /\ old # new
                    /\ old \in DOMAIN pr /\ pr[old].state \in Over
                    /\ pr[new].state # "unborn" /\ pr[new].spec.mode # "external"
                    /\ pr[new].state \in Over \/ pr[new].supervisor = q,
         NEW r, r = Replace(pr, q, old, new)
  PROVE  /\ r \in Seq(Records) /\ Len(r) = Len(pr) /\ Calm(pr, r)
         /\ RecordsOK(r, nm)
         /\ Linked(pr) => Linked(r)
         /\ \A x \in DOMAIN pr : r[x].charged = pr[x].charged /\ r[x].os = pr[x].os
<1>1. \A x \in DOMAIN pr : RecordOK(pr, nm, x)
  BY DEF RecordsOK
<1>2. /\ r \in Seq(Records) /\ DOMAIN r = DOMAIN pr /\ Len(r) = Len(pr)
      /\ \A x \in DOMAIN pr :
           /\ Alike(r[x], pr[x]) /\ r[x].supervisor = pr[x].supervisor
           /\ r[x].parent = pr[x].parent
           /\ x # q \/ old = 0 => r[x].kids = pr[x].kids
      /\ old # 0 =>
           /\ ToSet(r[q].kids) \subseteq ToSet(pr[q].kids) \cup {new}
           /\ ToSet(pr[q].kids) \ {old} \subseteq ToSet(r[q].kids)
  <2>1. old # 0 => q \in DOMAIN pr /\ old # new
    OBVIOUS
  <2>2. r \in Seq(Records) /\ DOMAIN r = DOMAIN pr /\ Len(r) = Len(pr)
    BY <2>1, ReplaceIs
  <2>3. ASSUME NEW x \in DOMAIN pr
        PROVE  /\ Alike(r[x], pr[x]) /\ r[x].supervisor = pr[x].supervisor
               /\ r[x].parent = pr[x].parent
               /\ x # q \/ old = 0 => r[x].kids = pr[x].kids
    BY <2>1, ReplaceIs
  <2>4. ASSUME old # 0
        PROVE  /\ ToSet(r[q].kids) \subseteq ToSet(pr[q].kids) \cup {new}
               /\ ToSet(pr[q].kids) \ {old} \subseteq ToSet(r[q].kids)
    <3>1. /\ ToSet(Replace(pr, q, old, new)[q].kids)
               \subseteq ToSet(pr[q].kids) \cup {new}
          /\ ToSet(pr[q].kids) \ {old}
               \subseteq ToSet(Replace(pr, q, old, new)[q].kids)
      BY <2>1, <2>4, ReplaceIs, Zenon
    <3> QED BY <3>1
  <2> QED BY <2>2, <2>3, <2>4
<1>3. Calm(pr, r) /\ \A x \in DOMAIN pr : /\ r[x].charged = pr[x].charged
                                          /\ r[x].os = pr[x].os
  BY <1>2 DEF Calm, Alike
<1>4. RecordsOK(r, nm)
  <2>1. ASSUME NEW x \in DOMAIN pr
        PROVE  /\ r[x].charged <= MaxRestarts
               /\ r[x].os # "none" => pr[x].os # "none"
               /\ r[x].parent \in {0, pr[x].parent}
               /\ \A c \in ToSet(r[x].kids) :
                    \/ c \in ToSet(pr[x].kids)
                    \/ /\ c \in DOMAIN pr /\ pr[c].state # "unborn"
                       /\ pr[c].spec.mode # "external" /\ pr[x].state # "unborn"
                       /\ pr[c].state \in Over \/ pr[c].supervisor = x
    <3>1. CASE x = q /\ old # 0
      BY <3>1, <1>1, <1>2, <1>3 DEF RecordOK
    <3>2. CASE x # q \/ old = 0
      BY <3>2, <1>1, <1>2, <1>3 DEF RecordOK
    <3> QED BY <3>1, <3>2
  <2> QED BY <2>1, <1>3, CalmRecords
<1>5. ASSUME Linked(pr), NEW x \in DOMAIN pr, Supervises(r, x)
      PROVE  r[x].parent = r[x].supervisor /\ x \in ToSet(r[r[x].supervisor].kids)
  <2>1. pr[x].supervisor \in DOMAIN pr /\ Supervises(pr, x)
    BY <1>1, <1>3, <1>5 DEF Supervises, Calm, RecordOK
  <2>2. pr[x].parent = pr[x].supervisor /\ x \in ToSet(pr[pr[x].supervisor].kids)
    BY <1>5, <2>1 DEF Linked
  <2>3. old # 0 => x # old
    BY <2>1 DEF Supervises, Alive, Over
  <2> QED BY <2>1, <2>2, <2>3, <1>2
<1>6. Linked(pr) => Linked(r)
  BY <1>2, <1>5 DEF Linked
<1> QED BY <1>2, <1>3, <1>4, <1>6

\* A step in which the processes are as they were to all but their lists.
Tame ==
  /\ proc' \in Seq(Records) /\ Len(proc') = Len(proc) /\ Calm(proc, proc')
  /\ RecordsOK(proc', Names)
  /\ ~ crossed => Linked(proc')
  /\ \A p \in Pids : proc'[p].charged = proc[p].charged
  /\ UNCHANGED <<by_name, restarts, crossed>>

\* A step is tame if the records are the same in the tree, ...
LEMMA TameSame ==
  ASSUME Shape, Regular, UNCHANGED <<by_name, restarts, crossed>>,
         proc' \in Seq(Records), Len(proc') = Len(proc), Same(proc, proc')
  PROVE  Tame
<1>1. RecordsOK(proc, Names) /\ (~ crossed => Linked(proc))
  BY DEF Shape, Regular
<1> QED BY <1>1, SameTree DEF Tame, Same, Pids

\* ... or do not change at all.
LEMMA TameStill ==
  ASSUME Shape, Regular, UNCHANGED <<proc, by_name, restarts, crossed>>
  PROVE  Tame
<1>1. Same(proc, proc') /\ proc' \in Seq(Records) /\ Len(proc') = Len(proc)
  BY DEF Shape, Typed, Same, Calm
<1> QED BY <1>1, TameSame

\* How frames move.
LEMMA MovesTyped ==
  ASSUME Typed, NEW t \in Tasks, stack[t] # <<>>, NEW f \in Frames,
         NEW g \in Frames
  PROVE  /\ With(t, f) \in Seq(Frames) /\ Append(With(t, f), g) \in Seq(Frames)
         /\ Front(stack[t]) \in Seq(Frames)
<1>1. stack[t] \in Seq(Frames)
  BY TheStacks
<1>2. Append(Front(stack[t]), f) \in Seq(Frames) /\ Front(stack[t]) \in Seq(Frames)
  BY <1>1, OtherTop, EndsOf
<1> QED BY <1>2 DEF With

\* A tame step of a task that cancels nobody is a quiet one.
LEMMA TameIs ==
  ASSUME TreeInv, Tame, NEW t \in Tasks, stack[t] # <<>>,
         NEW s \in Seq(Frames), stack' = [stack EXCEPT ![t] = s],
         busy' = {} \/ busy' = {t}, result' \in {"ok", "raised"}
  PROVE  /\ Quiet(t) /\ stack'[t] = s /\ restarts' = restarts
         /\ \A p \in Pids : proc'[p].charged = proc[p].charged
<1>1. Shape /\ Regular /\ restarts' \subseteq [by : Pids, child : Pids, failed : Pids]
  BY DEF TreeInv, Tame, Shape, Typed
<1> QED BY <1>1, QuietIs DEF Tame

\* A call goes on to its next point.
LEMMA MovesOn ==
  ASSUME TreeInv, NEW t \in Tasks, stack[t] # <<>>, Quiet(t),
         \A p \in Pids : proc'[p].charged = proc[p].charged,
         restarts' = restarts, NEW x \in Places, stack'[t] = Moved(t, x),
         NEW f, f = [Top(t) EXCEPT !.at = x], FrameOK(proc', Names, f),
         Top(t).op = "kill" /\ x = "finish" => stack'[Top(t).pid] = <<>>,
         Top(t).op = "handle" =>
           /\ Top(t).at \notin {"kids", "restarted"} /\ x # "kids"
           /\ x = "restart" => proc'[Head(Top(t).todo)].state \in Over,
         Top(t).op = "start" /\ x \in {"wait", "abort", "crashed"} => Starting(t),
         Starting(t) => x \in {"wait", "abort", "crashed"},
         Top(t).op = "kill" =>
           /\ x \in {"kids", "join", "await", "finish"} =>
                Top(t).at \in {"kids", "join", "await", "finish"}
           /\ Top(t).at = "kids" => Top(t).todo = <<>>
  PROVE  TreeInv'
<1>1. Typed /\ Stacks
  BY DEF TreeInv, Shape
<1>2. /\ Top(t) \in Frames /\ Len(Top(t).todo) \in Nat
      /\ FrameOK(proc, Names, Top(t))
  BY <1>1, TheTop, FrameFields
<1>3. /\ f \in Frames /\ f.op = Top(t).op /\ f.pid = Top(t).pid /\ f.at = x
      /\ f.todo = Top(t).todo /\ f.parent = Top(t).parent /\ f.new = Top(t).new
  BY <1>2, FrameMoved
<1>4. \A q : Owes(f, q) <= Owes(Top(t), q)
  BY <1>2, <1>3 DEF Owes
<1>5. Holds(f, f.pid) => Holds(Top(t), f.pid)
  BY <1>3 DEF Holds
<1>6. /\ f.op = "kill" /\ f.at = "finish" => stack'[f.pid] = <<>>
      /\ f.op = "handle" /\ f.at = "restart" => proc'[Head(f.todo)].state \in Over
      /\ f.op = "start" /\ f.at \in {"wait", "abort", "crashed"} =>
           Starting(t) /\ f.new = Top(t).new
      /\ Starting(t) =>
           \/ f.at \in {"wait", "abort", "crashed"} /\ f.new = Top(t).new
           \/ proc'[Top(t).new].os # "alive"
      /\ Top(t).op \in {"kill", "handle"} /\ Top(t).at = "kids" =>
           Top(t).todo = <<>>
  <2>1. /\ f.op = "kill" /\ f.at = "finish" => stack'[f.pid] = <<>>
        /\ f.op = "handle" /\ f.at = "restart" => proc'[Head(f.todo)].state \in Over
    BY <1>3
  <2>2. /\ f.op = "start" /\ f.at \in {"wait", "abort", "crashed"} =>
             Starting(t) /\ f.new = Top(t).new
        /\ Starting(t) =>
             f.at \in {"wait", "abort", "crashed"} /\ f.new = Top(t).new
    BY <1>3
  <2>3. Top(t).op \in {"kill", "handle"} /\ Top(t).at = "kids" =>
          Top(t).todo = <<>>
    OBVIOUS
  <2> QED BY <2>1, <2>2, <2>3
<1>7. stack'[t] = With(t, f)
  BY DEF Moved
<1> QED BY <1>3, <1>4, <1>5, <1>6, <1>7, QuietSwap

\* The task of a step: it has a frame at a point that the step is about.
LEMMA AtTop ==
  ASSUME TreeInv, NEW t \in Tasks, NEW op, NEW at, At(t, op, at)
  PROVE  /\ Shape /\ Regular /\ Typed /\ Stacks
         /\ stack[t] # <<>> /\ Top(t) \in Frames /\ Top(t).op = op /\ Top(t).at = at
         /\ FrameOK(proc, Names, Top(t)) /\ TopOK(t)
         /\ Top(t).todo \in Seq(Nat) /\ Top(t).pid \in Nat
<1>1. Shape /\ Regular /\ Typed /\ Stacks /\ TopOK(t) /\ stack[t] # <<>>
  BY DEF TreeInv, Shape, Tops, At
<1> QED BY <1>1, TheTop, FrameFields DEF At

\* The head of a list of children.
LEMMA HeadKid ==
  ASSUME NEW pr, NEW list \in Seq(Nat), list # <<>>, Kids(pr, list)
  PROVE  /\ Head(list) \in DOMAIN pr /\ Head(list) \in Nat
         /\ pr[Head(list)].state # "unborn" /\ pr[Head(list)].spec.mode # "external"
         /\ Tail(list) \in Seq(Nat) /\ Kids(pr, Tail(list))
         /\ ToSet(list) = ToSet(Tail(list)) \cup {Head(list)}
         /\ Len(Tail(list)) = Len(list) - 1 /\ Len(list) \in Nat
BY FirstAndRest DEF Kids

\* kill() and the handler go on to the next child.
LEMMA KillChildStep ==
  ASSUME TreeInv, NEW t \in Tasks, KillChild(t) \/ HandleChild(t)
  PROVE  TreeInv'
<1>1. PICK op \in {"kill", "handle"} : At(t, op, "kids")
  BY DEF KillChild, HandleChild
<1>2. /\ Shape /\ Regular /\ Typed /\ Stacks
      /\ stack[t] # <<>> /\ Top(t) \in Frames /\ Top(t).op = op
      /\ Top(t).at = "kids" /\ FrameOK(proc, Names, Top(t))
      /\ Top(t).todo \in Seq(Nat)
  BY <1>1, AtTop
<1> DEFINE todo == Top(t).todo
           f == [Top(t) EXCEPT !.todo = Tail(todo)]
           g == Kill(Head(todo), FALSE)
<1>3. /\ todo # <<>> /\ stack' = [stack EXCEPT ![t] = Append(With(t, f), g)]
      /\ busy' = {t} /\ result' = result
      /\ UNCHANGED <<proc, by_name, restarts, crossed>>
  BY DEF KillChild, HandleChild, Continue, counters, history
<1>4. /\ Head(todo) \in DOMAIN proc /\ Head(todo) \in Nat
      /\ proc[Head(todo)].state # "unborn"
      /\ proc[Head(todo)].spec.mode # "external"
      /\ Tail(todo) \in Seq(Nat) /\ Kids(proc, Tail(todo))
      /\ ToSet(todo) = ToSet(Tail(todo)) \cup {Head(todo)}
  <2>1. Kids(proc, todo)
    BY <1>2 DEF FrameOK, KillOK, HandleOK
  <2> QED BY <2>1, <1>2, <1>3, HeadKid
<1>5. /\ f \in Frames /\ f.op = op /\ f.pid = Top(t).pid /\ f.at = "kids"
      /\ f.todo = Tail(todo) /\ f.parent = Top(t).parent
  BY <1>2, <1>4 DEF Frames
<1>6. /\ g \in Frames /\ g.op = "kill" /\ g.pid = Head(todo) /\ g.at = "enter"
      /\ g.todo = <<>>
  BY <1>4, KillFrame
<1> HIDE DEF todo, f, g
<1>7. FrameOK(proc, Names, f)
  BY <1>1, <1>2, <1>4, <1>5 DEF FrameOK, KillOK, HandleOK
<1>8. FrameOK(proc, Names, g) /\ Awaiting(f, g)
  BY <1>1, <1>4, <1>5, <1>6 DEF FrameOK, KillOK, Awaiting, Kids, ToSet
<1>9. Tame /\ result' \in {"ok", "raised"}
  BY <1>2, <1>3, TameStill DEF Typed
<1>10. Append(With(t, f), g) \in Seq(Frames)
  BY <1>2, <1>5, <1>6, MovesTyped
<1>11. /\ Quiet(t) /\ stack'[t] = Append(With(t, f), g) /\ restarts' = restarts
       /\ \A p \in Pids : proc'[p].charged = proc[p].charged
  BY <1>2, <1>3, <1>9, <1>10, TameIs
<1>12. \A q : Owes(f, q) <= Owes(Top(t), q)
  BY <1>2, <1>5 DEF Owes
<1>13. Holds(f, f.pid) => Holds(Top(t), f.pid)
  BY <1>1, <1>2, <1>5 DEF Holds
<1>14. /\ f.at = "kids" /\ g.op = "kill"
       /\ ToSet(Top(t).todo) \subseteq ToSet(f.todo) \cup {g.pid}
  BY <1>4, <1>5, <1>6 DEF todo
<1> QED BY <1>1, <1>2, <1>5, <1>6, <1>7, <1>8, <1>11, <1>12, <1>13, <1>14, QuietPush

-----------------------------------------------------------------------------
(* Quiet steps of kill() *)

\* A frame of a body is the only one.
LEMMA BodyTop ==
  ASSUME Typed, Stacks, NEW u \in Tasks, stack[u] # <<>>, Top(u).op = "body"
  PROVE  Bodily(u)
<1>1. /\ Len(stack[u]) \in Nat \ {0} /\ Top(u) = stack[u][Len(stack[u])]
      /\ DOMAIN stack[u] = 1 .. Len(stack[u])
  BY TheTop, TheStacks
<1> DEFINE n == Len(stack[u])
<1>2. CASE n = 1
  BY <1>1, <1>2 DEF Bodily
<1>3. CASE n # 1
  <2>1. n - 1 \in DOMAIN stack[u] /\ (n - 1) + 1 \in DOMAIN stack[u] /\ (n - 1) + 1 = n
    <3> HIDE DEF n
    <3>1. n \in Nat \ {0} /\ DOMAIN stack[u] = 1 .. n /\ n # 1
      BY <1>1, <1>3 DEF n
    <3> QED BY <3>1
  <2>2. Awaiting(stack[u][n - 1], stack[u][(n - 1) + 1])
    BY <2>1 DEF Stacks, StackOK
  <2>3. stack[u][(n - 1) + 1].op = "body"
    BY <2>1, <1>1
  <2> QED BY <2>2, <2>3 DEF Awaiting
<1> QED BY <1>2, <1>3

\* The task of a process that is being killed once is in its body.
LEMMA KilledBody ==
  ASSUME Shape, Sole, NEW t \in Tasks, stack[t] # <<>>, NEW p, Top(t).pid = p,
         Top(t).op = "kill", Holds(Top(t), p), p \in Pids, stack[p] # <<>>
  PROVE  Bodily(p)
<1>1. Typed /\ Stacks
  BY DEF Shape
<1>2. Len(stack[t]) \in DOMAIN stack[t] /\ Top(t) = stack[t][Len(stack[t])]
  BY <1>1, TheTop
<1>3. proc[p].state = "stopping"
  BY <1>2 DEF Sole
<1>4. p \in Tasks /\ p # 0 /\ 1 \in DOMAIN stack[p] /\ stack[p] \in Seq(Frames)
  <2>1. p \in Tasks /\ p # 0 /\ stack[p] \in Seq(Frames)
    BY <1>1, TheStacks
  <2> QED BY <2>1, EndsOf
<1>5. Bottom(p, stack[p][1]) /\ FrameOK(proc, Names, stack[p][1])
  BY <1>1, <1>4 DEF Stacks, StackOK
<1>6. ~ (stack[p][1].op = "handle" /\ stack[p][1].pid = p)
  BY <1>3, <1>5 DEF FrameOK, HandleOK, Over
<1> QED BY <1>4, <1>5, <1>6 DEF Bottom, Bodily

\* Whom cancel() reaches: the body of the process that is killed, or a wait.
\* In a regular behaviour, no call of another task is broken off.
LEMMA CancelIs ==
  ASSUME TreeInv, NEW t \in Tasks, NEW at \in {"kids", "join"}, At(t, "kill", at),
         at = "kids" => Top(t).todo = <<>>, stack[Top(t).pid] # <<>>,
         stack' = [Cancel(stack, Top(t).pid) EXCEPT ![t] = Moved(t, "await")]
  PROVE  /\ stack'[t] = Moved(t, "await") /\ Leaves(t)
         /\ stack' = [u \in Tasks |-> stack'[u]]
         /\ ~ crossed => Mild(t)
<1> DEFINE p == Top(t).pid
           waits(u) == /\ stack[u] # <<>>
                       /\ Last(stack[u]).op = "kill" /\ Last(stack[u]).at = "await"
           q == IF waits(p) THEN Last(stack[p]).pid ELSE p
           c == Cancel(stack, p)
<1>1. /\ Shape /\ Regular /\ Typed /\ Stacks /\ stack[t] # <<>>
      /\ Top(t).op = "kill" /\ Top(t).at = at /\ FrameOK(proc, Names, Top(t))
  BY AtTop
<1>2. p \in Pids /\ Pids \subseteq Tasks /\ 0 \notin Pids
  <2>1. Pids \subseteq Tasks /\ 0 \notin Pids
    BY <1>1, TheStacks
  <2> QED BY <2>1, <1>1 DEF FrameOK, KillOK, Pids
<1>3. q \in Pids
  <2>1. CASE waits(p)
    <3>1. FrameOK(proc, Names, Top(p))
      BY <1>1, <1>2, <2>1, TheTop
    <3> QED BY <3>1, <2>1 DEF FrameOK, KillOK, Top, Pids
  <2>2. CASE ~ waits(p)
    BY <2>2, <1>2
  <2> QED BY <2>1, <2>2
<1>4. \/ c = stack
      \/ /\ stack[q] # <<>> /\ Last(stack[q]).op = "body"
         /\ c = [stack EXCEPT ![q] = Body("cancelled")]
      \/ stack[q] # <<>> /\ c = [stack EXCEPT ![q] = <<>>]
  <2> DEFINE cleans == Last(stack[q]).op = "body" /\ Last(stack[q]).at # "new"
  <2>1. c = IF stack[q] = <<>> \/ waits(q) THEN stack
            ELSE [stack EXCEPT ![q] = IF cleans THEN Body("cancelled") ELSE <<>>]
    BY DEF Cancel
  <2> HIDE DEF q, c, waits
  <2>2. CASE stack[q] = <<>> \/ waits(q)
    BY <2>1, <2>2, Zenon
  <2>3. CASE ~ (stack[q] = <<>> \/ waits(q)) /\ cleans
    BY <2>1, <2>3, Zenon
  <2>4. CASE ~ (stack[q] = <<>> \/ waits(q)) /\ ~ cleans
    BY <2>1, <2>4, Zenon
  <2> QED BY <2>2, <2>3, <2>4
<1>5. q \in Tasks /\ q # 0
  BY <1>2, <1>3
<1>6. DOMAIN c = Tasks /\ \A u \in Tasks : u # q => c[u] = stack[u]
  <2> HIDE DEF c, q, p
  <2> QED BY <1>4 DEF Tasks
<1>7. \/ c[q] = stack[q]
      \/ stack[q] # <<>> /\ Last(stack[q]).op = "body" /\ c[q] = Body("cancelled")
      \/ stack[q] # <<>> /\ c[q] = <<>>
  <2> HIDE DEF c, q, p
  <2> QED BY <1>4, <1>5 DEF Tasks
<1>8. /\ Tasks' = Tasks /\ stack'[t] = Moved(t, "await")
      /\ \A u \in Tasks : u # t => stack'[u] = c[u]
      /\ stack' = [u \in Tasks |-> stack'[u]]
  <2>1. stack' = [c EXCEPT ![t] = Moved(t, "await")]
    OBVIOUS
  <2> HIDE DEF c, q, p
  <2> QED BY <2>1, <1>6 DEF Tasks
<1>9. Leaves(t)
  <2>1. ASSUME stack[q] # <<>>, Last(stack[q]).op = "body" PROVE Bodily(q)
    BY <2>1, <1>1, <1>5, BodyTop DEF Top
  <2> HIDE DEF c, q, p
  <2> QED BY <2>1, <1>5, <1>6, <1>7, <1>8 DEF Leaves
<1>10. ASSUME ~ crossed PROVE Mild(t)
  <2>1. Bodily(p)
    <3>1. Sole /\ Holds(Top(t), p)
      BY <1>1, <1>10 DEF Regular, Holds
    <3> QED BY <3>1, <1>1, <1>2, KilledBody
  <2>2. q = p
    <3>1. Last(stack[p]).op = "body"
      BY <2>1, <1>1, <1>2, TheStacks, BodyAlone DEF Bodily, Stacks
    <3> QED BY <3>1
  <2> HIDE DEF c, q, p
  <2> QED BY <2>1, <2>2, <1>6, <1>8 DEF Mild
<1> QED BY <1>8, <1>9, <1>10

\* The task of the process is cancelled, unless there is none.
LEMMA KillWaits ==
  ASSUME TreeInv, Tame, NEW t \in Tasks, NEW at \in {"kids", "join"},
         At(t, "kill", at), at = "kids" => Top(t).todo = <<>>, CancelTask(t, Top(t).pid),
         proc'[Top(t).pid].os # "alive", result' \in {"ok", "raised"}
  PROVE  TreeInv'
<1> DEFINE p == Top(t).pid
           moved(x) == [Top(t) EXCEPT !.at = x]
<1>1. /\ Shape /\ Regular /\ Typed /\ Stacks /\ stack[t] # <<>>
      /\ Top(t).op = "kill" /\ Top(t).at = at /\ FrameOK(proc, Names, Top(t))
      /\ Top(t) \in Frames
  BY AtTop
<1>2. ASSUME NEW x \in {"await", "finish"} PROVE FrameOK(proc', Names, moved(x))
  <2>1. Grows(proc, proc')
    BY DEF Tame, Calm, Grows
  <2>2. FrameOK(proc', Names, Top(t))
    BY <2>1, <1>1, FrameKept
  <2>3. /\ moved(x).op = "kill" /\ moved(x).pid = Top(t).pid /\ moved(x).at = x
        /\ moved(x).todo = Top(t).todo
    BY <1>1 DEF Frames
  <2> HIDE DEF moved
  <2> QED BY <1>1, <2>2, <2>3 DEF FrameOK, KillOK
<1>3. ASSUME NEW x \in {"await", "finish"}, Quiet(t), stack'[t] = Moved(t, x),
             x = "finish" => stack'[p] = <<>>
      PROVE  TreeInv'
  <2>1. x \in Places /\ restarts' = restarts
        /\ \A y \in Pids : proc'[y].charged = proc[y].charged
    BY DEF Places, Tame
  <2>2. FrameOK(proc', Names, moved(x))
    BY <1>2
  <2>3. ~ Starting(t)
    BY <1>1 DEF Starting
  <2> QED BY <2>1, <2>2, <2>3, <1>1, <1>3, MovesOn
<1>4. CASE stack[p] = <<>>
  <2>1. stack' = [stack EXCEPT ![t] = With(t, moved("finish"))] /\ busy' = {t}
    BY <1>4 DEF CancelTask, Continue, Moved
  <2>2. moved("finish") \in Frames
    BY <1>1, FrameMoved DEF Places
  <2>3. With(t, moved("finish")) \in Seq(Frames)
    <3> HIDE DEF moved
    <3> QED BY <2>2, <1>1, MovesTyped
  <2>4. Quiet(t) /\ stack'[t] = With(t, moved("finish"))
    BY <2>1, <2>3, <1>1, TameIs
  <2>5. stack'[p] = <<>>
    BY <2>1, <1>1, <1>4
  <2> QED BY <2>4, <2>5, <1>3 DEF Moved
<1>5. CASE stack[p] # <<>>
  <2>1. stack' = [Cancel(stack, p) EXCEPT ![t] = Moved(t, "await")] /\ busy' = {}
    BY <1>5 DEF CancelTask
  <2>2. /\ stack'[t] = Moved(t, "await") /\ Leaves(t)
        /\ stack' = [u \in Tasks |-> stack'[u]]
        /\ ~ crossed => Mild(t)
    BY <2>1, <1>5, CancelIs
  <2>3. Moved(t, "await") \in Seq(Frames)
    <3>1. moved("await") \in Frames
      BY <1>1, FrameMoved DEF Places
    <3> HIDE DEF moved
    <3>2. With(t, moved("await")) \in Seq(Frames)
      BY <3>1, <1>1, MovesTyped
    <3> QED BY <3>2 DEF Moved, moved
  <2>4. stack' \in [0 .. Len(proc') -> Seq(Frames)]
    BY <2>2, <2>3, <1>1, StackTyped DEF Tame
  <2>5. Typed'
    BY <2>1, <2>4, <1>1 DEF Typed, Tame, Calm, Names, Pids
  <2>6. Quiet(t)
    BY <2>2, <2>5 DEF Quiet, Tame
  <2> QED BY <2>2, <2>6, <1>3
<1> QED BY <1>4, <1>5

-----------------------------------------------------------------------------
(* Quiet steps, one by one *)

\* A task goes on to another point, ...
LEMMA GoesOn ==
  ASSUME TreeInv, Tame, NEW t \in Tasks, stack[t] # <<>>,
         NEW x \in Places, stack' = [stack EXCEPT ![t] = Moved(t, x)],
         busy' = {} \/ busy' = {t}, result' \in {"ok", "raised"},
         FrameOK(proc', Names, Top(t)) =>
           FrameOK(proc', Names, [Top(t) EXCEPT !.at = x]),
         Top(t).op = "kill" =>
           /\ Top(t).at = "kids" => Top(t).todo = <<>>
           /\ x \in {"kids", "join", "await", "finish"} =>
                Top(t).at \in {"kids", "join", "await", "finish"}
           /\ x = "finish" => stack[Top(t).pid] = <<>>,
         Top(t).op = "handle" =>
           /\ Top(t).at \notin {"kids", "restarted"} /\ x # "kids"
           /\ x = "restart" => proc[Head(Top(t).todo)].state \in Over,
         Top(t).op = "start" /\ x \in {"wait", "abort", "crashed"} => Starting(t),
         Starting(t) => x \in {"wait", "abort", "crashed"}
  PROVE  TreeInv'
<1>1. /\ Typed /\ Stacks /\ Grows(proc, proc') /\ Calm(proc, proc')
  BY DEF TreeInv, Shape, Tame, Calm, Grows
<1>2. Top(t) \in Frames /\ FrameOK(proc, Names, Top(t))
  BY <1>1, TheTop
<1> DEFINE f == [Top(t) EXCEPT !.at = x]
<1>3. FrameOK(proc', Names, f)
  BY <1>1, <1>2, FrameKept
<1>4. Moved(t, x) \in Seq(Frames)
  <2>1. f \in Frames
    BY <1>2, FrameMoved
  <2> HIDE DEF f
  <2>2. With(t, f) \in Seq(Frames)
    BY <1>1, <2>1, MovesTyped
  <2> QED BY <2>2 DEF Moved, f
<1>5. /\ Quiet(t) /\ stack'[t] = Moved(t, x) /\ restarts' = restarts
      /\ \A p \in Pids : proc'[p].charged = proc[p].charged
  BY <1>4, TameIs
<1>6. Top(t).op = "kill" /\ x = "finish" => stack'[Top(t).pid] = <<>>
  <2> SUFFICES ASSUME Top(t).op = "kill", x = "finish"
               PROVE  stack'[Top(t).pid] = <<>>
    OBVIOUS
  <2>1. stack[Top(t).pid] = <<>> /\ Top(t).pid # t
    OBVIOUS
  <2> QED BY <2>1
<1>7. Top(t).op = "handle" /\ x = "restart" =>
        proc'[Head(Top(t).todo)].state \in Over
  <2> SUFFICES ASSUME Top(t).op = "handle", x = "restart"
               PROVE  proc'[Head(Top(t).todo)].state \in Over
    OBVIOUS
  <2>1. Kids(proc', Top(t).todo) /\ Top(t).todo # <<>>
    BY <1>2, <1>3, FrameMoved DEF FrameOK, HandleOK
  <2>2. Head(Top(t).todo) \in DOMAIN proc'
    BY <2>1, <1>2, FrameFields, HeadKid
  <2> QED BY <2>2, <1>1 DEF Calm
<1> HIDE DEF f
<1>8. /\ Top(t).op = "handle" =>
           /\ Top(t).at \notin {"kids", "restarted"} /\ x # "kids"
           /\ x = "restart" => proc'[Head(Top(t).todo)].state \in Over
      /\ Top(t).op = "kill" =>
           /\ x \in {"kids", "join", "await", "finish"} =>
                Top(t).at \in {"kids", "join", "await", "finish"}
           /\ Top(t).at = "kids" => Top(t).todo = <<>>
  BY <1>7
<1> QED BY <1>3, <1>5, <1>6, <1>8, MovesOn DEF f

\* ... or returns from a call, ...
LEMMA Returns ==
  ASSUME TreeInv, Tame, NEW t \in Tasks, stack[t] # <<>>,
         NEW r \in {"ok", "raised"}, Return(t, r),
         Top(t).op # "external",
         Top(t).op = "kill" => proc[Top(t).pid].state \in Over \cup {"unborn"},
         Top(t).op \in {"kill", "handle"} /\ Top(t).at = "kids" => Top(t).todo = <<>>,
         Starting(t) => proc'[Top(t).new].os # "alive"
  PROVE  TreeInv'
<1>1. Typed /\ stack[t] \in Seq(Frames)
  BY TheStacks DEF TreeInv, Shape
<1>2. /\ Front(stack[t]) \in Seq(Frames)
      /\ stack' = [stack EXCEPT ![t] = Front(stack[t])]
      /\ busy' = {} \/ busy' = {t}
      /\ result' \in {"ok", "raised"}
  BY <1>1, EndsOf DEF Return
<1>3. /\ Quiet(t) /\ stack'[t] = Front(stack[t]) /\ restarts' = restarts
      /\ \A p \in Pids : proc'[p].charged = proc[p].charged
  BY <1>2, TameIs
<1> QED BY <1>3, QuietPop

\* kill() is through with the children and stops the task of the process, ...
LEMMA KillTaskStep ==
  ASSUME TreeInv, NEW t \in Tasks, KillTask(t)
  PROVE  TreeInv'
<1>1. At(t, "kill", "kids") /\ Top(t).todo = <<>> /\ result' = "ok"
  BY DEF KillTask
<1>2. /\ Shape /\ Regular /\ Typed /\ Stacks
      /\ stack[t] # <<>> /\ Top(t).op = "kill" /\ Top(t).at = "kids"
      /\ FrameOK(proc, Names, Top(t)) /\ Top(t) \in Frames
  BY <1>1, AtTop
<1>3. Tame /\ proc' = proc
  BY <1>2, TameStill DEF KillTask, counters, history
<1>4. Top(t).pid \in Pids /\ RecordOK(proc, Names, Top(t).pid)
  BY <1>2 DEF Shape, FrameOK, KillOK, RecordsOK, Pids
<1>5. CASE proc[Top(t).pid].spec.mode = "isolated"
  <2>1. stack' = [stack EXCEPT ![t] = Moved(t, "join")] /\ busy' = {}
    BY <1>5 DEF KillTask, Wait
  <2>2. /\ [Top(t) EXCEPT !.at = "join"].op = "kill"
        /\ [Top(t) EXCEPT !.at = "join"].at = "join"
        /\ [Top(t) EXCEPT !.at = "join"].pid = Top(t).pid
        /\ [Top(t) EXCEPT !.at = "join"].todo = Top(t).todo
    BY <1>2 DEF Frames
  <2>3. FrameOK(proc', Names, [Top(t) EXCEPT !.at = "join"])
    BY <1>2, <1>3, <1>5, <2>2 DEF FrameOK, KillOK
  <2>4. "join" \in Places /\ ~ Starting(t)
    BY <1>2 DEF Places, Starting
  <2> QED BY <1>1, <1>2, <1>3, <2>1, <2>3, <2>4, GoesOn
<1>6. CASE proc[Top(t).pid].spec.mode # "isolated"
  <2>1. CancelTask(t, Top(t).pid)
    BY <1>6 DEF KillTask
  <2>2. proc'[Top(t).pid].os # "alive"
    BY <1>3, <1>4, <1>6 DEF RecordOK
  <2> QED BY <1>1, <1>3, <2>1, <2>2, KillWaits
<1> QED BY <1>5, <1>6

\* ... after its operating system process, if it has one, ...
LEMMA KillJoinedStep ==
  ASSUME TreeInv, NEW t \in Tasks, KillJoined(t)
  PROVE  TreeInv'
<1>1. /\ At(t, "kill", "join") /\ CancelTask(t, Top(t).pid)
      /\ proc' = [proc EXCEPT ![Top(t).pid].os = "dead"]
      /\ UNCHANGED <<result, by_name, restarts, crossed>>
  BY DEF KillJoined, counters, history
<1>2. /\ Shape /\ Regular /\ Typed /\ Stacks
      /\ stack[t] # <<>> /\ Top(t).op = "kill" /\ Top(t).at = "join"
      /\ FrameOK(proc, Names, Top(t)) /\ Top(t) \in Frames
  BY <1>1, AtTop
<1>3. Top(t).pid \in Pids /\ proc[Top(t).pid].spec.mode = "isolated"
  BY <1>2 DEF FrameOK, KillOK, Pids
<1>4. proc' \in Seq(Records) /\ Len(proc') = Len(proc) /\ Same(proc, proc')
  BY <1>1, <1>2, <1>3, SameDead, ZenonT(60) DEF Typed, Pids
<1>5. Tame
  BY <1>1, <1>2, <1>4, TameSame
<1>6. proc'[Top(t).pid].os # "alive" /\ result' \in {"ok", "raised"}
  BY <1>1, <1>2, <1>3, SameDead DEF Typed, Pids
<1> QED BY <1>1, <1>5, <1>6, KillWaits

\* ... and hears that the task is over.
LEMMA KillAwaitedStep ==
  ASSUME TreeInv, NEW t \in Tasks, KillAwaited(t)
  PROVE  TreeInv'
<1>1. /\ At(t, "kill", "await") /\ stack[Top(t).pid] = <<>> /\ busy' = {t}
      /\ stack' = [stack EXCEPT ![t] = Moved(t, "finish")] /\ result' = result
      /\ UNCHANGED <<proc, by_name, restarts, crossed>>
  BY DEF KillAwaited, Continue, counters, history
<1>2. /\ Shape /\ Regular /\ Typed /\ Stacks
      /\ stack[t] # <<>> /\ Top(t).op = "kill" /\ Top(t).at = "await"
      /\ FrameOK(proc, Names, Top(t)) /\ Top(t) \in Frames
  BY <1>1, AtTop
<1>3. Tame
  BY <1>1, <1>2, TameStill
<1>4. "finish" \in Places /\ ~ Starting(t) /\ result' \in {"ok", "raised"}
  BY <1>1, <1>2 DEF Places, Starting, Typed
<1>5. FrameOK(proc', Names, [Top(t) EXCEPT !.at = "finish"])
  <2>1. LET g == [Top(t) EXCEPT !.at = "finish"]
        IN /\ g.op = "kill" /\ g.pid = Top(t).pid /\ g.at = "finish"
           /\ g.todo = Top(t).todo
    BY <1>2, <1>4, FrameMoved
  <2> QED BY <1>1, <1>2, <2>1 DEF FrameOK, KillOK
<1> QED BY <1>1, <1>2, <1>3, <1>4, <1>5, GoesOn

\* The process leaves the list of its supervisor.
LEMMA TameUnlink ==
  ASSUME Shape, Regular, NEW p \in Pids, proc[p].state \notin Alive,
         proc' = Unlink(proc, p), UNCHANGED <<by_name, restarts, crossed>>
  PROVE  Tame
<1>1. proc \in Seq(Records) /\ RecordsOK(proc, Names) /\ (~ crossed => Linked(proc))
  BY DEF Shape, Regular, Typed
<1>2. /\ proc' \in Seq(Records) /\ Len(proc') = Len(proc) /\ Calm(proc, proc')
      /\ RecordsOK(proc', Names)
      /\ Linked(proc) => Linked(proc')
      /\ \A x \in DOMAIN proc : proc'[x].charged = proc[x].charged
  BY <1>1, UnlinkQuiet DEF Pids
<1> QED BY <1>1, <1>2 DEF Tame, Pids

\* kill() hears what became of the restart that it asked for, ...
LEMMA KillRestartedStep ==
  ASSUME TreeInv, NEW t \in Tasks, KillRestarted(t)
  PROVE  TreeInv'
<1>1. At(t, "kill", "restarted") /\ UNCHANGED <<by_name, restarts, crossed>>
  BY DEF KillRestarted, counters, history
<1>2. /\ Shape /\ Regular /\ Typed /\ Stacks
      /\ stack[t] # <<>> /\ Top(t).op = "kill" /\ Top(t).at = "restarted"
      /\ FrameOK(proc, Names, Top(t)) /\ Top(t) \in Frames
  BY <1>1, AtTop
<1>3. /\ Top(t).pid \in Pids /\ proc[Top(t).pid].state \in Over
      /\ proc[Top(t).pid].state \notin Alive /\ ~ Starting(t)
  BY <1>2 DEF FrameOK, KillOK, Pids, Over, Alive, Starting
<1>4. CASE proc' = proc /\ Return(t, "raised")
  <2>1. Tame
    BY <1>1, <1>2, <1>4, TameStill
  <2> QED BY <1>2, <1>3, <1>4, <2>1, Returns
<1>5. CASE Wait(t, Moved(t, "yield")) /\ UNCHANGED <<proc, result>>
  <2>1. Tame
    BY <1>1, <1>2, <1>5, TameStill
  <2>2. LET g == [Top(t) EXCEPT !.at = "yield"]
        IN /\ g.op = "kill" /\ g.pid = Top(t).pid /\ g.at = "yield"
           /\ g.todo = Top(t).todo
    BY <1>2, FrameMoved DEF Places
  <2>3. FrameOK(proc', Names, [Top(t) EXCEPT !.at = "yield"])
    BY <1>2, <1>5, <2>2 DEF FrameOK, KillOK
  <2>4. "yield" \in Places /\ result' \in {"ok", "raised"}
        /\ stack' = [stack EXCEPT ![t] = Moved(t, "yield")] /\ busy' = {}
    BY <1>2, <1>5 DEF Places, Typed, Wait
  <2> QED BY <1>2, <1>3, <2>1, <2>3, <2>4, GoesOn
<1>6. CASE proc' = Unlink(proc, Top(t).pid) /\ Return(t, "ok")
  <2>1. Tame
    BY <1>1, <1>2, <1>3, <1>6, TameUnlink
  <2> QED BY <1>2, <1>3, <1>6, <2>1, Returns
<1> QED BY <1>4, <1>5, <1>6 DEF KillRestarted

\* ... and gives way once before it forgets the process.
LEMMA KillYieldedStep ==
  ASSUME TreeInv, NEW t \in Tasks, KillYielded(t)
  PROVE  TreeInv'
<1>1. /\ At(t, "kill", "yield") /\ UNCHANGED <<by_name, restarts, crossed>>
      /\ proc' = Unlink(proc, Top(t).pid) /\ Return(t, "ok")
  BY DEF KillYielded, counters, history
<1>2. /\ Shape /\ Regular /\ Typed /\ Stacks
      /\ stack[t] # <<>> /\ Top(t).op = "kill" /\ Top(t).at = "yield"
      /\ FrameOK(proc, Names, Top(t))
  BY <1>1, AtTop
<1>3. /\ Top(t).pid \in Pids /\ proc[Top(t).pid].state \in Over
      /\ proc[Top(t).pid].state \notin Alive /\ ~ Starting(t)
  BY <1>2 DEF FrameOK, KillOK, Pids, Over, Alive, Starting
<1>4. Tame
  BY <1>1, <1>2, <1>3, TameUnlink
<1> QED BY <1>1, <1>2, <1>3, <1>4, Returns

\* The kill of a process that is over, or has not been born, raises.
LEMMA KillRaises ==
  ASSUME TreeInv, NEW t \in Tasks, KillEnter(t),
         proc[Top(t).pid].state \in Over \cup {"unborn"}
  PROVE  TreeInv'
<1>1. /\ At(t, "kill", "enter") /\ Return(t, "raised")
      /\ UNCHANGED <<proc, by_name, restarts, crossed>>
  BY DEF KillEnter, counters
<1>2. /\ Shape /\ Regular /\ stack[t] # <<>>
      /\ Top(t).op = "kill" /\ Top(t).at = "enter"
  BY <1>1, AtTop
<1>3. Tame /\ ~ Starting(t)
  BY <1>1, <1>2, TameStill DEF Starting
<1> QED BY <1>1, <1>2, <1>3, Returns

-----------------------------------------------------------------------------
(* Quiet steps of the handler *)

\* The handler waits for the backoff of a restart, or is through with it.
LEMMA HandleMoves ==
  ASSUME TreeInv, NEW t \in Tasks, HandleNext(t) \/ HandleWakes(t)
  PROVE  TreeInv'
<1>1. PICK at \in {"next", "backoff"}, x \in {"backoff", "check"} :
        /\ At(t, "handle", at) /\ stack' = [stack EXCEPT ![t] = Moved(t, x)]
        /\ at = "next" => Top(t).todo # <<>>
        /\ busy' = {} \/ busy' = {t}
  BY DEF HandleNext, HandleWakes, Wait, Continue
<1>2. UNCHANGED <<proc, result, by_name, restarts, crossed>>
  BY DEF HandleNext, HandleWakes, counters, history
<1>3. /\ Shape /\ Regular /\ Typed /\ Stacks
      /\ stack[t] # <<>> /\ Top(t).op = "handle" /\ Top(t).at = at
      /\ FrameOK(proc, Names, Top(t)) /\ Top(t) \in Frames
  BY <1>1, AtTop
<1>4. Tame /\ ~ Starting(t) /\ x \in Places /\ result' \in {"ok", "raised"}
  BY <1>2, <1>3, TameStill DEF Starting, Places, Typed
<1>5. LET g == [Top(t) EXCEPT !.at = x]
      IN /\ g.op = "handle" /\ g.pid = Top(t).pid /\ g.at = x
         /\ g.todo = Top(t).todo /\ g.parent = Top(t).parent
  BY <1>3, <1>4, FrameMoved
<1>6. FrameOK(proc', Names, [Top(t) EXCEPT !.at = x])
  BY <1>1, <1>2, <1>3, <1>5 DEF FrameOK, HandleOK
<1>7. x # "restart" /\ x # "kids" /\ at \notin {"kids", "restarted"}
  OBVIOUS
<1> QED BY <1>1, <1>3, <1>4, <1>6, <1>7, GoesOn

\* The handler returns.
LEMMA HandleReturns ==
  ASSUME TreeInv, Tame, NEW t \in Tasks, NEW at, At(t, "handle", at),
         at = "kids" => Top(t).todo = <<>>, Return(t, "ok")
  PROVE  TreeInv'
<1>1. stack[t] # <<>> /\ Top(t).op = "handle" /\ Top(t).at = at
  BY AtTop
<1>2. ~ Starting(t)
  BY <1>1 DEF Starting
<1> QED BY <1>1, <1>2, Returns

\* The handler has no restart left to make.
LEMMA HandleDoneStep ==
  ASSUME TreeInv, NEW t \in Tasks, HandleDone(t)
  PROVE  TreeInv'
<1>1. /\ At(t, "handle", "next") /\ Return(t, "ok")
      /\ UNCHANGED <<proc, by_name, restarts, crossed>>
  BY DEF HandleDone, counters, history
<1>2. Tame
  BY <1>1, TameStill DEF TreeInv
<1> QED BY <1>1, <1>2, HandleReturns

\* The handler looks after its wait whether the supervisor and the child are
\* still there, and kills a sibling that is to be restarted.
LEMMA HandleCheckStep ==
  ASSUME TreeInv, NEW t \in Tasks, HandleCheck(t)
  PROVE  TreeInv'
<1> DEFINE c == Head(Top(t).todo)
           f == [Top(t) EXCEPT !.at = "restart"]
           g == Kill(c, FALSE)
<1>1. At(t, "handle", "check") /\ UNCHANGED <<proc, by_name, restarts, crossed>>
  BY DEF HandleCheck, counters
<1>2. /\ Shape /\ Regular /\ Typed /\ Stacks
      /\ stack[t] # <<>> /\ Top(t).op = "handle" /\ Top(t).at = "check"
      /\ FrameOK(proc, Names, Top(t)) /\ Top(t) \in Frames
      /\ Top(t).todo \in Seq(Nat)
  BY <1>1, AtTop
<1>3. Tame /\ ~ Starting(t)
  BY <1>1, <1>2, TameStill DEF Starting
<1>4. /\ Top(t).todo # <<>> /\ c \in Pids /\ c \in Nat /\ c \in DOMAIN proc
      /\ proc[c].state # "unborn" /\ proc[c].spec.mode # "external"
      /\ proc[c] \in Records
  <2>1. Top(t).todo # <<>> /\ Kids(proc, Top(t).todo)
    BY <1>2 DEF FrameOK, HandleOK
  <2>2. /\ c \in DOMAIN proc /\ c \in Nat /\ proc[c].state # "unborn"
        /\ proc[c].spec.mode # "external"
    BY <1>2, <2>1, HeadKid
  <2> QED BY <2>1, <2>2, <1>2, TheStacks DEF Pids
<1>5. /\ f \in Frames /\ f.op = "handle" /\ f.pid = Top(t).pid /\ f.at = "restart"
      /\ f.todo = Top(t).todo /\ f.parent = Top(t).parent
  BY <1>2, FrameMoved, ZenonT(60) DEF Places
<1>6. FrameOK(proc, Names, f)
  BY <1>2, <1>4, <1>5 DEF FrameOK, HandleOK
<1>7. CASE Return(t, "ok")
  BY <1>1, <1>3, <1>7, HandleReturns
<1>8. CASE /\ proc[c].state \in Alive /\ result' = result
           /\ Call(t, "restart", Kill(c, FALSE))
  <2>1. stack' = [stack EXCEPT ![t] = Append(With(t, f), g)] /\ busy' = {t}
    BY <1>8 DEF Call, Continue, Moved
  <2>2. /\ g \in Frames /\ g.op = "kill" /\ g.pid = c /\ g.at = "enter"
        /\ g.todo = <<>>
    BY <1>4, KillFrame
  <2> HIDE DEF c, f, g
  <2>3. FrameOK(proc, Names, g)
    BY <1>4, <2>2 DEF FrameOK, KillOK, Kids, ToSet
  <2>4. Awaiting(f, g)
    BY <1>5, <2>2 DEF Awaiting, c
  <2>5. Append(With(t, f), g) \in Seq(Frames)
    BY <1>2, <1>5, <2>2, MovesTyped
  <2>6. /\ Quiet(t) /\ stack'[t] = Append(With(t, f), g) /\ restarts' = restarts
        /\ \A p \in Pids : proc'[p].charged = proc[p].charged
    BY <1>2, <1>3, <1>8, <2>1, <2>5, TameIs DEF Typed
  <2>7. \A q : Owes(f, q) <= Owes(Top(t), q)
    BY <1>2, <1>5, FrameFields DEF Owes
  <2>8. ~ Holds(f, f.pid)
    BY <1>5 DEF Holds
  <2> QED BY <1>2, <1>5, <1>6, <2>2, <2>3, <2>4, <2>6, <2>7, <2>8, QuietPush
<1>9. CASE /\ proc[c].state \notin Alive /\ result' = result
           /\ Continue(t, Moved(t, "restart"))
  <2>1. /\ stack' = [stack EXCEPT ![t] = Moved(t, "restart")] /\ busy' = {t}
        /\ result' \in {"ok", "raised"} /\ "restart" \in Places
    BY <1>2, <1>9 DEF Continue, Typed, Places
  <2>2. proc[c].state \in Over
    BY <1>4, <1>9, RecordFields
  <2>3. FrameOK(proc', Names, f)
    BY <1>1, <1>6
  <2> QED BY <1>2, <1>3, <2>1, <2>2, <2>3, GoesOn
<1> QED BY <1>7, <1>8, <1>9 DEF HandleCheck, Alive

\* The handler goes on to the next restart, or escalates.
LEMMA HandleRestartedStep ==
  ASSUME TreeInv, NEW t \in Tasks, HandleRestarted(t)
  PROVE  TreeInv'
<1> DEFINE rest == Tail(Top(t).todo)
           f == [Top(t) EXCEPT !.at = "next", !.todo = rest]
<1>1. At(t, "handle", "restarted") /\ UNCHANGED <<by_name, restarts, crossed>>
  BY DEF HandleRestarted, counters, history
<1>2. /\ Shape /\ Regular /\ Typed /\ Stacks
      /\ stack[t] # <<>> /\ Top(t).op = "handle" /\ Top(t).at = "restarted"
      /\ FrameOK(proc, Names, Top(t)) /\ Top(t) \in Frames
      /\ Top(t).todo \in Seq(Nat)
  BY <1>1, AtTop
<1>3. CASE /\ Continue(t, With(t, f)) /\ UNCHANGED <<proc, result>>
  <2>1. Top(t).todo # <<>> /\ Kids(proc, Top(t).todo)
    BY <1>2 DEF FrameOK, HandleOK
  <2>2. /\ rest \in Seq(Nat) /\ Kids(proc, rest)
        /\ ToSet(rest) \subseteq ToSet(Top(t).todo)
        /\ Len(rest) = Len(Top(t).todo) - 1 /\ Len(Top(t).todo) \in Nat
    BY <1>2, <2>1, HeadKid
  <2>3. /\ f \in Frames /\ f.op = "handle" /\ f.pid = Top(t).pid /\ f.at = "next"
        /\ f.todo = rest /\ f.parent = Top(t).parent
    BY <1>2, <2>2 DEF Frames, Places
  <2>4. stack' = [stack EXCEPT ![t] = With(t, f)] /\ busy' = {t}
        /\ UNCHANGED <<proc, result>>
    BY <1>3 DEF Continue
  <2> HIDE DEF f, rest
  <2>5. FrameOK(proc', Names, f)
    BY <1>2, <2>2, <2>3, <2>4 DEF FrameOK, HandleOK
  <2>6. With(t, f) \in Seq(Frames)
    BY <1>2, <2>3, MovesTyped
  <2>7. Tame
    BY <1>1, <1>2, <2>4, TameStill
  <2>8. /\ Quiet(t) /\ stack'[t] = With(t, f) /\ restarts' = restarts
        /\ \A p \in Pids : proc'[p].charged = proc[p].charged
    BY <1>2, <2>4, <2>6, <2>7, TameIs DEF Typed
  <2>9. \A q : Owes(f, q) <= Owes(Top(t), q)
    BY <1>2, <2>2, <2>3 DEF Owes
  <2>10. ~ Holds(f, f.pid) /\ ~ Starting(t)
    BY <1>2, <2>3 DEF Holds, Starting
  <2> QED BY <1>2, <2>3, <2>5, <2>8, <2>9, <2>10, QuietSwap
<1>4. CASE /\ proc' = [proc EXCEPT ![Top(t).parent].escalated = TRUE]
           /\ Return(t, "ok")
  <2>0. /\ DOMAIN proc' = DOMAIN proc /\ proc' = [p \in DOMAIN proc |-> proc'[p]]
        /\ \A p \in DOMAIN proc :
             \/ proc'[p] = proc[p]
             \/ proc'[p] = [proc[p] EXCEPT !.escalated = TRUE]
    BY <1>4
  <2>1. proc' \in Seq(Records) /\ Len(proc') = Len(proc) /\ Same(proc, proc')
    BY <1>2, <2>0, SameTold DEF Typed
  <2>2. Tame
    BY <1>1, <1>2, <2>1, TameSame
  <2> QED BY <1>1, <1>4, <2>2, HandleReturns
<1> QED BY <1>3, <1>4 DEF HandleRestarted

-----------------------------------------------------------------------------
(* Quiet steps of starts, of external agents and of tasks that end *)

\* The records after a supervisor may have been marked.
LEMMA ToldRecords ==
  ASSUME NEW pr \in Seq(Records), NEW r,
         r = pr \/ \E x : r = [pr EXCEPT ![x].escalated = TRUE]
  PROVE  /\ r \in Seq(Records) /\ Len(r) = Len(pr) /\ Same(pr, r)
         /\ \A p \in DOMAIN pr : r[p].os = pr[p].os
<1>1. CASE r = pr
  BY <1>1 DEF Same, Calm
<1>2. ASSUME NEW x, r = [pr EXCEPT ![x].escalated = TRUE]
      PROVE  /\ DOMAIN r = DOMAIN pr /\ r = [p \in DOMAIN pr |-> r[p]]
             /\ \A p \in DOMAIN pr :
                  \/ r[p] = pr[p]
                  \/ r[p] = [pr[p] EXCEPT !.escalated = TRUE]
  BY <1>2
<1> QED BY <1>1, <1>2, SameTold

\* A start fails.
LEMMA FailedStep ==
  ASSUME TreeInv, NEW t \in Tasks, NEW at, At(t, "start", at),
         UNCHANGED <<by_name, restarts, crossed>>,
         NEW pr \in Seq(Records), Len(pr) = Len(proc), Same(proc, pr),
         Failed(t, pr),
         Starting(t) => Top(t).new \in DOMAIN pr /\ pr[Top(t).new].os # "alive"
  PROVE  TreeInv'
<1>1. /\ Shape /\ Regular /\ Typed /\ stack[t] # <<>> /\ Top(t).op = "start"
  BY AtTop
<1>2. /\ proc' \in Seq(Records) /\ Len(proc') = Len(pr) /\ Same(pr, proc')
      /\ \A p \in DOMAIN pr : proc'[p].os = pr[p].os
  <2>1. proc' = pr \/ \E x : proc' = [pr EXCEPT ![x].escalated = TRUE]
    BY DEF Failed
  <2> QED BY <2>1, ToldRecords
<1>3. Same(proc, proc')
  BY <1>2 DEF Same, Calm
<1>4. Tame
  BY <1>1, <1>2, <1>3, TameSame
<1>5. Starting(t) => proc'[Top(t).new].os # "alive"
  BY <1>2
<1>6. Return(t, "raised")
  BY DEF Failed
<1> QED BY <1>1, <1>4, <1>5, <1>6, Returns

\* The file of a process cannot be started.
LEMMA StartRefusedStep ==
  ASSUME TreeInv, NEW t \in Tasks, StartRefused(t)
  PROVE  TreeInv'
<1>1. /\ At(t, "start", "enter") /\ Failed(t, proc)
      /\ UNCHANGED <<by_name, restarts, crossed>>
  BY DEF StartRefused, history
<1>2. proc \in Seq(Records) /\ Same(proc, proc) /\ ~ Starting(t)
  <2>1. Typed /\ Top(t).at = "enter"
    BY <1>1, AtTop
  <2> QED BY <2>1 DEF Typed, Same, Calm, Starting
<1> QED BY <1>1, <1>2, FailedStep

\* A process in the event loop may not be registered.
LEMMA StartFails ==
  ASSUME TreeInv, NEW t \in Tasks, StartInProcess(t), ~ MayRegister(Top(t))
  PROVE  TreeInv'
<1>1. /\ At(t, "start", "enter") /\ Failed(t, proc)
      /\ UNCHANGED <<by_name, restarts, crossed>>
  BY DEF StartInProcess, history
<1>2. proc \in Seq(Records) /\ Same(proc, proc) /\ ~ Starting(t)
  <2>1. Typed /\ Top(t).at = "enter"
    BY <1>1, AtTop
  <2> QED BY <2>1 DEF Typed, Same, Calm, Starting
<1> QED BY <1>1, <1>2, FailedStep

\* The process of a start that waits for it.
LEMMA NewOne ==
  ASSUME TreeInv, NEW t \in Tasks, NEW at \in {"wait", "abort", "crashed"},
         At(t, "start", at)
  PROVE  /\ Starting(t) /\ Top(t).new \in Pids /\ Top(t).new # 0
         /\ proc[Top(t).new].state = "unborn"
         /\ proc[Top(t).new].spec = Top(t).spec
         /\ Top(t).spec.mode = "isolated" /\ Top(t).new # Top(t).pid
         /\ RecordOK(proc, Names, Top(t).new) /\ stack[Top(t).new] = <<>>
         /\ Top(t).new # t
         /\ Top(t).parent \in {0} \cup Pids
         /\ Top(t).parent # 0 => proc[Top(t).parent].state # "unborn"
         /\ Top(t).pid # 0 => /\ Top(t).pid \in Pids /\ Top(t).parent # 0
                              /\ proc[Top(t).pid].state \in Over
         /\ Top(t).spec.name \in Names
<1>1. /\ Shape /\ Typed /\ stack[t] # <<>> /\ Top(t).op = "start"
      /\ Top(t).at = at /\ FrameOK(proc, Names, Top(t)) /\ TopOK(t)
  BY AtTop
<1>2. /\ Starting(t) /\ Top(t).new \in Pids /\ proc[Top(t).new].spec = Top(t).spec
      /\ Top(t).spec.mode = "isolated" /\ Top(t).new # Top(t).pid
      /\ Top(t).parent \in {0} \cup Pids
      /\ Top(t).parent # 0 => proc[Top(t).parent].state # "unborn"
      /\ Top(t).pid # 0 => /\ Top(t).pid \in Pids /\ Top(t).parent # 0
                           /\ proc[Top(t).pid].state \in Over
      /\ Top(t).spec.name \in Names
  BY <1>1 DEF Starting, FrameOK, StartOK, Pids
<1>3. proc[Top(t).new].state = "unborn"
  BY <1>1, <1>2 DEF TopOK
<1>4. stack[Top(t).new] = <<>> /\ RecordOK(proc, Names, Top(t).new)
  BY <1>1, <1>2, <1>3 DEF Shape, Bodies, RecordsOK, Pids
<1>5. Top(t).new # 0
  BY <1>1, <1>2, TheStacks
<1> QED BY <1>1, <1>2, <1>3, <1>4, <1>5

\* A start that failed has stopped its operating system process.
LEMMA StartAbortedStep ==
  ASSUME TreeInv, NEW t \in Tasks, StartAborted(t)
  PROVE  TreeInv'
<1>1. /\ At(t, "start", "abort") /\ Failed(t, Stopped(proc, Top(t).new))
      /\ UNCHANGED <<by_name, restarts, crossed>>
  BY DEF StartAborted, history
<1>2. /\ proc \in Seq(Records) /\ Top(t).new \in DOMAIN proc
      /\ proc[Top(t).new].spec.mode = "isolated"
  BY <1>1, NewOne, AtTop DEF Typed, Pids
<1> DEFINE pr == Stopped(proc, Top(t).new)
<1>3. /\ pr \in Seq(Records) /\ Len(pr) = Len(proc) /\ Same(proc, pr)
      /\ pr[Top(t).new].os # "alive" /\ Top(t).new \in DOMAIN pr
  <2>1. pr = [proc EXCEPT ![Top(t).new].os = "dead"]
    BY DEF Stopped
  <2> HIDE DEF pr
  <2>2. pr \in Seq(Records) /\ Len(pr) = Len(proc) /\ Same(proc, pr)
        /\ pr[Top(t).new].os = "dead"
    <3> DEFINE n == Top(t).new
    <3>1. /\ pr = [proc EXCEPT ![n].os = "dead"] /\ proc \in Seq(Records)
          /\ n \in DOMAIN proc /\ proc[n].spec.mode = "isolated"
      BY <2>1, <1>2
    <3> HIDE DEF n
    <3>2. pr \in Seq(Records) /\ Len(pr) = Len(proc) /\ Same(proc, pr)
          /\ pr[n].os = "dead"
      BY <3>1, SameDead
    <3> QED BY <3>2 DEF n
  <2> QED BY <2>2, <1>2 DEF Same, Calm
<1> HIDE DEF pr
<1>4. Failed(t, pr)
  BY <1>1 DEF pr
<1> QED BY <1>1, <1>3, <1>4, FailedStep

\* What a start hears, or does not.
LEMMA StartHears ==
  ASSUME TreeInv, NEW t \in Tasks, NEW at \in {"wait", "crashed"},
         NEW x \in {"abort", "crashed"}, At(t, "start", at), Tame,
         stack' = [stack EXCEPT ![t] = Moved(t, x)],
         busy' = {}, result' = result
  PROVE  TreeInv'
<1>1. /\ Shape /\ Regular /\ Typed /\ Stacks
      /\ stack[t] # <<>> /\ Top(t).op = "start" /\ Top(t).at = at
      /\ FrameOK(proc, Names, Top(t)) /\ Top(t) \in Frames
  BY AtTop
<1>2. x \in Places /\ result' \in {"ok", "raised"} /\ Starting(t)
  BY <1>1 DEF Places, Typed, Starting
<1>3. LET g == [Top(t) EXCEPT !.at = x]
      IN /\ g.op = "start" /\ g.pid = Top(t).pid /\ g.at = x
         /\ g.todo = Top(t).todo /\ g.parent = Top(t).parent
         /\ g.new = Top(t).new /\ g.spec = Top(t).spec
  BY <1>1, <1>2, FrameMoved
<1>4. FrameOK(proc', Names, Top(t)) =>
        FrameOK(proc', Names, [Top(t) EXCEPT !.at = x])
  BY <1>1, <1>3 DEF FrameOK, StartOK
<1> QED BY <1>1, <1>2, <1>4, GoesOn

\* A start does not hear "ready" in time, hears of a crash instead, or may not
\* register what is ready.
LEMMA StartWaits ==
  ASSUME TreeInv, NEW t \in Tasks,
         \/ StartTimeout(t) \/ StartCrashes(t)
         \/ StartReady(t) /\ ~ MayRegister(Top(t))
  PROVE  TreeInv'
<1>1. PICK x \in {"abort", "crashed"} :
        /\ At(t, "start", "wait") /\ stack' = [stack EXCEPT ![t] = Moved(t, x)]
        /\ busy' = {} /\ result' = result
        /\ UNCHANGED <<proc, by_name, restarts, crossed>>
  BY DEF StartTimeout, StartCrashes, StartReady, Wait, counters, history
<1>2. Tame
  BY <1>1, TameStill DEF TreeInv
<1> QED BY <1>1, <1>2, StartHears

\* The crash of what was to be a root.
LEMMA RootCrashes ==
  ASSUME TreeInv, NEW t \in Tasks, StartCrashed(t), Top(t).parent = 0
  PROVE  TreeInv'
<1>1. /\ At(t, "start", "crashed") /\ proc' = Stopped(proc, Top(t).new)
      /\ stack' = [stack EXCEPT ![t] = Moved(t, "abort")] /\ busy' = {}
      /\ UNCHANGED <<result, by_name, restarts, crossed>>
  BY DEF StartCrashed, Wait, counters, history
<1>2. /\ proc \in Seq(Records) /\ Top(t).new \in DOMAIN proc
      /\ proc[Top(t).new].spec.mode = "isolated" /\ Shape /\ Regular
  BY <1>1, NewOne, AtTop DEF Typed, Pids
<1>3. proc' \in Seq(Records) /\ Len(proc') = Len(proc) /\ Same(proc, proc')
  <2> DEFINE n == Top(t).new
  <2>1. /\ proc' = [proc EXCEPT ![n].os = "dead"] /\ proc \in Seq(Records)
        /\ n \in DOMAIN proc /\ proc[n].spec.mode = "isolated"
    BY <1>1, <1>2 DEF Stopped
  <2> HIDE DEF n
  <2> QED BY <2>1, SameDead
<1>4. Tame
  BY <1>1, <1>2, <1>3, TameSame
<1> QED BY <1>1, <1>4, StartHears

\* The crash of a starting child has been handled: the start replaces the child.
LEMMA StartHandledStep ==
  ASSUME TreeInv, NEW t \in Tasks, StartHandled(t)
  PROVE  TreeInv'
<1>1. /\ At(t, "start", "handled") /\ Return(t, "ok")
      /\ proc' = Replace(proc, Top(t).parent, Top(t).pid, Top(t).new)
      /\ UNCHANGED <<by_name, restarts, crossed>>
  BY DEF StartHandled, counters, history
<1>2. /\ Shape /\ Regular /\ Typed /\ Stacks
      /\ stack[t] # <<>> /\ Top(t).op = "start" /\ Top(t).at = "handled"
      /\ FrameOK(proc, Names, Top(t))
  BY <1>1, AtTop
<1> DEFINE q == Top(t).parent
           old == Top(t).pid
           new == Top(t).new
<1>3. /\ new \in DOMAIN proc
      /\ old # 0 => /\ q \in DOMAIN proc /\ proc[q].state # "unborn" /\ old # new
                    /\ old \in DOMAIN proc /\ proc[old].state \in Over
                    /\ proc[new].state # "unborn"
                    /\ proc[new].spec.mode # "external"
                    /\ proc[new].state \in Over \/ proc[new].supervisor = q
  BY <1>2 DEF FrameOK, StartOK, Over
<1>4. proc \in Seq(Records) /\ RecordsOK(proc, Names) /\ (~ crossed => Linked(proc))
  BY <1>2 DEF Shape, Regular, Typed
<1>5. /\ proc' \in Seq(Records) /\ Len(proc') = Len(proc) /\ Calm(proc, proc')
      /\ RecordsOK(proc', Names)
      /\ Linked(proc) => Linked(proc')
      /\ \A x \in DOMAIN proc : proc'[x].charged = proc[x].charged
  <2>1. proc' = Replace(proc, q, old, new)
    BY <1>1
  <2> HIDE DEF q, old, new
  <2> QED BY <2>1, <1>3, <1>4, ReplaceQuiet
<1>6. Tame /\ ~ Starting(t)
  BY <1>1, <1>2, <1>4, <1>5 DEF Tame, Pids, Starting
<1> QED BY <1>1, <1>2, <1>6, Returns

\* An external agent spawns a child, ...
LEMMA ExternalSpawnsStep ==
  ASSUME TreeInv, NEW t \in Tasks, NEW spec \in Specs, ExternalSpawns(t, spec)
  PROVE  TreeInv'
<1> DEFINE f == [Top(t) EXCEPT !.at = "spawned"]
           g == Start(Top(t).pid, 0, spec)
<1>1. /\ At(t, "external", "run")
      /\ stack' = [stack EXCEPT ![t] = Append(With(t, f), g)] /\ busy' = {t}
      /\ result' = result /\ UNCHANGED <<proc, by_name, restarts, crossed>>
  BY DEF ExternalSpawns, Call, Continue, Moved, counters, history
<1>2. /\ Shape /\ Regular /\ Typed /\ Stacks
      /\ stack[t] # <<>> /\ Top(t).op = "external" /\ Top(t).at = "run"
      /\ FrameOK(proc, Names, Top(t)) /\ Top(t) \in Frames /\ Top(t).pid \in Nat
  BY <1>1, AtTop
<1>3. /\ f \in Frames /\ f.op = "external" /\ f.pid = Top(t).pid
      /\ f.at = "spawned" /\ f.todo = Top(t).todo /\ f.parent = Top(t).parent
  BY <1>2, FrameMoved, ZenonT(60) DEF Places
<1>4. spec \in Programs /\ spec \in AnyProgram /\ spec.name \in Names
      /\ spec.mode \in {"in_process", "isolated"}
  <2>1. spec \in Programs
    BY ConstantsAssumption DEF ConstantsAssumption
  <2> QED BY <2>1, <1>2 DEF Programs, AnyProgram, Typed
<1>5. /\ g \in Frames /\ g.op = "start" /\ g.pid = 0 /\ g.at = "enter"
      /\ g.parent = Top(t).pid /\ g.spec = spec
  BY <1>2, <1>4, StartFrame
<1> HIDE DEF f, g
<1>6. FrameOK(proc, Names, f) /\ Awaiting(f, g)
  BY <1>2, <1>3, <1>5 DEF FrameOK, ExternalOK, Awaiting
<1>7. FrameOK(proc, Names, g)
  <2>1. Top(t).pid \in DOMAIN proc /\ proc[Top(t).pid].spec.mode = "external"
    BY <1>2 DEF FrameOK, ExternalOK
  <2>2. proc[Top(t).pid].state # "unborn"
    BY <2>1, <1>2 DEF Shape, RecordsOK, RecordOK
  <2> QED BY <1>4, <1>5, <2>1, <2>2 DEF FrameOK, StartOK
<1>8. Tame
  BY <1>1, <1>2, TameStill
<1>9. Append(With(t, f), g) \in Seq(Frames)
  BY <1>2, <1>3, <1>5, MovesTyped
<1>10. /\ Quiet(t) /\ stack'[t] = Append(With(t, f), g) /\ restarts' = restarts
       /\ \A p \in Pids : proc'[p].charged = proc[p].charged
  BY <1>1, <1>2, <1>8, <1>9, TameIs DEF Typed
<1>11. \A q : Owes(f, q) <= Owes(Top(t), q)
  BY <1>2, <1>3 DEF Owes
<1>12. ~ Holds(f, f.pid)
  BY <1>3 DEF Holds
<1> QED BY <1>2, <1>3, <1>5, <1>6, <1>7, <1>10, <1>11, <1>12, QuietPush

\* ... and goes on when that has been done.
LEMMA ExternalGoesOnStep ==
  ASSUME TreeInv, NEW t \in Tasks, ExternalGoesOn(t)
  PROVE  TreeInv'
<1>1. /\ At(t, "external", "spawned") /\ busy' = {}
      /\ stack' = [stack EXCEPT ![t] = Moved(t, "last")] /\ result' = result
      /\ UNCHANGED <<proc, by_name, restarts, crossed>>
  BY DEF ExternalGoesOn, Wait, counters, history
<1>2. /\ Shape /\ Regular /\ Typed /\ Stacks
      /\ stack[t] # <<>> /\ Top(t).op = "external" /\ Top(t).at = "spawned"
      /\ FrameOK(proc, Names, Top(t)) /\ Top(t) \in Frames
  BY <1>1, AtTop
<1>3. Tame
  BY <1>1, <1>2, TameStill
<1>4. "last" \in Places /\ ~ Starting(t) /\ result' \in {"ok", "raised"}
  BY <1>1, <1>2 DEF Places, Starting, Typed
<1>5. FrameOK(proc', Names, [Top(t) EXCEPT !.at = "last"])
  <2>1. LET g == [Top(t) EXCEPT !.at = "last"]
        IN g.op = "external" /\ g.pid = Top(t).pid /\ g.at = "last"
    BY <1>2, <1>4, FrameMoved
  <2> QED BY <1>1, <1>2, <2>1 DEF FrameOK, ExternalOK
<1> QED BY <1>1, <1>2, <1>3, <1>4, <1>5, GoesOn

\* A task is over.
LEMMA TaskEnds ==
  ASSUME TreeInv, NEW p \in Pids, Stop(p) \/ (Exit(p) /\ ~ Up(p))
  PROVE  TreeInv'
<1>1. PICK at \in {"cancelled", "run"} : At(p, "body", at)
  BY DEF Stop, Exit
<1>2. /\ stack' = [stack EXCEPT ![p] = <<>>] /\ busy' = {} /\ result' = result
      /\ UNCHANGED <<proc, by_name, restarts, crossed>>
  BY DEF Stop, Exit, Wait, counters, history
<1>3. p \in Tasks
  <2>1. Typed
    BY DEF TreeInv, Shape
  <2> QED BY <2>1, TheStacks
<1>4. /\ Shape /\ Regular /\ Typed /\ Stacks /\ stack[p] # <<>>
      /\ Top(p).op = "body" /\ stack[p] \in Seq(Frames)
  BY <1>1, <1>3, AtTop, TheStacks
<1>5. Front(stack[p]) = <<>>
  <2>1. Bodily(p) /\ StackOK(proc, Names, p, stack[p])
    BY <1>3, <1>4, BodyTop DEF Stacks
  <2>2. Len(stack[p]) = 1
    BY <2>1, <1>4, BodyAlone DEF Bodily
  <2>3. Front(stack[p]) \in Seq(Frames) /\ Len(Front(stack[p])) = Len(stack[p]) - 1
    BY <1>4, EndsOf
  <2> QED BY <2>2, <2>3
<1>6. Tame /\ ~ Starting(p)
  BY <1>2, <1>4, TameStill DEF Starting
<1>7. <<>> \in Seq(Frames) /\ result' \in {"ok", "raised"}
  BY <1>2, <1>4 DEF Typed
<1>8. /\ Quiet(p) /\ stack'[p] = Front(stack[p]) /\ restarts' = restarts
      /\ \A x \in Pids : proc'[x].charged = proc[x].charged
  BY <1>2, <1>3, <1>4, <1>5, <1>6, <1>7, TameIs
<1> QED BY <1>3, <1>4, <1>6, <1>8, QuietPop

-----------------------------------------------------------------------------
(* The decision of the handler *)

\* No child that is alive has the process of t for its supervisor any more.
LEMMA NoneLeft ==
  ASSUME Shape, Regular, ~ crossed, NEW t \in Tasks, stack[t] # <<>>,
         NEW p \in Pids, Holds(Top(t), p), ~ Up(p),
         Top(t).at = "kids" => Top(t).todo = <<>>,
         NEW x \in Pids, Supervises(proc, x)
  PROVE  proc[x].supervisor # p
<1> SUFFICES ASSUME proc[x].supervisor = p PROVE FALSE
  OBVIOUS
<1>1. /\ Typed /\ Stacks /\ Sole /\ Watched
  BY DEF Shape, Regular
<1> DEFINE n == Len(stack[t])
<1>2. n \in Nat \ {0} /\ n \in DOMAIN stack[t] /\ Top(t) = stack[t][n]
      /\ DOMAIN stack[t] = 1 .. n
  BY <1>1, TheTop, TheStacks
<1>3. Doomed(p, x)
  BY <1>1 DEF Watched
<1>4. PICK u \in Tasks : \E i \in DOMAIN stack[u] :
        stack[u][i].pid = p /\ Takes(stack[u], i, x)
  BY <1>3 DEF Doomed
<1>5. PICK i \in DOMAIN stack[u] : stack[u][i].pid = p /\ Takes(stack[u], i, x)
  BY <1>4
<1>6. Holds(stack[u][i], p)
  BY <1>5 DEF Takes, Holds
<1>7. u = t /\ i = n
  <2> HIDE DEF n
  <2> QED BY <1>1, <1>2, <1>6 DEF Sole
<1>8. Top(t).at = "kids" /\ x \in ToSet(Top(t).todo)
  <2>1. ~ (n + 1 \in DOMAIN stack[t])
    <3> HIDE DEF n
    <3> QED BY <1>2
  <2> QED BY <2>1, <1>2, <1>5, <1>7 DEF Takes
<1> QED BY <1>8 DEF ToSet

\* The children have left process p.
Bare(pr, p) ==
  [c \in DOMAIN pr |->
     [pr[c] EXCEPT !.kids = IF c = p THEN <<>> ELSE @,
                   !.parent = IF c \in ToSet(pr[p].kids) THEN 0 ELSE @]]

\* The records after a process has let go of its children, ...
LEMMA BareIs ==
  ASSUME NEW pr \in Seq(Records), NEW p \in DOMAIN pr, NEW r, r = Bare(pr, p)
  PROVE  /\ r \in Seq(Records) /\ DOMAIN r = DOMAIN pr /\ Len(r) = Len(pr)
         /\ \A x \in DOMAIN pr :
              /\ Alike(r[x], pr[x]) /\ r[x].supervisor = pr[x].supervisor
              /\ r[x].kids = IF x = p THEN <<>> ELSE pr[x].kids
              /\ r[x].parent = IF x \in ToSet(pr[p].kids) THEN 0 ELSE pr[x].parent
<1>1. \A x \in DOMAIN pr : pr[x] \in Records
  OBVIOUS
<1> DEFINE kk(x) == IF x = p THEN <<>> ELSE pr[x].kids
           nn(x) == IF x \in ToSet(pr[p].kids) THEN 0 ELSE pr[x].parent
<1>2. DOMAIN r = DOMAIN pr /\ r = [x \in DOMAIN pr |-> r[x]]
  BY DEF Bare
<1>3. ASSUME NEW x \in DOMAIN pr
      PROVE  r[x] = [pr[x] EXCEPT !.kids = kk(x), !.parent = nn(x)]
  BY <1>1 DEF Bare, Records
<1>4. ASSUME NEW x \in DOMAIN pr
      PROVE  /\ r[x] \in Records
             /\ Alike(r[x], pr[x]) /\ r[x].supervisor = pr[x].supervisor
             /\ r[x].kids = kk(x) /\ r[x].parent = nn(x)
  <2>1. pr[x] \in Records /\ kk(x) \in Seq(Nat) /\ nn(x) \in Nat
    BY <1>1, RecordFields
  <2> HIDE DEF kk, nn
  <2>2. ASSUME NEW a, a = pr[x], NEW b, b = kk(x), NEW c, c = nn(x),
               NEW e, e = r[x]
        PROVE  /\ e \in Records /\ Alike(e, a) /\ e.supervisor = a.supervisor
               /\ e.kids = b /\ e.parent = c
    <3>1. e = [a EXCEPT !.kids = b, !.parent = c]
      BY <1>3, <2>2
    <3>2. a \in Records /\ b \in Seq(Nat) /\ c \in Nat
      BY <2>1, <2>2
    <3> QED BY <3>1, <3>2 DEF Records, Alike
  <2> QED BY <2>2
<1>5. r \in Seq(Records) /\ Len(r) = Len(pr)
  BY <1>2, <1>4, AsLong
<1> QED BY <1>2, <1>4, <1>5

\* ... which keeps the tree, when no child of it is live.
LEMMA BareQuiet ==
  ASSUME NEW pr \in Seq(Records), NEW nm, RecordsOK(pr, nm), NEW p \in DOMAIN pr,
         NEW r, r = Bare(pr, p)
  PROVE  /\ r \in Seq(Records) /\ Len(r) = Len(pr) /\ Calm(pr, r)
         /\ RecordsOK(r, nm)
         /\ \A x \in DOMAIN pr : r[x].charged = pr[x].charged
         /\ Linked(pr) /\ (\A x \in DOMAIN pr :
                             Supervises(pr, x) => pr[x].supervisor # p)
              => Linked(r)
<1>1. \A x \in DOMAIN pr : RecordOK(pr, nm, x)
  BY DEF RecordsOK
<1>2. /\ r \in Seq(Records) /\ DOMAIN r = DOMAIN pr /\ Len(r) = Len(pr)
      /\ \A x \in DOMAIN pr :
           /\ Alike(r[x], pr[x]) /\ r[x].supervisor = pr[x].supervisor
           /\ r[x].kids = IF x = p THEN <<>> ELSE pr[x].kids
           /\ r[x].parent = IF x \in ToSet(pr[p].kids) THEN 0 ELSE pr[x].parent
  BY BareIs
<1>3. Calm(pr, r) /\ \A x \in DOMAIN pr : r[x].charged = pr[x].charged
  BY <1>2 DEF Calm, Alike
<1>4. RecordsOK(r, nm)
  <2>1. ASSUME NEW x \in DOMAIN pr
        PROVE  /\ r[x].charged <= MaxRestarts
               /\ r[x].os # "none" => pr[x].os # "none"
               /\ r[x].parent \in {0, pr[x].parent}
               /\ \A c \in ToSet(r[x].kids) : c \in ToSet(pr[x].kids)
    BY <1>1, <1>2 DEF RecordOK, Alike, ToSet
  <2> QED BY <2>1, <1>3, CalmRecords
<1>5. ASSUME Linked(pr),
             \A x \in DOMAIN pr : Supervises(pr, x) => pr[x].supervisor # p,
             NEW x \in DOMAIN pr, Supervises(r, x)
      PROVE  r[x].parent = r[x].supervisor /\ x \in ToSet(r[r[x].supervisor].kids)
  <2>1. pr[x].supervisor \in DOMAIN pr /\ Supervises(pr, x)
    BY <1>1, <1>3, <1>5 DEF Supervises, Calm, RecordOK
  <2>2. /\ pr[x].parent = pr[x].supervisor /\ x \in ToSet(pr[pr[x].supervisor].kids)
        /\ pr[x].supervisor # p
    BY <1>5, <2>1 DEF Linked
  <2>3. x \notin ToSet(pr[p].kids)
    <3>1. pr[x].state \notin Over
      BY <2>1 DEF Supervises, Alive, Over
    <3> QED BY <3>1, <2>2, <1>1 DEF RecordOK
  <2> QED BY <2>1, <2>2, <2>3, <1>2
<1> QED BY <1>2, <1>3, <1>4, <1>5 DEF Linked

\* What is decided if nothing is to be restarted.
LEMMA DecideReturns ==
  ASSUME TreeInv, NEW t \in Tasks, At(t, "handle", "kids"), Top(t).todo = <<>>,
         NEW q, NEW bare, bare = Bare(proc, Top(t).pid),
         \/ proc' = bare
         \/ proc' = Unlink(bare, Top(t).pid)
         \/ proc' = Unlink([bare EXCEPT ![q].escalated = TRUE], Top(t).pid),
         Return(t, "ok"), UNCHANGED <<by_name, restarts, crossed>>
  PROVE  TreeInv'
<1>1. /\ Shape /\ Regular /\ Typed /\ Stacks
      /\ stack[t] # <<>> /\ Top(t).op = "handle" /\ Top(t).at = "kids"
      /\ FrameOK(proc, Names, Top(t))
  BY AtTop
<1> DEFINE p == Top(t).pid
<1>2. /\ p \in Pids /\ proc[p].state \in Over /\ proc[p].state \notin Alive
      /\ ~ Up(p) /\ Holds(Top(t), p)
  BY <1>1 DEF FrameOK, HandleOK, Pids, Over, Alive, Up, Holds
<1>3. ASSUME ~ crossed
      PROVE  \A x \in Pids : Supervises(proc, x) => proc[x].supervisor # p
  BY <1>1, <1>2, <1>3, NoneLeft
<1>4. proc \in Seq(Records) /\ RecordsOK(proc, Names) /\ (~ crossed => Linked(proc))
  BY <1>1 DEF Shape, Typed, Regular
<1> HIDE DEF p
<1>5. /\ bare \in Seq(Records) /\ Len(bare) = Len(proc) /\ Calm(proc, bare)
      /\ RecordsOK(bare, Names)
      /\ \A x \in DOMAIN proc : bare[x].charged = proc[x].charged
      /\ ~ crossed => Linked(bare)
  <2>1. bare = Bare(proc, p) /\ p \in DOMAIN proc
    BY <1>2 DEF p, Pids
  <2>2. /\ bare \in Seq(Records) /\ Len(bare) = Len(proc) /\ Calm(proc, bare)
        /\ RecordsOK(bare, Names)
        /\ \A x \in DOMAIN proc : bare[x].charged = proc[x].charged
        /\ Linked(proc) /\ (\A x \in DOMAIN proc :
                              Supervises(proc, x) => proc[x].supervisor # p)
             => Linked(bare)
    BY <2>1, <1>4, BareQuiet
  <2> QED BY <2>2, <1>3, <1>4 DEF Pids
<1> DEFINE told == [bare EXCEPT ![q].escalated = TRUE]
<1>6. /\ told \in Seq(Records) /\ Len(told) = Len(proc) /\ Calm(proc, told)
      /\ RecordsOK(told, Names)
      /\ \A x \in DOMAIN proc : told[x].charged = proc[x].charged
      /\ ~ crossed => Linked(told)
  <2>1. \E x : told = [bare EXCEPT ![x].escalated = TRUE]
    OBVIOUS
  <2> HIDE DEF told
  <2>2. told \in Seq(Records) /\ Len(told) = Len(bare) /\ Same(bare, told)
    BY <2>1, <1>5, ToldRecords
  <2>3. Calm(proc, told)
    BY <1>5, <2>2 DEF Same, Calm
  <2>4. /\ RecordsOK(told, Names) /\ (Linked(bare) => Linked(told))
        /\ \A x \in DOMAIN bare : told[x].charged = bare[x].charged
    BY <1>5, <2>2, SameTree
  <2> QED BY <1>5, <2>2, <2>3, <2>4 DEF Calm
<1> HIDE DEF told
<1>7. ASSUME NEW pr \in Seq(Records), Len(pr) = Len(proc), Calm(proc, pr),
             RecordsOK(pr, Names),
             \A x \in DOMAIN proc : pr[x].charged = proc[x].charged,
             ~ crossed => Linked(pr),
             proc' = pr \/ proc' = Unlink(pr, p)
      PROVE  Tame
  <2>1. CASE proc' = pr
    BY <2>1, <1>7 DEF Tame, Pids
  <2>2. CASE proc' = Unlink(pr, p)
    <3>1. p \in DOMAIN pr /\ pr[p].state \notin Alive
      BY <1>2, <1>7 DEF Calm, Pids
    <3>2. /\ proc' \in Seq(Records) /\ Len(proc') = Len(pr) /\ Calm(pr, proc')
          /\ RecordsOK(proc', Names)
          /\ Linked(pr) => Linked(proc')
          /\ \A x \in DOMAIN pr : proc'[x].charged = pr[x].charged
      BY <2>2, <3>1, <1>7, UnlinkQuiet
    <3>3. Calm(proc, proc')
      BY <3>2, <1>7 DEF Calm
    <3> QED BY <3>2, <3>3, <1>7 DEF Tame, Pids, Calm
  <2> QED BY <1>7, <2>1, <2>2
<1>8. Tame
  <2>1. proc' = bare \/ proc' = Unlink(bare, p) \/ proc' = Unlink(told, p)
    BY DEF p, told
  <2> QED BY <2>1, <1>5, <1>6, <1>7
<1> QED BY <1>8, HandleReturns

\* What is owed after the last frame of t has become f.
LEMMA OwedBut ==
  ASSUME Typed, Typed', NEW t \in Tasks, Spared(t), t \in Tasks',
         NEW f \in Frames, NEW g, Turned(t, f, g),
         Len(stack'[t]) > Len(stack[t]) => \A q : Owes(g, q) = 0,
         NEW q, NEW x, x \in Owed(q)'
  PROVE  \/ x \in Owed(q) /\ \A k : x # <<<<t, Len(stack[t])>>, k>>
         \/ x \in {<<t, Len(stack[t])>>} \X (1 .. Owes(f, q))
<1>1. PICK u \in Tasks' : x \in UNION {{<<u, i>>} \X (1 .. Owes(stack'[u][i], q)) :
                                         i \in DOMAIN stack'[u]}
  BY DEF Owed
<1>2. PICK i \in DOMAIN stack'[u] : x \in {<<u, i>>} \X (1 .. Owes(stack'[u][i], q))
  BY <1>1
<1>3. PICK k \in 1 .. Owes(stack'[u][i], q) : x = <<<<u, i>>, k>>
  BY <1>2
<1>4. Owes(stack'[u][i], q) # 0
  BY <1>3
<1>5. /\ stack[t] \in Seq(Frames) /\ stack[t] # <<>> /\ stack'[t] \in Seq(Frames)
      /\ DOMAIN stack'[u] = 1 .. Len(stack'[u]) /\ Len(stack'[u]) \in Nat
  BY TheStacks, StacksThen DEF Turned
<1>6. Len(stack[t]) \in Nat \ {0} /\ DOMAIN stack[t] = 1 .. Len(stack[t])
  BY <1>5, EndsOf
<1>7. ASSUME u \in Tasks, i \in DOMAIN stack[u], stack'[u][i] = stack[u][i]
      PROVE  x \in Owed(q)
  <2>1. x \in {<<u, i>>} \X (1 .. Owes(stack[u][i], q))
    BY <1>2, <1>7
  <2>2. x \in UNION {{<<u, j>>} \X (1 .. Owes(stack[u][j], q)) : j \in DOMAIN stack[u]}
    BY <1>7, <2>1
  <2> QED BY <1>7, <2>2 DEF Owed
<1>8. CASE u = t
  <2> DEFINE n == Len(stack[t])
  <2>1. /\ Len(stack'[t]) \in {n - 1, n, n + 1} /\ i \in Nat \ {0}
        /\ i <= Len(stack'[t])
        /\ i < n => stack'[t][i] = stack[t][i]
        /\ i = n => stack'[t][i] = f
        /\ i = n + 1 => stack'[t][i] = g
    BY <1>5, <1>8 DEF Turned
  <2>2. i # n + 1
    BY <1>4, <1>6, <1>8, <2>1
  <2>3. i \in 1 .. n
    BY <1>6, <2>1, <2>2
  <2>4. CASE i = n
    <3>1. x \in {<<t, n>>} \X (1 .. Owes(f, q))
      BY <2>1, <2>4, <1>2, <1>8
    <3> QED BY <3>1
  <2>5. CASE i # n
    <3>1. stack'[u][i] = stack[u][i] /\ i \in DOMAIN stack[u]
      BY <2>1, <2>3, <2>5, <1>6, <1>8
    <3>2. x \in Owed(q)
      BY <3>1, <1>7, <1>8
    <3>3. \A kk : x # <<<<t, n>>, kk>>
      BY <1>3, <2>5
    <3> QED BY <3>2, <3>3
  <2> QED BY <2>4, <2>5
<1>9. CASE u # t
  <2>1. CASE u \in Tasks /\ stack'[u] = stack[u]
    <3>1. x \in Owed(q)
      BY <2>1, <1>7
    <3>2. \A kk : x # <<<<t, Len(stack[t])>>, kk>>
      BY <1>3, <1>9
    <3> QED BY <3>1, <3>2
  <2>2. CASE stack'[u] = <<>>
    BY <2>2
  <2>3. ASSUME NEW y, stack'[u] = Body(y) PROVE FALSE
    <3>1. i = 1 /\ stack'[u][i].op = "body"
      BY <2>3 DEF Body, Frame
    <3> QED BY <3>1, <1>4 DEF Owes
  <2> QED BY <1>9, <2>1, <2>2, <2>3 DEF Spared
<1> QED BY <1>8, <1>9

\* Restarts are owed that were charged.
LEMMA BooksCharge ==
  ASSUME Typed, Typed', Books, NEW t \in Tasks, Spared(t), t \in Tasks',
         NEW f \in Frames, Turned(t, f, f), Len(stack'[t]) = Len(stack[t]),
         restarts' = restarts, Pids' = Pids, NEW q \in Pids, NEW n \in Nat,
         \A q2 : q2 # q => Owes(f, q2) = 0, Owes(f, q) <= n,
         proc'[q].charged = proc[q].charged + n,
         \A p \in Pids \ {q} : proc'[p].charged = proc[p].charged
  PROVE  Books'
<1> DEFINE m == Len(stack[t])
<1>1. ASSUME NEW q2 \in Pids
      PROVE  /\ IsFiniteSet(Owed(q2)') /\ IsFiniteSet(Made(q2)')
             /\ Cardinality(Owed(q2)') + Cardinality(Made(q2)')
                  <= proc'[q2].charged
  <2> DEFINE k == Owes(f, q2)
             new == {<<t, m>>} \X (1 .. k)
  <2>1. /\ IsFiniteSet(Owed(q2)) /\ IsFiniteSet(Made(q2))
        /\ Cardinality(Owed(q2)) + Cardinality(Made(q2)) <= proc[q2].charged
        /\ proc[q2].charged \in Nat
    BY TheStacks, RecordFields DEF Books
  <2>2. Made(q2)' = Made(q2)
    BY DEF Made
  <2>3. k \in Int
    BY FrameFields DEF Owes
  <2>4. /\ IsFiniteSet(new) /\ Cardinality(new) \in Nat
        /\ Cardinality(new) = IF k < 1 THEN 0 ELSE k
    <3> HIDE DEF k
    <3>0. 1 \in Int
      OBVIOUS
    <3>1. IsFiniteSet(1 .. k) /\ Cardinality(1 .. k) = IF 1 > k THEN 0 ELSE k - 1 + 1
      BY <3>0, <2>3, FS_Interval, Zenon
    <3>2. IsFiniteSet({<<t, m>>}) /\ Cardinality({<<t, m>>}) = 1
      BY FS_Singleton
    <3>3. IsFiniteSet(new) /\ Cardinality(new) = 1 * Cardinality(1 .. k)
      BY <3>1, <3>2, FS_Product
    <3> HIDE DEF new
    <3> QED BY <2>3, <3>1, <3>3
  <2>5. Owed(q2)' \subseteq Owed(q2) \cup new
    <3> SUFFICES ASSUME NEW x, x \in Owed(q2)' PROVE x \in Owed(q2) \cup new
      OBVIOUS
    <3>1. ~ (Len(stack'[t]) > Len(stack[t]))
      BY TheStacks
    <3> QED BY <3>1, OwedBut
  <2> HIDE DEF new, m, k
  <2>6. /\ IsFiniteSet(Owed(q2) \cup new)
        /\ Cardinality(Owed(q2) \cup new) <= Cardinality(Owed(q2)) + Cardinality(new)
    <3>1. /\ IsFiniteSet(Owed(q2) \cup new)
          /\ Cardinality(Owed(q2) \cup new) =
               Cardinality(Owed(q2)) + Cardinality(new)
                 - Cardinality(Owed(q2) \cap new)
      BY <2>1, <2>4, FS_Union
    <3>2. /\ IsFiniteSet(Owed(q2) \cap new)
          /\ Cardinality(Owed(q2) \cap new) \in Nat
          /\ Cardinality(Owed(q2)) \in Nat
      BY <2>1, FS_Subset, FS_CardinalityType
    <3> QED BY <3>1, <3>2, <2>4
  <2>7. /\ IsFiniteSet(Owed(q2)')
        /\ Cardinality(Owed(q2)') <= Cardinality(Owed(q2) \cup new)
    BY <2>5, <2>6, FS_Subset
  <2>8. /\ Cardinality(Owed(q2)) \in Nat /\ Cardinality(Made(q2)) \in Nat
        /\ Cardinality(Owed(q2)') \in Nat
        /\ Cardinality(Owed(q2) \cup new) \in Nat
    BY <2>1, <2>6, <2>7, FS_CardinalityType
  <2>9. CASE q2 = q
    <3>1. proc'[q2].charged = proc[q2].charged + n /\ k <= n
      BY <2>9 DEF k
    <3>2. Cardinality(new) <= n
      BY <3>1, <2>3, <2>4
    <3>3. Cardinality(Owed(q2)') + Cardinality(Made(q2)) <= proc'[q2].charged
      BY <3>1, <3>2, <2>1, <2>4, <2>6, <2>7, <2>8
    <3> QED BY <3>3, <2>1, <2>2, <2>7
  <2>10. CASE q2 # q
    <3>1. proc'[q2].charged = proc[q2].charged /\ k = 0
      BY <2>10 DEF k
    <3>2. Cardinality(new) = 0
      BY <3>1, <2>4
    <3>3. Cardinality(Owed(q2)') + Cardinality(Made(q2)) <= proc'[q2].charged
      BY <3>1, <3>2, <2>1, <2>4, <2>6, <2>7, <2>8
    <3> QED BY <3>3, <2>1, <2>2, <2>7
  <2> QED BY <2>9, <2>10
<1> QED BY <1>1 DEF Books

\* Those that a failure of p concerns are p and children of its supervisor.
LEMMA AffectedAre ==
  ASSUME Typed, NEW q \in Pids, NEW p \in Pids
  PROVE  /\ Affected(q, p) \in Seq(Nat)
         /\ ToSet(Affected(q, p)) \subseteq ToSet(proc[q].kids) \cup {p}
         /\ \A c \in ToSet(Affected(q, p)) :
              c = p \/ proc[q].spec.strategy # "one_for_one"
<1> DEFINE kids == proc[q].kids
           strategy == proc[q].spec.strategy
           i == CHOOSE j \in DOMAIN kids : kids[j] = p
           late == SubSeq(kids, i, Len(kids))
<1>1. kids \in Seq(Nat) /\ p \in Nat
  <2>1. proc[q] \in Records /\ p \in Nat
    BY TheStacks
  <2> QED BY <2>1, RecordFields
<1>2. /\ <<p>> \in Seq(Nat) /\ ToSet(<<p>>) = {p}
  <2> HIDE DEF kids
  <2> QED BY <1>1 DEF ToSet
<1>3. ASSUME p \in ToSet(kids)
      PROVE  late \in Seq(Nat) /\ ToSet(late) \subseteq ToSet(kids)
  <2> HIDE DEF kids
  <2>1. i \in DOMAIN kids
    BY <1>3 DEF ToSet
  <2> DEFINE n == Len(kids)
  <2>2. i \in 1 .. n /\ n \in Nat /\ DOMAIN kids = 1 .. n
    BY <2>1, <1>1
  <2> HIDE DEF i, n
  <2>3. \A j \in i .. n : kids[j] \in Nat
    BY <2>2, <1>1
  <2>4. /\ SubSeq(kids, i, n) \in Seq(Nat)
        /\ Len(SubSeq(kids, i, n)) = IF i <= n THEN n - i + 1 ELSE 0
        /\ \A j \in 1 .. n - i + 1 : SubSeq(kids, i, n)[j] = kids[i + j - 1]
    BY <2>2, <2>3, SubSeqProperties
  <2> DEFINE s == SubSeq(kids, i, n)
  <2>5. late = s
    BY DEF late, n
  <2> HIDE DEF s
  <2>6. s \in Seq(Nat) /\ Len(s) = n - i + 1
        /\ \A j \in 1 .. n - i + 1 : s[j] = kids[i + j - 1]
    BY <2>4, <2>2 DEF s
  <2>7. ASSUME NEW x \in ToSet(s) PROVE x \in ToSet(kids)
    <3>1. PICK j \in DOMAIN s : x = s[j]
      BY <2>7 DEF ToSet
    <3>2. j \in 1 .. n - i + 1
      BY <2>6
    <3>3. x = kids[i + j - 1] /\ i + j - 1 \in 1 .. n
      BY <3>1, <3>2, <2>2, <2>6
    <3> QED BY <3>3, <2>2 DEF ToSet
  <2> QED BY <2>5, <2>6, <2>7
<1>4. Affected(q, p) =
        IF p \notin ToSet(kids) THEN <<p>>
        ELSE CASE strategy = "one_for_all" -> kids
               [] strategy = "rest_for_one" -> late
               [] OTHER -> <<p>>
  BY DEF Affected
<1> HIDE DEF kids, strategy, late
<1>5. \/ Affected(q, p) = <<p>>
      \/ Affected(q, p) = kids /\ strategy # "one_for_one"
      \/ /\ Affected(q, p) = late /\ strategy # "one_for_one"
         /\ p \in ToSet(kids)
  <2>1. CASE p \notin ToSet(kids)
    BY <1>4, <2>1
  <2>2. CASE p \in ToSet(kids) /\ strategy = "one_for_all"
    BY <1>4, <2>2
  <2>3. CASE p \in ToSet(kids) /\ strategy = "rest_for_one"
    BY <1>4, <2>3
  <2>4. CASE p \in ToSet(kids) /\ strategy \notin {"one_for_all", "rest_for_one"}
    BY <1>4, <2>4
  <2> QED BY <2>1, <2>2, <2>3, <2>4
<1> QED BY <1>1, <1>2, <1>3, <1>5 DEF kids, strategy

\* Two calm changes are one.
LEMMA CalmCalm ==
  ASSUME NEW pr, NEW pr2, NEW pr3, Calm(pr, pr2), Calm(pr2, pr3)
  PROVE  Calm(pr, pr3)
BY DEF Calm

\* The restarts are charged to the supervisor.
Charged(pr, q, m) == [pr EXCEPT ![q].charged = m]

\* A supervisor is charged with restarts, ...
LEMMA ChargedIs ==
  ASSUME NEW pr \in Seq(Records), NEW nm, RecordsOK(pr, nm), NEW q \in DOMAIN pr,
         NEW m \in Nat, m <= MaxRestarts, NEW r, r = Charged(pr, q, m)
  PROVE  /\ r \in Seq(Records) /\ Len(r) = Len(pr) /\ Calm(pr, r)
         /\ RecordsOK(r, nm) /\ (Linked(pr) => Linked(r))
         /\ r[q].charged = m
         /\ \A x \in DOMAIN pr \ {q} : r[x].charged = pr[x].charged
<1>1. DOMAIN r = DOMAIN pr /\ r = [x \in DOMAIN pr |-> r[x]]
  BY DEF Charged
<1>2. ASSUME NEW x \in DOMAIN pr
      PROVE  /\ r[x] \in Records
             /\ r[x].spec = pr[x].spec /\ r[x].state = pr[x].state
             /\ r[x].supervisor = pr[x].supervisor
             /\ r[x].parent = pr[x].parent /\ r[x].kids = pr[x].kids
             /\ r[x].os = pr[x].os
             /\ r[x].charged = IF x = q THEN m ELSE pr[x].charged
  <2>1. ASSUME NEW a, a = pr[x], NEW b, b = r[x]
        PROVE  /\ b \in Records
               /\ b.spec = a.spec /\ b.state = a.state
               /\ b.supervisor = a.supervisor
               /\ b.parent = a.parent /\ b.kids = a.kids
               /\ b.os = a.os /\ b.charged = IF x = q THEN m ELSE a.charged
    <3>1. a \in Records
      BY <2>1
    <3>2. b = IF x = q THEN [a EXCEPT !.charged = m] ELSE a
      BY <2>1 DEF Charged
    <3> QED BY <3>1, <3>2 DEF Records
  <2> QED BY <2>1
<1>3. r \in Seq(Records) /\ Len(r) = Len(pr)
  BY <1>1, <1>2, AsLong
<1>4. Calm(pr, r)
  BY <1>1, <1>2 DEF Calm
<1>5. /\ r[q].charged = m
      /\ \A x \in DOMAIN pr \ {q} : r[x].charged = pr[x].charged
  BY <1>2
<1>6. RecordsOK(r, nm)
  <2>1. ASSUME NEW x \in DOMAIN pr
        PROVE  /\ r[x].charged <= MaxRestarts
               /\ r[x].os # "none" => pr[x].os # "none"
               /\ r[x].parent \in {0, pr[x].parent}
               /\ \A c \in ToSet(r[x].kids) : c \in ToSet(pr[x].kids)
    BY <1>2, <1>5 DEF RecordsOK, RecordOK
  <2> QED BY <2>1, <1>4, CalmRecords
<1>7. ASSUME Linked(pr), NEW x \in DOMAIN pr, Supervises(r, x)
      PROVE  r[x].parent = r[x].supervisor /\ x \in ToSet(r[r[x].supervisor].kids)
  <2>1. pr[x].supervisor \in DOMAIN pr /\ Supervises(pr, x)
    BY <1>2, <1>4, <1>7 DEF Supervises, Calm, RecordsOK, RecordOK
  <2>2. pr[x].parent = pr[x].supervisor /\ x \in ToSet(pr[pr[x].supervisor].kids)
    BY <1>7, <2>1 DEF Linked
  <2> QED BY <2>1, <2>2, <1>2
<1> QED BY <1>1, <1>3, <1>4, <1>5, <1>6, <1>7 DEF Linked

\* ... after its child has let go of its own children.
LEMMA DecideRecords ==
  ASSUME NEW pr \in Seq(Records), NEW nm, RecordsOK(pr, nm), NEW p \in DOMAIN pr,
         NEW q \in DOMAIN pr, NEW m \in Nat, m <= MaxRestarts,
         NEW r, r = Charged(Bare(pr, p), q, m)
  PROVE  /\ r \in Seq(Records) /\ Len(r) = Len(pr) /\ Calm(pr, r)
         /\ RecordsOK(r, nm)
         /\ Linked(pr) /\ (\A x \in DOMAIN pr :
                             Supervises(pr, x) => pr[x].supervisor # p)
              => Linked(r)
         /\ r[q].charged = m
         /\ \A x \in DOMAIN pr \ {q} : r[x].charged = pr[x].charged
<1> DEFINE b == Bare(pr, p)
<1>1. /\ b \in Seq(Records) /\ Len(b) = Len(pr) /\ Calm(pr, b)
      /\ RecordsOK(b, nm)
      /\ \A x \in DOMAIN pr : b[x].charged = pr[x].charged
      /\ Linked(pr) /\ (\A x \in DOMAIN pr :
                          Supervises(pr, x) => pr[x].supervisor # p)
           => Linked(b)
  BY BareQuiet
<1>2. DOMAIN b = DOMAIN pr /\ r = Charged(b, q, m) /\ q \in DOMAIN b
  BY <1>1 DEF Calm
<1> HIDE DEF b
<1>3. /\ r \in Seq(Records) /\ Len(r) = Len(b) /\ Calm(b, r)
      /\ RecordsOK(r, nm) /\ (Linked(b) => Linked(r))
      /\ r[q].charged = m
      /\ \A x \in DOMAIN b \ {q} : r[x].charged = b[x].charged
  <2>1. /\ b \in Seq(Records) /\ RecordsOK(b, nm) /\ q \in DOMAIN b
        /\ m \in Nat /\ m <= MaxRestarts /\ r = Charged(b, q, m)
    BY <1>1, <1>2
  <2> QED BY ONLY <2>1, ChargedIs
<1>4. Calm(pr, r)
  BY <1>1, <1>3, CalmCalm
<1> QED BY <1>1, <1>2, <1>3, <1>4

\* What is to be restarted.
LEMMA DecideFacts ==
  ASSUME TreeInv, NEW t \in Tasks, At(t, "handle", "kids"),
         NEW p, p = Top(t).pid, NEW q, q = proc[p].parent
  PROVE  /\ p \in Pids /\ proc[p].state \in Over /\ q \in {0} \cup Pids /\ q \in Nat
         /\ Up(q) =>
              LET todo == Those(Affected(q, p),
                    {c \in Pids : PolicyAllows(c, proc[p].state = "crashed")})
              IN /\ q \in Pids /\ todo \in Seq(Nat) /\ Len(todo) \in Nat
                 /\ Kids(proc, todo)
                 /\ \A c \in ToSet(todo) : Warranted(proc, q, c, p)
<1>1. /\ Typed /\ Shape /\ FrameOK(proc, Names, Top(t)) /\ Top(t).op = "handle"
  BY AtTop
<1>2. p \in Pids /\ proc[p].state \in Over /\ proc[p].spec.mode # "external"
  BY <1>1 DEF FrameOK, HandleOK, Pids
<1>3. RecordOK(proc, Names, p) /\ proc[p] \in Records
  BY <1>1, <1>2, TheStacks DEF Shape, RecordsOK, Pids
<1>4. q \in {0} \cup Pids /\ q \in Nat
  BY <1>3, RecordFields DEF RecordOK, Pids
<1> DEFINE X == {c \in Pids : PolicyAllows(c, proc[p].state = "crashed")}
           todo == Those(Affected(q, p), X)
<1>5. ASSUME Up(q)
      PROVE  /\ q \in Pids /\ todo \in Seq(Nat) /\ Len(todo) \in Nat
             /\ Kids(proc, todo)
             /\ \A c \in ToSet(todo) : Warranted(proc, q, c, p)
  <2>1. q \in Pids
    BY <1>4, <1>5 DEF Up
  <2>2. /\ Affected(q, p) \in Seq(Nat)
        /\ \A c \in ToSet(Affected(q, p)) :
             /\ c \in ToSet(proc[q].kids) \cup {p}
             /\ c = p \/ proc[q].spec.strategy # "one_for_one"
    BY <1>1, <1>2, <2>1, AffectedAre
  <2>3. /\ todo \in Seq(Nat) /\ ToSet(todo) = ToSet(Affected(q, p)) \cap X
        /\ Len(todo) \in Nat
    BY <2>2, ThoseProperties
  <2>4. RecordOK(proc, Names, q)
    BY <1>1, <2>1 DEF Shape, RecordsOK, Pids
  <2> HIDE DEF todo
  <2>5. ASSUME NEW c \in ToSet(todo)
        PROVE  /\ c \in Pids /\ proc[c].state # "unborn"
               /\ proc[c].spec.mode # "external" /\ Warranted(proc, q, c, p)
    <3>1. /\ c \in Pids /\ PolicyAllows(c, proc[p].state = "crashed")
          /\ c \in ToSet(proc[q].kids) \cup {p}
          /\ c = p \/ proc[q].spec.strategy # "one_for_one"
      BY <2>2, <2>3, <2>5
    <3>2. proc[c].state # "unborn" /\ proc[c].spec.mode # "external"
      BY <3>1, <1>2, <2>4 DEF RecordOK, Kids, Over
    <3>3. /\ proc[c].spec.policy # "temporary"
          /\ proc[c].spec.policy = "transient" => proc[p].state # "exited"
      BY <3>1 DEF PolicyAllows
    <3> QED BY <3>1, <3>2, <3>3 DEF Warranted
  <2> QED BY <2>1, <2>3, <2>5 DEF Kids, Pids
<1> QED BY <1>2, <1>4, <1>5

\* The handler decides on n restarts and charges the supervisor with them.
LEMMA DecideCharges ==
  ASSUME TreeInv, NEW t \in Tasks, At(t, "handle", "kids"), Top(t).todo = <<>>,
         NEW q \in Pids, NEW n \in Nat,
         proc' \in Seq(Records), Len(proc') = Len(proc), Calm(proc, proc'),
         RecordsOK(proc', Names), ~ crossed => Linked(proc'),
         proc'[q].charged = proc[q].charged + n,
         \A x \in Pids \ {q} : proc'[x].charged = proc[x].charged,
         NEW f \in Frames, f.op = "handle", f.pid = Top(t).pid, f.at = "next",
         Len(f.todo) = n, f.parent = q, FrameOK(proc, Names, f),
         NEW s, s = With(t, f),
         stack' = [stack EXCEPT ![t] = s], busy' = {t}, result' = result,
         UNCHANGED <<by_name, restarts, crossed>>
  PROVE  TreeInv'
<1>1. /\ Shape /\ Regular /\ Typed /\ Stacks /\ Books /\ Justified
      /\ stack[t] # <<>> /\ Top(t).op = "handle" /\ Top(t).at = "kids"
      /\ FrameOK(proc, Names, Top(t)) /\ Top(t) \in Frames
  BY AtTop DEF TreeInv
<1>2. s \in Seq(Frames)
  BY <1>1, MovesTyped
<1>3. /\ result' \in {"ok", "raised"}
      /\ restarts' \subseteq [by : Pids, child : Pids, failed : Pids]
  BY <1>1 DEF Typed
<1>4. Quiet(t) /\ stack'[t] = s
  BY <1>1, <1>2, <1>3, QuietIs
<1>5. Pids' = Pids
  BY DEF Pids, Calm
<1>6. Typed' /\ Spared(t) /\ Grows(proc, proc') /\ Names' = Names /\ Tasks' = Tasks
  BY <1>4, QuietSpares DEF Quiet
<1>7. /\ Turned(t, f, f) /\ stack'[t] # <<>> /\ Len(stack'[t]) = Len(stack[t])
      /\ Top(t)' = f /\ Len(stack[t]) \in Nat
  BY <1>1, <1>4, Swapped, TheStacks
<1>8. StackOK(proc', Names, t, stack'[t])
  <2>1. stack[t] \in Seq(Frames) /\ StackOK(proc, Names, t, stack[t])
    BY <1>1, TheStacks DEF Stacks
  <2>2. ASSUME NEW r, r = stack[t]
        PROVE  StackOK(proc, Names, t, Append(Front(r), f))
    <3>1. /\ r \in Seq(Frames) /\ r # <<>> /\ StackOK(proc, Names, t, r)
          /\ f.op = Last(r).op /\ f.pid = Last(r).pid
      BY <2>1, <2>2, <1>1 DEF Top
    <3> QED BY <3>1, StackSwap
  <2>3. StackOK(proc, Names, t, s)
    BY <2>2 DEF With
  <2> QED BY <2>3, <1>4, <1>6, StackKept
<1>9. ~ Starting(t)' /\ ~ Starting(t) /\ TopOK(t)'
  BY <1>1, <1>7 DEF Starting, TopOK, At
<1>10. Shape'
  BY <1>1, <1>4, <1>7, <1>8, <1>9, QuietShape
<1>11. Books'
  <2>1. \A q2 : q2 # q => Owes(f, q2) = 0
    BY DEF Owes
  <2>2. Owes(f, q) <= n
    BY DEF Owes
  <2> QED BY <2>1, <2>2, <1>1, <1>5, <1>6, <1>7, BooksCharge
<1>12. Justified'
  BY <1>1, <1>6, JustStep
<1>13. Regular'
  <2>1. ~ Holds(f, f.pid)
    BY DEF Holds
  <2>2. /\ ~ (Len(stack'[t]) > Len(stack[t]))
        /\ ~ (Len(stack'[t]) < Len(stack[t]))
    BY <1>7
  <2> QED BY <2>1, <2>2, <1>1, <1>4, <1>7, <1>9, QuietRegular
<1> QED BY <1>10, <1>11, <1>12, <1>13 DEF TreeInv

\* _handle_terminal_process decides: nothing to restart, no budget left, or
\* restarts that it charges before the first of them.
LEMMA HandleDecideStep ==
  ASSUME TreeInv, NEW t \in Tasks, HandleDecide(t)
  PROVE  TreeInv'
<1> DEFINE p == Top(t).pid
           q == proc[p].parent
           bare == Bare(proc, p)
           todo == Those(Affected(q, p),
                     {c \in Pids : PolicyAllows(c, proc[p].state = "crashed")})
<1>1. /\ At(t, "handle", "kids") /\ Top(t).todo = <<>>
      /\ UNCHANGED <<by_name, restarts, crossed>>
  BY DEF HandleDecide, history
<1>2. bare = [c \in Pids |->
        [proc[c] EXCEPT !.kids = IF c = p THEN <<>> ELSE @,
                        !.parent = IF c \in ToSet(proc[p].kids) THEN 0 ELSE @]]
  BY DEF Bare, Pids
<1> HIDE DEF bare
<1>3. \/ proc' = bare /\ Return(t, "ok")
      \/ proc' = Unlink(bare, p) /\ Return(t, "ok")
      \/ /\ proc' = Unlink([bare EXCEPT ![q].escalated = TRUE], p)
         /\ Return(t, "ok")
      \/ /\ Up(q) /\ BudgetAllows(q, Len(todo))
         /\ proc' = [bare EXCEPT ![q].charged = @ + Len(todo)]
         /\ Continue(t, With(t, [Top(t) EXCEPT !.at = "next", !.parent = q,
                                               !.todo = todo]))
         /\ result' = result
  BY <1>2 DEF HandleDecide
<1>4. CASE Return(t, "ok") /\ \/ proc' = bare
                              \/ proc' = Unlink(bare, p)
                              \/ proc' = Unlink([bare EXCEPT ![q].escalated = TRUE], p)
  <2> HIDE DEF q
  <2> QED BY <1>1, <1>4, DecideReturns DEF bare
<1>5. CASE /\ Up(q) /\ BudgetAllows(q, Len(todo))
           /\ proc' = [bare EXCEPT ![q].charged = @ + Len(todo)]
           /\ Continue(t, With(t, [Top(t) EXCEPT !.at = "next", !.parent = q,
                                                 !.todo = todo]))
           /\ result' = result
  <2> DEFINE f == [Top(t) EXCEPT !.at = "next", !.parent = q, !.todo = todo]
             n == Len(todo)
             m == bare[q].charged + n
  <2>1. stack' = [stack EXCEPT ![t] = With(t, f)] /\ busy' = {t}
    BY <1>5 DEF Continue
  <2>2. /\ p \in Pids /\ proc[p].state \in Over /\ q \in Pids /\ q \in Nat
        /\ todo \in Seq(Nat) /\ n \in Nat /\ Kids(proc, todo)
        /\ \A c \in ToSet(todo) : Warranted(proc, q, c, p)
    BY <1>1, <1>5, DecideFacts
  <2>3. /\ Shape /\ Regular /\ Typed /\ stack[t] # <<>> /\ Top(t).op = "handle"
        /\ Top(t).at = "kids" /\ Top(t) \in Frames
        /\ FrameOK(proc, Names, Top(t))
    BY <1>1, AtTop
  <2>4. ASSUME ~ crossed, NEW x \in Pids, Supervises(proc, x)
        PROVE  proc[x].supervisor # p
    <3>1. Holds(Top(t), p) /\ ~ Up(p)
      BY <2>2, <2>3 DEF Holds, Up, Over
    <3> HIDE DEF p
    <3> QED BY <3>1, <2>2, <2>3, <2>4, <1>1, NoneLeft
  <2>5. proc \in Seq(Records) /\ RecordsOK(proc, Names) /\ (~ crossed => Linked(proc))
    BY <2>3 DEF Shape, Typed, Regular
  <2>6. /\ DOMAIN bare = Pids /\ bare[q].charged = proc[q].charged
        /\ proc[q].charged \in Nat /\ proc[q].charged + n <= MaxRestarts
    <3>1. bare \in Seq(Records) /\ DOMAIN bare = DOMAIN proc
          /\ \A x \in DOMAIN proc : bare[x].charged = proc[x].charged
      <4>1. p \in DOMAIN proc
        BY <2>2 DEF Pids
      <4> HIDE DEF p
      <4>2. /\ bare \in Seq(Records) /\ Calm(proc, bare)
            /\ \A x \in DOMAIN proc : bare[x].charged = proc[x].charged
        BY <4>1, <2>5, BareQuiet DEF bare
      <4> QED BY <4>2 DEF Calm
    <3>2. proc[q] \in Records /\ q \in DOMAIN proc
      BY <2>2, <2>3, TheStacks DEF Pids
    <3> HIDE DEF q, p
    <3>3. proc[q].charged \in Nat
      BY <3>2, RecordFields
    <3> QED BY <3>1, <3>2, <3>3, <1>5 DEF BudgetAllows, Pids
  <2>7. m \in Nat /\ m <= MaxRestarts /\ m = proc[q].charged + n
    <3> DEFINE a == proc[q].charged
    <3> HIDE DEF n, a
    <3>1. m = a + n
      BY <2>6 DEF a
    <3>2. a + n <= MaxRestarts /\ a \in Nat /\ n \in Nat
      BY <2>2, <2>6 DEF a
    <3> HIDE DEF m
    <3>3. m \in Nat /\ m <= MaxRestarts
      BY <3>1, <3>2
    <3> QED BY <3>1, <3>3 DEF a
  <2>8. proc' = Charged(Bare(proc, p), q, m)
    BY <1>5 DEF Charged, bare
  <2>9. /\ proc' \in Seq(Records) /\ Len(proc') = Len(proc) /\ Calm(proc, proc')
        /\ RecordsOK(proc', Names)
        /\ Linked(proc) /\ (\A x \in DOMAIN proc :
                              Supervises(proc, x) => proc[x].supervisor # p)
             => Linked(proc')
        /\ proc'[q].charged = m
        /\ \A x \in DOMAIN proc \ {q} : proc'[x].charged = proc[x].charged
    <3>1. p \in DOMAIN proc /\ q \in DOMAIN proc
      BY <2>2 DEF Pids
    <3> HIDE DEF m, q, p
    <3>2. proc \in Seq(Records) /\ RecordsOK(proc, Names) /\ m \in Nat /\ m <= MaxRestarts
      BY <2>5, <2>7
    <3> QED BY ONLY <3>1, <3>2, <2>8, DecideRecords
  <2>10. ~ crossed => Linked(proc')
    BY <2>4, <2>5, <2>9 DEF Pids
  <2>11. /\ f \in Frames /\ f.op = "handle" /\ f.pid = p /\ f.at = "next"
         /\ f.todo = todo /\ f.parent = q
    <3>1. q \in Nat /\ todo \in Seq(Nat) /\ Top(t) \in Frames /\ "next" \in Places
          /\ f = [Top(t) EXCEPT !.at = "next", !.parent = q, !.todo = todo]
      BY <2>2, <2>3 DEF Places
    <3> HIDE DEF f, q, todo
    <3>2. /\ f \in Frames /\ f.op = Top(t).op /\ f.pid = Top(t).pid
          /\ f.at = "next" /\ f.todo = todo /\ f.parent = q
      BY ONLY <3>1 DEF Frames
    <3> QED BY <3>2, <2>3
  <2>12. FrameOK(proc, Names, f)
    <3>1. proc[p].spec.mode # "external"
      BY <2>3 DEF FrameOK, HandleOK
    <3> HIDE DEF f, todo, q, p
    <3> QED BY <3>1, <2>2, <2>3, <2>11 DEF FrameOK, HandleOK, Pids
  <2>13. /\ proc'[q].charged = proc[q].charged + n
         /\ \A x \in Pids \ {q} : proc'[x].charged = proc[x].charged
    BY <2>7, <2>9 DEF Pids
  <2> DEFINE s == With(t, f)
  <2> HIDE DEF f, todo, q, p, n, m, s
  <2>14. /\ q \in Pids /\ n \in Nat /\ Len(f.todo) = n /\ f.pid = Top(t).pid
         /\ s = With(t, f) /\ stack' = [stack EXCEPT ![t] = s]
         /\ busy' = {t} /\ result' = result
    BY <1>5, <2>1, <2>2, <2>11 DEF n, s, p
  <2> QED BY <1>1, <2>9, <2>10, <2>11, <2>12, <2>13, <2>14, DecideCharges
<1> QED BY <1>3, <1>4, <1>5

-----------------------------------------------------------------------------
(* Other steps: what they have in common *)

\* The last frame after it has gone on, alone or waiting for another.
LEMMA SwapStack ==
  ASSUME Typed, Stacks, NEW pr, Grows(proc, pr), NEW t \in Tasks,
         stack[t] # <<>>, NEW f \in Frames, f.op = Top(t).op, f.pid = Top(t).pid,
         FrameOK(pr, Names, f)
  PROVE  /\ StackOK(pr, Names, t, With(t, f)) /\ With(t, f) \in Seq(Frames)
         /\ With(t, f) # <<>> /\ Last(With(t, f)) = f
<1>1. stack[t] \in Seq(Frames) /\ StackOK(proc, Names, t, stack[t])
  BY TheStacks DEF Stacks
<1> DEFINE s == stack[t]
<1>2. s \in Seq(Frames) /\ s # <<>> /\ f.op = Last(s).op /\ f.pid = Last(s).pid
  BY <1>1 DEF Top
<1>3. StackOK(pr, Names, t, s)
  BY <1>1, StackKept
<1>4. With(t, f) = Append(Front(s), f)
  BY DEF With
<1> HIDE DEF s
<1>5. StackOK(pr, Names, t, Append(Front(s), f))
  BY <1>2, <1>3, StackSwap
<1>6. Append(Front(s), f) \in Seq(Frames) /\ Append(Front(s), f) # <<>>
      /\ Last(Append(Front(s), f)) = f
  BY <1>2, OtherTop
<1> QED BY <1>4, <1>5, <1>6

\* The frames of a task that has called something.
LEMMA PushStack ==
  ASSUME Typed, Stacks, NEW pr, Grows(proc, pr), NEW t \in Tasks,
         stack[t] # <<>>, NEW f \in Frames, f.op = Top(t).op, f.pid = Top(t).pid,
         FrameOK(pr, Names, f), NEW g \in Frames, FrameOK(pr, Names, g),
         Awaiting(f, g)
  PROVE  /\ StackOK(pr, Names, t, Append(With(t, f), g))
         /\ Append(With(t, f), g) \in Seq(Frames)
<1> DEFINE s == With(t, f)
<1>1. /\ StackOK(pr, Names, t, s) /\ s \in Seq(Frames) /\ s # <<>> /\ Last(s) = f
  BY SwapStack
<1> HIDE DEF s
<1>2. StackOK(pr, Names, t, Append(s, g))
  BY <1>1, StackPush
<1>3. Append(s, g) \in Seq(Frames)
  BY <1>1, OneMore
<1> QED BY <1>2, <1>3 DEF s

\* A step of a task that leaves all others alone.
LEMMA OneTask ==
  ASSUME Typed, NEW t \in Tasks, NEW s \in Seq(Frames),
         stack' = [stack EXCEPT ![t] = s],
         proc' \in Seq(Records), Len(proc') = Len(proc),
         busy' = {} \/ busy' = {t}, result' \in {"ok", "raised"},
         by_name' \in [Names -> 0 .. Len(proc)],
         restarts' \subseteq [by : Pids, child : Pids, failed : Pids],
         crossed' \in BOOLEAN
  PROVE  /\ Typed' /\ Tasks' = Tasks /\ Pids' = Pids /\ Names' = Names
         /\ stack'[t] = s /\ \A u \in Tasks \ {t} : stack'[u] = stack[u]
         /\ Spared(t) /\ Mild(t)
<1>1. Tasks = 0 .. Len(proc) /\ Pids = 1 .. Len(proc)
  BY TheStacks
<1>2. /\ Tasks' = Tasks /\ stack'[t] = s
      /\ \A u \in Tasks \ {t} : stack'[u] = stack[u]
  BY DEF Tasks
<1>3. Pids' = Pids
  BY <1>1 DEF Pids
<1>4. Names' = Names /\ by_name' \in [Names' -> 0 .. Len(proc')]
  BY DEF Names
<1>5. stack' \in [0 .. Len(proc') -> Seq(Frames)]
  <2>1. stack \in [0 .. Len(proc) -> Seq(Frames)]
    BY DEF Typed
  <2> QED BY <2>1
<1>6. busy' = {} \/ \E u \in Tasks' : busy' = {u}
  BY <1>2
<1>7. \A x \in Specs : x.name \in Names'
  BY <1>4 DEF Typed
<1>8. Typed'
  BY <1>3, <1>4, <1>5, <1>6, <1>7 DEF Typed
<1> QED BY <1>2, <1>3, <1>4, <1>8 DEF Spared, Mild

\* One process, e, changes what it is, or is new.
LEMMA BasesKept ==
  ASSUME Shape, Typed', Grows(proc, proc'), NEW e,
         \A x \in Pids' \ {e} :
           /\ x \in Pids /\ proc'[x].state = proc[x].state
           /\ stack[x] = <<>> => stack'[x] = <<>>
           /\ Bodily(x)' => Bodily(x)
           /\ Agent(x)' <=> Agent(x),
         e \in Pids' =>
           /\ proc'[e].state = "unborn" \/ proc'[e].spec.mode = "external" =>
                stack'[e] = <<>>
           /\ Bodily(e)' => proc'[e].state \in Alive
           /\ Agent(e)' => proc'[e].state = "running"
           /\ proc'[e].spec.mode = "external" /\ proc'[e].state \notin Over =>
                Agent(e)'
  PROVE  Bodies' /\ Agents'
<1>1. Bodies /\ Agents
  BY DEF Shape
<1>2. \A x \in Pids' \ {e} : x \in Pids /\ proc'[x].spec = proc[x].spec
  BY DEF Grows, Pids
<1>3. ASSUME NEW x \in Pids'
      PROVE  /\ proc'[x].state = "unborn" \/ proc'[x].spec.mode = "external" =>
                  stack'[x] = <<>>
             /\ Bodily(x)' => proc'[x].state \in Alive
             /\ Agent(x)' => proc'[x].state = "running"
             /\ proc'[x].spec.mode = "external" /\ proc'[x].state \notin Over =>
                  Agent(x)'
  <2>1. CASE x = e
    BY <2>1
  <2>2. CASE x # e
    BY <2>2, <1>1, <1>2 DEF Bodies, Agents
  <2> QED BY <2>1, <2>2
<1> QED BY <1>3 DEF Bodies, Agents

\* A turn of a task leaves every task in the call it began with.
LEMMA TurnedBases ==
  ASSUME Typed, Typed', NEW t \in Tasks, t \in Tasks', NEW f, NEW g,
         Turned(t, f, g), Top(t).op # "external" \/ stack'[t] # <<>>,
         \A u \in Tasks \ {t} : stack'[u] = stack[u], NEW x \in Pids
  PROVE  /\ stack[x] = <<>> => stack'[x] = <<>>
         /\ Bodily(x)' => Bodily(x)
         /\ \A y : Agent(y)' <=> Agent(y)
<1>1. /\ stack'[t] # <<>> => /\ stack'[t][1].op = stack[t][1].op
                             /\ stack'[t][1].pid = stack[t][1].pid
      /\ stack'[t] = <<>> => Top(t) = stack[t][1]
  BY TurnedBottom
<1>2. stack[t] # <<>> /\ x \in Tasks /\ 0 \in Tasks
  BY TheStacks DEF Turned
<1>3. stack[x] = <<>> => stack'[x] = <<>>
  BY <1>2
<1>4. Bodily(x)' => Bodily(x)
  <2>1. CASE x = t
    BY <2>1, <1>1, <1>2 DEF Bodily
  <2>2. CASE x # t
    BY <2>2, <1>2 DEF Bodily
  <2> QED BY <2>1, <2>2
<1>5. ASSUME NEW y PROVE Agent(y)' <=> Agent(y)
  <2>1. CASE t = 0
    BY <2>1, <1>1, <1>2 DEF Agent
  <2>2. CASE t # 0
    BY <2>2, <1>2 DEF Agent
  <2> QED BY <2>1, <2>2
<1> QED BY <1>3, <1>4, <1>5

\* Frame n of t comes to hold p, which none held.
Comes(t, n, p) ==
  /\ \A u \in Tasks : \A i \in DOMAIN stack[u] : ~ Holds(stack[u][i], p)
  /\ \A u \in Tasks' : \A i \in DOMAIN stack'[u] : \A x :
       Holds(stack'[u][i], x) =>
         \/ u = t /\ i = n /\ x = p
         \/ /\ u \in Tasks /\ i \in DOMAIN stack[u] /\ Holds(stack[u][i], x)
            /\ stack'[u][i].op = stack[u][i].op

\* One frame more stops a process that no other did.
LEMMA SoleAdds ==
  ASSUME Typed, Stacks, Sole, NEW t, NEW n, NEW p, Comes(t, n, p),
         \A i \in DOMAIN stack'[t] :
           i = n /\ stack'[t][i].op = "kill" => proc'[p].state = "stopping",
         \A x \in Pids : x # p /\ proc[x].state = "stopping" =>
           proc'[x].state = "stopping"
  PROVE  Sole'
<1>1. ASSUME NEW u \in Tasks', NEW i \in DOMAIN stack'[u],
             stack'[u][i].op = "kill", Holds(stack'[u][i], stack'[u][i].pid)
      PROVE  proc'[stack'[u][i].pid].state = "stopping"
  <2> DEFINE x == stack'[u][i].pid
  <2>1. CASE u = t /\ i = n /\ x = p
    BY <1>1, <2>1 DEF Comes
  <2>2. CASE /\ u \in Tasks /\ i \in DOMAIN stack[u] /\ Holds(stack[u][i], x)
             /\ stack'[u][i].op = stack[u][i].op
    <3>1. stack[u][i].pid = x /\ stack[u][i].op = "kill" /\ x # p
      BY <1>1, <2>2 DEF Holds, Comes
    <3>2. proc[x].state = "stopping"
      BY <2>2, <3>1 DEF Sole
    <3>3. FrameOK(proc, Names, stack[u][i])
      BY <2>2 DEF Stacks, StackOK
    <3>4. x \in Pids
      BY <3>1, <3>3 DEF FrameOK, KillOK, Pids
    <3> QED BY <3>1, <3>2, <3>4
  <2>3. \/ u = t /\ i = n /\ x = p
        \/ /\ u \in Tasks /\ i \in DOMAIN stack[u] /\ Holds(stack[u][i], x)
           /\ stack'[u][i].op = stack[u][i].op
    BY <1>1 DEF Comes
  <2> QED BY <2>1, <2>2, <2>3
<1>2. ASSUME NEW u \in Tasks', NEW i \in DOMAIN stack'[u], NEW x,
             Holds(stack'[u][i], x), x # p
      PROVE  u \in Tasks /\ i \in DOMAIN stack[u] /\ Holds(stack[u][i], x) /\ x \in Pids
  <2>1. u \in Tasks /\ i \in DOMAIN stack[u] /\ Holds(stack[u][i], x)
    BY <1>2 DEF Comes
  <2>2. FrameOK(proc, Names, stack[u][i])
    BY <2>1 DEF Stacks, StackOK
  <2> QED BY <2>1, <2>2 DEF Holds, FrameOK, KillOK, HandleOK, Pids
<1>3. ASSUME NEW u \in Tasks', NEW v \in Tasks', NEW i \in DOMAIN stack'[u],
             NEW j \in DOMAIN stack'[v], NEW x \in Pids',
             Holds(stack'[u][i], x), Holds(stack'[v][j], x)
      PROVE  u = v /\ i = j
  <2>1. CASE x = p
    BY <1>3, <2>1 DEF Comes
  <2>2. CASE x # p
    BY <1>2, <1>3, <2>2 DEF Sole
  <2> QED BY <2>1, <2>2
<1> QED BY <1>1, <1>3 DEF Sole

\* A process gives its name back, ...
LEMMA NameFreed ==
  ASSUME Typed, Named, NEW e \in Live, Pids' = Pids,
         proc[e].spec.name \in Names,
         by_name' = [by_name EXCEPT ![proc[e].spec.name] = 0],
         \A x \in Pids : proc'[x].spec = proc[x].spec,
         \A x \in Pids \ {e} : proc'[x].state = proc[x].state,
         proc'[e].state \in Over
  PROVE  Named'
<1>1. e \in Pids /\ by_name[proc[e].spec.name] = e
  BY DEF Live, Named
<1>2. 0 \notin Pids
  BY TheStacks
<1>3. ASSUME NEW x \in Pids PROVE x \in Live' <=> by_name'[proc'[x].spec.name] = x
  <2>1. CASE x = e
    <3>1. x \notin Live'
      BY <2>1 DEF Live, Over
    <3>2. by_name'[proc[x].spec.name] = 0
      BY <2>1 DEF Names
    <3> QED BY <3>1, <3>2, <1>2
  <2>2. CASE x # e
    <3>1. x \in Live' <=> x \in Live
      BY <2>2 DEF Live
    <3>2. CASE proc[x].spec.name = proc[e].spec.name
      <4>1. by_name'[proc'[x].spec.name] = 0
        BY <3>2 DEF Names
      <4>2. x \notin Live
        BY <1>1, <2>2, <3>2 DEF Named
      <4> QED BY <4>1, <4>2, <3>1, <1>2
    <3>3. CASE proc[x].spec.name # proc[e].spec.name
      BY <3>1, <3>3 DEF Named
    <3> QED BY <3>2, <3>3
  <2> QED BY <2>1, <2>2
<1> QED BY <1>3 DEF Named

\* ... or takes a name that nobody has.
LEMMA NameTaken ==
  ASSUME Typed, Named, NEW n \in Names, by_name[n] = 0, NEW e \in Pids',
         proc'[e].spec.name = n, proc'[e].state \in Alive,
         by_name' = [by_name EXCEPT ![n] = e],
         \A x \in Pids' \ {e} : /\ x \in Pids /\ proc'[x].spec = proc[x].spec
                                /\ proc'[x].state = proc[x].state
  PROVE  Named'
<1>1. 0 \notin Pids
  BY TheStacks
<1>2. ASSUME NEW x \in Pids'
      PROVE  x \in Live' <=> by_name'[proc'[x].spec.name] = x
  <2>1. CASE x = e
    BY <2>1 DEF Live, Alive, Names
  <2>2. CASE x # e
    <3>1. x \in Pids /\ (x \in Live' <=> x \in Live)
      BY <2>2 DEF Live
    <3>2. CASE proc[x].spec.name = n
      <4>1. by_name'[proc'[x].spec.name] = e
        BY <2>2, <3>2 DEF Names
      <4>2. x \notin Live
        BY <3>1, <3>2, <1>1 DEF Named
      <4> QED BY <4>1, <4>2, <3>1, <2>2
    <3>3. CASE proc[x].spec.name # n
      BY <3>1, <3>3, <2>2 DEF Named
    <3> QED BY <3>2, <3>3
  <2> QED BY <2>1, <2>2
<1> QED BY <1>2 DEF Named

\* Every operating system process has a record or a start that sees to it.
LEMMA ReapedStep ==
  ASSUME Typed, Stacks, Reaped, NEW t \in Tasks, Mild(t), t \in Tasks',
         \A x \in Pids' : proc'[x].os = "alive" =>
           \/ proc'[x].state \in Alive
           \/ Starting(t)' /\ Top(t)'.new = x
           \/ /\ x \in Pids /\ proc[x].os = "alive" /\ proc[x].state \notin Alive
              /\ ~ (Starting(t) /\ Top(t).new = x)
  PROVE  Reaped'
<1> SUFFICES ASSUME NEW x \in Pids', proc'[x].os = "alive",
                    proc'[x].state \notin Alive,
                    ~ (Starting(t)' /\ Top(t)'.new = x)
             PROVE  \E u \in Tasks' : Starting(u)' /\ Top(u)'.new = x
  BY DEF Reaped
<1>1. /\ x \in Pids /\ proc[x].os = "alive" /\ proc[x].state \notin Alive
      /\ ~ (Starting(t) /\ Top(t).new = x)
  OBVIOUS
<1>2. PICK u \in Tasks : Starting(u) /\ Top(u).new = x
  BY <1>1 DEF Reaped
<1>3. u # t
  BY <1>1, <1>2
<1>4. ~ Bodily(u)
  <2> SUFFICES ASSUME Bodily(u) PROVE FALSE
    OBVIOUS
  <2>1. stack[u] \in Seq(Frames) /\ StackOK(proc, Names, u, stack[u])
    BY TheStacks DEF Stacks
  <2>2. Last(stack[u]).op = "body"
    BY <2>1, BodyAlone DEF Bodily
  <2> QED BY <2>2, <1>2 DEF Starting, Top
<1>5. u \in Tasks' /\ stack'[u] = stack[u]
  BY <1>2, <1>3, <1>4 DEF Mild, Starting
<1> QED BY <1>2, <1>5 DEF Starting, Top

\* A task that has no call under way goes on: those that are to be killed are.
LEMMA DoomedBeside ==
  ASSUME Typed, Stacks, NEW t \in Tasks, Mild(t),
         stack[t] = <<>> \/ Bodily(t), NEW p, NEW q, Doomed(q, p)
  PROVE  Doomed(q, p)'
<1>1. PICK u \in Tasks : \E i \in DOMAIN stack[u] :
        stack[u][i].pid = q /\ Takes(stack[u], i, p)
  BY DEF Doomed
<1>2. PICK i \in DOMAIN stack[u] : stack[u][i].pid = q /\ Takes(stack[u], i, p)
  BY <1>1
<1>3. stack[u] # <<>> /\ stack[u] \in Seq(Frames) /\ stack[u][i].op # "body"
  BY <1>2, TheStacks DEF Takes
<1>4. ~ Bodily(u)
  <2> SUFFICES ASSUME Bodily(u) PROVE FALSE
    OBVIOUS
  <2>1. StackOK(proc, Names, u, stack[u]) /\ stack[u][1].op = "body"
    BY DEF Stacks, Bodily
  <2>2. Len(stack[u]) = 1
    BY <1>3, <2>1, BodyAlone
  <2>3. i = 1
    BY <2>2, <1>3
  <2> QED BY <2>1, <2>3, <1>3
<1>5. u \in Tasks' /\ stack'[u] = stack[u]
  BY <1>3, <1>4 DEF Mild
<1> QED BY <1>2, <1>5 DEF Doomed, Takes

-----------------------------------------------------------------------------
(* The other steps of kill() *)

\* The state of a process changes, no more.
Turns(pr, p, s) == [pr EXCEPT ![p].state = s]

\* The records after one of them has changed its state.
LEMMA StateIs ==
  ASSUME NEW pr \in Seq(Records), NEW nm, RecordsOK(pr, nm), NEW p \in DOMAIN pr,
         NEW s \in Alive \cup Over, pr[p].state # "unborn",
         pr[p].state \in Over => s \in Over /\ s # "exited",
         NEW r, r = Turns(pr, p, s)
  PROVE  /\ r \in Seq(Records) /\ Len(r) = Len(pr) /\ DOMAIN r = DOMAIN pr
         /\ Grows(pr, r) /\ RecordsOK(r, nm)
         /\ r[p].state = s /\ \A x \in DOMAIN pr \ {p} : r[x].state = pr[x].state
         /\ \A x \in DOMAIN pr :
              /\ r[x].spec = pr[x].spec /\ r[x].supervisor = pr[x].supervisor
              /\ r[x].parent = pr[x].parent /\ r[x].kids = pr[x].kids
              /\ r[x].os = pr[x].os /\ r[x].charged = pr[x].charged
<1>1. DOMAIN r = DOMAIN pr /\ r = [x \in DOMAIN pr |-> r[x]]
  BY DEF Turns
<1>2. s \in {"unborn"} \cup Alive \cup Over /\ s # "unborn"
  BY DEF Alive, Over
<1>3. ASSUME NEW x \in DOMAIN pr
      PROVE  /\ r[x] \in Records
             /\ r[x].spec = pr[x].spec /\ r[x].supervisor = pr[x].supervisor
             /\ r[x].parent = pr[x].parent /\ r[x].kids = pr[x].kids
             /\ r[x].os = pr[x].os /\ r[x].charged = pr[x].charged
             /\ r[x].state = IF x = p THEN s ELSE pr[x].state
  <2>1. ASSUME NEW a, a = pr[x], NEW b, b = r[x]
        PROVE  /\ b \in Records
               /\ b.spec = a.spec /\ b.supervisor = a.supervisor
               /\ b.parent = a.parent /\ b.kids = a.kids
               /\ b.os = a.os /\ b.charged = a.charged
               /\ b.state = IF x = p THEN s ELSE a.state
    <3>1. a \in Records
      BY <2>1
    <3>2. b = IF x = p THEN [a EXCEPT !.state = s] ELSE a
      BY <2>1 DEF Turns
    <3> QED BY <3>1, <3>2, <1>2 DEF Records
  <2> QED BY <2>1
<1>4. r \in Seq(Records) /\ Len(r) = Len(pr)
  BY <1>1, <1>3, AsLong
<1>5. Grows(pr, r)
  BY <1>1, <1>2, <1>3 DEF Grows
<1>6. ASSUME NEW x \in DOMAIN pr PROVE RecordOK(r, nm, x)
  <2>1. RecordOK(pr, nm, x)
    BY DEF RecordsOK
  <2>2. Kids(r, r[x].kids)
    BY <2>1, <1>3, <1>5, KidsKept DEF RecordOK
  <2>3. \A c \in ToSet(r[x].kids) : r[c].state \in Over \/ r[c].supervisor = x
    BY <2>1, <1>3, <1>5 DEF RecordOK, Kids, Grows
  <2>4. r[x].state = "unborn" => pr[x].state = "unborn"
    BY <1>2, <1>3
  <2> QED BY <2>1, <2>2, <2>3, <2>4, <1>1, <1>3 DEF RecordOK
<1> QED BY <1>1, <1>3, <1>4, <1>5, <1>6 DEF RecordsOK

\* The trees are as they were, and nobody who is alive was not.
Alikened(pr, r) ==
  /\ DOMAIN r = DOMAIN pr
  /\ \A x \in DOMAIN pr :
       /\ pr[x].supervisor \in {0} \cup DOMAIN pr
       /\ r[x].state \in Alive => pr[x].state \in Alive
       /\ r[x].spec = pr[x].spec /\ r[x].supervisor = pr[x].supervisor
       /\ r[x].parent = pr[x].parent /\ r[x].kids = pr[x].kids

\* Processes that are live are on the lists they were on.
LEMMA LinkedAlive ==
  ASSUME NEW pr, NEW r, Alikened(pr, r), Linked(pr)
  PROVE  Linked(r)
BY DEF Alikened, Linked, Supervises

\* kill() begins with a process that is live: it is stopping from now on, and so
\* this frame answers for its children.
LEMMA KillBegins ==
  ASSUME TreeInv, NEW t \in Tasks, KillEnter(t),
         proc[Top(t).pid].state \notin Over \cup {"unborn"}
  PROVE  TreeInv'
<1> DEFINE p == Top(t).pid
           n == Len(stack[t])
           f == [Top(t) EXCEPT !.at = "kids", !.todo = proc[p].kids]
           s == With(t, f)
<1>1. At(t, "kill", "enter")
  BY DEF KillEnter
<1>2. /\ Shape /\ Regular /\ Typed /\ Stacks /\ stack[t] # <<>>
      /\ Top(t) \in Frames /\ Top(t).op = "kill" /\ Top(t).at = "enter"
      /\ FrameOK(proc, Names, Top(t)) /\ Books /\ Justified /\ n \in Nat
      /\ n \in DOMAIN stack[t] /\ Top(t) = stack[t][n]
  BY <1>1, AtTop, TheTop, TheStacks DEF TreeInv
<1>3. /\ p \in Pids /\ proc[p].state \in Alive /\ proc[p].spec.mode # "external"
      /\ p \in DOMAIN proc /\ proc[p] \in Records /\ RecordOK(proc, Names, p)
      /\ proc[p].kids \in Seq(Nat)
  <2>1. p \in Pids /\ (proc[p].spec.mode = "external" => proc[p].state \in Over)
    BY <1>2 DEF FrameOK, KillOK, Pids
  <2>2. proc[p] \in Records /\ RecordOK(proc, Names, p)
    BY <2>1, <1>2, TheStacks DEF Shape, RecordsOK, Pids
  <2>3. proc[p].state \in Alive /\ proc[p].kids \in Seq(Nat)
    BY <2>2, RecordFields
  <2> QED BY <2>1, <2>2, <2>3 DEF Pids
<1>4. /\ proc' = [proc EXCEPT ![p].state = "stopping"]
      /\ stack' = [stack EXCEPT ![t] = s] /\ busy' = {t} /\ result' = result
      /\ crossed' = (crossed \/ proc[p].state = "stopping")
      /\ by_name' = by_name /\ restarts' = restarts
  BY DEF KillEnter, Continue
<1>5. /\ proc' \in Seq(Records) /\ Len(proc') = Len(proc) /\ DOMAIN proc' = DOMAIN proc
      /\ Grows(proc, proc') /\ RecordsOK(proc', Names)
      /\ proc'[p].state = "stopping"
      /\ \A x \in DOMAIN proc \ {p} : proc'[x].state = proc[x].state
      /\ \A x \in DOMAIN proc :
           /\ proc'[x].spec = proc[x].spec
           /\ proc'[x].supervisor = proc[x].supervisor
           /\ proc'[x].parent = proc[x].parent /\ proc'[x].kids = proc[x].kids
           /\ proc'[x].os = proc[x].os /\ proc'[x].charged = proc[x].charged
  <2>1. /\ proc \in Seq(Records) /\ RecordsOK(proc, Names) /\ p \in DOMAIN proc
        /\ "stopping" \in Alive \cup Over /\ proc[p].state # "unborn"
        /\ proc[p].state \in Over => "stopping" \in Over /\ "stopping" # "exited"
        /\ proc' = Turns(proc, p, "stopping")
    BY <1>2, <1>3, <1>4 DEF Shape, Typed, Alive, Over, Turns
  <2> HIDE DEF p
  <2> QED BY ONLY <2>1, StateIs
<1>6. /\ f \in Frames /\ f.op = "kill" /\ f.pid = p /\ f.at = "kids"
      /\ f.todo = proc[p].kids
  <2>1. "kids" \in Places
    BY DEF Places
  <2> DEFINE l == proc[p].kids
  <2>2. l \in Seq(Nat) /\ f = [Top(t) EXCEPT !.at = "kids", !.todo = l]
    BY <1>3
  <2> HIDE DEF l, f
  <2>3. /\ f \in Frames /\ f.op = Top(t).op /\ f.pid = Top(t).pid
        /\ f.at = "kids" /\ f.todo = l
    BY ONLY <2>1, <2>2, <1>2 DEF Frames
  <2> QED BY <2>3, <1>2 DEF l
<1> HIDE DEF f
<1>7. FrameOK(proc', Names, f)
  <2>1. Kids(proc', f.todo)
    BY <1>3, <1>5, <1>6, KidsKept DEF RecordOK
  <2> QED BY <2>1, <1>3, <1>5, <1>6 DEF FrameOK, KillOK
<1>8. /\ StackOK(proc', Names, t, s) /\ s \in Seq(Frames)
      /\ Last(s) = f /\ s # <<>>
  BY <1>2, <1>5, <1>6, <1>7, SwapStack
<1>9. /\ Typed' /\ Tasks' = Tasks /\ Pids' = Pids /\ Names' = Names
      /\ stack'[t] = s /\ (\A u \in Tasks \ {t} : stack'[u] = stack[u])
      /\ Spared(t) /\ Mild(t)
  <2>1. /\ by_name' \in [Names -> 0 .. Len(proc)] /\ crossed' \in BOOLEAN
        /\ restarts' \subseteq [by : Pids, child : Pids, failed : Pids]
        /\ result' \in {"ok", "raised"}
    BY <1>2, <1>4 DEF Typed
  <2> HIDE DEF s
  <2> QED BY <2>1, <1>2, <1>4, <1>5, <1>8, OneTask
<1>10. /\ Turned(t, f, f) /\ Len(stack'[t]) = n /\ Top(t)' = f
       /\ stack'[t][n] = f /\ n \in DOMAIN stack'[t]
       /\ \A i \in DOMAIN stack'[t] : i # n =>
            i \in DOMAIN stack[t] /\ stack'[t][i] = stack[t][i]
  <2>1. /\ Turned(t, f, f) /\ Len(stack'[t]) = n /\ Top(t)' = f
    BY <1>2, <1>6, <1>9, Swapped
  <2>2. DOMAIN stack'[t] = 1 .. n /\ DOMAIN stack[t] = 1 .. n
    BY <2>1, <1>2, <1>9, TheStacks, StacksThen
  <2> QED BY <2>1, <2>2, <1>2 DEF Turned
<1> HIDE DEF s
<1>11. ~ Starting(t)' /\ ~ Starting(t) /\ TopOK(t)'
  BY <1>2, <1>6, <1>10 DEF Starting, TopOK, At
<1>12. Bodies' /\ Agents'
  <2>1. \A x \in Pids : /\ stack[x] = <<>> => stack'[x] = <<>>
                        /\ Bodily(x)' => Bodily(x)
                        /\ \A y : Agent(y)' <=> Agent(y)
    BY <1>2, <1>6, <1>9, <1>10, TurnedBases
  <2>2. \A x \in Pids \ {p} : proc'[x].state = proc[x].state
    BY <1>5 DEF Pids
  <2>3. ~ Agent(p)
    <3> SUFFICES ASSUME Agent(p) PROVE FALSE
      OBVIOUS
    <3>1. StackOK(proc, Names, 0, stack[0]) /\ 1 \in DOMAIN stack[0]
      BY <1>2, TheStacks DEF Stacks, Agent
    <3>2. FrameOK(proc, Names, stack[0][1])
      BY <3>1 DEF StackOK
    <3> QED BY <3>2, <1>3 DEF FrameOK, ExternalOK, Agent
  <2>4. proc'[p].state \in Alive /\ proc'[p].state # "unborn"
        /\ proc'[p].spec.mode # "external"
    BY <1>3, <1>5 DEF Alive, Pids
  <2> HIDE DEF p
  <2> QED BY <2>1, <2>2, <2>3, <2>4, <1>2, <1>3, <1>5, <1>9, BasesKept
<1>13. Shape'
  <2>1. \A x \in Pids : proc[x].state = "unborn" =>
          proc'[x].state = "unborn" \/ (Starting(t) /\ Top(t).new = x)
    BY <1>3, <1>5 DEF Pids, Alive
  <2>2. \A x \in Pids \ {t} :
          stack[x] = <<>> /\ proc[x].state # "unborn" => stack'[x] = <<>>
    BY <1>2, <1>9, TheStacks
  <2> QED BY <2>1, <2>2, <1>2, <1>5, <1>8, <1>9, <1>11, <1>12, ShapeKept
<1>14. Books' /\ Justified'
  <2>1. NoMoreOwed
    <3>1. \A q : Owes(f, q) = 0 /\ Owes(Top(t), q) = 0
      BY <1>2, <1>6 DEF Owes
    <3>2. (\A q : Owes(f, q) <= Owes(Top(t), q)) /\ ~ (Len(stack'[t]) > Len(stack[t]))
      BY <3>1, <1>2, <1>10
    <3> QED BY <3>2, <1>2, <1>6, <1>9, <1>10, OwedStep
  <2>2. \A q \in Pids : proc'[q].charged = proc[q].charged
    BY <1>5 DEF Pids
  <2> QED BY <2>1, <2>2, <1>2, <1>4, <1>5, <1>9, BooksStep, JustStep
<1>15. Regular'
  <2> SUFFICES ASSUME ~ crossed'
               PROVE  Sole' /\ Named' /\ Linked(proc') /\ Watched' /\ Reaped'
    BY DEF Regular
  <2>1. /\ Sole /\ Named /\ Linked(proc) /\ Watched /\ Reaped
        /\ proc[p].state # "stopping" /\ Up(p)
    <3>1. ~ crossed /\ proc[p].state # "stopping"
      BY <1>4
    <3>2. p # 0 /\ proc[p].state \in Alive
      BY <1>2, <1>3, TheStacks
    <3> QED BY <3>1, <3>2, <1>2 DEF Regular, Up, Alive
  <2>2. Sole'
    <3>1. ASSUME NEW u \in Tasks, NEW i \in DOMAIN stack[u], Holds(stack[u][i], p)
          PROVE  FALSE
      <4>1. FrameOK(proc, Names, stack[u][i])
        BY <1>2 DEF Stacks, StackOK
      <4>2. stack[u][i].op = "kill" /\ stack[u][i].pid = p
        BY <3>1, <4>1, <1>3 DEF Holds, FrameOK, HandleOK, Alive, Over
      <4> QED BY <2>1, <3>1, <4>2 DEF Sole
    <3>2. ASSUME NEW u \in Tasks', NEW i \in DOMAIN stack'[u], NEW x,
                 Holds(stack'[u][i], x)
          PROVE  \/ u = t /\ i = n /\ x = p
                 \/ /\ u \in Tasks /\ i \in DOMAIN stack[u] /\ Holds(stack[u][i], x)
                    /\ stack'[u][i].op = stack[u][i].op
      <4>1. CASE u = t /\ i = n
        BY <3>2, <4>1, <1>6, <1>10 DEF Holds
      <4>2. CASE u = t /\ i # n
        BY <3>2, <4>2, <1>10
      <4>3. CASE u # t
        BY <3>2, <4>3, <1>9
      <4> QED BY <4>1, <4>2, <4>3
    <3>3. \A x \in Pids : x # p /\ proc[x].state = "stopping" =>
            proc'[x].state = "stopping"
      BY <1>5 DEF Pids
    <3>4. \A i \in DOMAIN stack'[t] :
            i = n /\ stack'[t][i].op = "kill" => proc'[p].state = "stopping"
      BY <1>5
    <3>5. Comes(t, n, p)
      BY <3>1, <3>2 DEF Comes
    <3> HIDE DEF p, n
    <3> QED BY <2>1, <3>3, <3>4, <3>5, <1>2, SoleAdds
  <2>3. Named'
    <3>1. Live' = Live
      BY <1>3, <1>5, <1>9 DEF Live, Alive, Pids
    <3> QED BY <3>1, <2>1, <1>4, <1>5, <1>9 DEF Named, Pids
  <2>4. Linked(proc')
    <3>1. \A x \in DOMAIN proc :
            /\ proc[x].supervisor \in {0} \cup DOMAIN proc
            /\ proc'[x].state \in Alive => proc[x].state \in Alive
      BY <1>2, <1>3, <1>5 DEF Shape, RecordsOK, RecordOK
    <3>2. Alikened(proc, proc')
      <4>1. ASSUME NEW x \in DOMAIN proc
            PROVE  /\ proc'[x].spec = proc[x].spec
                   /\ proc'[x].supervisor = proc[x].supervisor
                   /\ proc'[x].parent = proc[x].parent
                   /\ proc'[x].kids = proc[x].kids
        BY <1>5
      <4>2. DOMAIN proc' = DOMAIN proc
        BY <1>5
      <4> QED BY ONLY <3>1, <4>1, <4>2 DEF Alikened
    <3> QED BY <3>2, <2>1, LinkedAlive
  <2>5. Watched'
    <3> SUFFICES ASSUME NEW x \in Pids, Supervises(proc', x),
                        NEW q, q = proc'[x].supervisor
                 PROVE  Up(q)' \/ Doomed(q, x)'
      BY <1>9 DEF Watched
    <3>1. q = proc[x].supervisor /\ q \in Pids /\ Supervises(proc, x)
      BY <1>2, <1>3, <1>5 DEF Supervises, Shape, RecordsOK, RecordOK, Pids
    <3>2. Up(q) \/ Doomed(q, x)
      BY <2>1, <3>1 DEF Watched
    <3>3. ASSUME Doomed(q, x) PROVE Doomed(q, x)'
      <4>1. ~ (Len(stack'[t]) < Len(stack[t]))
        BY <1>2, <1>10
      <4> QED BY <3>3, <4>1, <1>2, <1>6, <1>9, <1>10, DoomedStep
    <3>4. CASE q = p
      <4>1. x \in ToSet(proc[p].kids)
        BY <2>1, <3>1, <3>4 DEF Linked, Pids
      <4>2. stack'[t][n].pid = q /\ Takes(stack'[t], n, x)
        BY <4>1, <3>4, <1>6, <1>10 DEF Takes
      <4> QED BY <4>2, <1>9, <1>10 DEF Doomed
    <3>5. CASE q # p
      <4>1. Up(q) => Up(q)'
        BY <3>1, <3>5, <1>5 DEF Up, Pids
      <4> QED BY <3>2, <3>3, <4>1
    <3> QED BY <3>4, <3>5
  <2>6. Reaped'
    <3>1. \A x \in Pids' : proc'[x].os = "alive" =>
            \/ proc'[x].state \in Alive
            \/ Starting(t)' /\ Top(t)'.new = x
            \/ /\ x \in Pids /\ proc[x].os = "alive" /\ proc[x].state \notin Alive
               /\ ~ (Starting(t) /\ Top(t).new = x)
      BY <1>5, <1>9, <1>11 DEF Pids, Alive
    <3> QED BY <3>1, <2>1, <1>2, <1>9, ReapedStep
  <2> QED BY <2>2, <2>3, <2>4, <2>5, <2>6
<1> QED BY <1>13, <1>14, <1>15 DEF TreeInv

\* kill() begins, or raises.
LEMMA KillEnterStep ==
  ASSUME TreeInv, NEW t \in Tasks, KillEnter(t)
  PROVE  TreeInv'
BY KillRaises, KillBegins

\* A process is over, and has no children.
Killed(pr, p) == [pr EXCEPT ![p].state = "killed", ![p].kids = <<>>]

\* The records after a process was killed.
LEMMA KilledIs ==
  ASSUME NEW pr \in Seq(Records), NEW nm, RecordsOK(pr, nm), NEW p \in DOMAIN pr,
         pr[p].state # "unborn", NEW r, r = Killed(pr, p)
  PROVE  /\ r \in Seq(Records) /\ Len(r) = Len(pr) /\ DOMAIN r = DOMAIN pr
         /\ Grows(pr, r) /\ RecordsOK(r, nm) /\ r[p].state = "killed"
         /\ \A x \in DOMAIN pr \ {p} : /\ r[x].state = pr[x].state
                                       /\ r[x].kids = pr[x].kids
         /\ \A x \in DOMAIN pr :
              /\ r[x].spec = pr[x].spec /\ r[x].supervisor = pr[x].supervisor
              /\ r[x].parent = pr[x].parent /\ r[x].os = pr[x].os
              /\ r[x].charged = pr[x].charged
<1>1. DOMAIN r = DOMAIN pr /\ r = [x \in DOMAIN pr |-> r[x]]
  BY DEF Killed
<1>2. ASSUME NEW x \in DOMAIN pr
      PROVE  /\ r[x] \in Records
             /\ r[x].spec = pr[x].spec /\ r[x].supervisor = pr[x].supervisor
             /\ r[x].parent = pr[x].parent
             /\ r[x].kids = IF x = p THEN <<>> ELSE pr[x].kids
             /\ r[x].os = pr[x].os /\ r[x].charged = pr[x].charged
             /\ r[x].state = IF x = p THEN "killed" ELSE pr[x].state
  <2>1. ASSUME NEW a, a = pr[x], NEW b, b = r[x]
        PROVE  /\ b \in Records
               /\ b.spec = a.spec /\ b.supervisor = a.supervisor
               /\ b.parent = a.parent
               /\ b.kids = IF x = p THEN <<>> ELSE a.kids
               /\ b.os = a.os /\ b.charged = a.charged
               /\ b.state = IF x = p THEN "killed" ELSE a.state
    <3>1. a \in Records /\ <<>> \in Seq(Nat)
      BY <2>1
    <3>2. b = IF x = p THEN [a EXCEPT !.state = "killed", !.kids = <<>>] ELSE a
      BY <2>1, <3>1 DEF Killed, Records
    <3> QED BY <3>1, <3>2 DEF Records, Over
  <2> QED BY <2>1
<1>3. r \in Seq(Records) /\ Len(r) = Len(pr)
  BY <1>1, <1>2, AsLong
<1>4. Grows(pr, r)
  BY <1>1, <1>2 DEF Grows, Over
<1>5. ASSUME NEW x \in DOMAIN pr PROVE RecordOK(r, nm, x)
  <2>1. RecordOK(pr, nm, x)
    BY DEF RecordsOK
  <2>2. ToSet(r[x].kids) \subseteq ToSet(pr[x].kids)
    BY <1>2 DEF ToSet
  <2>3. Kids(r, pr[x].kids)
    BY <2>1, <1>4, KidsKept DEF RecordOK
  <2>4. Kids(r, r[x].kids)
    BY <2>2, <2>3 DEF Kids
  <2>5. \A c \in ToSet(r[x].kids) : r[c].state \in Over \/ r[c].supervisor = x
    BY <2>1, <2>2, <1>2, <1>4 DEF RecordOK, Kids, Grows
  <2>6. r[x].state = "unborn" => pr[x].state = "unborn"
    BY <1>2
  <2> QED BY <2>1, <2>2, <2>4, <2>5, <2>6, <1>1, <1>2 DEF RecordOK
<1> QED BY <1>1, <1>2, <1>3, <1>4, <1>5 DEF RecordsOK

\* A calm change after one in which records grew.
LEMMA GrowsCalm ==
  ASSUME NEW pr, NEW r, NEW pr2, Grows(pr, r), Calm(r, pr2)
  PROVE  Grows(pr, pr2)
BY DEF Grows, Calm

\* The end of a kill, up to what follows it.
LEMMA KillDone ==
  ASSUME TreeInv, NEW t \in Tasks, At(t, "kill", "finish"),
         NEW p, p = Top(t).pid, NEW over, over = Killed(proc, p),
         proc' \in Seq(Records), Len(proc') = Len(proc), Calm(over, proc'),
         RecordsOK(proc', Names), Linked(over) => Linked(proc'),
         \A x \in Pids : proc'[x].charged = proc[x].charged,
         by_name' = [by_name EXCEPT ![proc[p].spec.name] = 0],
         restarts' = restarts, crossed' = crossed,
         NEW s \in Seq(Frames), stack' = [stack EXCEPT ![t] = s],
         busy' = {} \/ busy' = {t}, result' \in {"ok", "raised"},
         NEW f \in Frames, NEW g \in Frames, Turned(t, f, g),
         Len(s) < Len(stack[t]) \/ ~ Holds(f, p),
         Len(s) > Len(stack[t]) => g.op = "start" /\ g.at = "enter",
         StackOK(proc', Names, t, s), TopOK(t)', ~ Starting(t)'
  PROVE  TreeInv'
<1>1. /\ Shape /\ Regular /\ Typed /\ Stacks /\ stack[t] # <<>>
      /\ Top(t) \in Frames /\ Top(t).op = "kill" /\ Top(t).at = "finish"
      /\ FrameOK(proc, Names, Top(t)) /\ TopOK(t) /\ Books /\ Justified
      /\ RecordsOK(proc, Names) /\ proc \in Seq(Records)
  BY AtTop DEF TreeInv, Shape, Typed
<1>2. /\ p \in Pids /\ p \in DOMAIN proc /\ proc[p].spec.mode # "external"
      /\ proc[p].state # "unborn" /\ proc[p].os # "alive" /\ stack[p] = <<>>
      /\ proc[p] \in Records /\ RecordOK(proc, Names, p) /\ Holds(Top(t), p)
      /\ p \in Nat
  <2>1. /\ p \in Pids /\ proc[p].spec.mode # "external"
        /\ proc[p].state # "unborn" /\ proc[p].os # "alive" /\ Holds(Top(t), p)
    BY <1>1 DEF FrameOK, KillOK, Pids, Holds
  <2>2. stack[p] = <<>>
    BY <1>1 DEF TopOK, At
  <2> QED BY <2>1, <2>2, <1>1, TheStacks DEF RecordsOK, Pids
<1>3. /\ DOMAIN over = DOMAIN proc /\ Grows(proc, over) /\ over[p].state = "killed"
      /\ \A x \in DOMAIN proc \ {p} : /\ over[x].state = proc[x].state
                                      /\ over[x].kids = proc[x].kids
      /\ \A x \in DOMAIN proc :
           /\ over[x].spec = proc[x].spec /\ over[x].supervisor = proc[x].supervisor
           /\ over[x].parent = proc[x].parent /\ over[x].os = proc[x].os
  BY <1>1, <1>2, KilledIs
<1>4. /\ Grows(proc, proc') /\ DOMAIN proc' = DOMAIN proc
      /\ proc'[p].state = "killed"
      /\ \A x \in DOMAIN proc \ {p} : proc'[x].state = proc[x].state
      /\ \A x \in DOMAIN proc :
           /\ proc'[x].spec = proc[x].spec
           /\ proc'[x].supervisor = proc[x].supervisor
           /\ proc'[x].os = "alive" => proc[x].os = "alive"
  <2>1. Grows(proc, proc')
    BY <1>3, GrowsCalm
  <2> QED BY <2>1, <1>2, <1>3 DEF Calm
<1>5. /\ Typed' /\ Tasks' = Tasks /\ Pids' = Pids /\ Names' = Names
      /\ stack'[t] = s /\ (\A u \in Tasks \ {t} : stack'[u] = stack[u])
      /\ Spared(t) /\ Mild(t)
  <2>1. /\ crossed' \in BOOLEAN
        /\ restarts' \subseteq [by : Pids, child : Pids, failed : Pids]
    BY <1>1 DEF Typed
  <2>2. by_name' \in [Names -> 0 .. Len(proc)]
    <3>1. by_name \in [Names -> 0 .. Len(proc)] /\ Len(proc) \in Nat
      BY <1>1, TheStacks DEF Typed
    <3>2. 0 \in 0 .. Len(proc)
      BY <3>1
    <3> DEFINE m == proc[p].spec.name
               b == 0 .. Len(proc)
    <3>3. by_name' = [by_name EXCEPT ![m] = 0] /\ by_name \in [Names -> b] /\ 0 \in b
      BY <3>1, <3>2
    <3> HIDE DEF m, b
    <3>4. by_name' \in [Names -> b]
      BY ONLY <3>3
    <3> QED BY <3>4 DEF b
  <2> QED BY <2>1, <2>2, <1>1, OneTask
<1>6. f.op = "kill" /\ f.pid = p /\ ~ Starting(t) /\ Len(stack[t]) \in Nat
      /\ Len(s) \in Nat
  BY <1>1, TheStacks DEF Turned, Starting
<1>7. Bodies' /\ Agents'
  <2>1. \A x \in Pids : /\ stack[x] = <<>> => stack'[x] = <<>>
                        /\ Bodily(x)' => Bodily(x)
                        /\ \A y : Agent(y)' <=> Agent(y)
    BY <1>1, <1>5, TurnedBases
  <2>2. \A x \in Pids \ {p} : proc'[x].state = proc[x].state
    BY <1>4 DEF Pids
  <2>3. ~ Agent(p)
    <3> SUFFICES ASSUME Agent(p) PROVE FALSE
      OBVIOUS
    <3>1. StackOK(proc, Names, 0, stack[0]) /\ 1 \in DOMAIN stack[0]
      BY <1>1, TheStacks DEF Stacks, Agent
    <3>2. FrameOK(proc, Names, stack[0][1])
      BY <3>1 DEF StackOK
    <3> QED BY <3>2, <1>2 DEF FrameOK, ExternalOK, Agent
  <2>4. /\ proc'[p].state \in Over /\ proc'[p].state # "unborn"
        /\ proc'[p].spec.mode # "external" /\ ~ Bodily(p)
    BY <1>2, <1>4 DEF Over, Bodily
  <2> QED BY <2>1, <2>2, <2>3, <2>4, <1>1, <1>4, <1>5, BasesKept
<1>8. Shape'
  <2>1. \A x \in Pids : proc[x].state = "unborn" =>
          proc'[x].state = "unborn" \/ (Starting(t) /\ Top(t).new = x)
    BY <1>2, <1>4 DEF Pids
  <2>2. \A x \in Pids \ {t} :
          stack[x] = <<>> /\ proc[x].state # "unborn" => stack'[x] = <<>>
    BY <1>1, <1>5, TheStacks
  <2> QED BY <2>1, <2>2, <1>1, <1>4, <1>5, <1>7, ShapeKept
<1>9. Books' /\ Justified'
  <2>1. NoMoreOwed
    <3>1. /\ \A q : Owes(f, q) = 0 /\ Owes(Top(t), q) = 0
          /\ Len(s) > Len(stack[t]) => \A q : Owes(g, q) = 0
      BY <1>1, <1>6 DEF Owes
    <3>2. \A q : Owes(f, q) <= Owes(Top(t), q)
      BY <3>1
    <3> QED BY <3>1, <3>2, <1>1, <1>5, OwedStep
  <2> QED BY <2>1, <1>1, <1>4, <1>5, BooksStep, JustStep
<1>10. Regular'
  <2> SUFFICES ASSUME ~ crossed'
               PROVE  Sole' /\ Named' /\ Linked(proc') /\ Watched' /\ Reaped'
    BY DEF Regular
  <2>1. /\ ~ crossed /\ Sole /\ Named /\ Linked(proc) /\ Watched /\ Reaped
        /\ proc[p].state = "stopping" /\ ~ Up(p)
    <3>1. ~ crossed /\ Sole
      BY <1>1 DEF Regular
    <3>2. proc[p].state = "stopping"
      <4> DEFINE n == Len(stack[t])
      <4>1. n \in DOMAIN stack[t] /\ stack[t][n] = Top(t)
        BY <1>1, TheTop
      <4> HIDE DEF n
      <4> QED BY <4>1, <3>1, <1>1, <1>2 DEF Sole
    <3> QED BY <3>1, <3>2, <1>1 DEF Regular, Up
  <2>2. Sole'
    <3>1. NoMoreHeld
      <4>1. /\ Holds(f, f.pid) => Holds(Top(t), f.pid)
            /\ Len(stack'[t]) > Len(stack[t]) => ~ Holds(g, g.pid)
        BY <1>2, <1>5, <1>6 DEF Holds
      <4> QED BY <4>1, <1>1, <1>5, HeldStep
    <3>2. ASSUME NEW u \in Tasks', NEW i \in DOMAIN stack'[u], Holds(stack'[u][i], p)
          PROVE  FALSE
      <4> DEFINE n == Len(stack[t])
      <4>1. n \in DOMAIN stack[t] /\ stack[t][n] = Top(t)
        BY <1>1, TheTop
      <4>2. u \in Tasks /\ i \in DOMAIN stack[u] /\ Holds(stack[u][i], p)
        BY <3>1, <3>2, ZenonT(60) DEF NoMoreHeld
      <4>3. u = t /\ i = n
        BY <4>1, <4>2, <2>1, <1>2 DEF Sole
      <4>4. DOMAIN s = 1 .. Len(s)
        BY <1>5
      <4>5. ~ (Len(s) < n) /\ stack'[t][i] = f
        <5> DEFINE m == Len(s)
        <5>1. i = n /\ i \in 1 .. m /\ n \in Nat /\ m \in Nat
          BY <4>3, <4>4, <3>2, <1>5, <1>6
        <5>2. stack'[t][i] = f
          BY <4>3, <3>2 DEF Turned
        <5> HIDE DEF n, m
        <5>3. ~ (m < n)
          BY ONLY <5>1
        <5> QED BY <5>2, <5>3 DEF n, m
      <4> QED BY <4>3, <4>5, <3>2
    <3>3. \A x \in Pids : proc[x].state = "stopping" =>
            \/ proc'[x].state = "stopping"
            \/ \A u \in Tasks' : \A i \in DOMAIN stack'[u] : ~ Holds(stack'[u][i], x)
      BY <3>2, <1>4 DEF Pids
    <3> QED BY <3>1, <3>3, <2>1, <1>1, SoleStep
  <2>3. Named'
    <3>1. /\ p \in Live /\ proc[p].spec.name \in Names /\ proc'[p].state \in Over
          /\ \A x \in Pids : proc'[x].spec = proc[x].spec
          /\ \A x \in Pids \ {p} : proc'[x].state = proc[x].state
      BY <2>1, <1>2, <1>4 DEF Live, RecordOK, Over, Pids
    <3> QED BY <3>1, <2>1, <1>1, <1>5, NameFreed
  <2>4. ASSUME NEW x \in Pids, Supervises(proc, x) PROVE proc[x].supervisor # p
    <3>1. Top(t).at # "kids"
      BY <1>1
    <3> QED BY <3>1, <2>1, <2>4, <1>1, <1>2, NoneLeft
  <2>5. Linked(proc')
    <3> SUFFICES Linked(over)
      OBVIOUS
    <3> SUFFICES ASSUME NEW x \in DOMAIN over, Supervises(over, x)
                 PROVE  /\ over[x].parent = over[x].supervisor
                        /\ x \in ToSet(over[over[x].supervisor].kids)
      BY DEF Linked
    <3>1. x \in Pids /\ x \in DOMAIN proc /\ x # p
      BY <1>3 DEF Supervises, Alive, Pids
    <3>2. proc[x].supervisor \in DOMAIN proc /\ Supervises(proc, x)
      BY <3>1, <1>1, <1>3 DEF Supervises, RecordsOK, RecordOK
    <3>3. /\ proc[x].parent = proc[x].supervisor
          /\ x \in ToSet(proc[proc[x].supervisor].kids)
      BY <3>1, <3>2, <2>1 DEF Linked
    <3>4. proc[x].supervisor # p
      BY <3>1, <3>2, <2>4
    <3> QED BY <3>1, <3>2, <3>3, <3>4, <1>3
  <2>6. Watched'
    <3> SUFFICES ASSUME NEW x \in Pids, Supervises(proc', x),
                        NEW q, q = proc'[x].supervisor
                 PROVE  Up(q)' \/ Doomed(q, x)'
      BY <1>5 DEF Watched
    <3>1. x # p /\ proc[x].state \in Alive
      BY <1>4 DEF Supervises, Alive, Pids
    <3>2. q = proc[x].supervisor /\ q \in Pids /\ Supervises(proc, x)
      BY <3>1, <1>1, <1>4 DEF Supervises, RecordsOK, RecordOK, Pids
    <3>3. q # p
      BY <3>2, <2>4
    <3>4. Up(q) \/ Doomed(q, x)
      BY <2>1, <3>2 DEF Watched
    <3>5. Up(q) => Up(q)'
      BY <3>2, <3>3, <1>4 DEF Up, Pids
    <3>6. ASSUME Doomed(q, x) PROVE Doomed(q, x)'
      BY <3>6, <3>1, <1>1, <1>5, DoomedStep
    <3> QED BY <3>4, <3>5, <3>6
  <2>7. Reaped'
    <3>1. \A x \in Pids' : proc'[x].os = "alive" =>
            \/ proc'[x].state \in Alive
            \/ Starting(t)' /\ Top(t)'.new = x
            \/ /\ x \in Pids /\ proc[x].os = "alive" /\ proc[x].state \notin Alive
               /\ ~ (Starting(t) /\ Top(t).new = x)
      BY <1>2, <1>4, <1>5, <1>6 DEF Pids
    <3> QED BY <3>1, <2>1, <1>1, <1>5, ReapedStep
  <2> QED BY <2>2, <2>3, <2>5, <2>6, <2>7
<1> QED BY <1>8, <1>9, <1>10 DEF TreeInv

\* The name of a process that is over is nobody's.
LEMMA NameGone ==
  ASSUME Typed, NEW m, by_name' = [by_name EXCEPT ![m] = 0]
  PROVE  by_name' \in [Names -> 0 .. Len(proc)]
<1>1. by_name \in [Names -> 0 .. Len(proc)] /\ Len(proc) \in Nat
  BY TheStacks DEF Typed
<1> DEFINE b == 0 .. Len(proc)
<1>2. by_name \in [Names -> b] /\ 0 \in b
  BY <1>1
<1> HIDE DEF b
<1>3. by_name' \in [Names -> b]
  BY <1>2
<1> QED BY <1>3 DEF b

\* kill() frees the name of a process that is over, and lets go of it or asks
\* for its restart.
LEMMA KillFinishStep ==
  ASSUME TreeInv, NEW t \in Tasks, KillFinish(t)
  PROVE  TreeInv'
<1> DEFINE p == Top(t).pid
           q == proc[p].parent
           over == Killed(proc, p)
<1>1. At(t, "kill", "finish") /\ Runs(t)
  BY DEF KillFinish
<1>2. /\ Shape /\ Regular /\ Typed /\ Stacks /\ stack[t] # <<>>
      /\ Top(t) \in Frames /\ Top(t).op = "kill" /\ Top(t).at = "finish"
      /\ FrameOK(proc, Names, Top(t)) /\ Len(stack[t]) \in Nat
      /\ RecordsOK(proc, Names) /\ proc \in Seq(Records)
  BY <1>1, AtTop, TheStacks DEF Shape, Typed
<1>3. /\ p \in Pids /\ p \in DOMAIN proc /\ proc[p].spec.mode # "external"
      /\ proc[p].state # "unborn" /\ proc[p] \in Records /\ p \in Nat
      /\ RecordOK(proc, Names, p) /\ proc[p].spec \in AnyProgram
  <2>1. /\ p \in Pids /\ proc[p].spec.mode # "external" /\ proc[p].state # "unborn"
    BY <1>2 DEF FrameOK, KillOK, Pids
  <2>2. proc[p] \in Records
    BY <2>1, <1>2, TheStacks
  <2> QED BY <2>1, <2>2, <1>2, TheStacks, RecordFields DEF RecordsOK, Pids
<1>4. /\ by_name' = [by_name EXCEPT ![proc[p].spec.name] = 0]
      /\ restarts' = restarts /\ crossed' = crossed
      /\ IF Top(t).auto /\ Up(q)
         THEN /\ proc' = over /\ result' = result
              /\ Call(t, "restarted", Start(q, p, proc[p].spec))
         ELSE proc' = Unlink(over, p) /\ Return(t, "ok")
  BY DEF KillFinish, Killed, history
<1>5. /\ over \in Seq(Records) /\ Len(over) = Len(proc) /\ DOMAIN over = DOMAIN proc
      /\ Grows(proc, over) /\ RecordsOK(over, Names) /\ over[p].state = "killed"
      /\ \A x \in DOMAIN proc : over[x].charged = proc[x].charged
      /\ \A x \in DOMAIN proc \ {p} : over[x].state = proc[x].state
  <2> HIDE DEF p
  <2> QED BY <1>2, <1>3, KilledIs
<1>6. /\ by_name' \in [Names -> 0 .. Len(proc)] /\ crossed' \in BOOLEAN
      /\ restarts' \subseteq [by : Pids, child : Pids, failed : Pids]
      /\ result \in {"ok", "raised"}
  <2>1. by_name' \in [Names -> 0 .. Len(proc)]
    BY <1>2, <1>4, NameGone
  <2> QED BY <2>1, <1>2, <1>4 DEF Typed
<1>7. CASE Top(t).auto /\ Up(q)
  <2> DEFINE f == [Top(t) EXCEPT !.at = "restarted"]
             g == Start(q, p, proc[p].spec)
             s == Append(With(t, f), g)
  <2>1. proc' = over /\ result' = result /\ stack' = [stack EXCEPT ![t] = s] /\ busy' = {t}
    BY <1>4, <1>7 DEF Call, Continue, Moved
  <2>2. /\ f \in Frames /\ f.op = "kill" /\ f.pid = p /\ f.at = "restarted"
        /\ f.todo = Top(t).todo
    <3>1. "restarted" \in Places
      BY DEF Places
    <3> QED BY <3>1, <1>2, FrameMoved
  <2>3. q \in Pids /\ q \in DOMAIN proc /\ q \in Nat /\ q # 0
        /\ proc[q].state # "unborn"
    BY <1>2, <1>3, <1>7, RecordFields DEF RecordOK, Up, Pids
  <2>4. /\ g \in Frames /\ g.op = "start" /\ g.pid = p /\ g.at = "enter"
        /\ g.parent = q /\ g.spec = proc[p].spec
    BY <1>3, <2>3, StartFrame
  <2> HIDE DEF f, g
  <2>5. FrameOK(over, Names, f)
    <3>1. Kids(over, f.todo)
      BY <1>2, <1>5, <2>2, KidsKept DEF FrameOK, KillOK
    <3>2. /\ over[p].state \in Over /\ over[p].state # "unborn"
          /\ over[p].spec.mode # "external"
      BY <1>3, <1>5 DEF Over, Grows
    <3> QED BY <3>1, <3>2, <2>2, <1>3, <1>5 DEF FrameOK, KillOK
  <2>6. FrameOK(over, Names, g)
    <3>1. over[q].state # "unborn"
      BY <2>3, <1>5 DEF Grows
    <3>2. g.spec.name \in Names /\ g.spec.mode \in {"in_process", "isolated"}
      BY <1>3, <2>4 DEF RecordOK, AnyProgram
    <3> QED BY <3>1, <3>2, <2>3, <2>4, <1>3, <1>5 DEF FrameOK, StartOK, Over
  <2>7. StackOK(over, Names, t, s) /\ s \in Seq(Frames)
    <3>1. Awaiting(f, g)
      BY <2>2, <2>4 DEF Awaiting
    <3> QED BY <3>1, <2>2, <2>4, <2>5, <2>6, <1>2, <1>5, PushStack
  <2>8. stack'[t] = s
    BY <2>1, <1>2 DEF Tasks
  <2>9. Turned(t, f, g) /\ Len(s) = Len(stack[t]) + 1 /\ Top(t)' = g
    BY <2>2, <2>4, <2>8, <1>2, Pushed
  <2>10. TopOK(t)' /\ ~ Starting(t)'
    BY <2>4, <2>9 DEF TopOK, Starting, At
  <2>11. ~ Holds(f, p)
    BY <2>2 DEF Holds
  <2>12. Calm(over, proc')
    BY <2>1, <1>5 DEF Calm
  <2>13. ~ (Len(s) < Len(stack[t])) /\ \A x \in Pids : proc'[x].charged = proc[x].charged
    BY <2>1, <2>9, <1>2, <1>5 DEF Pids
  <2> HIDE DEF s, p, q, over
  <2> USE DEF p, over
  <2> QED BY <2>1, <2>2, <2>4, <2>7, <2>9, <2>10, <2>11, <2>12, <2>13,
             <1>1, <1>4, <1>5, <1>6, KillDone
<1>8. CASE ~ (Top(t).auto /\ Up(q))
  <2> DEFINE s == Front(stack[t])
  <2>1. /\ proc' = Unlink(over, p) /\ stack' = [stack EXCEPT ![t] = s]
        /\ busy' = {} \/ busy' = {t}
        /\ result' \in {"ok", "raised"}
    BY <1>4, <1>8 DEF Return
  <2>2. s \in Seq(Frames)
    BY <1>2, MovesTyped
  <2>3. /\ proc' \in Seq(Records) /\ Len(proc') = Len(over) /\ Calm(over, proc')
        /\ RecordsOK(proc', Names) /\ (Linked(over) => Linked(proc'))
        /\ \A x \in DOMAIN over : proc'[x].charged = over[x].charged
    <3>1. over[p].state \notin Alive
      BY <1>5 DEF Alive
    <3> HIDE DEF over, p
    <3> QED BY <3>1, <2>1, <1>3, <1>5, UnlinkQuiet
  <2> HIDE DEF s
  <2>4. Typed' /\ Tasks' = Tasks /\ stack'[t] = s
    BY <2>1, <2>2, <2>3, <1>2, <1>5, <1>6, OneTask
  <2>5. Turned(t, Top(t), Top(t)) /\ Len(s) = Len(stack[t]) - 1
    BY <2>4, <1>2, Popped DEF s
  <2>6. /\ TopOK(t)' /\ ~ Starting(t)' /\ StackOK(proc', Names, t, s)
    <3>1. proc'[p].state \in Over
      BY <2>3, <1>3, <1>5 DEF Calm, Over
    <3>2. Grows(proc, proc')
      BY <2>3, <1>5, GrowsCalm
    <3> QED BY <3>1, <3>2, <2>4, <1>2, PopTop DEF s
  <2>7. \A x \in Pids : proc'[x].charged = proc[x].charged
    BY <2>3, <1>5 DEF Pids
  <2>8. Len(s) < Len(stack[t]) /\ ~ (Len(s) > Len(stack[t]))
    BY <2>5, <1>2
  <2> QED BY <2>1, <2>2, <2>3, <2>5, <2>6, <2>7, <2>8, <1>1, <1>2, <1>4, <1>5, <1>6,
             KillDone
<1> QED BY <1>7, <1>8

\* A restart is made: one less is owed.
LEMMA BooksPaid ==
  ASSUME Typed, Typed', Books, NEW t \in Tasks, Spared(t), t \in Tasks',
         NEW f \in Frames, NEW g, Turned(t, f, g), \A q : Owes(g, q) = 0,
         \A x \in Pids : proc'[x].charged = proc[x].charged, Pids' = Pids,
         NEW q \in Pids, \A q2 : q2 # q => Owes(f, q2) = 0,
         Owes(Top(t), q) = Owes(f, q) + 1, Owes(f, q) \in Nat,
         NEW r, r.by = q, restarts' = restarts \cup {r}
  PROVE  Books'
<1> DEFINE n == Len(stack[t])
           k == Owes(f, q)
           e == <<<<t, n>>, k + 1>>
           new == {<<t, n>>} \X (1 .. k)
<1>1. n \in DOMAIN stack[t] /\ stack[t][n] = Top(t)
  <2>1. stack[t] \in Seq(Frames) /\ stack[t] # <<>>
    BY TheStacks DEF Turned
  <2>2. n \in Nat \ {0} /\ DOMAIN stack[t] = 1 .. n /\ stack[t][n] = Last(stack[t])
    BY <2>1, EndsOf
  <2> HIDE DEF n
  <2> QED BY <2>2 DEF Top
<1>2. \A i \in 1 .. k + 1 : <<<<t, n>>, i>> \in Owed(q)
  <2>1. Owes(stack[t][n], q) = k + 1
    BY <1>1
  <2> HIDE DEF n, k
  <2>2. \A i \in 1 .. k + 1 : <<<<t, n>>, i>> \in {<<t, n>>} \X (1 .. Owes(stack[t][n], q))
    BY <2>1
  <2> QED BY <2>2, <1>1 DEF Owed
<1>3. e \in Owed(q) /\ new \subseteq Owed(q) \ {e}
  <2> HIDE DEF n
  <2>1. k \in Nat
    OBVIOUS
  <2> HIDE DEF k
  <2> QED BY <1>2, <2>1
<1>4. ASSUME NEW q2 \in Pids, NEW x, x \in Owed(q2)'
      PROVE  x \in Owed(q2) /\ (q2 = q => x # e)
  <2>1. \/ x \in Owed(q2) /\ \A i : x # <<<<t, Len(stack[t])>>, i>>
        \/ x \in {<<t, Len(stack[t])>>} \X (1 .. Owes(f, q2))
    BY <1>4, OwedBut
  <2>2. CASE x \in Owed(q2) /\ \A i : x # <<<<t, Len(stack[t])>>, i>>
    BY <2>2
  <2>3. CASE x \in {<<t, Len(stack[t])>>} \X (1 .. Owes(f, q2))
    <3>1. CASE q2 = q
      <4>1. x \in new
        BY <2>3, <3>1
      <4> HIDE DEF new, e
      <4> QED BY <4>1, <1>3, <3>1
    <3>2. CASE q2 # q
      BY <2>3, <3>2
    <3> QED BY <3>1, <3>2
  <2> QED BY <2>1, <2>2, <2>3
<1> HIDE DEF n, k, e, new
<1>5. ASSUME NEW q2 \in Pids
      PROVE  /\ IsFiniteSet(Owed(q2)') /\ IsFiniteSet(Made(q2)')
             /\ Cardinality(Owed(q2)') + Cardinality(Made(q2)')
                  <= proc'[q2].charged
  <2> DEFINE o == Owed(q2)
             o2 == Owed(q2)'
             m == Made(q2)
             m2 == Made(q2)'
             c == proc[q2].charged
  <2>1. /\ IsFiniteSet(o) /\ IsFiniteSet(m) /\ Cardinality(o) + Cardinality(m) <= c
        /\ c \in Nat /\ proc'[q2].charged = c
    BY TheStacks, RecordFields DEF Books
  <2>2. CASE q2 = q
    <3>1. o2 \subseteq o \ {e} /\ e \in o
      BY <1>3, <1>4, <2>2
    <3>2. m2 \subseteq m \cup {r}
      BY DEF Made
    <3> HIDE DEF o, o2, m, m2, c
    <3>3. IsFiniteSet(o \ {e}) /\ Cardinality(o \ {e}) = Cardinality(o) - 1
      BY <2>1, <3>1, FS_RemoveElement
    <3>4. IsFiniteSet(o2) /\ Cardinality(o2) <= Cardinality(o \ {e})
      BY <3>1, <3>3, FS_Subset
    <3>5. /\ IsFiniteSet(m \cup {r})
          /\ Cardinality(m \cup {r}) \in {Cardinality(m), Cardinality(m) + 1}
      BY <2>1, FS_AddElement
    <3>6. IsFiniteSet(m2) /\ Cardinality(m2) <= Cardinality(m \cup {r})
      BY <3>2, <3>5, FS_Subset
    <3>7. /\ Cardinality(o) \in Nat /\ Cardinality(m) \in Nat
          /\ Cardinality(o2) \in Nat /\ Cardinality(m2) \in Nat
      BY <2>1, <3>4, <3>6, FS_CardinalityType
    <3>8. Cardinality(o2) + Cardinality(m2) <= c
      BY <2>1, <3>3, <3>4, <3>5, <3>6, <3>7
    <3> QED BY <2>1, <3>4, <3>6, <3>8 DEF o2, m2
  <2>3. CASE q2 # q
    <3>1. o2 \subseteq o
      BY <1>4
    <3>2. m2 = m
      BY <2>3 DEF Made
    <3> HIDE DEF o, o2, m, m2, c
    <3>3. IsFiniteSet(o2) /\ Cardinality(o2) <= Cardinality(o)
      BY <2>1, <3>1, FS_Subset
    <3>4. /\ Cardinality(o) \in Nat /\ Cardinality(m) \in Nat
          /\ Cardinality(o2) \in Nat
      BY <2>1, <3>3, FS_CardinalityType
    <3>5. Cardinality(o2) + Cardinality(m2) <= c
      BY <2>1, <3>2, <3>3, <3>4
    <3> QED BY <2>1, <3>2, <3>3, <3>5 DEF o2, m2
  <2> QED BY <2>2, <2>3
<1> QED BY <1>5 DEF Books

\* The handler makes a restart: what it owed is now made.
LEMMA HandleRestartStep ==
  ASSUME TreeInv, NEW t \in Tasks, HandleRestart(t)
  PROVE  TreeInv'
<1> DEFINE c == Head(Top(t).todo)
           q == Top(t).parent
           p == Top(t).pid
           f == [Top(t) EXCEPT !.at = "restarted"]
           g == Start(q, c, proc[c].spec)
           s == Append(With(t, f), g)
           r == [by |-> q, child |-> c, failed |-> p]
<1>1. At(t, "handle", "restart") /\ UNCHANGED <<proc, by_name, crossed>>
  BY DEF HandleRestart
<1>2. /\ Shape /\ Regular /\ Typed /\ Stacks /\ Books /\ Justified
      /\ stack[t] # <<>> /\ Top(t).op = "handle" /\ Top(t).at = "restart"
      /\ FrameOK(proc, Names, Top(t)) /\ Top(t) \in Frames
      /\ Top(t).todo \in Seq(Nat) /\ TopOK(t) /\ RecordsOK(proc, Names)
      /\ proc \in Seq(Records) /\ Len(stack[t]) \in Nat
  BY <1>1, AtTop, TheStacks DEF TreeInv, Shape, Typed
<1>3. CASE Return(t, "ok") /\ UNCHANGED restarts
  <2>1. Tame
    BY <1>1, <1>2, <1>3, TameStill
  <2> QED BY <1>1, <1>3, <2>1, HandleReturns
<1>4. CASE /\ Up(q) /\ Call(t, "restarted", g) /\ result' = result
           /\ restarts' = restarts \cup {r}
  <2>1. /\ Top(t).todo # <<>> /\ Kids(proc, Top(t).todo) /\ p \in Pids /\ q \in Pids
        /\ q \in Nat /\ q # 0 /\ p \in DOMAIN proc /\ q \in DOMAIN proc
        /\ (\A x \in ToSet(Top(t).todo) : Warranted(proc, q, x, p))
        /\ proc[p].state \in Over /\ proc[c].state \in Over
        /\ Len(Top(t).todo) \in Nat \ {0}
    <3>1. Len(Top(t).todo) \in Nat \ {0} <=> Top(t).todo # <<>>
      BY <1>2
    <3> QED BY <3>1, <1>1, <1>2, <1>4, FrameFields
            DEF FrameOK, HandleOK, TopOK, Pids, Up
  <2>2. /\ c \in Pids /\ c \in DOMAIN proc /\ c \in Nat /\ c # 0
        /\ proc[c].spec.mode # "external" /\ c \in ToSet(Top(t).todo)
        /\ proc[c] \in Records /\ RecordOK(proc, Names, c)
    <3>1. c \in DOMAIN proc /\ c \in Nat /\ proc[c].spec.mode # "external"
      BY <2>1, <1>2, HeadKid
    <3>2. c \in ToSet(Top(t).todo)
      BY <2>1, <1>2, FirstAndRest
    <3> HIDE DEF c
    <3>3. c # 0
      BY <3>1, <1>2, TheStacks DEF Pids
    <3> QED BY <3>1, <3>2, <3>3, <1>2, TheStacks DEF Pids, RecordsOK
  <2>3. /\ f \in Frames /\ f.op = "handle" /\ f.pid = p /\ f.at = "restarted"
        /\ f.todo = Top(t).todo /\ f.parent = q
    <3>1. "restarted" \in Places
      BY DEF Places
    <3> HIDE DEF c
    <3> QED BY <3>1, <1>2, FrameMoved
  <2>4. /\ g \in Frames /\ g.op = "start" /\ g.pid = c /\ g.at = "enter"
        /\ g.parent = q /\ g.spec = proc[c].spec
    BY <2>1, <2>2, RecordFields, StartFrame
  <2>5. stack' = [stack EXCEPT ![t] = s] /\ busy' = {t}
    BY <1>4 DEF Call, Continue, Moved
  <2>6. r \in [by : Pids, child : Pids, failed : Pids] /\ r.by = q
        /\ r.child = c /\ r.failed = p
    BY <2>1, <2>2
  <2>7. restarts' = restarts \cup {r}
    BY <1>4
  <2> HIDE DEF c, q, p, f, g, r
  <2>8. FrameOK(proc, Names, f)
    BY <1>2, <2>1, <2>3 DEF FrameOK, HandleOK, p
  <2>9. FrameOK(proc, Names, g)
    <3>1. g.spec.name \in Names /\ g.spec.mode \in {"in_process", "isolated"}
      BY <2>2, <2>4, RecordFields DEF RecordOK, AnyProgram
    <3>2. proc[q].state # "unborn"
      BY <1>4 DEF Up, q
    <3> QED BY <3>1, <3>2, <2>1, <2>2, <2>4 DEF FrameOK, StartOK
  <2>10. Awaiting(f, g)
    BY <2>3, <2>4 DEF Awaiting
  <2>11. Grows(proc, proc') /\ Calm(proc, proc') /\ proc' = proc
    BY <1>1 DEF Grows, Calm
  <2>12. StackOK(proc, Names, t, s) /\ s \in Seq(Frames)
    <3>1. Grows(proc, proc)
      BY <2>11, <1>1
    <3> QED BY <3>1, <1>2, <2>3, <2>4, <2>8, <2>9, <2>10, PushStack DEF p
  <2>13. Quiet(t) /\ stack'[t] = s
    <3>1. restarts' \subseteq [by : Pids, child : Pids, failed : Pids]
      BY <1>2, <2>6, <2>7 DEF Typed
    <3>2. result' \in {"ok", "raised"} /\ (~ crossed => Linked(proc'))
      BY <1>2, <1>4, <2>11 DEF Typed, Regular
    <3> HIDE DEF s
    <3>3. /\ proc' \in Seq(Records) /\ Len(proc') = Len(proc)
          /\ RecordsOK(proc', Names) /\ UNCHANGED <<by_name, crossed>>
      BY <1>1, <1>2
    <3> QED BY <3>1, <3>2, <3>3, <2>5, <2>11, <2>12, <1>2, QuietIs
  <2>14. Spared(t) /\ Names' = Names /\ Tasks' = Tasks /\ Typed' /\ Pids' = Pids
    BY <2>13, <1>1, QuietSpares DEF Quiet, Pids
  <2>15. /\ Turned(t, f, g) /\ Len(s) = Len(stack[t]) + 1 /\ Top(t)' = g
    BY <1>2, <2>3, <2>4, <2>13, Pushed DEF p
  <2>16. ~ Starting(t) /\ ~ Starting(t)' /\ TopOK(t)'
    BY <1>2, <2>4, <2>15 DEF Starting, TopOK, At
  <2>17. Shape'
    <3>1. StackOK(proc', Names, t, stack'[t])
      BY <2>11, <2>12, <2>13
    <3> QED BY <3>1, <1>2, <2>13, <2>15, <2>16, QuietShape
  <2>18. Books'
    <3>1. /\ Owes(f, q) = Len(Top(t).todo) - 1 /\ Owes(Top(t), q) = Len(Top(t).todo)
          /\ \A q2 : q2 # q => Owes(f, q2) = 0
          /\ \A q2 : Owes(g, q2) = 0
      BY <1>2, <2>3, <2>4 DEF Owes, q
    <3>2. Owes(f, q) \in Nat /\ Owes(Top(t), q) = Owes(f, q) + 1
      BY <3>1, <2>1
    <3>3. \A x \in Pids : proc'[x].charged = proc[x].charged
      BY <2>11
    <3> QED BY <3>1, <3>2, <3>3, <1>2, <2>1, <2>3, <2>6, <2>7, <2>14, <2>15, BooksPaid
  <2>19. Justified'
    <3>1. ASSUME NEW x \in restarts'
          PROVE  /\ proc[x.failed].state \in Over
                 /\ Warranted(proc, x.by, x.child, x.failed)
      BY <1>2, <2>1, <2>2, <2>6, <2>7 DEF Justified
    <3> QED BY <3>1, <2>11 DEF Justified
  <2>20. Regular'
    <3>1. ~ Holds(g, g.pid) /\ ~ Holds(f, f.pid)
      BY <2>3, <2>4 DEF Holds
    <3>2. ~ (Len(stack'[t]) < Len(stack[t]))
      BY <2>13, <2>15, <1>2
    <3> QED BY <3>1, <3>2, <1>2, <2>3, <2>4, <2>13, <2>15, <2>16, QuietRegular
  <2> QED BY <2>17, <2>18, <2>19, <2>20 DEF TreeInv
<1> QED BY <1>3, <1>4 DEF HandleRestart

-----------------------------------------------------------------------------
(* The tasks of the processes *)

\* A task in its body.
LEMMA TheBody ==
  ASSUME TreeInv, NEW p \in Pids, NEW at, At(p, "body", at)
  PROVE  /\ Shape /\ Regular /\ Typed /\ Stacks /\ Books /\ Justified
         /\ p \in Tasks /\ p # 0 /\ p \in DOMAIN proc /\ p \in Nat
         /\ stack[p] # <<>> /\ Bodily(p) /\ Len(stack[p]) = 1
         /\ Top(p) = stack[p][1] /\ Top(p).op = "body" /\ Top(p).pid = 0
         /\ DOMAIN stack[p] = {1} /\ ~ Starting(p) /\ Top(p) \in Frames
         /\ proc[p] \in Records /\ proc[p].state \in Alive
         /\ proc[p].state # "unborn" /\ proc[p].state \notin Over
         /\ proc[p].spec.mode # "external" /\ RecordOK(proc, Names, p)
         /\ RecordsOK(proc, Names) /\ proc \in Seq(Records)
<1>1. Typed /\ Shape /\ Bodies /\ Books /\ Justified /\ Regular
  BY DEF TreeInv, Shape
<1>2. p \in Tasks /\ p # 0 /\ p \in Nat /\ p \in DOMAIN proc /\ proc[p] \in Records
  BY <1>1, TheStacks DEF Pids
<1>3. /\ Stacks /\ stack[p] # <<>> /\ Top(p).op = "body" /\ Top(p) \in Frames
      /\ stack[p] \in Seq(Frames)
  BY <1>2, AtTop, TheStacks
<1>4. Bodily(p) /\ StackOK(proc, Names, p, stack[p])
  BY <1>1, <1>2, <1>3, BodyTop DEF Stacks
<1>5. Len(stack[p]) = 1 /\ Top(p) = stack[p][1] /\ stack[p][1].pid = 0
  BY <1>3, <1>4, BodyAlone DEF Bodily, Top
<1>6. DOMAIN stack[p] = {1}
  BY <1>3, <1>5
<1>7. proc[p].state \in Alive /\ proc[p].state # "unborn"
      /\ proc[p].spec.mode # "external" /\ proc[p].state \notin Over
  BY <1>1, <1>3, <1>4 DEF Bodies, Alive, Over
<1>8. ~ Starting(p)
  BY <1>3 DEF Starting
<1>9. RecordsOK(proc, Names) /\ RecordOK(proc, Names, p) /\ proc \in Seq(Records)
  BY <1>1, <1>2 DEF Shape, RecordsOK, Typed
<1> QED BY <1>1, <1>2, <1>3, <1>4, <1>5, <1>6, <1>7, <1>8, <1>9

\* Another body.
LEMMA BodyTurned ==
  ASSUME TreeInv, NEW p \in Pids, NEW at, At(p, "body", at),
         NEW x \in Places, stack'[p] = Body(x)
  PROVE  LET f == Body(x)[1]
         IN /\ f \in Frames /\ f.op = "body" /\ f.pid = 0 /\ Turned(p, f, f)
            /\ Len(stack'[p]) = 1 /\ stack'[p] # <<>> /\ ~ Starting(p)' /\ TopOK(p)'
            /\ Bodily(p)' /\ Body(x) \in Seq(Frames)
<1> DEFINE f == Body(x)[1]
<1>1. /\ Len(stack[p]) = 1 /\ stack[p] # <<>> /\ Top(p).op = "body" /\ Top(p).pid = 0
      /\ p # 0
  BY TheBody
<1>2. Body(x) \in Seq(Frames)
  BY BodyFrames
<1>3. /\ Body(x) # <<>> /\ Len(Body(x)) = 1 /\ DOMAIN Body(x) = {1}
      /\ Last(Body(x)).op = "body" /\ f.op = "body" /\ f.pid = 0
  BY <1>1, BodyOK
<1>4. f \in Frames
  BY <1>2, <1>3
<1>5. Turned(p, f, f)
  BY <1>1, <1>3 DEF Turned
<1>6. Top(p)'.op = "body" /\ ~ Starting(p)' /\ TopOK(p)' /\ Bodily(p)'
  BY <1>3 DEF Top, Starting, TopOK, At, Bodily
<1> QED BY <1>1, <1>2, <1>3, <1>4, <1>5, <1>6

\* The task of a process begins, which crosses a kill that has begun.
LEMMA BeginStep ==
  ASSUME TreeInv, NEW p \in Pids, Begin(p)
  PROVE  TreeInv'
<1> DEFINE s == Body("run")
           f == Body("run")[1]
<1>1. At(p, "body", "new") /\ "run" \in Places
  BY DEF Begin, Places
<1>2. /\ Shape /\ Regular /\ Typed /\ Stacks /\ Books /\ Justified
      /\ p \in Tasks /\ p # 0 /\ p \in DOMAIN proc /\ p \in Nat
      /\ stack[p] # <<>> /\ Bodily(p) /\ Len(stack[p]) = 1
      /\ Top(p) = stack[p][1] /\ Top(p).op = "body" /\ Top(p).pid = 0
      /\ DOMAIN stack[p] = {1} /\ ~ Starting(p) /\ Top(p) \in Frames
      /\ proc[p] \in Records /\ proc[p].state \in Alive
      /\ proc[p].state # "unborn" /\ proc[p].state \notin Over
      /\ proc[p].spec.mode # "external" /\ RecordOK(proc, Names, p)
      /\ RecordsOK(proc, Names) /\ proc \in Seq(Records)
  BY <1>1, TheBody
<1>3. /\ proc' = Turns(proc, p, "running") /\ busy' = {} /\ result' = result
      /\ stack' = [stack EXCEPT ![p] = s] /\ by_name' = by_name
      /\ restarts' = restarts
      /\ crossed' = (crossed \/ proc[p].state = "stopping")
  BY DEF Begin, Turns, Wait
<1>4. /\ proc' \in Seq(Records) /\ Len(proc') = Len(proc) /\ DOMAIN proc' = DOMAIN proc
      /\ Grows(proc, proc') /\ RecordsOK(proc', Names)
      /\ proc'[p].state = "running"
      /\ \A x \in DOMAIN proc \ {p} : proc'[x].state = proc[x].state
      /\ \A x \in DOMAIN proc :
           /\ proc'[x].spec = proc[x].spec
           /\ proc'[x].supervisor = proc[x].supervisor
           /\ proc'[x].parent = proc[x].parent /\ proc'[x].kids = proc[x].kids
           /\ proc'[x].os = proc[x].os /\ proc'[x].charged = proc[x].charged
  <2>1. "running" \in Alive \cup Over
    BY DEF Alive
  <2> QED BY <2>1, <1>2, <1>3, StateIs
<1>5. /\ Typed' /\ Tasks' = Tasks /\ Pids' = Pids /\ Names' = Names
      /\ stack'[p] = s /\ (\A u \in Tasks \ {p} : stack'[u] = stack[u])
      /\ Spared(p) /\ Mild(p)
  <2>1. /\ by_name' \in [Names -> 0 .. Len(proc)] /\ crossed' \in BOOLEAN
        /\ restarts' \subseteq [by : Pids, child : Pids, failed : Pids]
        /\ result' \in {"ok", "raised"}
    BY <1>2, <1>3 DEF Typed
  <2>2. s \in Seq(Frames)
    BY <1>1, BodyFrames
  <2> HIDE DEF s
  <2> QED BY <2>1, <2>2, <1>2, <1>3, <1>4, OneTask
<1>6. /\ f \in Frames /\ f.op = "body" /\ f.pid = 0 /\ Turned(p, f, f)
      /\ Len(stack'[p]) = 1 /\ stack'[p] # <<>> /\ ~ Starting(p)' /\ TopOK(p)'
      /\ StackOK(proc', Names, p, stack'[p])
  <2>1. StackOK(proc', Names, p, s)
    BY <1>2, BodyOK
  <2> QED BY <2>1, <1>1, <1>5, BodyTurned
<1> HIDE DEF s, f
<1>7. Bodies' /\ Agents'
  <2>1. \A x \in Pids : /\ stack[x] = <<>> => stack'[x] = <<>>
                        /\ Bodily(x)' => Bodily(x)
                        /\ \A y : Agent(y)' <=> Agent(y)
    BY <1>2, <1>5, <1>6, TurnedBases
  <2>2. \A x \in Pids \ {p} : proc'[x].state = proc[x].state
    BY <1>4 DEF Pids
  <2>3. proc'[p].state \in Alive /\ proc'[p].state # "unborn"
        /\ proc'[p].spec.mode # "external" /\ proc'[p].state = "running"
    BY <1>2, <1>4 DEF Alive, Pids
  <2> QED BY <2>1, <2>2, <2>3, <1>2, <1>4, <1>5, BasesKept
<1>8. Shape'
  <2>1. \A x \in Pids : proc[x].state = "unborn" =>
          proc'[x].state = "unborn" \/ (Starting(p) /\ Top(p).new = x)
    BY <1>2, <1>4 DEF Pids
  <2>2. \A x \in Pids \ {p} :
          stack[x] = <<>> /\ proc[x].state # "unborn" => stack'[x] = <<>>
    BY <1>2, <1>5, TheStacks
  <2> QED BY <2>1, <2>2, <1>2, <1>4, <1>5, <1>6, <1>7, ShapeKept
<1>9. Books' /\ Justified'
  <2>1. NoMoreOwed
    <3>1. \A q : Owes(f, q) = 0 /\ Owes(Top(p), q) = 0
      BY <1>2, <1>6 DEF Owes
    <3>2. (\A q : Owes(f, q) <= Owes(Top(p), q)) /\ ~ (Len(stack'[p]) > Len(stack[p]))
      BY <3>1, <1>2, <1>6
    <3> QED BY <3>2, <1>2, <1>5, <1>6, OwedStep
  <2>2. \A q \in Pids : proc'[q].charged = proc[q].charged
    BY <1>4 DEF Pids
  <2> QED BY <2>1, <2>2, <1>2, <1>3, <1>4, <1>5, BooksStep, JustStep
<1>10. Regular'
  <2> SUFFICES ASSUME ~ crossed'
               PROVE  Sole' /\ Named' /\ Linked(proc') /\ Watched' /\ Reaped'
    BY DEF Regular
  <2>1. /\ Sole /\ Named /\ Linked(proc) /\ Watched /\ Reaped
        /\ proc[p].state # "stopping"
    BY <1>2, <1>3 DEF Regular
  <2>2. Sole'
    <3>1. NoMoreHeld
      <4>1. /\ Holds(f, f.pid) => Holds(Top(p), f.pid)
            /\ ~ (Len(stack'[p]) > Len(stack[p]))
        BY <1>2, <1>6 DEF Holds
      <4> QED BY <4>1, <1>2, <1>5, <1>6, HeldStep
    <3>2. \A x \in Pids : proc[x].state = "stopping" => proc'[x].state = "stopping"
      BY <2>1, <1>4 DEF Pids
    <3> QED BY <3>1, <3>2, <2>1, <1>2, SoleStep
  <2>3. Named'
    <3>1. Live' = Live
      BY <1>2, <1>4, <1>5 DEF Live, Alive, Pids
    <3> QED BY <3>1, <2>1, <1>3, <1>4, <1>5 DEF Named, Pids
  <2>4. Linked(proc')
    <3>1. Alikened(proc, proc')
      <4>1. ASSUME NEW x \in DOMAIN proc
            PROVE  /\ proc'[x].spec = proc[x].spec
                   /\ proc'[x].supervisor = proc[x].supervisor
                   /\ proc'[x].parent = proc[x].parent
                   /\ proc'[x].kids = proc[x].kids
                   /\ proc[x].supervisor \in {0} \cup DOMAIN proc
                   /\ proc'[x].state \in Alive => proc[x].state \in Alive
        BY <1>2, <1>4 DEF RecordsOK, RecordOK
      <4>2. DOMAIN proc' = DOMAIN proc
        BY <1>4
      <4> QED BY ONLY <4>1, <4>2 DEF Alikened
    <3> QED BY <3>1, <2>1, LinkedAlive
  <2>5. Watched'
    <3> SUFFICES ASSUME NEW x \in Pids, Supervises(proc', x),
                        NEW q, q = proc'[x].supervisor
                 PROVE  Up(q)' \/ Doomed(q, x)'
      BY <1>5 DEF Watched
    <3>1. q = proc[x].supervisor /\ q \in Pids /\ Supervises(proc, x)
      BY <1>2, <1>4 DEF Supervises, RecordsOK, RecordOK, Pids
    <3>2. Up(q) \/ Doomed(q, x)
      BY <2>1, <3>1 DEF Watched
    <3>3. Doomed(q, x) => Doomed(q, x)'
      BY <1>2, <1>5, DoomedBeside
    <3>4. Up(q) => Up(q)'
      BY <3>1, <1>4 DEF Up, Pids
    <3> QED BY <3>2, <3>3, <3>4
  <2>6. Reaped'
    <3>1. \A x \in Pids' : proc'[x].os = "alive" =>
            \/ proc'[x].state \in Alive
            \/ Starting(p)' /\ Top(p)'.new = x
            \/ /\ x \in Pids /\ proc[x].os = "alive" /\ proc[x].state \notin Alive
               /\ ~ (Starting(p) /\ Top(p).new = x)
      BY <1>2, <1>4, <1>5 DEF Pids, Alive
    <3> QED BY <3>1, <2>1, <1>2, <1>5, ReapedStep
  <2> QED BY <2>2, <2>3, <2>4, <2>5, <2>6
<1> QED BY <1>8, <1>9, <1>10 DEF TreeInv

\* A process is over, and with it its operating system process.
Ended(pr, p, s) ==
  [pr EXCEPT ![p].state = s, ![p].os = IF @ = "alive" THEN "dead" ELSE @]

\* The records after a process has ended by itself.
LEMMA EndedIs ==
  ASSUME NEW pr \in Seq(Records), NEW nm, RecordsOK(pr, nm), NEW p \in DOMAIN pr,
         NEW s \in Over, pr[p].state \in Alive, NEW r, r = Ended(pr, p, s)
  PROVE  /\ r \in Seq(Records) /\ Len(r) = Len(pr) /\ DOMAIN r = DOMAIN pr
         /\ Grows(pr, r) /\ RecordsOK(r, nm)
         /\ r[p].state = s /\ \A x \in DOMAIN pr \ {p} : r[x].state = pr[x].state
         /\ r[p].os # "alive"
         /\ \A x \in DOMAIN pr :
              /\ r[x].spec = pr[x].spec /\ r[x].supervisor = pr[x].supervisor
              /\ r[x].parent = pr[x].parent /\ r[x].kids = pr[x].kids
              /\ r[x].os = "alive" => pr[x].os = "alive"
              /\ r[x].charged = pr[x].charged
<1>1. DOMAIN r = DOMAIN pr /\ r = [x \in DOMAIN pr |-> r[x]]
  BY DEF Ended
<1>2. /\ s \in {"unborn"} \cup Alive \cup Over /\ s # "unborn"
      /\ pr[p].state \notin Over /\ pr[p].state # "unborn"
  BY DEF Alive, Over
<1>3. ASSUME NEW x \in DOMAIN pr
      PROVE  /\ r[x] \in Records
             /\ r[x].spec = pr[x].spec /\ r[x].supervisor = pr[x].supervisor
             /\ r[x].parent = pr[x].parent /\ r[x].kids = pr[x].kids
             /\ r[x].charged = pr[x].charged
             /\ r[x].os = "alive" => pr[x].os = "alive" /\ x # p
             /\ r[x].os # "none" => pr[x].os # "none"
             /\ r[x].state = IF x = p THEN s ELSE pr[x].state
  <2>1. ASSUME NEW a, a = pr[x], NEW b, b = r[x]
        PROVE  /\ b \in Records
               /\ b.spec = a.spec /\ b.supervisor = a.supervisor
               /\ b.parent = a.parent /\ b.kids = a.kids
               /\ b.charged = a.charged
               /\ b.os = "alive" => a.os = "alive" /\ x # p
               /\ b.os # "none" => a.os # "none"
               /\ b.state = IF x = p THEN s ELSE a.state
    <3>1. a \in Records
      BY <2>1
    <3>2. b = IF x = p THEN [a EXCEPT !.state = s,
                                      !.os = IF @ = "alive" THEN "dead" ELSE @]
              ELSE a
      BY <2>1, <3>1 DEF Ended, Records
    <3> QED BY <3>1, <3>2, <1>2 DEF Records
  <2> QED BY <2>1
<1>4. r \in Seq(Records) /\ Len(r) = Len(pr)
  BY <1>1, <1>3, AsLong
<1>5. Grows(pr, r)
  BY <1>1, <1>2, <1>3 DEF Grows
<1>6. ASSUME NEW x \in DOMAIN pr PROVE RecordOK(r, nm, x)
  <2>1. RecordOK(pr, nm, x)
    BY DEF RecordsOK
  <2>2. Kids(r, r[x].kids)
    BY <2>1, <1>3, <1>5, KidsKept DEF RecordOK
  <2>3. \A c \in ToSet(r[x].kids) : r[c].state \in Over \/ r[c].supervisor = x
    BY <2>1, <1>3, <1>5 DEF RecordOK, Kids, Grows
  <2>4. r[x].state = "unborn" => pr[x].state = "unborn"
    BY <1>2, <1>3
  <2> QED BY <2>1, <2>2, <2>3, <2>4, <1>1, <1>3 DEF RecordOK
<1> QED BY <1>1, <1>3, <1>4, <1>5, <1>6 DEF RecordsOK

\* A process ends by itself: its handler takes over its children.
LEMMA EndStep ==
  ASSUME TreeInv, NEW p \in Pids, NEW at, At(p, "body", at),
         NEW state \in {"crashed", "exited"}, End(p, state),
         result' = result, restarts' = restarts, crossed' \in BOOLEAN,
         ~ crossed' => ~ crossed /\ Up(p)
  PROVE  TreeInv'
<1> DEFINE h == Handle(p, proc)
           s == <<h>>
<1>1. /\ Shape /\ Regular /\ Typed /\ Stacks /\ Books /\ Justified
      /\ p \in Tasks /\ p # 0 /\ p \in DOMAIN proc /\ p \in Nat
      /\ stack[p] # <<>> /\ Bodily(p) /\ Len(stack[p]) = 1
      /\ ~ Starting(p)
      /\ proc[p] \in Records /\ proc[p].state \in Alive
      /\ proc[p].state # "unborn" /\ proc[p].state \notin Over
      /\ proc[p].spec.mode # "external" /\ RecordOK(proc, Names, p)
      /\ RecordsOK(proc, Names) /\ proc \in Seq(Records)
  BY TheBody
<1>2. /\ proc' = Ended(proc, p, state) /\ busy' = {p}
      /\ stack' = [stack EXCEPT ![p] = s]
      /\ by_name' = [by_name EXCEPT ![proc[p].spec.name] = 0]
  BY DEF End, Ended
<1>3. /\ proc' \in Seq(Records) /\ Len(proc') = Len(proc) /\ DOMAIN proc' = DOMAIN proc
      /\ Grows(proc, proc') /\ RecordsOK(proc', Names)
      /\ proc'[p].state \in Over /\ proc'[p].os # "alive"
      /\ \A x \in DOMAIN proc \ {p} : proc'[x].state = proc[x].state
      /\ \A x \in DOMAIN proc :
           /\ proc'[x].spec = proc[x].spec
           /\ proc'[x].supervisor = proc[x].supervisor
           /\ proc'[x].parent = proc[x].parent /\ proc'[x].kids = proc[x].kids
           /\ proc'[x].os = "alive" => proc[x].os = "alive"
           /\ proc'[x].charged = proc[x].charged
  <2>1. state \in Over
    BY DEF Over
  <2> QED BY <2>1, <1>1, <1>2, EndedIs
<1>4. /\ h \in Frames /\ h.op = "handle" /\ h.pid = p /\ h.at = "kids"
      /\ h.todo = proc[p].kids
  BY <1>1, HandleFrame
<1> HIDE DEF h
<1>5. s \in Seq(Frames) /\ Len(s) = 1 /\ DOMAIN s = {1} /\ s[1] = h /\ Last(s) = h
      /\ s # <<>>
  BY <1>4 DEF Last
<1>6. /\ Typed' /\ Tasks' = Tasks /\ Pids' = Pids /\ Names' = Names
      /\ stack'[p] = s /\ (\A u \in Tasks \ {p} : stack'[u] = stack[u])
      /\ Spared(p) /\ Mild(p)
  <2>1. by_name' \in [Names -> 0 .. Len(proc)]
    BY <1>1, <1>2, NameGone
  <2>2. /\ restarts' \subseteq [by : Pids, child : Pids, failed : Pids]
        /\ result' \in {"ok", "raised"}
    BY <1>1 DEF Typed
  <2> HIDE DEF s
  <2> QED BY <2>1, <2>2, <1>1, <1>2, <1>3, <1>5, OneTask
<1>7. Top(p)' = h /\ ~ Starting(p)' /\ TopOK(p)'
  <2>1. Top(p)' = h
    BY <1>5, <1>6 DEF Top
  <2> QED BY <2>1, <1>4 DEF Starting, TopOK, At
<1>8. StackOK(proc', Names, p, stack'[p])
  <2>1. Kids(proc', h.todo)
    BY <1>1, <1>3, <1>4, KidsKept DEF RecordOK
  <2>2. FrameOK(proc', Names, h)
    BY <2>1, <1>1, <1>3, <1>4 DEF FrameOK, HandleOK
  <2>3. Bottom(p, h)
    BY <1>1, <1>4 DEF Bottom
  <2> QED BY <2>2, <2>3, <1>5, <1>6 DEF StackOK
<1> HIDE DEF s
<1>9. ~ Agent(p)
  <2> SUFFICES ASSUME Agent(p) PROVE FALSE
    OBVIOUS
  <2>1. StackOK(proc, Names, 0, stack[0]) /\ 1 \in DOMAIN stack[0]
    BY <1>1, TheStacks DEF Stacks, Agent
  <2>2. FrameOK(proc, Names, stack[0][1])
    BY <2>1 DEF StackOK
  <2> QED BY <2>2, <1>1 DEF FrameOK, ExternalOK, Agent
<1>10. Bodies' /\ Agents'
  <2>1. \A y : Agent(y)' <=> Agent(y)
    BY <1>1, <1>6, TheStacks DEF Agent
  <2>2. \A x \in Pids' \ {p} :
          /\ x \in Pids /\ proc'[x].state = proc[x].state
          /\ stack[x] = <<>> => stack'[x] = <<>>
          /\ Bodily(x)' => Bodily(x)
    BY <1>1, <1>3, <1>6, TheStacks DEF Pids, Bodily
  <2>3. ~ Bodily(p)'
    BY <1>4, <1>5, <1>6 DEF Bodily
  <2>4. /\ proc'[p].state # "unborn" /\ proc'[p].spec.mode # "external"
    BY <1>1, <1>3 DEF Over
  <2> QED BY <2>1, <2>2, <2>3, <2>4, <1>1, <1>3, <1>6, <1>9, BasesKept
<1>11. Shape'
  <2>1. \A x \in Pids : proc[x].state = "unborn" =>
          proc'[x].state = "unborn" \/ (Starting(p) /\ Top(p).new = x)
    BY <1>1, <1>3 DEF Pids
  <2>2. \A x \in Pids \ {p} :
          stack[x] = <<>> /\ proc[x].state # "unborn" => stack'[x] = <<>>
    BY <1>1, <1>6, TheStacks
  <2> QED BY <2>1, <2>2, <1>1, <1>3, <1>6, <1>7, <1>8, <1>10, ShapeKept
<1>12. Books' /\ Justified'
  <2>1. NoMoreOwed
    <3>1. \A q : Owes(h, q) = 0
      BY <1>4 DEF Owes
    <3>2. ASSUME NEW q, NEW u \in Tasks', NEW i \in DOMAIN stack'[u]
          PROVE  \/ Owes(stack'[u][i], q) = 0
                 \/ /\ u \in Tasks /\ i \in DOMAIN stack[u]
                    /\ Owes(stack'[u][i], q) <= Owes(stack[u][i], q)
      <4>1. CASE u = p
        BY <4>1, <3>1, <1>5, <1>6
      <4>2. CASE u # p
        <5>1. u \in Tasks /\ stack'[u] = stack[u] /\ stack[u][i] \in Frames
          BY <4>2, <1>1, <1>6, TheStacks
        <5>2. Owes(stack[u][i], q) \in Int
          BY <5>1, FrameFields DEF Owes
        <5> QED BY <5>1, <5>2
      <4> QED BY <4>1, <4>2
    <3> QED BY <3>2 DEF NoMoreOwed
  <2>2. \A q \in Pids : proc'[q].charged = proc[q].charged
    BY <1>3 DEF Pids
  <2> QED BY <2>1, <2>2, <1>1, <1>3, <1>6, BooksStep, JustStep
<1>13. Regular'
  <2> SUFFICES ASSUME ~ crossed'
               PROVE  Sole' /\ Named' /\ Linked(proc') /\ Watched' /\ Reaped'
    BY DEF Regular
  <2>1. /\ Sole /\ Named /\ Linked(proc) /\ Watched /\ Reaped
        /\ proc[p].state # "stopping"
    BY <1>1 DEF Regular, Up
  <2>2. Sole'
    <3>1. ASSUME NEW u \in Tasks, NEW i \in DOMAIN stack[u], Holds(stack[u][i], p)
          PROVE  FALSE
      <4>1. FrameOK(proc, Names, stack[u][i])
        BY <1>1 DEF Stacks, StackOK
      <4>2. stack[u][i].op = "kill" /\ stack[u][i].pid = p
        BY <3>1, <4>1, <1>1 DEF Holds, FrameOK, HandleOK
      <4> QED BY <2>1, <3>1, <4>2 DEF Sole
    <3>2. ASSUME NEW u \in Tasks', NEW i \in DOMAIN stack'[u], NEW x,
                 Holds(stack'[u][i], x)
          PROVE  \/ u = p /\ i = 1 /\ x = p
                 \/ /\ u \in Tasks /\ i \in DOMAIN stack[u] /\ Holds(stack[u][i], x)
                    /\ stack'[u][i].op = stack[u][i].op
      <4>1. CASE u = p
        BY <3>2, <4>1, <1>4, <1>5, <1>6 DEF Holds
      <4>2. CASE u # p
        BY <3>2, <4>2, <1>6
      <4> QED BY <4>1, <4>2
    <3>3. \A x \in Pids : x # p /\ proc[x].state = "stopping" =>
            proc'[x].state = "stopping"
      BY <1>3 DEF Pids
    <3>4. \A i \in DOMAIN stack'[p] :
            i = 1 /\ stack'[p][i].op = "kill" => proc'[p].state = "stopping"
      BY <1>4, <1>5, <1>6
    <3>5. Comes(p, 1, p)
      BY <3>1, <3>2 DEF Comes
    <3> QED BY <2>1, <3>3, <3>4, <3>5, <1>1, SoleAdds
  <2>3. Named'
    <3>1. /\ p \in Live /\ proc[p].spec.name \in Names
          /\ \A x \in Pids : proc'[x].spec = proc[x].spec
          /\ \A x \in Pids \ {p} : proc'[x].state = proc[x].state
      BY <1>1, <1>3 DEF Live, RecordOK, Alive, Pids
    <3> QED BY <3>1, <2>1, <1>1, <1>2, <1>3, <1>6, NameFreed
  <2>4. Linked(proc')
    <3>1. Alikened(proc, proc')
      <4>1. ASSUME NEW x \in DOMAIN proc
            PROVE  /\ proc'[x].spec = proc[x].spec
                   /\ proc'[x].supervisor = proc[x].supervisor
                   /\ proc'[x].parent = proc[x].parent
                   /\ proc'[x].kids = proc[x].kids
                   /\ proc[x].supervisor \in {0} \cup DOMAIN proc
                   /\ proc'[x].state \in Alive => proc[x].state \in Alive
        BY <1>1, <1>3 DEF RecordsOK, RecordOK
      <4>2. DOMAIN proc' = DOMAIN proc
        BY <1>3
      <4> QED BY ONLY <4>1, <4>2 DEF Alikened
    <3> QED BY <3>1, <2>1, LinkedAlive
  <2>5. Watched'
    <3> SUFFICES ASSUME NEW x \in Pids, Supervises(proc', x),
                        NEW q, q = proc'[x].supervisor
                 PROVE  Up(q)' \/ Doomed(q, x)'
      BY <1>6 DEF Watched
    <3>1. q = proc[x].supervisor /\ q \in Pids /\ Supervises(proc, x)
      BY <1>1, <1>3 DEF Supervises, RecordsOK, RecordOK, Pids
    <3>2. CASE q = p
      <4>1. x \in ToSet(proc[p].kids)
        BY <2>1, <3>1, <3>2 DEF Linked, Pids
      <4>2. stack'[p][1].pid = q /\ Takes(stack'[p], 1, x) /\ 1 \in DOMAIN stack'[p]
        BY <4>1, <3>2, <1>4, <1>5, <1>6 DEF Takes
      <4> QED BY <4>2, <1>1, <1>6 DEF Doomed
    <3>3. CASE q # p
      <4>1. Up(q) \/ Doomed(q, x)
        BY <2>1, <3>1 DEF Watched
      <4>2. Doomed(q, x) => Doomed(q, x)'
        BY <1>1, <1>6, DoomedBeside
      <4>3. Up(q) => Up(q)'
        BY <3>1, <3>3, <1>3 DEF Up, Pids
      <4> QED BY <4>1, <4>2, <4>3
    <3> QED BY <3>2, <3>3
  <2>6. Reaped'
    <3>1. \A x \in Pids' : proc'[x].os = "alive" =>
            \/ proc'[x].state \in Alive
            \/ Starting(p)' /\ Top(p)'.new = x
            \/ /\ x \in Pids /\ proc[x].os = "alive" /\ proc[x].state \notin Alive
               /\ ~ (Starting(p) /\ Top(p).new = x)
      BY <1>1, <1>3, <1>6 DEF Pids
    <3> QED BY <3>1, <2>1, <1>1, <1>6, ReapedStep
  <2> QED BY <2>2, <2>3, <2>4, <2>5, <2>6
<1> QED BY <1>11, <1>12, <1>13 DEF TreeInv

\* A process crashes, ...
LEMMA CrashStep ==
  ASSUME TreeInv, NEW p \in Pids, Crash(p)
  PROVE  TreeInv'
<1>1. /\ At(p, "body", "run") /\ End(p, "crashed") /\ restarts' = restarts
      /\ result' = result /\ crossed' = (crossed \/ proc[p].state = "stopping")
  BY DEF Crash
<1>2. crossed \in BOOLEAN /\ p # 0 /\ proc[p].state \in Alive
  BY <1>1, TheBody DEF Typed
<1>3. ~ crossed' => ~ crossed /\ Up(p)
  BY <1>1, <1>2 DEF Up, Alive
<1>4. crossed' \in BOOLEAN
  BY <1>1, <1>2
<1> QED BY <1>1, <1>3, <1>4, EndStep

\* ... exits, ...
LEMMA ExitStep ==
  ASSUME TreeInv, NEW p \in Pids, Exit(p)
  PROVE  TreeInv'
<1>1. CASE Up(p)
  <2>1. /\ At(p, "body", "run") /\ End(p, "exited") /\ restarts' = restarts
        /\ result' = result /\ crossed' = crossed
    BY <1>1 DEF Exit, history
  <2>2. crossed' \in BOOLEAN
    BY <2>1, TheBody DEF Typed
  <2> QED BY <2>1, <2>2, <1>1, EndStep
<1>2. CASE ~ Up(p)
  BY <1>2, TaskEnds
<1> QED BY <1>1, <1>2

\* ... or fails when it is stopped.
LEMMA StopFailsStep ==
  ASSUME TreeInv, NEW p \in Pids, StopFails(p)
  PROVE  TreeInv'
<1>1. /\ At(p, "body", "cancelled") /\ End(p, "crashed") /\ restarts' = restarts
      /\ result' = result /\ crossed' = TRUE
  BY DEF StopFails
<1> QED BY <1>1, EndStep

-----------------------------------------------------------------------------
(* External agents, and what the shell calls *)

\* An external agent waits for nobody.
LEMMA TheAgent ==
  ASSUME TreeInv, NEW t \in Tasks, NEW at, At(t, "external", at)
  PROVE  /\ t = 0 /\ Len(stack[t]) = 1 /\ stack[t][1] = Top(t)
         /\ DOMAIN stack[t] = {1}
         /\ Top(t).pid \in Pids /\ proc[Top(t).pid].spec.mode = "external"
         /\ proc[Top(t).pid].state = "running" /\ stack[Top(t).pid] = <<>>
         /\ Agent(Top(t).pid)
<1>1. /\ Shape /\ Typed /\ Stacks /\ stack[t] # <<>> /\ Top(t).op = "external"
      /\ FrameOK(proc, Names, Top(t))
  BY AtTop
<1> DEFINE n == Len(stack[t])
<1>2. /\ n \in Nat \ {0} /\ n \in DOMAIN stack[t] /\ Top(t) = stack[t][n]
      /\ n = 1 => Bottom(t, Top(t))
      /\ DOMAIN stack[t] = 1 .. n
  BY <1>1, TheTop, TheStacks
<1>3. n = 1
  <2> SUFFICES ASSUME n # 1 PROVE FALSE
    OBVIOUS
  <2>1. /\ n - 1 \in DOMAIN stack[t] /\ (n - 1) + 1 \in DOMAIN stack[t]
        /\ (n - 1) + 1 = n
    <3> HIDE DEF n
    <3> QED BY <1>2
  <2>2. Awaiting(stack[t][n - 1], stack[t][(n - 1) + 1])
    BY <2>1, <1>1 DEF Stacks, StackOK
  <2>3. stack[t][(n - 1) + 1].op = "external"
    BY <2>1, <1>1, <1>2
  <2> QED BY <2>2, <2>3 DEF Awaiting
<1>4. t = 0 /\ DOMAIN stack[t] = {1} /\ stack[t][1] = Top(t)
  <2>1. DOMAIN stack[t] = {1}
    BY <1>2, <1>3
  <2> QED BY <2>1, <1>1, <1>2, <1>3 DEF Bottom
<1>5. Top(t).pid \in Pids /\ proc[Top(t).pid].spec.mode = "external"
  BY <1>1 DEF FrameOK, ExternalOK, Pids
<1>6. Agent(Top(t).pid)
  BY <1>1, <1>4 DEF Agent
<1> QED BY <1>1, <1>3, <1>4, <1>5, <1>6 DEF Shape, Bodies, Agents

\* An external agent ends.
LEMMA ExternalEndsStep ==
  ASSUME TreeInv, NEW t \in Tasks, NEW state \in {"exited", "crashed"},
         ExternalEnds(t, state)
  PROVE  TreeInv'
<1> DEFINE p == Top(t).pid
<1>1. PICK at \in {"run", "last"} : At(t, "external", at)
  BY DEF ExternalEnds
<1>2. /\ Shape /\ Regular /\ Typed /\ Stacks /\ Books /\ Justified
      /\ stack[t] # <<>> /\ Top(t) \in Frames /\ Top(t).op = "external"
      /\ RecordsOK(proc, Names) /\ proc \in Seq(Records) /\ 0 \in Tasks
      /\ stack[t] \in Seq(Frames)
  BY <1>1, AtTop, TheStacks DEF TreeInv, Shape, Typed
<1>3. /\ t = 0 /\ Len(stack[t]) = 1 /\ stack[t][1] = Top(t)
      /\ DOMAIN stack[t] = {1}
      /\ p \in Pids /\ proc[p].spec.mode = "external"
      /\ proc[p].state = "running" /\ stack[p] = <<>> /\ Agent(p)
  BY <1>1, TheAgent
<1>4. p \in DOMAIN proc /\ p # 0 /\ RecordOK(proc, Names, p) /\ p \in Tasks
  BY <1>2, <1>3, TheStacks DEF Pids, RecordsOK
<1>5. /\ proc' = Turns(proc, p, state)
      /\ by_name' = [by_name EXCEPT ![proc[p].spec.name] = 0]
      /\ stack' = [stack EXCEPT ![t] = Front(stack[t])]
      /\ busy' = {} /\ result' = "ok"
      /\ restarts' = restarts /\ crossed' = crossed
  BY <1>3 DEF ExternalEnds, Turns, Return, history
<1>6. Front(stack[t]) = <<>>
  <2>1. Front(stack[t]) \in Seq(Frames) /\ Len(Front(stack[t])) = Len(stack[t]) - 1
    BY <1>2, EndsOf
  <2> QED BY <2>1, <1>3
<1> HIDE DEF p
<1>7. /\ proc' \in Seq(Records) /\ Len(proc') = Len(proc) /\ DOMAIN proc' = DOMAIN proc
      /\ Grows(proc, proc') /\ RecordsOK(proc', Names)
      /\ proc'[p].state = state
      /\ \A x \in DOMAIN proc \ {p} : proc'[x].state = proc[x].state
      /\ \A x \in DOMAIN proc :
           /\ proc'[x].spec = proc[x].spec
           /\ proc'[x].supervisor = proc[x].supervisor
           /\ proc'[x].parent = proc[x].parent /\ proc'[x].kids = proc[x].kids
           /\ proc'[x].os = proc[x].os /\ proc'[x].charged = proc[x].charged
  <2>1. /\ state \in Alive \cup Over /\ proc[p].state # "unborn"
        /\ ~ (proc[p].state \in Over)
    BY <1>3 DEF Over
  <2> QED BY <2>1, <1>2, <1>4, <1>5, StateIs
<1>8. /\ Typed' /\ Tasks' = Tasks /\ Pids' = Pids /\ Names' = Names
      /\ stack'[t] = <<>> /\ (\A u \in Tasks \ {t} : stack'[u] = stack[u])
      /\ Spared(t) /\ Mild(t)
  <2>1. by_name' \in [Names -> 0 .. Len(proc)]
    BY <1>2, <1>5, NameGone
  <2>2. /\ restarts' \subseteq [by : Pids, child : Pids, failed : Pids]
        /\ result' \in {"ok", "raised"} /\ crossed' \in BOOLEAN
    BY <1>2, <1>5 DEF Typed
  <2>3. <<>> \in Seq(Frames) /\ stack' = [stack EXCEPT ![t] = <<>>]
    BY <1>5, <1>6
  <2> QED BY <2>1, <2>2, <2>3, <1>2, <1>5, <1>7, OneTask
<1>9. TopOK(t)' /\ ~ Starting(t)' /\ StackOK(proc', Names, t, stack'[t])
  BY <1>8 DEF TopOK, Starting, At, StackOK
<1>10. /\ Turned(t, Top(t), Top(t)) /\ Len(stack'[t]) = 0 /\ ~ Starting(t)
       /\ Len(stack'[t]) < Len(stack[t]) /\ ~ (Len(stack'[t]) > Len(stack[t]))
  <2>1. Turned(t, Top(t), Top(t))
    BY <1>2, <1>6, <1>8, Popped
  <2> QED BY <2>1, <1>2, <1>3, <1>8 DEF Starting
<1>11. ASSUME NEW e, e = p PROVE Bodies' /\ Agents'
  <2>1. \A x \in Pids \ {e} : ~ Agent(x)
    BY <1>3, <1>11 DEF Agent, p
  <2>2. \A x : ~ Agent(x)'
    BY <1>3, <1>8 DEF Agent
  <2>3. \A x \in Pids' \ {e} :
          /\ x \in Pids /\ proc'[x].state = proc[x].state
          /\ stack[x] = <<>> => stack'[x] = <<>>
          /\ Bodily(x)' => Bodily(x)
    BY <1>2, <1>3, <1>7, <1>8, <1>11, TheStacks DEF Pids, Bodily
  <2>4. stack'[e] = <<>> /\ ~ Bodily(e)' /\ proc'[e].state \in Over
    <3>1. stack'[e] = <<>>
      BY <1>3, <1>4, <1>8, <1>11
    <3>2. proc'[e].state \in Over
      BY <1>7, <1>11 DEF Over
    <3> QED BY <3>1, <3>2 DEF Bodily
  <2>5. \A x \in Pids' \ {e} : Agent(x)' <=> Agent(x)
    BY <2>1, <2>2, <1>8
  <2> QED BY <2>2, <2>3, <2>4, <2>5, <1>2, <1>7, <1>8, BasesKept
<1>12. Shape'
  <2>1. \A x \in Pids : proc[x].state = "unborn" =>
          proc'[x].state = "unborn" \/ (Starting(t) /\ Top(t).new = x)
    BY <1>3, <1>7 DEF Pids
  <2>2. \A x \in Pids \ {t} :
          stack[x] = <<>> /\ proc[x].state # "unborn" => stack'[x] = <<>>
    BY <1>2, <1>8, TheStacks
  <2> QED BY <2>1, <2>2, <1>2, <1>7, <1>8, <1>9, <1>11, ShapeKept
<1>13. Books' /\ Justified'
  <2>1. NoMoreOwed
    <3>1. \A q : Owes(Top(t), q) <= Owes(Top(t), q)
      BY <1>2 DEF Owes
    <3> QED BY <3>1, <1>2, <1>8, <1>10, OwedStep
  <2>2. \A q \in Pids : proc'[q].charged = proc[q].charged
    BY <1>7 DEF Pids
  <2> QED BY <2>1, <2>2, <1>2, <1>5, <1>7, <1>8, BooksStep, JustStep
<1>14. Regular'
  <2> SUFFICES ASSUME ~ crossed'
               PROVE  Sole' /\ Named' /\ Linked(proc') /\ Watched' /\ Reaped'
    BY DEF Regular
  <2>1. /\ Sole /\ Named /\ Linked(proc) /\ Watched /\ Reaped
    BY <1>2, <1>5 DEF Regular
  <2>2. Sole'
    <3>1. NoMoreHeld
      BY <1>2, <1>8, <1>10, HeldStep
    <3>2. \A x \in Pids : proc[x].state = "stopping" => proc'[x].state = "stopping"
      BY <1>3, <1>7 DEF Pids
    <3> QED BY <3>1, <3>2, <2>1, <1>2, SoleStep
  <2>3. Named'
    <3>1. /\ p \in Live /\ proc[p].spec.name \in Names /\ proc'[p].state \in Over
          /\ \A x \in Pids : proc'[x].spec = proc[x].spec
          /\ \A x \in Pids \ {p} : proc'[x].state = proc[x].state
      BY <1>3, <1>4, <1>7 DEF Live, RecordOK, Over, Pids
    <3> QED BY <3>1, <2>1, <1>2, <1>5, <1>8, NameFreed
  <2>4. Linked(proc')
    <3>1. Alikened(proc, proc')
      <4>1. ASSUME NEW x \in DOMAIN proc
            PROVE  /\ proc'[x].spec = proc[x].spec
                   /\ proc'[x].supervisor = proc[x].supervisor
                   /\ proc'[x].parent = proc[x].parent
                   /\ proc'[x].kids = proc[x].kids
                   /\ proc[x].supervisor \in {0} \cup DOMAIN proc
                   /\ proc'[x].state \in Alive => proc[x].state \in Alive
        BY <1>2, <1>3, <1>7 DEF RecordsOK, RecordOK, Alive
      <4>2. DOMAIN proc' = DOMAIN proc
        BY <1>7
      <4> QED BY ONLY <4>1, <4>2 DEF Alikened
    <3> QED BY <3>1, <2>1, LinkedAlive
  <2>5. Watched'
    <3> SUFFICES ASSUME NEW x \in Pids, Supervises(proc', x),
                        NEW q, q = proc'[x].supervisor
                 PROVE  Up(q)' \/ Doomed(q, x)'
      BY <1>8 DEF Watched
    <3>1. x # p /\ x \in DOMAIN proc
      BY <1>7 DEF Supervises, Alive, Pids
    <3>2. q = proc[x].supervisor /\ q \in Pids /\ Supervises(proc, x)
      BY <3>1, <1>2, <1>7 DEF Supervises, RecordsOK, RecordOK, Pids
    <3>3. q # p
      BY <3>2, <1>3 DEF Supervises
    <3>4. Up(q) \/ Doomed(q, x)
      BY <2>1, <3>2 DEF Watched
    <3>5. Up(q) => Up(q)'
      BY <3>2, <3>3, <1>7 DEF Up, Pids
    <3>6. Doomed(q, x) => Doomed(q, x)'
      BY <1>2, <1>8, <1>10, DoomedStep
    <3> QED BY <3>4, <3>5, <3>6
  <2>6. Reaped'
    <3>1. \A x \in Pids' : proc'[x].os = "alive" =>
            \/ proc'[x].state \in Alive
            \/ Starting(t)' /\ Top(t)'.new = x
            \/ /\ x \in Pids /\ proc[x].os = "alive" /\ proc[x].state \notin Alive
               /\ ~ (Starting(t) /\ Top(t).new = x)
      <4>1. proc[p].os # "alive"
        BY <1>3, <1>4 DEF RecordOK
      <4> QED BY <4>1, <1>7, <1>8, <1>10 DEF Pids
    <3> QED BY <3>1, <2>1, <1>2, <1>8, ReapedStep
  <2> QED BY <2>2, <2>3, <2>4, <2>5, <2>6
<1> QED BY <1>12, <1>13, <1>14 DEF TreeInv

\* The shell makes a call.
LEMMA ShellCalls ==
  ASSUME TreeInv, stack[0] = <<>>, NEW f \in Frames, f.op \in {"kill", "start"},
         f.at = "enter", FrameOK(proc, Names, f),
         stack' = [stack EXCEPT ![0] = <<f>>], busy' = {0},
         UNCHANGED <<proc, result, by_name, restarts, crossed>>
  PROVE  TreeInv'
<1> DEFINE s == <<f>>
<1>1. /\ Shape /\ Regular /\ Typed /\ Stacks /\ Books /\ Justified /\ 0 \in Tasks
      /\ RecordsOK(proc, Names) /\ proc \in Seq(Records)
  BY TheStacks DEF TreeInv, Shape, Typed
<1>2. s \in Seq(Frames) /\ DOMAIN s = {1} /\ s[1] = f /\ Last(s) = f /\ s # <<>>
  BY DEF Last
<1>3. /\ Typed' /\ Tasks' = Tasks /\ Pids' = Pids /\ Names' = Names
      /\ stack'[0] = s /\ (\A u \in Tasks \ {0} : stack'[u] = stack[u])
      /\ Spared(0) /\ Mild(0)
  <2>1. /\ by_name' \in [Names -> 0 .. Len(proc)] /\ crossed' \in BOOLEAN
        /\ restarts' \subseteq [by : Pids, child : Pids, failed : Pids]
        /\ result' \in {"ok", "raised"}
    BY <1>1 DEF Typed
  <2> HIDE DEF s
  <2>2. stack' = [stack EXCEPT ![0] = s]
    BY DEF s
  <2> QED BY <2>1, <2>2, <1>1, <1>2, OneTask
<1>4. Top(0)' = f /\ ~ Starting(0)' /\ TopOK(0)' /\ ~ Starting(0)
  <2>1. Top(0)' = f
    BY <1>2, <1>3 DEF Top
  <2> QED BY <2>1 DEF Starting, TopOK, At
<1>5. StackOK(proc', Names, 0, stack'[0])
  BY <1>2, <1>3 DEF StackOK, Bottom
<1> HIDE DEF s
<1>6. Grows(proc, proc')
  BY DEF Grows
<1>7. Bodies' /\ Agents'
  <2>1. \A x : ~ Agent(x) /\ ~ Agent(x)'
    BY <1>2, <1>3 DEF Agent
  <2>2. \A x \in Pids :
          /\ stack[x] = <<>> => stack'[x] = <<>>
          /\ Bodily(x)' => Bodily(x)
    BY <1>1, <1>3, TheStacks DEF Bodily
  <2>3. 0 \notin Pids
    BY <1>1, TheStacks
  <2> QED BY <2>1, <2>2, <2>3, <1>1, <1>3, <1>6, BasesKept
<1>8. Shape'
  <2>1. \A x \in Pids \ {0} :
          stack[x] = <<>> /\ proc[x].state # "unborn" => stack'[x] = <<>>
    BY <1>1, <1>3, TheStacks
  <2>2. \A x \in Pids : proc[x].state = "unborn" => proc'[x].state = "unborn"
    OBVIOUS
  <2> QED BY <2>1, <2>2, <1>1, <1>3, <1>4, <1>5, <1>6, <1>7, ShapeKept
<1>9. Books' /\ Justified'
  <2>1. NoMoreOwed
    <3>1. \A q : Owes(f, q) = 0
      BY DEF Owes
    <3>2. ASSUME NEW q, NEW u \in Tasks', NEW i \in DOMAIN stack'[u]
          PROVE  \/ Owes(stack'[u][i], q) = 0
                 \/ /\ u \in Tasks /\ i \in DOMAIN stack[u]
                    /\ Owes(stack'[u][i], q) <= Owes(stack[u][i], q)
      <4>1. CASE u = 0
        BY <4>1, <3>1, <1>2, <1>3
      <4>2. CASE u # 0
        <5>1. u \in Tasks /\ stack'[u] = stack[u] /\ stack[u][i] \in Frames
          BY <4>2, <1>1, <1>3, TheStacks
        <5>2. Owes(stack[u][i], q) \in Int
          BY <5>1, FrameFields DEF Owes
        <5> QED BY <5>1, <5>2
      <4> QED BY <4>1, <4>2
    <3> QED BY <3>2 DEF NoMoreOwed
  <2> QED BY <2>1, <1>1, <1>3, <1>6, BooksStep, JustStep
<1>10. Regular'
  <2> SUFFICES ASSUME ~ crossed'
               PROVE  Sole' /\ Named' /\ Linked(proc') /\ Watched' /\ Reaped'
    BY DEF Regular
  <2>1. Sole /\ Named /\ Linked(proc) /\ Watched /\ Reaped
    BY <1>1 DEF Regular
  <2>2. Sole'
    <3>1. ASSUME NEW u \in Tasks', NEW i \in DOMAIN stack'[u], NEW p,
                 Holds(stack'[u][i], p)
          PROVE  /\ u \in Tasks /\ i \in DOMAIN stack[u] /\ Holds(stack[u][i], p)
                 /\ stack'[u][i].op = stack[u][i].op
      <4>1. u # 0
        BY <3>1, <1>2, <1>3 DEF Holds
      <4> QED BY <4>1, <3>1, <1>3
    <3>2. NoMoreHeld
      BY <3>1 DEF NoMoreHeld
    <3> QED BY <3>2, <2>1, <1>1, SoleStep
  <2>3. Named'
    BY <2>1, <1>3 DEF Named, Live, Pids
  <2>4. Linked(proc')
    BY <2>1
  <2>5. Watched'
    <3> SUFFICES ASSUME NEW x \in Pids, Supervises(proc', x),
                        NEW q, q = proc'[x].supervisor
                 PROVE  Up(q)' \/ Doomed(q, x)'
      BY <1>3 DEF Watched
    <3>1. Up(q) \/ Doomed(q, x)
      BY <2>1 DEF Watched
    <3>2. Doomed(q, x) => Doomed(q, x)'
      BY <1>1, <1>3, DoomedBeside
    <3>3. Up(q) => Up(q)'
      BY DEF Up
    <3> QED BY <3>1, <3>2, <3>3
  <2>6. Reaped'
    <3>1. \A x \in Pids' : proc'[x].os = "alive" =>
            \/ proc'[x].state \in Alive
            \/ Starting(0)' /\ Top(0)'.new = x
            \/ /\ x \in Pids /\ proc[x].os = "alive" /\ proc[x].state \notin Alive
               /\ ~ (Starting(0) /\ Top(0).new = x)
      BY <1>3, <1>4
    <3> QED BY <3>1, <2>1, <1>1, <1>3, ReapedStep
  <2> QED BY <2>2, <2>3, <2>4, <2>5, <2>6
<1> QED BY <1>8, <1>9, <1>10 DEF TreeInv

\* Programs that may be asked for.
LEMMA SpecIs ==
  ASSUME Typed, NEW spec \in Specs, NEW x \in {"permanent", "temporary"}
  PROVE  /\ spec \in AnyProgram /\ spec.name \in Names
         /\ spec.mode \in {"in_process", "isolated"}
         /\ LET s == [spec EXCEPT !.policy = x]
            IN s \in AnyProgram /\ s.name = spec.name /\ s.mode = spec.mode
         /\ LET s == [spec EXCEPT !.mode = "external", !.policy = x]
            IN s \in AnyProgram /\ s.name = spec.name /\ s.mode = "external"
<1>1. spec \in Programs /\ spec.name \in Names
  BY ConstantsAssumption DEF ConstantsAssumption, Typed
<1> QED BY <1>1 DEF Programs, AnyProgram

\* The shell kills a process, ...
LEMMA ShellKillStep ==
  ASSUME TreeInv, NEW p \in Pids, ShellKill(p)
  PROVE  TreeInv'
<1> DEFINE f == Kill(p, TRUE)
<1>1. /\ stack[0] = <<>> /\ stack' = [stack EXCEPT ![0] = <<f>>] /\ busy' = {0}
      /\ UNCHANGED <<proc, result, by_name, restarts, crossed>>
  BY DEF ShellKill, Continue, Shell, history
<1>2. Typed /\ Agents /\ p \in Nat
  BY TheStacks DEF TreeInv, Shape
<1>3. f \in Frames /\ f.op = "kill" /\ f.pid = p /\ f.at = "enter" /\ f.todo = <<>>
  BY <1>2, KillFrame
<1> HIDE DEF f
<1>4. FrameOK(proc, Names, f)
  <2>1. proc[p].spec.mode = "external" => proc[p].state \in Over
    BY <1>1, <1>2 DEF Agents, Agent
  <2>2. Kids(proc, f.todo)
    BY <1>3 DEF Kids, ToSet
  <2> QED BY <2>1, <2>2, <1>3 DEF FrameOK, KillOK, Pids
<1> QED BY <1>1, <1>3, <1>4, ShellCalls

\* ... has one spawn a child, ...
LEMMA ShellSpawnStep ==
  ASSUME TreeInv, NEW p \in Pids, NEW spec \in Specs, ShellSpawn(p, spec)
  PROVE  TreeInv'
<1> DEFINE f == Start(p, 0, spec)
<1>1. /\ stack[0] = <<>> /\ stack' = [stack EXCEPT ![0] = <<f>>] /\ busy' = {0}
      /\ UNCHANGED <<proc, result, by_name, restarts, crossed>> /\ Up(p)
  BY DEF ShellSpawn, Continue, Shell, history
<1>2. Typed /\ p \in Nat
  BY TheStacks DEF TreeInv, Shape
<1>3. spec \in AnyProgram /\ spec.name \in Names /\ spec.mode \in {"in_process", "isolated"}
  BY <1>2, SpecIs
<1>4. f \in Frames /\ f.op = "start" /\ f.pid = 0 /\ f.at = "enter" /\ f.parent = p
      /\ f.spec = spec
  BY <1>2, <1>3, StartFrame
<1> HIDE DEF f
<1>5. FrameOK(proc, Names, f)
  BY <1>1, <1>3, <1>4 DEF FrameOK, StartOK, Up, Pids
<1> QED BY <1>1, <1>4, <1>5, ShellCalls

\* ... or runs a program.
LEMMA ShellRunStep ==
  ASSUME TreeInv, NEW spec \in Specs, ShellRun(spec)
  PROVE  TreeInv'
<1> DEFINE s == [spec EXCEPT !.policy = "permanent"]
           f == Start(0, 0, s)
<1>1. /\ stack[0] = <<>> /\ stack' = [stack EXCEPT ![0] = <<f>>] /\ busy' = {0}
      /\ UNCHANGED <<proc, result, by_name, restarts, crossed>>
  BY DEF ShellRun, Continue, Shell, history
<1>2. Typed
  BY DEF TreeInv, Shape
<1>3. s \in AnyProgram /\ s.name \in Names /\ s.mode \in {"in_process", "isolated"}
  BY <1>2, SpecIs
<1> HIDE DEF s
<1>4. f \in Frames /\ f.op = "start" /\ f.pid = 0 /\ f.at = "enter" /\ f.parent = 0
      /\ f.spec = s
  BY <1>3, StartFrame
<1> HIDE DEF f
<1>5. FrameOK(proc, Names, f)
  BY <1>3, <1>4 DEF FrameOK, StartOK
<1> QED BY <1>1, <1>4, <1>5, ShellCalls

\* Nothing happens that matters here.
LEMMA Idle ==
  ASSUME TreeInv,
         UNCHANGED <<proc, stack, busy, result, by_name, restarts, crossed>>
  PROVE  TreeInv'
<1>1. Shape'
  <2>1. Shape
    BY DEF TreeInv
  <2>2. Typed'
    BY <2>1 DEF Shape, Typed, Tasks, Names, Pids
  <2>3. RecordsOK(proc', Names') /\ Stacks'
    BY <2>1 DEF Shape, Stacks, Names, Tasks
  <2>4. \A t : (Starting(t)' <=> Starting(t)) /\ (TopOK(t)' <=> TopOK(t))
               /\ Top(t)' = Top(t)
    BY DEF Starting, TopOK, Top, At
  <2>5. Tops'
    BY <2>1, <2>4 DEF Shape, Tops, Tasks
  <2>6. Bodies' /\ Agents'
    BY <2>1 DEF Shape, Bodies, Agents, Bodily, Agent, Pids
  <2> QED BY <2>2, <2>3, <2>5, <2>6 DEF Shape
<1>2. Books' /\ Justified'
  <2>1. \A q : Owed(q)' = Owed(q) /\ Made(q)' = Made(q)
    BY DEF Owed, Made, Tasks
  <2> QED BY <2>1 DEF TreeInv, Books, Justified, Pids
<1>3. Regular'
  <2> SUFFICES ASSUME ~ crossed'
               PROVE  Sole' /\ Named' /\ Linked(proc') /\ Watched' /\ Reaped'
    BY DEF Regular
  <2>1. Sole /\ Named /\ Linked(proc) /\ Watched /\ Reaped
    BY DEF TreeInv, Regular
  <2>2. \A p, q : (Up(q)' <=> Up(q)) /\ (Doomed(q, p)' <=> Doomed(q, p))
    BY DEF Up, Doomed, Tasks
  <2>3. \A t : (Starting(t)' <=> Starting(t)) /\ Top(t)' = Top(t)
    BY DEF Starting, Top
  <2>4. Sole' /\ Named' /\ Linked(proc')
    BY <2>1 DEF Sole, Named, Live, Tasks, Pids
  <2> QED BY <2>1, <2>2, <2>3, <2>4 DEF Watched, Reaped, Pids, Tasks
<1> QED BY <1>1, <1>2, <1>3 DEF TreeInv

-----------------------------------------------------------------------------
(* New processes *)

\* A record more.
Births(pr, nm, spec, q, state, os, r, new) ==
  /\ pr \in Seq(Records) /\ RecordsOK(pr, nm) /\ spec \in AnyProgram
  /\ q \in {0} \cup DOMAIN pr /\ state \in {"unborn"} \cup Alive
  /\ os \in {"none", "alive"} /\ spec.name \in nm /\ spec.mode # "none"
  /\ os # "none" => spec.mode = "isolated"
  /\ state = "unborn" => spec.mode = "isolated" /\ q = 0
  /\ r = Append(pr, Process(spec, q, state, os)) /\ new = Len(pr) + 1

Newborn(pr, nm, spec, q, state, os, r, new) ==
  /\ r \in Seq(Records) /\ Len(r) = Len(pr) + 1 /\ Len(pr) \in Nat
  /\ DOMAIN r = DOMAIN pr \cup {new} /\ new \notin DOMAIN pr
  /\ new \in Nat \ {0} /\ DOMAIN r = 1 .. Len(pr) + 1
  /\ \A x \in DOMAIN pr : r[x] = pr[x]
  /\ r[new].spec = spec /\ r[new].state = state /\ r[new].os = os
  /\ r[new].parent = q /\ r[new].supervisor = q /\ ToSet(r[new].kids) = {}
  /\ Grows(pr, r) /\ RecordsOK(r, nm)

\* The records with a new one, which nobody knew of.
LEMMA BornIs ==
  ASSUME NEW pr, NEW nm, NEW spec, NEW q, NEW state, NEW os, NEW r,
         NEW new, Births(pr, nm, spec, q, state, os, r, new)
  PROVE  Newborn(pr, nm, spec, q, state, os, r, new)
<1> USE DEF Births
<1> DEFINE e == Process(spec, q, state, os)
<1>1. q \in Nat /\ <<>> \in Seq(Nat) /\ ToSet(<<>>) = {}
  BY DEF ToSet
<1>2. /\ e \in Records /\ e.spec = spec /\ e.state = state /\ e.os = os
      /\ e.parent = q /\ e.supervisor = q /\ e.kids = <<>> /\ e.charged = 0
  BY <1>1 DEF Process, Records
<1> HIDE DEF e
<1>3. /\ r \in Seq(Records) /\ Len(r) = Len(pr) + 1 /\ Len(pr) \in Nat
      /\ r[new] = e /\ (\A x \in 1 .. Len(pr) : r[x] = pr[x])
      /\ DOMAIN pr = 1 .. Len(pr) /\ DOMAIN r = 1 .. Len(pr) + 1
  <2>1. r = Append(pr, e)
    BY DEF e
  <2> QED BY <1>2, <2>1, AppendProperties
<1>4. DOMAIN r = DOMAIN pr \cup {new} /\ new \notin DOMAIN pr /\ new \in Nat \ {0}
  BY <1>3
<1>5. Grows(pr, r)
  BY <1>3, <1>4 DEF Grows
<1>6. ASSUME NEW x \in DOMAIN pr PROVE RecordOK(r, nm, x)
  <2>1. RecordOK(pr, nm, x) /\ r[x] = pr[x]
    BY <1>3 DEF RecordsOK
  <2>2. Kids(r, r[x].kids)
    BY <2>1, <1>5, KidsKept DEF RecordOK
  <2>3. \A c \in ToSet(r[x].kids) : r[c].state \in Over \/ r[c].supervisor = x
    BY <2>1, <1>3 DEF RecordOK, Kids
  <2> QED BY <2>1, <2>2, <2>3, <1>4 DEF RecordOK
<1>7. RecordOK(r, nm, new)
  <2>1. MaxRestarts \in Nat
    BY ConstantsAssumption DEF ConstantsAssumption
  <2>2. Kids(r, <<>>)
    BY <1>1 DEF Kids
  <2> QED BY <2>1, <2>2, <1>1, <1>2, <1>3, <1>4 DEF RecordOK
<1>8. RecordsOK(r, nm)
  BY <1>4, <1>6, <1>7 DEF RecordsOK
<1> QED BY <1>1, <1>2, <1>3, <1>4, <1>5, <1>8 DEF Newborn

\* One that was unborn is so no longer.
Woken(pr, n, s, o) == [pr EXCEPT ![n].state = s, ![n].os = o]

\* The records after an operating system process has reported.
LEMMA WokenIs ==
  ASSUME NEW pr \in Seq(Records), NEW nm, RecordsOK(pr, nm), NEW n \in DOMAIN pr,
         pr[n].state = "unborn", NEW s \in Alive \cup Over,
         NEW o \in {"dead", pr[n].os}, NEW r, r = Woken(pr, n, s, o)
  PROVE  /\ r \in Seq(Records) /\ Len(r) = Len(pr) /\ DOMAIN r = DOMAIN pr
         /\ Grows(pr, r) /\ RecordsOK(r, nm)
         /\ r[n].state = s /\ \A x \in DOMAIN pr \ {n} : r[x].state = pr[x].state
         /\ r[n].os = o
         /\ \A x \in DOMAIN pr :
              /\ r[x].spec = pr[x].spec /\ r[x].supervisor = pr[x].supervisor
              /\ r[x].parent = pr[x].parent /\ r[x].kids = pr[x].kids
              /\ r[x].os = "alive" => pr[x].os = "alive"
              /\ r[x].charged = pr[x].charged
              /\ n \notin ToSet(r[x].kids)
<1>1. DOMAIN r = DOMAIN pr /\ r = [x \in DOMAIN pr |-> r[x]]
  BY DEF Woken
<1>2. /\ s \in {"unborn"} \cup Alive \cup Over /\ s # "unborn"
      /\ pr[n] \in Records /\ pr[n].spec.mode = "isolated" /\ pr[n].parent = 0
      /\ pr[n].supervisor = 0 /\ o \in {"none", "alive", "dead"}
  <2>1. pr[n] \in Records /\ RecordOK(pr, nm, n)
    BY DEF RecordsOK
  <2> QED BY <2>1, RecordFields DEF Alive, Over, RecordOK
<1>3. ASSUME NEW x \in DOMAIN pr
      PROVE  /\ r[x] \in Records
             /\ r[x].spec = pr[x].spec /\ r[x].supervisor = pr[x].supervisor
             /\ r[x].parent = pr[x].parent /\ r[x].kids = pr[x].kids
             /\ r[x].charged = pr[x].charged
             /\ r[x].os = IF x = n THEN o ELSE pr[x].os
             /\ r[x].state = IF x = n THEN s ELSE pr[x].state
  <2>1. ASSUME NEW a, a = pr[x], NEW b, b = r[x]
        PROVE  /\ b \in Records
               /\ b.spec = a.spec /\ b.supervisor = a.supervisor
               /\ b.parent = a.parent /\ b.kids = a.kids
               /\ b.charged = a.charged
               /\ b.os = IF x = n THEN o ELSE a.os
               /\ b.state = IF x = n THEN s ELSE a.state
    <3>1. a \in Records
      BY <2>1
    <3>2. b = IF x = n THEN [a EXCEPT !.state = s, !.os = o] ELSE a
      BY <2>1, <3>1 DEF Woken, Records
    <3> QED BY <3>1, <3>2, <1>2 DEF Records
  <2> QED BY <2>1
<1>4. r \in Seq(Records) /\ Len(r) = Len(pr)
  BY <1>1, <1>3, AsLong
<1>5. Grows(pr, r)
  BY <1>1, <1>2, <1>3 DEF Grows, Over
<1>6. ASSUME NEW x \in DOMAIN pr
      PROVE  RecordOK(r, nm, x) /\ n \notin ToSet(r[x].kids)
  <2>1. RecordOK(pr, nm, x)
    BY DEF RecordsOK
  <2>2. Kids(r, r[x].kids)
    BY <2>1, <1>3, <1>5, KidsKept DEF RecordOK
  <2>3. n \notin ToSet(r[x].kids)
    BY <2>1, <1>3 DEF RecordOK, Kids
  <2>4. \A c \in ToSet(r[x].kids) : r[c].state \in Over \/ r[c].supervisor = x
    BY <2>1, <1>3, <1>5 DEF RecordOK, Kids, Grows
  <2>5. r[x].state = "unborn" => pr[x].state = "unborn"
    BY <1>2, <1>3
  <2>6. r[x].os # "none" => r[x].spec.mode = "isolated"
    BY <2>1, <1>2, <1>3 DEF RecordOK
  <2> QED BY <2>1, <2>2, <2>3, <2>4, <2>5, <2>6, <1>1, <1>3 DEF RecordOK
<1>7. \A x \in DOMAIN pr : r[x].os = "alive" => pr[x].os = "alive"
  BY <1>3
<1> QED BY <1>1, <1>3, <1>4, <1>5, <1>6, <1>7 DEF RecordsOK

\* All but one, which is new, are in the lists they should be in.
LinkedBut(pr, new) ==
  \A p \in DOMAIN pr \ {new} : Supervises(pr, p) =>
    /\ pr[p].parent = pr[p].supervisor
    /\ p \in ToSet(pr[pr[p].supervisor].kids)

\* It joins the list of its supervisor.
LEMMA JoinedIs ==
  ASSUME NEW pr \in Seq(Records), NEW nm, RecordsOK(pr, nm), NEW new \in DOMAIN pr,
         pr[new].state # "unborn", pr[new].spec.mode # "external",
         \A x \in DOMAIN pr : new \notin ToSet(pr[x].kids),
         NEW q \in {0} \cup DOMAIN pr, q # 0 => pr[q].state # "unborn", q # new,
         pr[new].supervisor \in {0, q}, NEW r, r = Link(pr, q, new)
  PROVE  /\ r \in Seq(Records) /\ Len(r) = Len(pr) /\ DOMAIN r = DOMAIN pr
         /\ RecordsOK(r, nm)
         /\ \A x \in DOMAIN pr :
              /\ r[x].spec = pr[x].spec /\ r[x].state = pr[x].state
              /\ r[x].os = pr[x].os /\ r[x].charged = pr[x].charged
              /\ x # new => r[x].supervisor = pr[x].supervisor
         /\ r[new].supervisor = q
         /\ LinkedBut(pr, new) => Linked(r)
<1>1. /\ r \in Seq(Records) /\ DOMAIN r = DOMAIN pr /\ Len(r) = Len(pr)
      /\ \A x \in DOMAIN pr :
           /\ Alike(r[x], pr[x])
           /\ x # new \/ q = 0 => /\ r[x].supervisor = pr[x].supervisor
                                  /\ r[x].parent = pr[x].parent
           /\ x # q \/ q = 0 => r[x].kids = pr[x].kids
      /\ q # 0 => /\ r[new].supervisor = q /\ r[new].parent = q
                  /\ ToSet(r[q].kids) = ToSet(pr[q].kids) \cup {new}
  <2>1. LET l == Link(pr, q, new)
        IN /\ l \in Seq(Records) /\ DOMAIN l = DOMAIN pr /\ Len(l) = Len(pr)
           /\ \A x \in DOMAIN pr :
                /\ Alike(l[x], pr[x])
                /\ x # new \/ q = 0 => /\ l[x].supervisor = pr[x].supervisor
                                       /\ l[x].parent = pr[x].parent
                /\ x # q \/ q = 0 => l[x].kids = pr[x].kids
           /\ q # 0 => /\ l[new].supervisor = q /\ l[new].parent = q
                       /\ ToSet(l[q].kids) = ToSet(pr[q].kids) \cup {new}
    <3>1. pr \in Seq(Records) /\ new \in DOMAIN pr /\ q \in {0} \cup DOMAIN pr
      OBVIOUS
    <3> QED BY ONLY <3>1, LinkIs, ZenonT(60)
  <2>2. r = Link(pr, q, new)
    OBVIOUS
  <2> QED BY <2>1, <2>2
<1>2. r[new].supervisor = q
  BY <1>1
<1>3. \A x \in DOMAIN pr : RecordOK(pr, nm, x)
  BY DEF RecordsOK
<1>4. ASSUME NEW x \in DOMAIN pr PROVE RecordOK(r, nm, x)
  <2>1. ASSUME NEW c \in ToSet(r[x].kids)
        PROVE  /\ c \in DOMAIN r /\ r[c].state # "unborn"
               /\ r[c].spec.mode # "external"
               /\ r[c].state \in Over \/ r[c].supervisor = x
    <3>1. CASE c = new
      <4>1. x = q
        BY <1>1, <2>1, <3>1
      <4> QED BY <4>1, <3>1, <1>1, <1>2 DEF Alike
    <3>2. CASE c # new
      <4>1. c \in ToSet(pr[x].kids)
        BY <1>1, <2>1, <3>2
      <4>2. /\ c \in DOMAIN pr /\ pr[c].state # "unborn"
            /\ pr[c].spec.mode # "external"
            /\ pr[c].state \in Over \/ pr[c].supervisor = x
        BY <4>1, <1>3 DEF RecordOK, Kids
      <4> QED BY <4>2, <3>2, <1>1 DEF Alike
    <3> QED BY <3>1, <3>2
  <2>2. Kids(r, r[x].kids)
    BY <2>1 DEF Kids
  <2>3. r[x].parent \in {0} \cup DOMAIN r /\ r[x].supervisor \in {0} \cup DOMAIN r
    <3>1. CASE x = new /\ q # 0
      BY <1>1, <3>1
    <3>2. CASE x # new \/ q = 0
      BY <1>1, <1>3, <3>2 DEF RecordOK
    <3> QED BY <3>1, <3>2
  <2>4. r[x].state = "unborn" =>
          /\ r[x].spec.mode = "isolated" /\ r[x].parent = 0
          /\ r[x].supervisor = 0 /\ ToSet(r[x].kids) = {}
    <3> SUFFICES ASSUME r[x].state = "unborn"
                 PROVE  /\ r[x].spec.mode = "isolated" /\ r[x].parent = 0
                        /\ r[x].supervisor = 0 /\ ToSet(r[x].kids) = {}
      OBVIOUS
    <3>1. pr[x].state = "unborn" /\ x # new /\ x # q
      BY <1>1, <1>3, TRUE DEF Alike
    <3>2. /\ pr[x].spec.mode = "isolated" /\ pr[x].parent = 0
          /\ pr[x].supervisor = 0 /\ ToSet(pr[x].kids) = {}
      BY <3>1, <1>3 DEF RecordOK
    <3>3. /\ r[x].spec = pr[x].spec /\ r[x].parent = pr[x].parent
          /\ r[x].supervisor = pr[x].supervisor /\ r[x].kids = pr[x].kids
      BY <3>1, <1>1 DEF Alike
    <3> QED BY <3>2, <3>3
  <2>5. /\ r[x].spec.name \in nm /\ r[x].spec.mode # "none"
        /\ r[x].os # "none" => r[x].spec.mode = "isolated"
        /\ r[x].charged <= MaxRestarts
    BY <1>1, <1>3 DEF Alike, RecordOK
  <2> QED BY <2>1, <2>2, <2>3, <2>4, <2>5 DEF RecordOK
<1>5. ASSUME LinkedBut(pr, new), NEW x \in DOMAIN pr, Supervises(r, x)
      PROVE  /\ r[x].parent = r[x].supervisor
             /\ x \in ToSet(r[r[x].supervisor].kids)
  <2>1. CASE x = new
    <3>1. q # 0
      BY <1>2, <1>5, <2>1 DEF Supervises
    <3> QED BY <3>1, <2>1, <1>1
  <2>2. CASE x # new
    <3>1. r[x].supervisor = pr[x].supervisor /\ r[x].parent = pr[x].parent
      BY <1>1, <2>2
    <3>2. pr[x].supervisor \in {0} \cup DOMAIN pr /\ pr[x].supervisor # 0
      BY <3>1, <1>3, <1>5 DEF RecordOK, Supervises
    <3>3. Supervises(pr, x)
      BY <3>1, <3>2, <1>1, <1>5 DEF Supervises, Alike
    <3>4. pr[x].parent = pr[x].supervisor /\ x \in ToSet(pr[pr[x].supervisor].kids)
      BY <3>3, <2>2, <1>5 DEF LinkedBut
    <3>5. ToSet(pr[pr[x].supervisor].kids) \subseteq ToSet(r[pr[x].supervisor].kids)
      BY <3>2, <1>1
    <3> QED BY <3>1, <3>4, <3>5
  <2> QED BY <2>1, <2>2
<1>6. LinkedBut(pr, new) => Linked(r)
  BY <1>1, <1>5 DEF Linked
<1>7. ASSUME NEW x \in DOMAIN pr
      PROVE  /\ r[x].spec = pr[x].spec /\ r[x].state = pr[x].state
             /\ r[x].os = pr[x].os /\ r[x].charged = pr[x].charged
             /\ x # new => r[x].supervisor = pr[x].supervisor
  BY <1>1 DEF Alike
<1> QED BY <1>1, <1>2, <1>4, <1>6, <1>7 DEF RecordsOK

\* It joins the list, and takes the place of another.
Takeover(pr, nm, new, q, old, r) ==
  /\ pr \in Seq(Records) /\ RecordsOK(pr, nm) /\ new \in DOMAIN pr
  /\ pr[new].state # "unborn" /\ pr[new].spec.mode # "external"
  /\ \A x \in DOMAIN pr : new \notin ToSet(pr[x].kids)
  /\ q \in {0} \cup DOMAIN pr /\ q # new /\ pr[new].supervisor \in {0, q}
  /\ q # 0 => pr[q].state # "unborn"
  /\ old # 0 => /\ q # 0 /\ old # new /\ old \in DOMAIN pr
                /\ pr[old].state \in Over
  /\ r = Replace(Link(pr, q, new), q, old, new)

\* A new process joins the list of its supervisor, where it may replace another.
LEMMA PlacedIs ==
  ASSUME NEW pr, NEW nm, NEW new, NEW q, NEW old, NEW r,
         Takeover(pr, nm, new, q, old, r)
  PROVE  /\ r \in Seq(Records) /\ Len(r) = Len(pr) /\ DOMAIN r = DOMAIN pr
         /\ RecordsOK(r, nm)
         /\ \A x \in DOMAIN pr :
              /\ r[x].spec = pr[x].spec /\ r[x].state = pr[x].state
              /\ r[x].os = pr[x].os /\ r[x].charged = pr[x].charged
              /\ x # new => r[x].supervisor = pr[x].supervisor
         /\ r[new].supervisor = q
         /\ LinkedBut(pr, new) => Linked(r)
<1> USE DEF Takeover
<1> DEFINE l == Link(pr, q, new)
<1>1. /\ l \in Seq(Records) /\ Len(l) = Len(pr) /\ DOMAIN l = DOMAIN pr
      /\ RecordsOK(l, nm)
      /\ \A x \in DOMAIN pr :
           /\ l[x].spec = pr[x].spec /\ l[x].state = pr[x].state
           /\ l[x].os = pr[x].os /\ l[x].charged = pr[x].charged
           /\ x # new => l[x].supervisor = pr[x].supervisor
      /\ l[new].supervisor = q
      /\ LinkedBut(pr, new) => Linked(l)
  BY JoinedIs
<1>2. r = Replace(l, q, old, new)
  OBVIOUS
<1> HIDE DEF l
<1>3. /\ r \in Seq(Records) /\ Len(r) = Len(l) /\ Calm(l, r)
      /\ RecordsOK(r, nm) /\ (Linked(l) => Linked(r))
      /\ \A x \in DOMAIN l : r[x].charged = l[x].charged /\ r[x].os = l[x].os
  BY <1>1, <1>2, ReplaceQuiet
<1> QED BY <1>1, <1>3 DEF Calm

\* What a start does when the process is registered: it has a task that is in
\* its body, and its name; the start returns.
Registers(t, new, q, n, x) ==
  /\ TreeInv /\ t \in Tasks /\ stack[t] # <<>> /\ Top(t).op = "start"
  /\ new \in Nat \ {0} /\ new # t /\ (Starting(t) => Top(t).new = new)
  /\ new \in Pids => /\ Starting(t) /\ proc[new].state = "unborn"
                     /\ stack[new] = <<>>
  /\ proc' \in Seq(Records) /\ DOMAIN proc' = DOMAIN proc \cup {new}
  /\ Grows(proc, proc') /\ RecordsOK(proc', Names) /\ (~ crossed => Linked(proc'))
  /\ \A p \in Pids : proc'[p].charged = proc[p].charged
  /\ \A p \in Pids \ {new} :
       /\ proc'[p].spec = proc[p].spec /\ proc'[p].state = proc[p].state
       /\ proc'[p].supervisor = proc[p].supervisor
       /\ proc'[p].os = "alive" => proc[p].os = "alive"
  /\ q \in {0} \cup Pids /\ (q = 0 \/ Up(q)) /\ q # new
  /\ proc'[new].supervisor = q /\ proc'[new].state \in Alive
  /\ proc'[new].spec.mode # "external"
  /\ n \in Names /\ by_name[n] = 0 /\ proc'[new].spec.name = n
  /\ by_name' = [by_name EXCEPT ![n] = new] /\ x \in {"new", "run"}
  /\ stack' = [u \in 0 .. Len(proc') |->
       IF u = new THEN Body(x) ELSE IF u = t THEN Front(stack[t]) ELSE stack[u]]
  /\ (busy' = {} \/ busy' = {t}) /\ result' = "ok"
  /\ restarts' = restarts /\ crossed' = crossed

\* A process is registered: it is live, and its name was free.
LEMMA Registered ==
  ASSUME NEW t, NEW new, NEW q, NEW n, NEW x0, Registers(t, new, q, n, x0)
  PROVE  TreeInv'
<1> USE DEF Registers
<1>1. /\ Shape /\ Regular /\ Typed /\ Stacks /\ Books /\ Justified
      /\ stack[t] # <<>> /\ Top(t) \in Frames /\ Top(t).op = "start"
      /\ RecordsOK(proc, Names) /\ Front(stack[t]) \in Seq(Frames)
  BY TheTop, MovesTyped DEF TreeInv, Shape
<1>2. /\ Tasks = 0 .. Len(proc) /\ Len(proc) \in Nat /\ Pids = 1 .. Len(proc)
      /\ 0 \in Tasks /\ Pids \subseteq Tasks
      /\ \A u \in Tasks : u = 0 \/ u \in Pids
      /\ \A u \in Tasks : stack[u] \in Seq(Frames)
  BY <1>1, TheStacks
<1>3. /\ Len(proc') \in Nat /\ DOMAIN proc' = 1 .. Len(proc')
      /\ Pids' = Pids \cup {new} /\ Tasks' = 0 .. Len(proc')
      /\ 0 \in Tasks' /\ (\A u : u \in Tasks' <=> u \in Tasks \cup {new})
  <2>1. Len(proc') \in Nat /\ DOMAIN proc' = 1 .. Len(proc')
    <3>1. proc' \in Seq(Records)
      OBVIOUS
    <3> QED BY ONLY <3>1
  <2>2. Pids' = Pids \cup {new} /\ Tasks' = 0 .. Len(proc')
    <3>1. Pids' = Pids \cup {new}
      BY DEF Pids
    <3>2. DOMAIN stack' = 0 .. Len(proc')
      OBVIOUS
    <3> QED BY <3>1, <3>2 DEF Tasks
  <2>3. \A u : u \in 0 .. Len(proc') <=> u = 0 \/ u \in Pids'
    BY <2>1 DEF Pids
  <2>4. \A u : u \in Tasks <=> u = 0 \/ u \in Pids
    BY <1>2
  <2>5. \A u : u \in Tasks' <=> u \in Tasks \cup {new}
    BY <2>2, <2>3, <2>4
  <2> QED BY <2>1, <2>2, <2>5, <1>2
<1>4. /\ stack'[new] = Body(x0) /\ stack'[t] = Front(stack[t])
      /\ \A u \in Tasks \ {t, new} : stack'[u] = stack[u]
      /\ t \in Tasks' /\ new \in Tasks'
  BY <1>3
<1>5. Names' = Names /\ by_name' \in [Names -> 0 .. Len(proc')]
  <2>1. by_name \in [Names -> 0 .. Len(proc)]
    BY <1>1 DEF Typed
  <2>2. \A u : u \in 0 .. Len(proc) => u \in 0 .. Len(proc')
    BY <1>2, <1>3
  <2>3. new \in 0 .. Len(proc')
    BY <1>3, <1>4
  <2> QED BY <2>1, <2>2, <2>3 DEF Names
<1>6. Typed'
  <2>1. stack' \in [0 .. Len(proc') -> Seq(Frames)]
    <3>1. x0 \in Places
      BY DEF Places
    <3>2. Body(x0) \in Seq(Frames)
      BY <3>1, BodyFrames
    <3>3. \A u \in 0 .. Len(proc') : stack'[u] \in Seq(Frames)
      BY <3>2, <1>1, <1>2, <1>3, <1>4
    <3> QED BY <3>3
  <2>2. restarts' \subseteq [by : Pids', child : Pids', failed : Pids']
    <3>1. restarts \subseteq [by : Pids, child : Pids, failed : Pids]
      BY <1>1 DEF Typed
    <3> QED BY <3>1, <1>3
  <2>3. busy' = {} \/ \E u \in Tasks' : busy' = {u}
    BY <1>4
  <2>4. (\A s \in Specs : s.name \in Names) /\ crossed \in BOOLEAN
    BY <1>1 DEF Typed
  <2> QED BY <2>1, <2>2, <2>3, <2>4, <1>5 DEF Typed
<1>7. Turned(t, Top(t), Top(t)) /\ Len(stack'[t]) = Len(stack[t]) - 1
  BY <1>1, <1>4, Popped
<1>8. TopOK(t)' /\ ~ Starting(t)' /\ StackOK(proc', Names, t, stack'[t])
  <2>1. Top(t).op # "kill"
    BY <1>1
  <2> QED BY <2>1, <1>1, <1>4, <1>6, PopTop
<1>9. Spared(t) /\ Mild(t)
  <2>1. Spared(t)
    BY <1>3, <1>4 DEF Spared
  <2>2. Mild(t)
    BY <1>2, <1>3, <1>4 DEF Mild
  <2> QED BY <2>1, <2>2
<1>10. Bodies' /\ Agents'
  <2>1. /\ stack'[t] # <<>> => /\ stack'[t][1].op = stack[t][1].op
                               /\ stack'[t][1].pid = stack[t][1].pid
        /\ stack'[t] = <<>> => Top(t) = stack[t][1]
    BY <1>1, <1>4, <1>6, <1>7, TurnedBottom
  <2>2. \A y : Agent(y)' <=> Agent(y)
    <3>1. CASE t = 0
      BY <3>1, <2>1, <1>1 DEF Agent
    <3>2. CASE t # 0
      BY <3>2, <1>2, <1>4 DEF Agent
    <3> QED BY <3>1, <3>2
  <2>3. \A x \in Pids' \ {new} :
          /\ x \in Pids /\ proc'[x].state = proc[x].state
          /\ stack[x] = <<>> => stack'[x] = <<>>
          /\ Bodily(x)' => Bodily(x)
    <3> SUFFICES ASSUME NEW x \in Pids' \ {new}
                 PROVE  /\ x \in Pids /\ proc'[x].state = proc[x].state
                        /\ stack[x] = <<>> => stack'[x] = <<>>
                        /\ Bodily(x)' => Bodily(x)
      OBVIOUS
    <3>1. x \in Pids /\ x \in Tasks
      BY <1>2, <1>3
    <3>2. CASE x = t
      BY <3>1, <3>2, <2>1, <1>1 DEF Bodily
    <3>3. CASE x # t
      BY <3>1, <3>3, <1>4 DEF Bodily
    <3> QED BY <3>1, <3>2, <3>3
  <2>4. ~ Agent(new)
    <3> SUFFICES ASSUME Agent(new) PROVE FALSE
      OBVIOUS
    <3>1. StackOK(proc, Names, 0, stack[0]) /\ 1 \in DOMAIN stack[0]
      BY <1>1, <1>2 DEF Stacks, Agent
    <3>2. FrameOK(proc, Names, stack[0][1])
      BY <3>1 DEF StackOK
    <3>3. new \in Pids
      BY <3>2 DEF FrameOK, ExternalOK, Agent, Pids
    <3> QED BY <3>3, <1>1 DEF Shape, Agents
  <2>5. proc'[new].state # "unborn"
    BY DEF Alive
  <2> QED BY <2>2, <2>3, <2>4, <2>5, <1>1, <1>6, BasesKept
<1>11. Shape'
  <2>1. \A x \in Pids : proc[x].state = "unborn" =>
          proc'[x].state = "unborn" \/ (Starting(t) /\ Top(t).new = x)
    OBVIOUS
  <2>2. \A x \in Pids \ {t} :
          stack[x] = <<>> /\ proc[x].state # "unborn" => stack'[x] = <<>>
    BY <1>2, <1>4, ZenonT(60)
  <2> QED BY <2>1, <2>2, <1>1, <1>5, <1>6, <1>8, <1>9, <1>10, ShapeKept
<1>12. Books' /\ Justified'
  <2>1. NoMoreOwed
    <3>1. \A y : Owes(Top(t), y) = 0
      BY <1>1 DEF Owes
    <3>2. \A y : Owes(Top(t), y) <= Owes(Top(t), y)
      BY <3>1
    <3> QED BY <3>1, <3>2, <1>1, <1>4, <1>6, <1>7, <1>9, OwedStep
  <2> QED BY <2>1, <1>1, <1>6, BooksStep, JustStep
<1>13. Regular'
  <2> SUFFICES ASSUME ~ crossed
               PROVE  Sole' /\ Named' /\ Linked(proc') /\ Watched' /\ Reaped'
    BY DEF Regular
  <2>1. Sole /\ Named /\ Linked(proc') /\ Watched /\ Reaped
    BY <1>1 DEF Regular
  <2>2. Sole'
    <3>1. Len(stack[t]) \in Nat
      BY <1>2
    <3>2. ~ (Len(stack'[t]) > Len(stack[t]))
      BY <3>1, <1>7
    <3>3. NoMoreHeld
      BY <3>2, <1>1, <1>4, <1>6, <1>7, <1>9, HeldStep
    <3>4. \A p \in Pids : proc[p].state = "stopping" => proc'[p].state = "stopping"
      OBVIOUS
    <3> QED BY <3>3, <3>4, <2>1, <1>1, SoleStep
  <2>3. Named'
    <3>1. \A x \in Pids' \ {new} : /\ x \in Pids /\ proc'[x].spec = proc[x].spec
                                   /\ proc'[x].state = proc[x].state
      BY <1>3
    <3>2. new \in Pids'
      BY <1>3
    <3> QED BY <3>1, <3>2, <2>1, <1>1, NameTaken
  <2>4. Watched'
    <3> SUFFICES ASSUME NEW x \in Pids', Supervises(proc', x),
                        NEW s, s = proc'[x].supervisor
                 PROVE  Up(s)' \/ Doomed(s, x)'
      BY DEF Watched
    <3>1. \A y \in Pids \ {new} : Up(y) => Up(y)'
      BY DEF Up
    <3>2. CASE x = new
      <4>1. s = q /\ q # 0
        BY <3>2 DEF Supervises
      <4> QED BY <4>1, <3>1
    <3>3. CASE x # new
      <4>1. x \in Pids /\ s = proc[x].supervisor /\ s # 0
        BY <3>3, <1>3 DEF Supervises
      <4>2. s \in Pids
        BY <4>1, <1>1 DEF RecordsOK, RecordOK, Pids
      <4>3. proc'[s].spec = proc[s].spec
        BY <4>2 DEF Grows, Pids
      <4>4. Supervises(proc, x)
        BY <4>1, <4>3, <3>3 DEF Supervises
      <4>5. Up(s) \/ Doomed(s, x)
        BY <4>1, <4>4, <2>1 DEF Watched
      <4>6. Up(s) => Up(s)'
        <5>1. Up(s) => s # new
          BY <4>2 DEF Up
        <5> QED BY <5>1, <4>2, <3>1
      <4>7. Doomed(s, x) => Doomed(s, x)'
        <5>1. Top(t).op \notin {"kill", "handle"}
          BY <1>1
        <5> QED BY <5>1, <1>1, <1>4, <1>6, <1>7, <1>9, DoomedStep
      <4> QED BY <4>5, <4>6, <4>7
    <3> QED BY <3>2, <3>3
  <2>5. Reaped'
    <3>1. \A x \in Pids' : proc'[x].os = "alive" =>
            \/ proc'[x].state \in Alive
            \/ Starting(t)' /\ Top(t)'.new = x
            \/ /\ x \in Pids /\ proc[x].os = "alive" /\ proc[x].state \notin Alive
               /\ ~ (Starting(t) /\ Top(t).new = x)
      BY <1>3
    <3> QED BY <3>1, <2>1, <1>1, <1>4, <1>9, ReapedStep
  <2> QED BY <2>1, <2>2, <2>3, <2>4, <2>5
<1> QED BY <1>11, <1>12, <1>13 DEF TreeInv

\* The records, when a process that is new in them, b, joins those of its
\* supervisor.
Joins(pr, nm, new, b, q, old, r) ==
  /\ pr \in Seq(Records) /\ RecordsOK(pr, nm) /\ new \in Nat \ {0}
  /\ b \in Seq(Records) /\ RecordsOK(b, nm) /\ DOMAIN b = DOMAIN pr \cup {new}
  /\ Grows(pr, b) /\ b[new].state # "unborn" /\ b[new].spec.mode # "external"
  /\ new \in DOMAIN pr => pr[new].state = "unborn"
  /\ \A x \in DOMAIN pr : b[x].charged = pr[x].charged
  /\ \A x \in DOMAIN pr \ {new} :
       /\ b[x].spec = pr[x].spec /\ b[x].state = pr[x].state
       /\ b[x].supervisor = pr[x].supervisor /\ b[x].parent = pr[x].parent
       /\ b[x].kids = pr[x].kids
  /\ \A x \in DOMAIN b : new \notin ToSet(b[x].kids)
  /\ q \in {0} \cup DOMAIN pr /\ b[new].supervisor \in {0, q}
  /\ q # 0 => pr[q].state # "unborn"
  /\ old # 0 => q # 0 /\ old \in DOMAIN pr /\ pr[old].state \in Over
  /\ r = Replace(Link(b, q, new), q, old, new)

Joined(pr, nm, new, b, q, r) ==
  /\ r \in Seq(Records) /\ DOMAIN r = DOMAIN pr \cup {new}
  /\ Grows(pr, r) /\ RecordsOK(r, nm) /\ (Linked(pr) => Linked(r))
  /\ \A x \in DOMAIN pr : r[x].charged = pr[x].charged
  /\ \A x \in DOMAIN pr \ {new} :
       /\ r[x].spec = pr[x].spec /\ r[x].state = pr[x].state
       /\ r[x].supervisor = pr[x].supervisor
       /\ r[x].os = "alive" => pr[x].os = "alive"
  /\ r[new].supervisor = q /\ r[new].state = b[new].state
  /\ r[new].spec = b[new].spec /\ r[new].os = b[new].os

\* A new process joins the tree.
LEMMA JoinsTree ==
  ASSUME NEW pr, NEW nm, NEW new, NEW b, NEW q, NEW old, NEW r,
         Joins(pr, nm, new, b, q, old, r)
  PROVE  Joined(pr, nm, new, b, q, r)
<1> USE DEF Joins
<1>1. /\ new \in DOMAIN b /\ q \in {0} \cup DOMAIN b /\ q # new
      /\ (q # 0 => b[q].state # "unborn")
      /\ old # 0 => /\ q # 0 /\ old # new /\ old \in DOMAIN b
                    /\ b[old].state \in Over
  <2>1. "unborn" \notin Over
    BY DEF Over
  <2> QED BY <2>1
<1>2. /\ r \in Seq(Records) /\ Len(r) = Len(b) /\ DOMAIN r = DOMAIN b
      /\ RecordsOK(r, nm)
      /\ \A x \in DOMAIN b :
           /\ r[x].spec = b[x].spec /\ r[x].state = b[x].state
           /\ r[x].os = b[x].os /\ r[x].charged = b[x].charged
           /\ x # new => r[x].supervisor = b[x].supervisor
      /\ r[new].supervisor = q
      /\ LinkedBut(b, new) => Linked(r)
  <2>1. Takeover(b, nm, new, q, old, r)
    BY <1>1 DEF Takeover
  <2> QED BY ONLY <2>1, PlacedIs
<1>3. ASSUME Linked(pr), NEW p \in DOMAIN b \ {new}, Supervises(b, p)
      PROVE  /\ b[p].parent = b[p].supervisor
             /\ p \in ToSet(b[b[p].supervisor].kids)
  <2> DEFINE s == pr[p].supervisor
  <2>1. p \in DOMAIN pr /\ s = b[p].supervisor /\ s # 0 /\ b[p].parent = pr[p].parent
    BY <1>3 DEF Supervises
  <2>2. s \in DOMAIN pr
    BY <2>1 DEF RecordsOK, RecordOK
  <2>3. pr[s].spec = b[s].spec
    BY <2>2 DEF Grows
  <2>4. Supervises(pr, p)
    BY <1>3, <2>1, <2>3 DEF Supervises
  <2>5. pr[p].parent = s /\ p \in ToSet(pr[s].kids)
    BY <1>3, <2>1, <2>4 DEF Linked
  <2>6. s # new
    <3> SUFFICES ASSUME s = new PROVE FALSE
      OBVIOUS
    <3>1. pr[new].state = "unborn" /\ RecordOK(pr, nm, new)
      BY <2>2 DEF RecordsOK
    <3> QED BY <3>1, <2>5 DEF RecordOK
  <2> QED BY <2>1, <2>2, <2>5, <2>6
<1>4. Linked(pr) => LinkedBut(b, new)
  BY <1>3 DEF LinkedBut
<1>5. Grows(pr, r)
  BY <1>2 DEF Grows
<1>6. \A x \in DOMAIN pr : r[x].os = "alive" => pr[x].os = "alive"
  BY <1>5 DEF Grows
<1> QED BY <1>1, <1>2, <1>4, <1>5, <1>6 DEF Joined

\* A process in this one is registered.
LEMMA StartGoes ==
  ASSUME TreeInv, NEW t \in Tasks, StartInProcess(t), MayRegister(Top(t))
  PROVE  TreeInv'
<1> DEFINE spec == Top(t).spec
           q == Top(t).parent
           old == Top(t).pid
           new == Len(proc) + 1
           born == Append(proc, Process(spec, q, "starting", "none"))
<1>1. /\ Shape /\ Typed /\ stack[t] # <<>> /\ Top(t) \in Frames /\ At(t, "start", "enter")
      /\ Top(t).op = "start" /\ Top(t).at = "enter" /\ FrameOK(proc, Names, Top(t))
      /\ RecordsOK(proc, Names) /\ proc \in Seq(Records) /\ spec.mode = "in_process"
  <2>1. At(t, "start", "enter") /\ spec.mode = "in_process"
    BY DEF StartInProcess
  <2> QED BY <2>1, AtTop DEF Shape, Typed
<1>2. /\ proc' = Replace(Link(born, q, new), q, old, new)
      /\ by_name' = [by_name EXCEPT ![spec.name] = new]
      /\ stack' = [u \in 0 .. new |->
           IF u = new THEN Body("new")
           ELSE IF u = t THEN Front(stack[t]) ELSE stack[u]]
      /\ busy' \in {{}, {t}} /\ result' = "ok"
      /\ restarts' = restarts /\ crossed' = crossed
  BY DEF StartInProcess, history
<1>3. /\ spec \in AnyProgram /\ spec.name \in Names /\ q \in {0} \cup DOMAIN proc
      /\ (q # 0 => proc[q].state # "unborn")
      /\ old # 0 => q # 0 /\ old \in DOMAIN proc /\ proc[old].state \in Over
  BY <1>1, FrameFields DEF FrameOK, StartOK
<1>4. (q = 0 \/ Up(q)) /\ by_name[spec.name] = 0 /\ ~ Starting(t)
  BY <1>1 DEF MayRegister, Starting
<1>5. /\ Len(proc) \in Nat /\ Tasks = 0 .. Len(proc) /\ DOMAIN proc = 1 .. Len(proc)
  BY <1>1, TheStacks DEF Pids
<1> HIDE DEF spec, q, old, born, new
<1>6. /\ born \in Seq(Records) /\ Len(born) = Len(proc) + 1
      /\ DOMAIN born = DOMAIN proc \cup {new} /\ new \notin DOMAIN proc
      /\ new \in Nat \ {0} /\ DOMAIN born = 1 .. Len(proc) + 1
      /\ \A x \in DOMAIN proc : born[x] = proc[x]
      /\ born[new].spec = spec /\ born[new].state = "starting"
      /\ born[new].os = "none"
      /\ born[new].parent = q /\ born[new].supervisor = q
      /\ ToSet(born[new].kids) = {}
      /\ Grows(proc, born) /\ RecordsOK(born, Names)
  <2>1. ASSUME NEW s, s = "starting", NEW o, o = "none"
        PROVE  Newborn(proc, Names, spec, q, s, o, born, new)
    <3>1. Births(proc, Names, spec, q, s, o, born, new)
      BY <2>1, <1>1, <1>3 DEF Births, Alive, born, new
    <3> QED BY ONLY <3>1, BornIs
  <2> QED BY <2>1 DEF Newborn
<1>7. \A x \in DOMAIN born : new \notin ToSet(born[x].kids)
  <2>1. \A x \in DOMAIN proc : ToSet(proc[x].kids) \subseteq DOMAIN proc
    BY <1>1 DEF RecordsOK, RecordOK, Kids
  <2> QED BY <2>1, <1>6
<1>8. /\ proc' \in Seq(Records) /\ DOMAIN proc' = DOMAIN proc \cup {new}
      /\ Grows(proc, proc') /\ RecordsOK(proc', Names)
      /\ (Linked(proc) => Linked(proc'))
      /\ \A x \in DOMAIN proc : proc'[x].charged = proc[x].charged
      /\ \A x \in DOMAIN proc \ {new} :
           /\ proc'[x].spec = proc[x].spec /\ proc'[x].state = proc[x].state
           /\ proc'[x].supervisor = proc[x].supervisor
           /\ proc'[x].os = "alive" => proc[x].os = "alive"
      /\ proc'[new].supervisor = q /\ proc'[new].state = "starting"
      /\ proc'[new].spec = spec
  <2>1. Joins(proc, Names, new, born, q, old, proc')
    BY <1>1, <1>2, <1>3, <1>6, <1>7 DEF Joins
  <2>2. Joined(proc, Names, new, born, q, proc')
    BY ONLY <2>1, JoinsTree
  <2> QED BY ONLY <2>2, <1>6 DEF Joined
<1>9. /\ new \in Nat \ {0} /\ new # t /\ new \notin Pids /\ q # new /\ Len(proc') = new
      /\ spec.mode # "external" /\ "starting" \in Alive /\ "new" \in {"new", "run"}
  <2>1. new \notin Pids /\ new # t /\ q # new
    BY <1>3, <1>5, <1>6 DEF new, Pids
  <2>2. DOMAIN proc' = 1 .. new /\ new \in Nat
    BY <1>5, <1>6, <1>8 DEF new
  <2>3. Len(proc') = new
    <3>1. proc' \in Seq(Records)
      BY <1>8
    <3> QED BY ONLY <2>2, <3>1
  <2> QED BY <2>1, <2>3, <1>1, <1>6 DEF Alive
<1>10. ~ crossed => Linked(proc')
  BY <1>1, <1>8, AtTop DEF Regular
<1>11. /\ stack' = [u \in 0 .. Len(proc') |->
            IF u = new THEN Body("new")
            ELSE IF u = t THEN Front(stack[t]) ELSE stack[u]]
       /\ busy' = {} \/ busy' = {t}
  BY <1>2, <1>9
<1>12. /\ q \in {0} \cup Pids
       /\ \A x \in Pids : proc'[x].charged = proc[x].charged
       /\ \A x \in Pids \ {new} :
            /\ proc'[x].spec = proc[x].spec /\ proc'[x].state = proc[x].state
            /\ proc'[x].supervisor = proc[x].supervisor
            /\ proc'[x].os = "alive" => proc[x].os = "alive"
  BY <1>3, <1>8 DEF Pids
<1>13. Registers(t, new, q, spec.name, "new")
  BY <1>1, <1>2, <1>3, <1>4, <1>8, <1>9, <1>10, <1>11, <1>12 DEF Registers
<1> QED BY ONLY <1>13, Registered

\* One that is isolated is registered when it is ready.
LEMMA ReadyGoes ==
  ASSUME TreeInv, NEW t \in Tasks, StartReady(t), MayRegister(Top(t))
  PROVE  TreeInv'
<1> DEFINE spec == Top(t).spec
           q == Top(t).parent
           old == Top(t).pid
           new == Top(t).new
           os == proc[new].os
           born == [proc EXCEPT ![new].state = "running"]
<1>1. /\ Shape /\ Typed /\ stack[t] # <<>> /\ Top(t) \in Frames /\ At(t, "start", "wait")
      /\ Top(t).op = "start" /\ Top(t).at = "wait" /\ FrameOK(proc, Names, Top(t))
      /\ RecordsOK(proc, Names) /\ proc \in Seq(Records)
  <2>1. At(t, "start", "wait")
    BY DEF StartReady
  <2> QED BY <2>1, AtTop DEF Shape, Typed
<1>2. /\ proc' = Replace(Link(born, q, new), q, old, new)
      /\ by_name' = [by_name EXCEPT ![spec.name] = new]
      /\ stack' = [stack EXCEPT ![new] = Body("run"), ![t] = Front(@)]
      /\ busy' \in {{}, {t}} /\ result' = "ok"
      /\ restarts' = restarts /\ crossed' = crossed
  BY DEF StartReady, history
<1>3. /\ Starting(t) /\ new \in Pids /\ new # 0
      /\ proc[new].state = "unborn" /\ proc[new].spec = spec
      /\ spec.mode = "isolated" /\ new # old
      /\ RecordOK(proc, Names, new) /\ stack[new] = <<>> /\ new # t
      /\ q \in {0} \cup Pids /\ (q # 0 => proc[q].state # "unborn")
      /\ old # 0 => old \in Pids /\ q # 0 /\ proc[old].state \in Over
      /\ spec.name \in Names
  BY <1>1, NewOne
<1>4. (q = 0 \/ Up(q)) /\ by_name[spec.name] = 0
  BY <1>1 DEF MayRegister
<1>5. /\ Len(proc) \in Nat /\ Tasks = 0 .. Len(proc) /\ DOMAIN proc = 1 .. Len(proc)
      /\ Pids \subseteq Tasks /\ new \in Nat \ {0} /\ new \in Tasks
  <2>1. /\ Len(proc) \in Nat /\ Tasks = 0 .. Len(proc) /\ DOMAIN proc = 1 .. Len(proc)
        /\ Pids \subseteq Tasks
    BY <1>1, TheStacks DEF Pids
  <2>2. new \in 1 .. Len(proc)
    BY <2>1, <1>3 DEF Pids
  <2>3. new \in Nat \ {0}
    BY ONLY <2>1, <2>2
  <2> QED BY <2>1, <2>3, <1>3
<1>6. born = Woken(proc, new, "running", os)
  <2> DEFINE r == Woken(proc, new, "running", os)
  <2>1. DOMAIN born = DOMAIN proc /\ born = [x \in DOMAIN proc |-> born[x]]
        /\ DOMAIN r = DOMAIN proc /\ r = [x \in DOMAIN proc |-> r[x]]
    BY DEF Woken
  <2>2. ASSUME NEW x \in DOMAIN proc PROVE born[x] = r[x]
    <3>1. ASSUME NEW a, a = proc[x], NEW o, o = os
          PROVE  born[x] = r[x]
      <4>1. a \in Records /\ (x = new => o = a.os)
        BY <3>1, <1>1
      <4>2. born[x] = IF x = new THEN [a EXCEPT !.state = "running"] ELSE a
        BY <3>1, <4>1 DEF Records
      <4>3. r[x] = IF x = new THEN [a EXCEPT !.state = "running", !.os = o] ELSE a
        BY <3>1, <4>1 DEF Woken, Records
      <4>4. o = a.os => [a EXCEPT !.state = "running", !.os = o]
                          = [a EXCEPT !.state = "running"]
        BY ONLY <4>1 DEF Records
      <4> QED BY <4>1, <4>2, <4>3, <4>4
    <3> QED BY <3>1
  <2> HIDE DEF born, r
  <2>3. [x \in DOMAIN proc |-> born[x]] = [x \in DOMAIN proc |-> r[x]]
    BY <2>2
  <2>4. born = r
    BY ONLY <2>1, <2>3
  <2> QED BY <2>4 DEF r
<1> HIDE DEF spec, q, old, born, new, os
<1>7. /\ born \in Seq(Records) /\ DOMAIN born = DOMAIN proc
      /\ Grows(proc, born) /\ RecordsOK(born, Names)
      /\ born[new].state = "running"
      /\ \A x \in DOMAIN proc \ {new} : born[x].state = proc[x].state
      /\ \A x \in DOMAIN proc :
           /\ born[x].spec = proc[x].spec /\ born[x].supervisor = proc[x].supervisor
           /\ born[x].parent = proc[x].parent /\ born[x].kids = proc[x].kids
           /\ born[x].charged = proc[x].charged
           /\ new \notin ToSet(born[x].kids)
  <2>1. ASSUME NEW s, s = "running"
        PROVE  /\ born \in Seq(Records) /\ DOMAIN born = DOMAIN proc
               /\ Grows(proc, born) /\ RecordsOK(born, Names)
               /\ born[new].state = s
               /\ \A x \in DOMAIN proc \ {new} : born[x].state = proc[x].state
               /\ \A x \in DOMAIN proc :
                    /\ born[x].spec = proc[x].spec
                    /\ born[x].supervisor = proc[x].supervisor
                    /\ born[x].parent = proc[x].parent
                    /\ born[x].kids = proc[x].kids
                    /\ born[x].charged = proc[x].charged
                    /\ new \notin ToSet(born[x].kids)
    <3>1. /\ new \in DOMAIN proc /\ s \in Alive \cup Over /\ os \in {"dead", proc[new].os}
          /\ born = Woken(proc, new, s, os)
      BY <2>1, <1>3, <1>6 DEF Alive, Pids, os
    <3> QED BY <3>1, <1>1, <1>3, WokenIs
  <2> QED BY <2>1
<1>8. Joined(proc, Names, new, born, q, proc')
  <2>1. /\ q \in {0} \cup DOMAIN proc
        /\ (old # 0 => q # 0 /\ old \in DOMAIN proc /\ proc[old].state \in Over)
        /\ DOMAIN born = DOMAIN proc \cup {new}
        /\ born[new].supervisor \in {0, q} /\ born[new].spec.mode # "external"
    BY <1>3, <1>7 DEF Pids, RecordOK
  <2>2. Joins(proc, Names, new, born, q, old, proc')
    BY <2>1, <1>1, <1>2, <1>3, <1>5, <1>7 DEF Joins
  <2> QED BY ONLY <2>2, JoinsTree
<1>9. /\ DOMAIN proc' = DOMAIN proc /\ Len(proc') = Len(proc)
  <2>1. /\ DOMAIN proc' = DOMAIN proc /\ proc' \in Seq(Records)
    BY <1>3, <1>8 DEF Joined, Pids
  <2> QED BY ONLY <2>1, <1>1, <1>5
<1>10. stack' = [u \in 0 .. Len(proc') |->
         IF u = new THEN Body("run")
         ELSE IF u = t THEN Front(stack[t]) ELSE stack[u]]
  <2>1. stack' = [u \in Tasks |->
         IF u = new THEN Body("run")
         ELSE IF u = t THEN Front(stack[t]) ELSE stack[u]]
    BY <1>2, <1>3, <1>5 DEF Tasks
  <2> QED BY <2>1, <1>5, <1>9
<1>11. q # new
  BY <1>3, <1>4, <1>5 DEF Up
<1>12. ~ crossed => Linked(proc)
  BY <1>1, AtTop DEF Regular
<1>13. Registers(t, new, q, spec.name, "run")
  <2>1. /\ proc'[new].state \in Alive /\ proc'[new].spec.mode # "external"
        /\ proc'[new].spec.name = spec.name
    BY <1>3, <1>7, <1>8 DEF Joined, Alive, Pids
  <2>2. (Starting(t) => Top(t).new = new) /\ (busy' = {} \/ busy' = {t})
    BY <1>2 DEF new
  <2>3. /\ proc' \in Seq(Records) /\ DOMAIN proc' = DOMAIN proc \cup {new}
        /\ Grows(proc, proc') /\ RecordsOK(proc', Names)
        /\ (~ crossed => Linked(proc')) /\ proc'[new].supervisor = q
        /\ \A x \in Pids : proc'[x].charged = proc[x].charged
        /\ \A x \in Pids \ {new} :
             /\ proc'[x].spec = proc[x].spec /\ proc'[x].state = proc[x].state
             /\ proc'[x].supervisor = proc[x].supervisor
             /\ proc'[x].os = "alive" => proc[x].os = "alive"
    BY <1>8, <1>12 DEF Joined, Pids
  <2> QED BY <2>1, <2>2, <2>3, <1>1, <1>2, <1>3, <1>4, <1>5, <1>10, <1>11 DEF Registers
<1> QED BY ONLY <1>13, Registered

\* An operating system process is ready.
LEMMA StartReadyStep ==
  ASSUME TreeInv, NEW t \in Tasks, StartReady(t)
  PROVE  TreeInv'
<1>1. CASE MayRegister(Top(t))
  BY <1>1, ReadyGoes
<1>2. CASE ~ MayRegister(Top(t))
  BY <1>2, StartWaits
<1> QED BY <1>1, <1>2

\* A process of the event loop is started.
LEMMA StartInProcessStep ==
  ASSUME TreeInv, NEW t \in Tasks, StartInProcess(t)
  PROVE  TreeInv'
<1>1. CASE MayRegister(Top(t))
  BY <1>1, StartGoes
<1>2. CASE ~ MayRegister(Top(t))
  BY <1>2, StartFails
<1> QED BY <1>1, <1>2

-----------------------------------------------------------------------------
(* The other steps of a start *)

\* An operating system process is started.
LEMMA StartIsolatedStep ==
  ASSUME TreeInv, NEW t \in Tasks, StartIsolated(t)
  PROVE  TreeInv'
<1> DEFINE spec == Top(t).spec
           new == Len(proc) + 1
           f == [Top(t) EXCEPT !.at = "wait", !.new = new]
<1>1. /\ Shape /\ Regular /\ Typed /\ Stacks /\ Books /\ Justified
      /\ stack[t] # <<>> /\ Top(t) \in Frames /\ ~ Starting(t)
      /\ Top(t).op = "start" /\ Top(t).at = "enter" /\ FrameOK(proc, Names, Top(t))
      /\ RecordsOK(proc, Names) /\ proc \in Seq(Records) /\ spec.mode = "isolated"
  <2>1. At(t, "start", "enter") /\ spec.mode = "isolated"
    BY DEF StartIsolated
  <2>2. Top(t).at = "enter"
    BY <2>1, AtTop
  <2> QED BY <2>1, <2>2, AtTop DEF TreeInv, Shape, Typed, Starting
<1>2. /\ proc' = Append(proc, Process(spec, 0, "unborn", "alive"))
      /\ stack' = [u \in 0 .. new |-> IF u = new THEN <<>>
                                      ELSE IF u # t THEN stack[u] ELSE With(t, f)]
      /\ busy' = {} /\ result' = result /\ by_name' = by_name
      /\ restarts' = restarts /\ crossed' = crossed
  BY DEF StartIsolated, history
<1>3. /\ Len(proc) \in Nat /\ Tasks = 0 .. Len(proc) /\ DOMAIN proc = 1 .. Len(proc)
      /\ Pids = DOMAIN proc /\ Pids \subseteq Tasks /\ 0 \in Tasks
      /\ \A u \in Tasks : stack[u] \in Seq(Frames)
      /\ \A u \in Tasks : u = 0 \/ u \in Pids
  BY <1>1, TheStacks DEF Pids
<1>4. /\ new \in Nat \ {0} /\ new \notin Tasks /\ 0 .. new = Tasks \cup {new}
      /\ new \notin Pids /\ new # 0
  BY <1>3
<1>5. /\ f \in Frames /\ f.op = "start" /\ f.pid = Top(t).pid /\ f.at = "wait"
      /\ f.new = new /\ f.spec = spec /\ f.parent = Top(t).parent
  <2>1. "wait" \in Places /\ new \in Nat
    BY <1>4 DEF Places
  <2> HIDE DEF new
  <2>2. ASSUME NEW a, a = Top(t), NEW x, x = "wait", NEW n, n = new
        PROVE  /\ f \in Frames /\ f.op = a.op /\ f.pid = a.pid /\ f.at = x
               /\ f.new = n /\ f.spec = a.spec /\ f.parent = a.parent
    <3>1. a \in Frames /\ x \in Places /\ n \in Nat
      BY <2>1, <2>2, <1>1
    <3>2. f = [a EXCEPT !.at = x, !.new = n]
      BY <2>2
    <3> HIDE DEF f
    <3> QED BY ONLY <3>1, <3>2 DEF Frames
  <2> HIDE DEF f
  <2> QED BY <2>2, <1>1 DEF spec
<1>6. spec \in AnyProgram /\ spec.name \in Names
  BY <1>1, FrameFields DEF FrameOK, StartOK
<1>7. 0 .. new = Tasks \cup {new} /\ new = Len(proc) + 1
  BY <1>4
<1> HIDE DEF f, new, spec
<1>8. /\ proc' \in Seq(Records) /\ Len(proc') = new
      /\ DOMAIN proc' = Pids \cup {new}
      /\ \A x \in Pids : proc'[x] = proc[x]
      /\ proc'[new].spec = spec /\ proc'[new].state = "unborn"
      /\ proc'[new].supervisor = 0
      /\ Grows(proc, proc') /\ RecordsOK(proc', Names)
  <2>1. ASSUME NEW s, s = "unborn", NEW o, o = "alive"
        PROVE  Newborn(proc, Names, spec, 0, s, o, proc', new)
    <3>1. Births(proc, Names, spec, 0, s, o, proc', new)
      BY <2>1, <1>1, <1>2, <1>6, <1>7 DEF Births
    <3> QED BY ONLY <3>1, BornIs
  <2> QED BY <2>1, <1>3, <1>7 DEF Newborn
<1>9. /\ Tasks' = Tasks \cup {new} /\ Pids' = Pids \cup {new} /\ t \in Tasks'
      /\ stack'[new] = <<>> /\ stack'[t] = With(t, f)
      /\ \A u \in Tasks \ {t} : stack'[u] = stack[u]
      /\ Names' = Names
  BY <1>2, <1>4, <1>7, <1>8 DEF Tasks, Pids, Names
<1>10. /\ StackOK(proc', Names, t, stack'[t]) /\ With(t, f) \in Seq(Frames)
  <2>1. FrameOK(proc', Names, f)
    <3>1. FrameOK(proc', Names, Top(t))
      BY <1>1, <1>8, FrameKept
    <3>2. StartOK(proc', Names, f)
      <4>1. StartOK(proc', Names, Top(t)) /\ Top(t).pid # new
        BY <3>1, <1>1, <1>3, <1>4 DEF FrameOK, StartOK
      <4> QED BY <4>1, <1>1, <1>5, <1>8 DEF StartOK, spec
    <3> QED BY <3>2, <1>5 DEF FrameOK
  <2> QED BY <2>1, <1>1, <1>5, <1>8, <1>9, SwapStack
<1>11. Typed'
  <2>1. stack' \in [0 .. Len(proc') -> Seq(Frames)]
    <3>1. \A u \in 0 .. new : stack'[u] \in Seq(Frames)
      <4>1. \A u \in Tasks \cup {new} : stack'[u] \in Seq(Frames)
        <5>1. stack'[new] \in Seq(Frames)
          BY <1>9
        <5>2. stack'[t] \in Seq(Frames)
          BY <1>9, <1>10
        <5> QED BY <5>1, <5>2, <1>3, <1>9
      <4> QED BY <4>1, <1>7
    <3> QED BY <3>1, <1>2, <1>8
  <2>2. restarts' \subseteq [by : Pids', child : Pids', failed : Pids']
    <3>1. restarts \subseteq [by : Pids, child : Pids, failed : Pids]
      BY <1>1 DEF Typed
    <3> QED BY <3>1, <1>2, <1>9
  <2>3. by_name' \in [Names' -> 0 .. Len(proc')]
    <3>1. by_name \in [Names -> 0 .. Len(proc)]
      BY <1>1 DEF Typed
    <3>2. \A u : u \in 0 .. Len(proc) => u \in 0 .. new
      BY <1>3, <1>7
    <3> QED BY <3>1, <3>2, <1>2, <1>8, <1>9
  <2>4. /\ (\A s \in Specs : s.name \in Names') /\ crossed' \in BOOLEAN
        /\ result' \in {"ok", "raised"} /\ proc' \in Seq(Records)
    BY <1>1, <1>2, <1>8, <1>9 DEF Typed
  <2> QED BY <2>1, <2>2, <2>3, <2>4, <1>2 DEF Typed
<1>12. /\ Turned(t, f, f) /\ stack'[t] # <<>> /\ Len(stack'[t]) = Len(stack[t])
       /\ Top(t)' = f
  BY <1>1, <1>5, <1>9, Swapped
<1>13. Spared(t) /\ Mild(t)
  BY <1>4, <1>9 DEF Spared, Mild
<1>14. Starting(t)' /\ TopOK(t)'
  BY <1>5, <1>8, <1>12 DEF Starting, TopOK, At
<1>15. Bodies' /\ Agents'
  <2> SUFFICES ASSUME NEW e, e = new PROVE Bodies' /\ Agents'
    OBVIOUS
  <2>1. \A x \in Pids :
          /\ stack[x] = <<>> => stack'[x] = <<>>
          /\ Bodily(x)' => Bodily(x)
          /\ \A y : Agent(y)' <=> Agent(y)
    BY <1>1, <1>9, <1>11, <1>12, TurnedBases
  <2>2. \A y : Agent(y)' <=> Agent(y)
    BY <1>1, <1>3, <1>9, <1>11, <1>12, TurnedBottom DEF Agent
  <2>3. ~ Agent(e)
    <3> SUFFICES ASSUME Agent(e) PROVE FALSE
      OBVIOUS
    <3>1. StackOK(proc, Names, 0, stack[0]) /\ 1 \in DOMAIN stack[0]
      BY <1>1, <1>3, TheStacks DEF Stacks, Agent
    <3>2. FrameOK(proc, Names, stack[0][1])
      BY <3>1 DEF StackOK
    <3> QED BY <3>2, <1>3, <1>4 DEF FrameOK, ExternalOK, Agent
  <2>4. ~ Bodily(e)' /\ proc'[e].spec.mode # "external"
    <3>1. stack'[e] = <<>>
      BY <1>9
    <3>2. proc'[e].spec.mode = "isolated"
      BY <1>1, <1>8
    <3> QED BY <3>1, <3>2 DEF Bodily
  <2>5. \A x \in Pids' \ {e} : x \in Pids /\ proc'[x].state = proc[x].state
    BY <1>8, <1>9
  <2>6. proc'[e].state = "unborn" /\ stack'[e] = <<>>
    BY <1>8, <1>9
  <2>7. Grows(proc, proc') /\ Shape
    BY <1>1, <1>8
  <2> QED BY <2>1, <2>2, <2>3, <2>4, <2>5, <2>6, <2>7, <1>11, BasesKept
<1>16. Shape'
  <2>1. \A x \in Pids : proc[x].state = "unborn" =>
          proc'[x].state = "unborn" \/ (Starting(t) /\ Top(t).new = x)
    BY <1>8
  <2>2. \A x \in Pids \ {t} :
          stack[x] = <<>> /\ proc[x].state # "unborn" => stack'[x] = <<>>
    BY <1>3, <1>9
  <2>3. Top(t)'.new \notin Pids
    BY <1>4, <1>5, <1>12
  <2> QED BY <2>1, <2>2, <2>3, <1>1, <1>8, <1>9, <1>10, <1>11, <1>13, <1>14, <1>15,
             ShapeKept
<1>17. Books' /\ Justified'
  <2>1. NoMoreOwed
    <3>1. \A y : Owes(f, y) = 0 /\ Owes(Top(t), y) = 0
      BY <1>1, <1>5 DEF Owes
    <3>2. \A y : Owes(f, y) <= Owes(Top(t), y)
      BY <3>1
    <3> QED BY <3>1, <3>2, <1>1, <1>5, <1>9, <1>11, <1>12, <1>13, OwedStep
  <2>2. \A x \in Pids : proc'[x].charged = proc[x].charged
    BY <1>8
  <2> QED BY <2>1, <2>2, <1>1, <1>2, <1>8, <1>11, BooksStep, JustStep
<1>18. Regular'
  <2> SUFFICES ASSUME ~ crossed
               PROVE  Sole' /\ Named' /\ Linked(proc') /\ Watched' /\ Reaped'
    BY <1>2 DEF Regular
  <2>1. Sole /\ Named /\ Linked(proc) /\ Watched /\ Reaped
    BY <1>1 DEF Regular
  <2>2. Sole'
    <3>1. ~ Holds(f, f.pid)
      BY <1>5 DEF Holds
    <3>2. NoMoreHeld
      BY <3>1, <1>1, <1>5, <1>9, <1>11, <1>12, <1>13, HeldStep
    <3>3. \A p \in Pids : proc[p].state = "stopping" => proc'[p].state = "stopping"
      BY <1>8
    <3> QED BY <3>2, <3>3, <2>1, <1>1, SoleStep
  <2>3. Named'
    <3>1. ASSUME NEW x \in Pids' PROVE x \in Live' <=> by_name'[proc'[x].spec.name] = x
      <4>1. CASE x \in Pids
        <5>1. x \in Live' <=> x \in Live
          BY <4>1, <1>8, <1>9 DEF Live
        <5> QED BY <4>1, <5>1, <2>1, <1>2, <1>8 DEF Named
      <4>2. CASE x = new
        <5>1. x \notin Live'
          BY <4>2, <1>8 DEF Live
        <5>2. by_name[spec.name] \in Tasks
          BY <1>1, <1>3, <1>6 DEF Typed
        <5> QED BY <4>2, <5>1, <5>2, <1>2, <1>4, <1>8
      <4> QED BY <4>1, <4>2, <1>9
    <3> QED BY <3>1 DEF Named
  <2>4. \A x \in DOMAIN proc' : Supervises(proc', x) =>
          /\ x \in Pids /\ Supervises(proc, x)
          /\ proc[x].supervisor \in Pids /\ proc'[x] = proc[x]
          /\ proc'[proc[x].supervisor] = proc[proc[x].supervisor]
    <3> SUFFICES ASSUME NEW x \in DOMAIN proc', Supervises(proc', x)
                 PROVE  /\ x \in Pids /\ Supervises(proc, x)
                        /\ proc[x].supervisor \in Pids /\ proc'[x] = proc[x]
                        /\ proc'[proc[x].supervisor] = proc[proc[x].supervisor]
      OBVIOUS
    <3>1. x \in Pids /\ proc'[x] = proc[x]
      BY <1>8 DEF Supervises
    <3>2. proc[x].supervisor \in Pids
      BY <3>1, <1>1 DEF RecordsOK, RecordOK, Supervises, Pids
    <3>3. proc'[proc[x].supervisor] = proc[proc[x].supervisor]
      BY <3>2, <1>8
    <3> QED BY <3>1, <3>2, <3>3 DEF Supervises
  <2>5. Linked(proc')
    BY <2>1, <2>4 DEF Linked, Pids
  <2>6. Watched'
    <3> SUFFICES ASSUME NEW x \in Pids', Supervises(proc', x),
                        NEW s, s = proc'[x].supervisor
                 PROVE  Up(s)' \/ Doomed(s, x)'
      BY DEF Watched
    <3>1. x \in Pids /\ Supervises(proc, x) /\ s = proc[x].supervisor
          /\ s \in Pids /\ proc'[s] = proc[s]
      BY <2>4 DEF Pids
    <3>2. Up(s) => Up(s)'
      BY <3>1 DEF Up
    <3>3. Doomed(s, x) => Doomed(s, x)'
      <4>1. Top(t).op \notin {"kill", "handle"}
        BY <1>1
      <4> QED BY <4>1, <1>1, <1>5, <1>9, <1>11, <1>12, <1>13, DoomedStep
    <3> QED BY <3>1, <3>2, <3>3, <2>1 DEF Watched
  <2>7. Reaped'
    <3>1. \A x \in Pids' : proc'[x].os = "alive" =>
            \/ proc'[x].state \in Alive
            \/ Starting(t)' /\ Top(t)'.new = x
            \/ /\ x \in Pids /\ proc[x].os = "alive" /\ proc[x].state \notin Alive
               /\ ~ (Starting(t) /\ Top(t).new = x)
      BY <1>1, <1>5, <1>8, <1>9, <1>12, <1>14
    <3> QED BY <3>1, <2>1, <1>1, <1>9, <1>13, ReapedStep
  <2> QED BY <2>2, <2>3, <2>5, <2>6, <2>7
<1> QED BY <1>16, <1>17, <1>18 DEF TreeInv

\* A child that crashed while it was started has a record, and what is done
\* about it, in the frame g, comes next, or the start returns.
Fails(t, new, s, f, g) ==
  /\ TreeInv /\ t \in Tasks /\ At(t, "start", "crashed") /\ new = Top(t).new
  /\ proc' \in Seq(Records) /\ Len(proc') = Len(proc)
  /\ Grows(proc, proc') /\ RecordsOK(proc', Names) /\ (~ crossed => Linked(proc'))
  /\ \A p \in Pids : proc'[p].charged = proc[p].charged
  /\ \A p \in Pids \ {new} :
       /\ proc'[p].spec = proc[p].spec /\ proc'[p].state = proc[p].state
       /\ proc'[p].supervisor = proc[p].supervisor
       /\ proc'[p].os = "alive" => proc[p].os = "alive"
  /\ proc'[new].state \in Over /\ proc'[new].os # "alive"
  /\ s \in Seq(Frames) /\ stack' = [stack EXCEPT ![t] = s]
  /\ (busy' = {} \/ busy' = {t}) /\ result' \in {"ok", "raised"}
  /\ by_name' = by_name /\ restarts' = restarts /\ crossed' = crossed
  /\ f \in Frames /\ g \in Frames /\ Turned(t, f, g)
  /\ g.op = "handle" /\ g.at = "kids" /\ g.pid = new
  /\ StackOK(proc', Names, t, s) /\ TopOK(t)' /\ ~ Starting(t)'

\* A start has failed with the process that it would have registered: it is over,
\* and has no child.
LEMMA StartFailed ==
  ASSUME NEW t, NEW new, NEW s, NEW f, NEW g, Fails(t, new, s, f, g)
  PROVE  TreeInv'
<1>1. /\ Shape /\ Regular /\ Typed /\ Stacks /\ Books /\ Justified
      /\ TreeInv /\ t \in Tasks
      /\ stack[t] # <<>> /\ Top(t) \in Frames /\ RecordsOK(proc, Names)
      /\ Top(t).op = "start" /\ Top(t).new = new /\ Starting(t)
      /\ new \in Pids /\ new # 0 /\ new # t /\ proc[new].state = "unborn"
      /\ proc[new].spec.mode = "isolated" /\ stack[new] = <<>>
      /\ by_name' = by_name /\ restarts' = restarts /\ crossed' = crossed
      /\ Grows(proc, proc') /\ RecordsOK(proc', Names)
      /\ proc'[new].state \in Over /\ proc'[new].os # "alive"
      /\ f \in Frames /\ g \in Frames /\ Turned(t, f, g)
      /\ f.op = "start" /\ g.op = "handle" /\ g.at = "kids" /\ g.pid = new
  <2>1. /\ TreeInv /\ t \in Tasks /\ At(t, "start", "crashed") /\ new = Top(t).new
        /\ Turned(t, f, g)
    BY DEF Fails
  <2>2. /\ Top(t).op = "start" /\ f.op = "start"
    BY <2>1, AtTop DEF Turned
  <2>3. /\ Shape /\ Regular /\ Typed /\ Stacks /\ Books /\ Justified
        /\ stack[t] # <<>> /\ Top(t) \in Frames /\ RecordsOK(proc, Names)
    BY <2>1, AtTop DEF TreeInv, Shape
  <2>4. /\ Starting(t) /\ new \in Pids /\ new # 0 /\ new # t
        /\ proc[new].state = "unborn" /\ stack[new] = <<>>
        /\ proc[new].spec.mode = "isolated"
    BY <2>1, NewOne
  <2> QED BY <2>1, <2>2, <2>3, <2>4 DEF Fails
<1>2. /\ \A x \in Pids : proc'[x].charged = proc[x].charged
      /\ \A x \in Pids \ {new} :
           /\ proc'[x].spec = proc[x].spec /\ proc'[x].state = proc[x].state
           /\ proc'[x].supervisor = proc[x].supervisor
           /\ proc'[x].os = "alive" => proc[x].os = "alive"
      /\ TopOK(t)' /\ ~ Starting(t)' /\ (~ crossed => Linked(proc'))
      /\ proc'[new].spec = proc[new].spec
  BY <1>1 DEF Fails, Grows, Pids
<1>3. /\ Typed' /\ Tasks' = Tasks /\ Pids' = Pids /\ Names' = Names
      /\ stack'[t] = s /\ (\A u \in Tasks \ {t} : stack'[u] = stack[u])
      /\ Spared(t) /\ Mild(t) /\ StackOK(proc', Names, t, stack'[t])
  <2>1. /\ by_name' \in [Names -> 0 .. Len(proc)] /\ crossed' \in BOOLEAN
        /\ restarts' \subseteq [by : Pids, child : Pids, failed : Pids]
    BY <1>1 DEF Typed
  <2>2. /\ s \in Seq(Frames) /\ stack' = [stack EXCEPT ![t] = s]
        /\ proc' \in Seq(Records) /\ Len(proc') = Len(proc)
        /\ (busy' = {} \/ busy' = {t}) /\ result' \in {"ok", "raised"}
        /\ StackOK(proc', Names, t, s)
    BY DEF Fails
  <2> QED BY <2>1, <2>2, <1>1, OneTask
<1>4. Bodies' /\ Agents'
  <2>1. \A x \in Pids :
          /\ stack[x] = <<>> => stack'[x] = <<>>
          /\ Bodily(x)' => Bodily(x)
          /\ \A y : Agent(y)' <=> Agent(y)
    BY <1>1, <1>3, TurnedBases
  <2>2. ~ Agent(new)
    <3> SUFFICES ASSUME Agent(new) PROVE FALSE
      OBVIOUS
    <3>1. StackOK(proc, Names, 0, stack[0]) /\ 1 \in DOMAIN stack[0]
      BY <1>1, TheStacks DEF Stacks, Agent
    <3>2. FrameOK(proc, Names, stack[0][1])
      BY <3>1 DEF StackOK
    <3> QED BY <3>2, <1>1 DEF FrameOK, ExternalOK, Agent
  <2>3. stack'[new] = <<>> /\ ~ Bodily(new)'
    BY <1>1, <2>1 DEF Bodily
  <2>4. proc'[new].state # "unborn" /\ proc'[new].spec.mode # "external"
    BY <1>1, <1>2 DEF Over
  <2>5. \A x \in Pids' \ {new} :
          /\ x \in Pids /\ proc'[x].state = proc[x].state
          /\ stack[x] = <<>> => stack'[x] = <<>>
          /\ Bodily(x)' => Bodily(x)
          /\ Agent(x)' <=> Agent(x)
    BY <1>2, <1>3, <2>1
  <2>6. ~ Agent(new)'
    BY <1>1, <2>1, <2>2
  <2> QED BY <2>3, <2>4, <2>5, <2>6, <1>1, <1>3, BasesKept
<1>5. Shape'
  <2>1. \A x \in Pids : proc[x].state = "unborn" =>
          proc'[x].state = "unborn" \/ (Starting(t) /\ Top(t).new = x)
    BY <1>1, <1>2
  <2>2. \A x \in Pids \ {t} :
          stack[x] = <<>> /\ proc[x].state # "unborn" => stack'[x] = <<>>
    BY <1>1, <1>3, TheStacks
  <2> QED BY <2>1, <2>2, <1>1, <1>2, <1>3, <1>4, ShapeKept
<1>6. Books' /\ Justified'
  <2>1. NoMoreOwed
    <3>1. \A y : Owes(f, y) = 0 /\ Owes(Top(t), y) = 0 /\ Owes(g, y) = 0
      BY <1>1 DEF Owes
    <3>2. \A y : Owes(f, y) <= Owes(Top(t), y)
      BY <3>1
    <3> QED BY <3>1, <3>2, <1>1, <1>3, OwedStep
  <2> QED BY <2>1, <1>1, <1>2, <1>3, BooksStep, JustStep
<1>7. Regular'
  <2> SUFFICES ASSUME ~ crossed
               PROVE  Sole' /\ Named' /\ Linked(proc') /\ Watched' /\ Reaped'
    BY <1>1 DEF Regular
  <2>1. Sole /\ Named /\ Linked(proc') /\ Watched /\ Reaped
    BY <1>1, <1>2 DEF Regular
  <2>2. Sole'
    <3> DEFINE n == Len(stack[t])
    <3>1. ASSUME NEW u \in Tasks, NEW i \in DOMAIN stack[u], Holds(stack[u][i], new)
          PROVE  FALSE
      <4>1. FrameOK(proc, Names, stack[u][i])
        BY <1>1 DEF Stacks, StackOK
      <4> QED BY <3>1, <4>1, <1>1 DEF Holds, FrameOK, HandleOK, KillOK, Over
    <3>2. ASSUME NEW u \in Tasks', NEW i \in DOMAIN stack'[u], NEW x,
                 Holds(stack'[u][i], x)
          PROVE  \/ u = t /\ i = n + 1 /\ x = new
                 \/ /\ u \in Tasks /\ i \in DOMAIN stack[u] /\ Holds(stack[u][i], x)
                    /\ stack'[u][i].op = stack[u][i].op
      <4>1. CASE u = t
        <5>1. /\ DOMAIN stack[t] = 1 .. n /\ n \in Nat /\ Len(stack'[t]) \in Nat
              /\ DOMAIN stack'[t] = 1 .. Len(stack'[t])
              /\ Len(stack'[t]) \in {n - 1, n, n + 1}
          BY <1>1, <1>3, TheStacks, StacksThen DEF Turned
        <5> HIDE DEF n
        <5>2. i \in 1 .. n \/ i = n + 1
          BY <4>1, <5>1
        <5>3. CASE i \in 1 .. n /\ i # n
          <6>1. i < n
            BY <5>1, <5>3
          <6>2. stack'[t][i] = stack[t][i]
            BY <6>1, <4>1, <1>1 DEF Turned, n
          <6>3. i \in DOMAIN stack[t]
            BY <5>1, <5>3
          <6>4. Holds(stack[t][i], x)
            BY <3>2, <4>1, <6>2
          <6> QED BY <1>1, <4>1, <6>2, <6>3, <6>4
        <5>4. CASE i = n
          <6>1. stack'[t][i] = f
            BY <4>1, <5>4, <1>1 DEF Turned, n
          <6> QED BY <3>2, <4>1, <6>1, <1>1 DEF Holds
        <5>5. CASE i = n + 1
          <6>1. stack'[t][i] = g
            BY <4>1, <5>5, <1>1 DEF Turned, n
          <6> QED BY <3>2, <4>1, <5>5, <6>1, <1>1 DEF Holds
        <5> QED BY <5>2, <5>3, <5>4, <5>5
      <4>2. CASE u # t
        BY <3>2, <4>2, <1>3
      <4> QED BY <4>1, <4>2
    <3>3. \A x \in Pids : x # new /\ proc[x].state = "stopping" =>
            proc'[x].state = "stopping"
      BY <1>2
    <3> HIDE DEF n
    <3>4. \A i \in DOMAIN stack'[t] :
            i = n + 1 /\ stack'[t][i].op = "kill" => proc'[new].state = "stopping"
      BY <1>1 DEF Turned, n
    <3>5. Comes(t, n + 1, new)
      BY <3>1, <3>2 DEF Comes
    <3> QED BY <2>1, <3>3, <3>4, <3>5, <1>1, SoleAdds
  <2>3. Named'
    <3>1. ASSUME NEW x \in Pids PROVE x \in Live' <=> by_name'[proc'[x].spec.name] = x
      <4>1. x \in Live' <=> x \in Live
        <5>1. CASE x = new
          BY <5>1, <1>1 DEF Live, Over
        <5>2. CASE x # new
          BY <5>2, <1>2, <1>3 DEF Live
        <5> QED BY <5>1, <5>2
      <4>2. proc'[x].spec = proc[x].spec
        BY <1>2
      <4> QED BY <4>1, <4>2, <2>1, <1>1 DEF Named
    <3> QED BY <3>1, <1>3 DEF Named
  <2>4. Watched'
    <3> SUFFICES ASSUME NEW x \in Pids, Supervises(proc', x),
                        NEW q, q = proc'[x].supervisor
                 PROVE  Up(q)' \/ Doomed(q, x)'
      BY <1>3 DEF Watched
    <3>1. x # new
      BY <1>1 DEF Supervises, Alive, Over
    <3>2. q = proc[x].supervisor /\ q # 0
      BY <3>1, <1>2 DEF Supervises
    <3>3. q \in Pids
      BY <3>2, <1>1 DEF RecordsOK, RecordOK, Pids
    <3>4. Supervises(proc, x)
      BY <3>1, <3>2, <3>3, <1>2 DEF Supervises
    <3>5. Up(q) \/ Doomed(q, x)
      BY <3>2, <3>4, <2>1 DEF Watched
    <3>6. Up(q) => Up(q)'
      BY <3>3, <1>1, <1>2 DEF Up
    <3>7. Doomed(q, x) => Doomed(q, x)'
      <4>1. Top(t).op \notin {"kill", "handle"}
        BY <1>1
      <4> QED BY <4>1, <1>1, <1>3, DoomedStep
    <3> QED BY <3>5, <3>6, <3>7
  <2>5. Reaped'
    <3>1. \A x \in Pids' : proc'[x].os = "alive" =>
            \/ proc'[x].state \in Alive
            \/ Starting(t)' /\ Top(t)'.new = x
            \/ /\ x \in Pids /\ proc[x].os = "alive" /\ proc[x].state \notin Alive
               /\ ~ (Starting(t) /\ Top(t).new = x)
      BY <1>1, <1>2, <1>3
    <3> QED BY <3>1, <2>1, <1>1, <1>3, ReapedStep
  <2> QED BY <2>1, <2>2, <2>3, <2>4, <2>5
<1> QED BY <1>5, <1>6, <1>7 DEF TreeInv

\* A child crashes before it is ready: that is handled as if it had been, if
\* its supervisor is still up.
LEMMA ChildCrashes ==
  ASSUME TreeInv, NEW t \in Tasks, StartCrashed(t), Top(t).parent # 0
  PROVE  TreeInv'
<1> DEFINE q == Top(t).parent
           old == Top(t).pid
           new == Top(t).new
           dead == [Stopped(proc, new) EXCEPT ![new].state = "crashed"]
           f == [Top(t) EXCEPT !.at = "handled"]
           g == Handle(new, proc)
<1>1. /\ Shape /\ Regular /\ Typed /\ Stacks /\ stack[t] # <<>>
      /\ Top(t) \in Frames /\ At(t, "start", "crashed") /\ TreeInv /\ t \in Tasks
      /\ Top(t).op = "start" /\ FrameOK(proc, Names, Top(t))
      /\ RecordsOK(proc, Names) /\ proc \in Seq(Records)
  <2>1. At(t, "start", "crashed")
    BY DEF StartCrashed
  <2> QED BY <2>1, AtTop DEF Shape, Typed
<1>2. /\ by_name' = by_name /\ restarts' = restarts /\ crossed' = crossed
      /\ Up(q) => /\ proc' = Link(dead, q, new) /\ result' = result
                  /\ stack' = [stack EXCEPT ![t] = Append(With(t, f), g)]
                  /\ busy' = {t}
      /\ ~ Up(q) => /\ proc' = Replace(dead, q, old, new)
                    /\ stack' = [stack EXCEPT ![t] = Front(stack[t])]
                    /\ (busy' = {} \/ busy' = {t}) /\ result' \in {"ok", "raised"}
  <2>1. by_name' = by_name /\ restarts' = restarts /\ crossed' = crossed
    BY DEF StartCrashed, history
  <2>2. CASE Up(q)
    BY <2>1, <2>2 DEF StartCrashed, Call, Continue, Moved
  <2>3. CASE ~ Up(q)
    BY <2>1, <2>3 DEF StartCrashed, Return
  <2> QED BY <2>2, <2>3
<1>3. /\ Starting(t) /\ new \in Pids /\ new # 0 /\ new # t
      /\ proc[new].state = "unborn" /\ proc[new].spec.mode = "isolated"
      /\ new # old /\ RecordOK(proc, Names, new) /\ stack[new] = <<>>
      /\ q \in Pids /\ proc[q].state # "unborn" /\ q # 0
      /\ old # 0 => old \in Pids /\ proc[old].state \in Over
  BY <1>1, NewOne
<1>4. dead = Woken(proc, new, "crashed", "dead")
  <2> DEFINE r == Woken(proc, new, "crashed", "dead")
  <2>1. DOMAIN dead = DOMAIN proc /\ dead = [x \in DOMAIN proc |-> dead[x]]
        /\ DOMAIN r = DOMAIN proc /\ r = [x \in DOMAIN proc |-> r[x]]
    BY DEF Woken, Stopped
  <2>2. ASSUME NEW x \in DOMAIN proc PROVE dead[x] = r[x]
    <3>1. ASSUME NEW a, a = proc[x] PROVE dead[x] = r[x]
      <4>1. a \in Records
        BY <3>1, <1>1
      <4>2. dead[x] = IF x = new THEN [a EXCEPT !.os = "dead", !.state = "crashed"]
                      ELSE a
        BY <3>1, <4>1 DEF Records, Stopped
      <4>3. r[x] = IF x = new THEN [a EXCEPT !.state = "crashed", !.os = "dead"] ELSE a
        BY <3>1, <4>1 DEF Woken, Records
      <4>4. [a EXCEPT !.os = "dead", !.state = "crashed"]
              = [a EXCEPT !.state = "crashed", !.os = "dead"]
        BY ONLY <4>1 DEF Records
      <4> QED BY <4>2, <4>3, <4>4
    <3> QED BY <3>1
  <2> HIDE DEF dead, r
  <2>3. [x \in DOMAIN proc |-> dead[x]] = [x \in DOMAIN proc |-> r[x]]
    BY <2>2
  <2>4. dead = r
    BY ONLY <2>1, <2>3
  <2> QED BY <2>4 DEF r
<1> HIDE DEF dead
<1>5. /\ dead \in Seq(Records) /\ DOMAIN dead = DOMAIN proc
      /\ Len(dead) = Len(proc)
      /\ Grows(proc, dead) /\ RecordsOK(dead, Names)
      /\ dead[new].state = "crashed" /\ dead[new].os = "dead"
      /\ \A x \in DOMAIN proc \ {new} : dead[x].state = proc[x].state
      /\ \A x \in DOMAIN proc :
           /\ dead[x].spec = proc[x].spec /\ dead[x].supervisor = proc[x].supervisor
           /\ dead[x].parent = proc[x].parent /\ dead[x].kids = proc[x].kids
           /\ dead[x].charged = proc[x].charged
           /\ dead[x].os = "alive" => proc[x].os = "alive"
           /\ new \notin ToSet(dead[x].kids)
  <2>1. ASSUME NEW s, s = "crashed", NEW o, o = "dead"
        PROVE  /\ dead \in Seq(Records) /\ DOMAIN dead = DOMAIN proc
               /\ Len(dead) = Len(proc)
               /\ Grows(proc, dead) /\ RecordsOK(dead, Names)
               /\ dead[new].state = s /\ dead[new].os = o
               /\ \A x \in DOMAIN proc \ {new} : dead[x].state = proc[x].state
               /\ \A x \in DOMAIN proc :
                    /\ dead[x].spec = proc[x].spec
                    /\ dead[x].supervisor = proc[x].supervisor
                    /\ dead[x].parent = proc[x].parent
                    /\ dead[x].kids = proc[x].kids
                    /\ dead[x].charged = proc[x].charged
                    /\ dead[x].os = "alive" => proc[x].os = "alive"
                    /\ new \notin ToSet(dead[x].kids)
    <3>1. /\ new \in DOMAIN proc /\ s \in Alive \cup Over
          /\ o \in {"dead", proc[new].os} /\ dead = Woken(proc, new, s, o)
      BY <2>1, <1>3, <1>4 DEF Over, Pids
    <3> QED BY <3>1, <1>1, <1>3, WokenIs
  <2> QED BY <2>1
<1>6. /\ dead[new].supervisor = 0 /\ dead[new].spec.mode # "external"
      /\ ToSet(proc[new].kids) = {}
  BY <1>3, <1>5 DEF RecordOK, Pids
<1>7. /\ f \in Frames /\ f.op = "start" /\ f.pid = old /\ f.at = "handled"
      /\ f.new = new /\ f.spec = Top(t).spec /\ f.parent = q
  <2>1. "handled" \in Places
    BY DEF Places
  <2> QED BY <2>1, <1>1, FrameMoved
<1>8. /\ g \in Frames /\ g.op = "handle" /\ g.pid = new /\ g.at = "kids"
      /\ g.todo = proc[new].kids
  BY <1>1, <1>3, HandleFrame DEF Pids
<1> HIDE DEF f, g
<1>9. CASE Up(q)
  <2> DEFINE s == Append(With(t, f), g)
  <2>1. Joined(proc, Names, new, dead, q, proc')
    <3>1. ASSUME NEW e, e = 0 PROVE Joins(proc, Names, new, dead, q, e, proc')
      <4>1. proc' = Replace(Link(dead, q, new), q, e, new)
        BY <3>1, <1>2, <1>9 DEF Replace
      <4>2. new \in Nat \ {0}
        <5>1. new \in 1 .. Len(proc) /\ Len(proc) \in Nat
          BY <1>1, <1>3, TheStacks
        <5> QED BY ONLY <5>1
      <4>3. /\ new \in DOMAIN proc /\ q \in {0} \cup DOMAIN proc
            /\ DOMAIN dead = DOMAIN proc \cup {new}
            /\ (e # 0 => q # 0 /\ e \in DOMAIN proc /\ proc[e].state \in Over)
        BY <3>1, <1>3, <1>5 DEF Pids
      <4> QED BY <4>1, <4>2, <4>3, <1>1, <1>3, <1>5, <1>6 DEF Joins
    <3>2. ASSUME NEW e, e = 0 PROVE Joined(proc, Names, new, dead, q, proc')
      BY ONLY <3>1, <3>2, JoinsTree
    <3> QED BY <3>2
  <2>2. /\ proc' \in Seq(Records) /\ DOMAIN proc' = DOMAIN proc
        /\ Grows(proc, proc') /\ RecordsOK(proc', Names)
        /\ (~ crossed => Linked(proc'))
        /\ \A x \in Pids : proc'[x].charged = proc[x].charged
        /\ \A x \in Pids \ {new} :
             /\ proc'[x].spec = proc[x].spec /\ proc'[x].state = proc[x].state
             /\ proc'[x].supervisor = proc[x].supervisor
             /\ proc'[x].os = "alive" => proc[x].os = "alive"
        /\ proc'[new].state = "crashed" /\ proc'[new].os = "dead"
        /\ proc'[new].spec = proc[new].spec
    <3>1. ~ crossed => Linked(proc)
      BY <1>1 DEF Regular
    <3>2. DOMAIN proc = DOMAIN proc \cup {new} /\ Pids = DOMAIN proc
      BY <1>3 DEF Pids
    <3> QED BY <2>1, <3>1, <3>2, <1>3, <1>5 DEF Joined
  <2>3. Len(proc') = Len(proc)
    BY ONLY <2>2, <1>1
  <2>4. FrameOK(proc', Names, f)
    <3>1. StartOK(proc', Names, Top(t))
      BY <2>2, <1>1, FrameKept DEF FrameOK
    <3>2. proc'[new].state \in Over
      BY <2>2 DEF Over
    <3> QED BY <3>1, <3>2, <1>1, <1>7 DEF FrameOK, StartOK, At
  <2>5. FrameOK(proc', Names, g)
    <3>1. Kids(proc', g.todo)
      BY <1>6, <1>8 DEF Kids
    <3>2. proc'[new].state \in Over /\ proc'[new].spec.mode # "external"
          /\ new \in DOMAIN proc'
      BY <2>2, <1>3 DEF Over, Pids
    <3> QED BY <3>1, <3>2, <1>8 DEF FrameOK, HandleOK
  <2>6. Awaiting(f, g)
    BY <1>7, <1>8 DEF Awaiting
  <2>7. StackOK(proc', Names, t, s) /\ s \in Seq(Frames)
    BY <2>2, <2>4, <2>5, <2>6, <1>1, <1>7, <1>8, PushStack DEF old
  <2>8. stack'[t] = s
    BY <1>1, <1>2, <1>9 DEF Tasks
  <2>9. Turned(t, f, g) /\ Top(t)' = g
    BY <2>8, <1>1, <1>7, <1>8, Pushed DEF old
  <2>10. TopOK(t)' /\ ~ Starting(t)'
    BY <2>9, <1>8 DEF TopOK, Starting, At
  <2> HIDE DEF s
  <2>11. stack' = [stack EXCEPT ![t] = s] /\ result' \in {"ok", "raised"}
         /\ busy' = {t}
    BY <1>1, <1>2, <1>9 DEF s, Typed
  <2>12. Fails(t, new, s, f, g)
    BY <2>2, <2>3, <2>7, <2>9, <2>10, <2>11, <1>1, <1>2, <1>7, <1>8
    DEF Fails, Over, new
  <2> QED BY ONLY <2>12, StartFailed
<1>10. CASE ~ Up(q)
  <2> DEFINE s == Front(stack[t])
  <2>1. /\ proc' \in Seq(Records) /\ Len(proc') = Len(dead) /\ Calm(dead, proc')
        /\ RecordsOK(proc', Names) /\ (Linked(dead) => Linked(proc'))
        /\ \A x \in DOMAIN dead : /\ proc'[x].charged = dead[x].charged
                                  /\ proc'[x].os = dead[x].os
    <3>1. old # 0 => /\ q \in DOMAIN dead /\ dead[q].state # "unborn" /\ old # new
                     /\ old \in DOMAIN dead /\ dead[old].state \in Over
                     /\ dead[new].state # "unborn" /\ dead[new].spec.mode # "external"
                     /\ dead[new].state \in Over \/ dead[new].supervisor = q
      BY <1>3, <1>5, <1>6 DEF Pids, Over
    <3>2. proc' = Replace(dead, q, old, new) /\ new \in DOMAIN dead
      BY <1>2, <1>3, <1>5, <1>10 DEF Pids
    <3> HIDE DEF q, old, new
    <3> QED BY <3>1, <3>2, <1>5, ReplaceQuiet
  <2>2. ~ crossed => Linked(dead)
    <3>1. Alikened(proc, dead)
      <4>1. ASSUME NEW x \in DOMAIN proc
            PROVE  /\ dead[x].spec = proc[x].spec
                   /\ dead[x].supervisor = proc[x].supervisor
                   /\ dead[x].parent = proc[x].parent
                   /\ dead[x].kids = proc[x].kids
                   /\ proc[x].supervisor \in {0} \cup DOMAIN proc
                   /\ dead[x].state \in Alive => proc[x].state \in Alive
        BY <1>1, <1>5 DEF RecordsOK, RecordOK, Alive
      <4>2. DOMAIN dead = DOMAIN proc
        BY <1>5
      <4> QED BY ONLY <4>1, <4>2 DEF Alikened
    <3>2. ~ crossed => Linked(proc)
      BY <1>1 DEF Regular
    <3> QED BY <3>1, <3>2, LinkedAlive
  <2>3. Grows(proc, proc')
    BY <2>1, <1>5, GrowsCalm
  <2>4. /\ Len(proc') = Len(proc)
        /\ \A x \in Pids : proc'[x].charged = proc[x].charged
        /\ \A x \in Pids \ {new} :
             /\ proc'[x].spec = proc[x].spec /\ proc'[x].state = proc[x].state
             /\ proc'[x].supervisor = proc[x].supervisor
             /\ proc'[x].os = "alive" => proc[x].os = "alive"
        /\ proc'[new].state = "crashed" /\ proc'[new].os = "dead"
    <3> HIDE DEF new, q, old
    <3> QED BY <2>1, <1>3, <1>5 DEF Calm, Pids
  <2>5. stack'[t] = s /\ s \in Seq(Frames)
    <3>1. stack'[t] = s
      BY <1>1, <1>2, <1>10 DEF Tasks
    <3>2. s \in Seq(Frames)
      BY <1>1, MovesTyped
    <3> QED BY <3>1, <3>2
  <2>6. stack' = [stack EXCEPT ![t] = s]
        /\ (busy' = {} \/ busy' = {t}) /\ result' \in {"ok", "raised"}
    BY <1>2, <1>10
  <2>7. Turned(t, Top(t), g)
    BY <2>5, <1>1, Popped
  <2>8. Typed' /\ t \in Tasks'
    <3>1. /\ by_name' \in [Names -> 0 .. Len(proc)] /\ crossed' \in BOOLEAN
          /\ restarts' \subseteq [by : Pids, child : Pids, failed : Pids]
      BY <1>1, <1>2 DEF Typed
    <3> HIDE DEF s
    <3> QED BY <3>1, <2>1, <2>4, <2>5, <2>6, <1>1, OneTask
  <2>9. TopOK(t)' /\ ~ Starting(t)' /\ StackOK(proc', Names, t, s)
    <3>1. Top(t).op # "kill"
      BY <1>1
    <3> QED BY <3>1, <2>3, <2>5, <2>8, <1>1, PopTop
  <2> HIDE DEF s
  <2>10. Fails(t, new, s, Top(t), g)
    BY <2>1, <2>2, <2>3, <2>4, <2>5, <2>6, <2>7, <2>9, <1>1, <1>2, <1>8
    DEF Fails, Over, new
  <2> QED BY ONLY <2>10, StartFailed
<1> QED BY <1>9, <1>10

\* A process crashes before it is ready.
LEMMA StartCrashedStep ==
  ASSUME TreeInv, NEW t \in Tasks, StartCrashed(t)
  PROVE  TreeInv'
<1>1. CASE Top(t).parent = 0
  BY <1>1, RootCrashes
<1>2. CASE Top(t).parent # 0
  BY <1>2, ChildCrashes
<1> QED BY <1>1, <1>2

\* An external agent is registered, in the shell's task.
LEMMA ShellExternalStep ==
  ASSUME TreeInv, NEW spec \in Specs, ShellExternal(spec)
  PROVE  TreeInv'
<1> DEFINE new == Len(proc) + 1
           agent == [spec EXCEPT !.mode = "external", !.policy = "temporary"]
           f == Frame("external", new, "run", <<>>)
<1>1. /\ Shape /\ Regular /\ Typed /\ Stacks /\ Books /\ Justified
      /\ RecordsOK(proc, Names) /\ proc \in Seq(Records) /\ stack[0] = <<>>
  BY DEF ShellExternal, Shell, TreeInv, Shape, Typed
<1>2. CASE by_name[spec.name] # 0
  <2>1. UNCHANGED <<proc, stack, busy, result, by_name, restarts, crossed>>
    BY <1>2 DEF ShellExternal, history
  <2> QED BY <2>1, Idle
<1>3. CASE by_name[spec.name] = 0
  <2>1. /\ proc' = Append(proc, Process(agent, 0, "running", "none"))
        /\ by_name' = [by_name EXCEPT ![spec.name] = new]
        /\ stack' = [u \in 0 .. new |-> CASE u = new -> <<>>
                                          [] u = 0 -> <<f>>
                                          [] OTHER -> stack[u]]
        /\ busy' = {} /\ result' = result
        /\ restarts' = restarts /\ crossed' = crossed
    BY <1>3 DEF ShellExternal, Shell, history
  <2>2. /\ Len(proc) \in Nat /\ Tasks = 0 .. Len(proc) /\ DOMAIN proc = 1 .. Len(proc)
        /\ Pids = DOMAIN proc /\ Pids \subseteq Tasks /\ 0 \in Tasks
        /\ \A u \in Tasks : stack[u] \in Seq(Frames)
        /\ \A u \in Tasks : u = 0 \/ u \in Pids
    BY <1>1, TheStacks DEF Pids
  <2>3. /\ new \in Nat \ {0} /\ new \notin Tasks /\ 0 .. new = Tasks \cup {new}
        /\ new \notin Pids /\ new # 0 /\ new = Len(proc) + 1
    BY <2>2
  <2>4. agent \in AnyProgram /\ agent.name = spec.name /\ agent.mode = "external"
        /\ spec.name \in Names
    <3>1. ASSUME NEW x \in {"permanent", "temporary"}, x = "temporary"
          PROVE  LET s == [spec EXCEPT !.mode = "external", !.policy = x]
                 IN s \in AnyProgram /\ s.name = spec.name /\ s.mode = "external"
      BY <1>1, SpecIs
    <3>2. spec.name \in Names
      BY <1>1 DEF Typed
    <3> QED BY <3>1, <3>2
  <2>5. /\ f \in Frames /\ f.op = "external" /\ f.pid = new /\ f.at = "run"
    <3>1. new \in Nat /\ <<>> \in Seq(Nat) /\ "run" \in Places /\ NoSpec \in AnyProgram
      BY <2>3 DEF Places, NoSpec, AnyProgram
    <3> HIDE DEF new
    <3> QED BY <3>1 DEF Frame, Frames
  <2> HIDE DEF f, new, agent
  <2>6. /\ proc' \in Seq(Records) /\ Len(proc') = new
        /\ DOMAIN proc' = Pids \cup {new}
        /\ \A x \in Pids : proc'[x] = proc[x]
        /\ proc'[new].spec = agent /\ proc'[new].state = "running"
        /\ proc'[new].os = "none" /\ proc'[new].supervisor = 0
        /\ Grows(proc, proc') /\ RecordsOK(proc', Names)
    <3>1. ASSUME NEW s, s = "running", NEW o, o = "none"
          PROVE  Newborn(proc, Names, agent, 0, s, o, proc', new)
      <4>1. Births(proc, Names, agent, 0, s, o, proc', new)
        BY <3>1, <1>1, <2>1, <2>3, <2>4 DEF Births, Alive
      <4> QED BY ONLY <4>1, BornIs
    <3> QED BY <3>1, <2>2, <2>3 DEF Newborn
  <2>7. /\ Tasks' = Tasks \cup {new} /\ Pids' = Pids \cup {new} /\ 0 \in Tasks'
        /\ stack'[new] = <<>> /\ stack'[0] = <<f>>
        /\ \A u \in Tasks \ {0} : stack'[u] = stack[u]
        /\ Names' = Names
    BY <2>1, <2>2, <2>3, <2>6 DEF Tasks, Pids, Names
  <2>8. <<f>> \in Seq(Frames) /\ Len(<<f>>) = 1 /\ DOMAIN <<f>> = {1} /\ <<f>>[1] = f
        /\ Last(<<f>>) = f /\ <<f>> # <<>>
    BY <2>5 DEF Last
  <2>9. StackOK(proc', Names, 0, stack'[0])
    <3>1. FrameOK(proc', Names, f)
      BY <2>4, <2>5, <2>6 DEF FrameOK, ExternalOK
    <3>2. Bottom(0, f)
      BY <2>5 DEF Bottom
    <3> QED BY <3>1, <3>2, <2>7, <2>8 DEF StackOK
  <2>10. Typed'
    <3>1. stack' \in [0 .. Len(proc') -> Seq(Frames)]
      <4>1. \A u \in 0 .. new : stack'[u] \in Seq(Frames)
        <5>1. \A u \in Tasks \cup {new} : stack'[u] \in Seq(Frames)
          <6>1. stack'[new] \in Seq(Frames)
            BY <2>7
          <6>2. stack'[0] \in Seq(Frames)
            BY <2>7, <2>8
          <6> QED BY <6>1, <6>2, <2>2, <2>7
        <5> QED BY <5>1, <2>3
      <4> QED BY <4>1, <2>1, <2>6
    <3>2. restarts' \subseteq [by : Pids', child : Pids', failed : Pids']
      <4>1. restarts \subseteq [by : Pids, child : Pids, failed : Pids]
        BY <1>1 DEF Typed
      <4> QED BY <4>1, <2>1, <2>7
    <3>3. by_name' \in [Names' -> 0 .. Len(proc')]
      <4>1. by_name \in [Names -> 0 .. Len(proc)]
        BY <1>1 DEF Typed
      <4>2. new \in 0 .. new /\ \A u : u \in 0 .. Len(proc) => u \in 0 .. new
        BY <2>2, <2>3
      <4> QED BY <4>1, <4>2, <2>1, <2>4, <2>6, <2>7
    <3>4. /\ (\A s \in Specs : s.name \in Names') /\ crossed' \in BOOLEAN
          /\ result' \in {"ok", "raised"} /\ proc' \in Seq(Records)
      BY <1>1, <2>1, <2>6, <2>7 DEF Typed
    <3> QED BY <3>1, <3>2, <3>3, <3>4, <2>1 DEF Typed
  <2>11. Top(0)' = f /\ ~ Starting(0)' /\ TopOK(0)' /\ ~ Starting(0)
    <3>1. Top(0)' = f
      BY <2>7, <2>8 DEF Top
    <3> QED BY <3>1, <1>1, <2>5 DEF Starting, TopOK, At
  <2>12. Spared(0) /\ Mild(0)
    BY <2>3, <2>7 DEF Spared, Mild
  <2>13. Bodies' /\ Agents'
    <3> SUFFICES ASSUME NEW e, e = new PROVE Bodies' /\ Agents'
      OBVIOUS
    <3>1. \A y : Agent(y)' <=> y = e
      BY <2>5, <2>7, <2>8 DEF Agent
    <3>2. \A y : ~ Agent(y)
      BY <1>1 DEF Agent
    <3>3. ~ Bodily(e)' /\ stack'[e] = <<>> /\ proc'[e].state = "running"
      BY <2>6, <2>7 DEF Bodily
    <3>4. ASSUME NEW x \in Pids' \ {e}
          PROVE  /\ x \in Pids /\ proc'[x].state = proc[x].state
                 /\ stack[x] = <<>> => stack'[x] = <<>>
                 /\ Bodily(x)' => Bodily(x)
                 /\ Agent(x)' <=> Agent(x)
      <4>1. x \in Pids /\ x \in Tasks \ {0}
        BY <3>4, <2>2, <2>7
      <4> QED BY <4>1, <3>1, <3>2, <3>4, <2>6, <2>7 DEF Bodily
    <3>5. Grows(proc, proc') /\ Shape
      BY <1>1, <2>6
    <3>6. e \in Pids' =>
            /\ proc'[e].state = "unborn" \/ proc'[e].spec.mode = "external" =>
                 stack'[e] = <<>>
            /\ Bodily(e)' => proc'[e].state \in Alive
            /\ Agent(e)' => proc'[e].state = "running"
            /\ proc'[e].spec.mode = "external" /\ proc'[e].state \notin Over =>
                 Agent(e)'
      BY <3>1, <3>3
    <3> QED BY <3>4, <3>5, <3>6, <2>10, BasesKept
  <2>14. Shape'
    <3>1. \A x \in Pids : proc[x].state = "unborn" =>
            proc'[x].state = "unborn" \/ (Starting(0) /\ Top(0).new = x)
      BY <2>6
    <3>2. \A x \in Pids \ {0} :
            stack[x] = <<>> /\ proc[x].state # "unborn" => stack'[x] = <<>>
      BY <2>2, <2>7
    <3> QED BY <3>1, <3>2, <1>1, <2>2, <2>6, <2>7, <2>9, <2>10, <2>11, <2>12, <2>13,
               ShapeKept
  <2>15. Books' /\ Justified'
    <3>1. NoMoreOwed
      <4>1. \A q : Owes(f, q) = 0
        BY <2>5 DEF Owes
      <4>2. ASSUME NEW q, NEW u \in Tasks', NEW i \in DOMAIN stack'[u]
            PROVE  \/ Owes(stack'[u][i], q) = 0
                   \/ /\ u \in Tasks /\ i \in DOMAIN stack[u]
                      /\ Owes(stack'[u][i], q) <= Owes(stack[u][i], q)
        <5>1. CASE u = 0
          BY <5>1, <4>1, <2>7, <2>8
        <5>2. CASE u = new
          BY <5>2, <2>7
        <5>3. CASE u # 0 /\ u # new
          <6>1. u \in Tasks /\ stack'[u] = stack[u] /\ stack[u][i] \in Frames
            BY <5>3, <1>1, <2>7, TheStacks
          <6>2. Owes(stack[u][i], q) \in Int
            BY <6>1, FrameFields DEF Owes
          <6> QED BY <6>1, <6>2
        <5> QED BY <5>1, <5>2, <5>3
      <4> QED BY <4>2 DEF NoMoreOwed
    <3>2. \A x \in Pids : proc'[x].charged = proc[x].charged
      BY <2>6
    <3> QED BY <3>1, <3>2, <1>1, <2>1, <2>6, <2>10, BooksStep, JustStep
  <2>16. Regular'
    <3> SUFFICES ASSUME ~ crossed
                 PROVE  Sole' /\ Named' /\ Linked(proc') /\ Watched' /\ Reaped'
      BY <2>1 DEF Regular
    <3>1. Sole /\ Named /\ Linked(proc) /\ Watched /\ Reaped
      BY <1>1 DEF Regular
    <3>2. Sole'
      <4>1. ASSUME NEW u \in Tasks', NEW i \in DOMAIN stack'[u], NEW p,
                   Holds(stack'[u][i], p)
            PROVE  /\ u \in Tasks /\ i \in DOMAIN stack[u] /\ Holds(stack[u][i], p)
                   /\ stack'[u][i].op = stack[u][i].op
        <5>1. u # 0
          BY <4>1, <2>5, <2>7, <2>8 DEF Holds
        <5>2. u # new
          BY <4>1, <2>7
        <5> QED BY <5>1, <5>2, <4>1, <2>7
      <4>2. NoMoreHeld
        BY <4>1 DEF NoMoreHeld
      <4>3. \A p \in Pids : proc[p].state = "stopping" => proc'[p].state = "stopping"
        BY <2>6
      <4> QED BY <4>2, <4>3, <3>1, <1>1, SoleStep
    <3>3. Named'
      <4>1. \A x \in Pids' \ {new} : /\ x \in Pids /\ proc'[x].spec = proc[x].spec
                                     /\ proc'[x].state = proc[x].state
        BY <2>6, <2>7
      <4>2. /\ new \in Pids' /\ proc'[new].spec.name = spec.name
            /\ proc'[new].state \in Alive
        BY <2>4, <2>6, <2>7 DEF Alive
      <4> QED BY <4>1, <4>2, <3>1, <1>1, <1>3, <2>1, <2>4, NameTaken
    <3>4. \A x \in DOMAIN proc' : Supervises(proc', x) =>
            /\ x \in Pids /\ Supervises(proc, x)
            /\ proc[x].supervisor \in Pids /\ proc'[x] = proc[x]
            /\ proc'[proc[x].supervisor] = proc[proc[x].supervisor]
      <4> SUFFICES ASSUME NEW x \in DOMAIN proc', Supervises(proc', x)
                   PROVE  /\ x \in Pids /\ Supervises(proc, x)
                          /\ proc[x].supervisor \in Pids /\ proc'[x] = proc[x]
                          /\ proc'[proc[x].supervisor] = proc[proc[x].supervisor]
        OBVIOUS
      <4>1. x \in Pids /\ proc'[x] = proc[x]
        BY <2>6 DEF Supervises
      <4>2. proc[x].supervisor \in Pids
        BY <4>1, <1>1 DEF RecordsOK, RecordOK, Supervises, Pids
      <4>3. proc'[proc[x].supervisor] = proc[proc[x].supervisor]
        BY <4>2, <2>6
      <4> QED BY <4>1, <4>2, <4>3 DEF Supervises
    <3>5. Linked(proc')
      BY <3>1, <3>4 DEF Linked, Pids
    <3>6. Watched'
      <4> SUFFICES ASSUME NEW x \in Pids', Supervises(proc', x),
                          NEW s, s = proc'[x].supervisor
                   PROVE  Up(s)' \/ Doomed(s, x)'
        BY DEF Watched
      <4>1. x \in Pids /\ Supervises(proc, x) /\ s = proc[x].supervisor
            /\ s \in Pids /\ proc'[s] = proc[s]
        BY <3>4 DEF Pids
      <4>2. Up(s) => Up(s)'
        BY <4>1 DEF Up
      <4>3. Doomed(s, x) => Doomed(s, x)'
        BY <1>1, <2>2, <2>12, DoomedBeside
      <4> QED BY <4>1, <4>2, <4>3, <3>1 DEF Watched
    <3>7. Reaped'
      <4>1. \A x \in Pids' : proc'[x].os = "alive" =>
              \/ proc'[x].state \in Alive
              \/ Starting(0)' /\ Top(0)'.new = x
              \/ /\ x \in Pids /\ proc[x].os = "alive" /\ proc[x].state \notin Alive
                 /\ ~ (Starting(0) /\ Top(0).new = x)
        BY <2>6, <2>7, <2>11
      <4> QED BY <4>1, <3>1, <1>1, <2>2, <2>7, <2>12, ReapedStep
    <3> QED BY <3>2, <3>3, <3>5, <3>6, <3>7
  <2> QED BY <2>14, <2>15, <2>16 DEF TreeInv
<1> QED BY <1>2, <1>3

-----------------------------------------------------------------------------
(* The invariant holds at first, and from then on *)

\* What a run may begin with.
LEMMA FirstTree ==
  ASSUME NEW pr, Tree(pr)
  PROVE  /\ pr \in Seq(Records) /\ Len(pr) \in Nat /\ DOMAIN pr = 1 .. Len(pr)
         /\ \A p \in DOMAIN pr :
              /\ pr[p].spec.name \in Nat
              /\ pr[p].spec.mode \in {"in_process", "isolated"}
              /\ pr[p].state = "running" /\ pr[p].charged = 0
              /\ pr[p].parent \in {0} \cup DOMAIN pr
              /\ pr[p].supervisor = pr[p].parent
              /\ pr[p].os \in {"none", "alive"}
              /\ pr[p].os = "alive" => pr[p].spec.mode = "isolated"
              /\ ToSet(pr[p].kids) = {q \in DOMAIN pr : pr[q].parent = p}
              /\ \A q \in DOMAIN pr : pr[q].spec.name = pr[p].spec.name => q = p
<1> DEFINE First == [spec : Programs, parent : Nat, supervisor : Nat,
                     kids : Seq(Nat), state : {"running"}, os : {"none", "alive"},
                     charged : {0}, escalated : {FALSE}]
<1>1. pr \in Seq(First)
  BY DEF Tree
<1>2. \A x \in First :
        /\ x \in Records /\ x.spec.name \in Nat
        /\ x.spec.mode \in {"in_process", "isolated"}
        /\ x.state = "running" /\ x.charged = 0 /\ x.os \in {"none", "alive"}
  <2>1. \A x \in Programs : /\ x \in AnyProgram /\ x.name \in Nat
                            /\ x.mode \in {"in_process", "isolated"}
    BY DEF Programs, AnyProgram
  <2> HIDE DEF First
  <2>2. ASSUME NEW x \in First
        PROVE  /\ x.spec \in Programs /\ x.state = "running" /\ x.charged = 0
               /\ x.os \in {"none", "alive"}
    BY DEF First
  <2>3. ASSUME NEW x \in First PROVE x \in Records
    <3>1. x \in [spec : AnyProgram, parent : Nat, supervisor : Nat,
                kids : Seq(Nat), state : {"running"}, os : {"none", "alive"},
                charged : {0}, escalated : {FALSE}]
      BY <2>1 DEF First
    <3>2. \A k : k \in {0} => k \in Nat
      OBVIOUS
    <3>3. \A k : k \in {"none", "alive"} => k \in {"none", "alive", "dead"}
      OBVIOUS
    <3>4. \A k : k \in {"running"} => k \in {"unborn"} \cup Alive \cup Over
      BY DEF Alive
    <3>5. \A k : k \in {FALSE} => k \in BOOLEAN
      OBVIOUS
    <3> QED BY <3>1, <3>2, <3>3, <3>4, <3>5 DEF Records
  <2> QED BY <2>1, <2>2, <2>3
<1> HIDE DEF First
<1>3. /\ Len(pr) \in Nat /\ DOMAIN pr = 1 .. Len(pr)
      /\ \A x \in DOMAIN pr : pr[x] \in First
  BY <1>1
<1>4. pr \in Seq(Records)
  BY <1>1, <1>2, <1>3
<1>5. \A p \in DOMAIN pr :
        /\ pr[p].parent \in {0} \cup DOMAIN pr
        /\ pr[p].supervisor = pr[p].parent
        /\ pr[p].os = "alive" => pr[p].spec.mode = "isolated"
        /\ ToSet(pr[p].kids) = {q \in DOMAIN pr : pr[q].parent = p}
        /\ \A q \in DOMAIN pr : pr[q].spec.name = pr[p].spec.name => q = p
  BY DEF Tree
<1> QED BY <1>2, <1>3, <1>4, <1>5

\* Every task is in its body, and there is nothing that waits.
LEMMA FirstFrames ==
  ASSUME Init
  PROVE  /\ Typed /\ Tree(proc)
         /\ stack[0] = <<>>
         /\ \A t \in Tasks \ {0} : stack[t] = Body("run")
<1>1. Tree(proc) /\ proc \in Roots
  BY ConstantsAssumption DEF Init, ConstantsAssumption
<1>2. /\ proc \in Seq(Records) /\ Len(proc) \in Nat /\ DOMAIN proc = 1 .. Len(proc)
  BY <1>1, FirstTree
<1>3. stack = [t \in 0 .. Len(proc) |-> IF t = 0 THEN <<>> ELSE Body("run")]
  BY DEF Init, Shell
<1>4. /\ stack[0] = <<>> /\ Tasks = 0 .. Len(proc)
      /\ \A t \in Tasks \ {0} : stack[t] = Body("run")
  BY <1>2, <1>3 DEF Tasks
<1>5. stack \in [0 .. Len(proc) -> Seq(Frames)]
  <2>1. Body("run") \in Seq(Frames)
    <3>1. "run" \in Places
      BY DEF Places
    <3> QED BY <3>1, BodyFrames
  <2>2. <<>> \in Seq(Frames)
    OBVIOUS
  <2> QED BY <2>1, <2>2, <1>3
<1> DEFINE names == {proc[p].spec.name : p \in Pids}
           all == names \cup {s.name : s \in Specs}
<1>6. by_name = [n \in all |-> IF n \in names
                               THEN CHOOSE p \in Pids : proc[p].spec.name = n ELSE 0]
  BY DEF Init
<1>7. by_name \in [Names -> 0 .. Len(proc)] /\ \A s \in Specs : s.name \in Names
  <2>1. Names = all
    BY <1>6 DEF Names
  <2>2. ASSUME NEW n \in names
        PROVE  (CHOOSE p \in Pids : proc[p].spec.name = n) \in Pids
    <3>1. \E p \in Pids : proc[p].spec.name = n
      OBVIOUS
    <3> QED BY <3>1
  <2>3. ASSUME NEW n \in all PROVE by_name[n] \in 0 .. Len(proc)
    <3>1. 0 \in 0 .. Len(proc) /\ \A p \in Pids : p \in 0 .. Len(proc)
      BY <1>2 DEF Pids
    <3> HIDE DEF all, names
    <3>2. CASE n \in names
      BY <2>2, <3>1, <3>2, <1>6
    <3>3. CASE n \notin names
      BY <3>1, <3>3, <1>6
    <3> QED BY <3>2, <3>3
  <2>4. \A s \in Specs : s.name \in all
    OBVIOUS
  <2> HIDE DEF all, names
  <2> QED BY <2>1, <2>3, <2>4, <1>6
<1> HIDE DEF all, names
<1>8. /\ busy = {} /\ result = "ok" /\ restarts = {} /\ crossed = FALSE
  BY DEF Init
<1>9. Typed
  BY <1>2, <1>5, <1>7, <1>8 DEF Typed
<1> QED BY <1>1, <1>4, <1>9

\* What a run begins with: every process runs, is on the list of its supervisor
\* and has a name of its own, and no call is under way.
THEOREM InitTree == Init => TreeInv
<1> SUFFICES ASSUME Init PROVE TreeInv
  OBVIOUS
<1>1. /\ Typed /\ Tree(proc) /\ stack[0] = <<>>
      /\ \A t \in Tasks \ {0} : stack[t] = Body("run")
  BY FirstFrames
<1>2. /\ proc \in Seq(Records) /\ Len(proc) \in Nat /\ DOMAIN proc = 1 .. Len(proc)
      /\ \A p \in DOMAIN proc :
           /\ proc[p].spec.name \in Nat
           /\ proc[p].spec.mode \in {"in_process", "isolated"}
           /\ proc[p].state = "running" /\ proc[p].charged = 0
           /\ proc[p].parent \in {0} \cup DOMAIN proc
           /\ proc[p].supervisor = proc[p].parent
           /\ proc[p].os \in {"none", "alive"}
           /\ proc[p].os = "alive" => proc[p].spec.mode = "isolated"
           /\ ToSet(proc[p].kids) = {q \in DOMAIN proc : proc[q].parent = p}
           /\ \A q \in DOMAIN proc : proc[q].spec.name = proc[p].spec.name => q = p
  BY <1>1, FirstTree
<1>3. /\ Pids = DOMAIN proc /\ Pids \subseteq Tasks /\ \A p \in Pids : p # 0
      /\ busy = {} /\ restarts = {} /\ crossed = FALSE
      /\ \A t \in Tasks : t = 0 \/ t \in Pids
  BY <1>1, <1>2, TheStacks DEF Pids, Init
<1>4. \A t \in Tasks : \A i \in DOMAIN stack[t] :
        t # 0 /\ i = 1 /\ stack[t][i].op = "body" /\ Len(stack[t]) = 1
        /\ stack[t][i].pid = 0 /\ Top(t).op = "body" /\ Top(t).at = "run"
  <2> SUFFICES ASSUME NEW t \in Tasks, NEW i \in DOMAIN stack[t]
               PROVE  t # 0 /\ i = 1 /\ stack[t][i].op = "body" /\ Len(stack[t]) = 1
                      /\ stack[t][i].pid = 0 /\ Top(t).op = "body" /\ Top(t).at = "run"
    OBVIOUS
  <2>1. t # 0 /\ stack[t] = Body("run")
    BY <1>1
  <2>2. /\ Len(Body("run")) = 1 /\ DOMAIN Body("run") = {1}
        /\ Last(Body("run")).op = "body" /\ Last(Body("run")).at = "run"
        /\ Body("run")[1].op = "body" /\ Body("run")[1].pid = 0
    <3>1. ASSUME NEW x, x = "run"
          PROVE  /\ StackOK(proc, Names, t, Body(x))
                 /\ Len(Body(x)) = 1 /\ DOMAIN Body(x) = {1}
                 /\ Last(Body(x)).op = "body" /\ Last(Body(x)).at = x
                 /\ Body(x)[1].op = "body" /\ Body(x)[1].pid = 0
      BY <2>1, BodyOK
    <3> QED BY <3>1
  <2> QED BY <2>1, <2>2 DEF Top
<1>5. \A t \in Tasks : stack[t] # <<>> => 1 \in DOMAIN stack[t]
  BY <1>1, TheStacks
<1>6. \A p \in Pids : proc[p].spec.name \in Names /\ by_name[proc[p].spec.name] = p
  <2> DEFINE names == {proc[p].spec.name : p \in Pids}
             all == names \cup {s.name : s \in Specs}
  <2>1. by_name = [n \in all |-> IF n \in names
                                 THEN CHOOSE p \in Pids : proc[p].spec.name = n
                                 ELSE 0]
    BY DEF Init
  <2> SUFFICES ASSUME NEW p \in Pids, NEW n, n = proc[p].spec.name
               PROVE  n \in Names /\ by_name[n] = p
    OBVIOUS
  <2>2. n \in names /\ n \in all
    OBVIOUS
  <2>3. \A q \in Pids : proc[q].spec.name = n => q = p
    BY <1>2, <1>3
  <2>4. (CHOOSE q \in Pids : proc[q].spec.name = n) = p
    BY <2>3
  <2> HIDE DEF names, all
  <2> QED BY <2>1, <2>2, <2>4 DEF Names
<1>7. RecordsOK(proc, Names)
  <2> SUFFICES ASSUME NEW p \in DOMAIN proc PROVE RecordOK(proc, Names, p)
    BY DEF RecordsOK
  <2>1. MaxRestarts \in Nat
    BY ConstantsAssumption DEF ConstantsAssumption
  <2>2. Kids(proc, proc[p].kids)
    BY <1>2 DEF Kids
  <2>3. \A c \in ToSet(proc[p].kids) : proc[c].supervisor = p
    BY <1>2
  <2> QED BY <2>1, <2>2, <2>3, <1>2, <1>3, <1>6 DEF RecordOK
<1>8. Stacks
  <2> SUFFICES ASSUME NEW t \in Tasks PROVE StackOK(proc, Names, t, stack[t])
    BY DEF Stacks
  <2>1. CASE t = 0
    BY <2>1, <1>1 DEF StackOK
  <2>2. CASE t # 0
    BY <2>2, <1>1, BodyOK
  <2> QED BY <2>1, <2>2
<1>9. \A t \in Tasks : ~ Starting(t) /\ TopOK(t)
  BY <1>4, <1>5 DEF Starting, TopOK, At
<1>10. Tops
  BY <1>9 DEF Tops
<1>11. Bodies /\ Agents
  <2>1. \A p \in Pids : ~ Agent(p)
    BY <1>1 DEF Agent
  <2> QED BY <2>1, <1>2, <1>3 DEF Bodies, Agents, Alive
<1>12. Shape
  BY <1>1, <1>7, <1>8, <1>10, <1>11 DEF Shape
<1>13. Books
  <2> SUFFICES ASSUME NEW q \in Pids
               PROVE  /\ IsFiniteSet(Owed(q)) /\ IsFiniteSet(Made(q))
                      /\ Cardinality(Owed(q)) + Cardinality(Made(q))
                           <= proc[q].charged
    BY DEF Books
  <2>1. Made(q) = {}
    BY <1>3 DEF Made
  <2>2. Owed(q) = {}
    <3>1. \A t \in Tasks : \A i \in DOMAIN stack[t] : Owes(stack[t][i], q) = 0
      BY <1>4 DEF Owes
    <3>2. \A t \in Tasks : \A i \in DOMAIN stack[t] :
            {<<t, i>>} \X (1 .. Owes(stack[t][i], q)) = {}
      BY <3>1
    <3> QED BY <3>2 DEF Owed
  <2>3. proc[q].charged = 0
    BY <1>2, <1>3
  <2> QED BY <2>1, <2>2, <2>3, FS_EmptySet
<1>14. Justified
  BY <1>3 DEF Justified
<1>15. Sole
  <2>1. \A t \in Tasks : \A i \in DOMAIN stack[t] : \A p : ~ Holds(stack[t][i], p)
    BY <1>4 DEF Holds
  <2> QED BY <2>1, <1>4 DEF Sole
<1>16. Named
  BY <1>2, <1>3, <1>6 DEF Named, Live
<1>17. Linked(proc) /\ Watched
  <2> SUFFICES ASSUME NEW p \in Pids, Supervises(proc, p), NEW q,
                      q = proc[p].supervisor
               PROVE  /\ proc[p].parent = q /\ p \in ToSet(proc[q].kids)
                      /\ Up(q)
    BY DEF Linked, Watched, Pids
  <2> QED BY <1>2, <1>3 DEF Supervises, Up
<1>18. Reaped
  BY <1>2, <1>3 DEF Reaped, Alive
<1> QED BY <1>12, <1>13, <1>14, <1>15, <1>16, <1>17, <1>18 DEF TreeInv, Regular

\* A task that runs keeps the invariant up to its next wait, ...
LEMMA TurnTree ==
  ASSUME TreeInv, NEW t \in Tasks, Turn(t)
  PROVE  TreeInv'
<1>1. CASE KillEnter(t)
  BY <1>1, KillEnterStep
<1>2. CASE KillChild(t) \/ HandleChild(t)
  BY <1>2, KillChildStep
<1>3. CASE KillTask(t)
  BY <1>3, KillTaskStep
<1>4. CASE KillFinish(t)
  BY <1>4, KillFinishStep
<1>5. CASE KillRestarted(t)
  BY <1>5, KillRestartedStep
<1>6. CASE HandleDecide(t)
  BY <1>6, HandleDecideStep
<1>7. CASE HandleNext(t)
  BY <1>7, HandleMoves
<1>8. CASE HandleDone(t)
  BY <1>8, HandleDoneStep
<1>9. CASE HandleCheck(t)
  BY <1>9, HandleCheckStep
<1>10. CASE HandleRestart(t)
  BY <1>10, HandleRestartStep
<1>11. CASE HandleRestarted(t)
  BY <1>11, HandleRestartedStep
<1>12. CASE StartRefused(t)
  BY <1>12, StartRefusedStep
<1>13. CASE StartInProcess(t)
  BY <1>13, StartInProcessStep
<1>14. CASE StartIsolated(t)
  BY <1>14, StartIsolatedStep
<1>15. CASE StartHandled(t)
  BY <1>15, StartHandledStep
<1>16. CASE ExternalGoesOn(t)
  BY <1>16, ExternalGoesOnStep
<1> QED BY <1>1, <1>2, <1>3, <1>4, <1>5, <1>6, <1>7, <1>8, <1>9, <1>10, <1>11,
           <1>12, <1>13, <1>14, <1>15, <1>16 DEF Turn

\* ... and when a wait of it ends.
LEMMA ResumeTree ==
  ASSUME TreeInv, NEW t \in Tasks, Resume(t)
  PROVE  TreeInv'
<1>1. CASE KillJoined(t)
  BY <1>1, KillJoinedStep
<1>2. CASE KillAwaited(t)
  BY <1>2, KillAwaitedStep
<1>3. CASE KillYielded(t)
  BY <1>3, KillYieldedStep
<1>4. CASE HandleWakes(t)
  BY <1>4, HandleMoves
<1>5. CASE StartReady(t)
  BY <1>5, StartReadyStep
<1>6. CASE StartTimeout(t) \/ StartCrashes(t)
  BY <1>6, StartWaits
<1>7. CASE StartAborted(t)
  BY <1>7, StartAbortedStep
<1>8. CASE StartCrashed(t)
  BY <1>8, StartCrashedStep
<1> QED BY <1>1, <1>2, <1>3, <1>4, <1>5, <1>6, <1>7, <1>8 DEF Resume

\* Whatever task, failure or request comes next, the invariant is kept.
THEOREM NextTree == TreeInv /\ [Next]_vars => TreeInv'
<1> SUFFICES ASSUME TreeInv, [Next]_vars PROVE TreeInv'
  OBVIOUS
<1>1. Typed
  BY DEF TreeInv, Shape
<1>2. Shell \in Tasks /\ busy \subseteq Tasks
  BY <1>1, TheStacks DEF Typed, Shell
<1>3. CASE UNCHANGED vars
  <2>1. UNCHANGED <<proc, stack, busy, result, by_name, restarts, crossed>>
    BY <1>3 DEF vars, history
  <2> QED BY <2>1, Idle
<1>4. ASSUME NEW t \in busy, Turn(t) PROVE TreeInv'
  BY <1>2, <1>4, TurnTree
<1>5. ASSUME NEW t \in DOMAIN stack, Resume(t) PROVE TreeInv'
  BY <1>5, ResumeTree DEF Tasks
<1>6. ASSUME NEW s \in Specs,
             ShellRun(s) \/ ShellExternal(s) \/ ExternalSpawns(Shell, s)
      PROVE  TreeInv'
  BY <1>2, <1>6, ShellRunStep, ShellExternalStep, ExternalSpawnsStep
<1>7. ASSUME NEW state \in {"exited", "crashed"}, ExternalEnds(Shell, state)
      PROVE  TreeInv'
  BY <1>2, <1>7, ExternalEndsStep
<1>8. ASSUME NEW p \in Pids,
             Begin(p) \/ Crash(p) \/ Exit(p) \/ Stop(p) \/ StopFails(p) \/ ShellKill(p)
      PROVE  TreeInv'
  BY <1>8, BeginStep, CrashStep, ExitStep, TaskEnds, StopFailsStep, ShellKillStep
<1>9. ASSUME NEW p \in Pids, NEW s \in Specs, ShellSpawn(p, s) PROVE TreeInv'
  BY <1>9, ShellSpawnStep
<1> QED BY <1>3, <1>4, <1>5, <1>6, <1>7, <1>8, <1>9 DEF Next

\* The invariant of the supervision trees holds in every behaviour.
THEOREM TreeHolds == Spec => []TreeInv
<1>1. Init => TreeInv
  BY InitTree
<1>2. TreeInv /\ [Next]_vars => TreeInv'
  BY NextTree
<1> QED BY <1>1, <1>2, PTL DEF Spec

-----------------------------------------------------------------------------
(* What it says of the supervision trees *)

\* TypeOK, for every tree: parents, supervisors, lists of children, names and
\* frames refer to processes that there are, no supervisor is charged with more
\* than max_restarts, and one task runs at a time.
THEOREM TypeCorrect == Spec => []TypeOK
<1>1. TreeInv => TypeOK
  <2> SUFFICES ASSUME TreeInv PROVE TypeOK
    OBVIOUS
  <2>1. Typed /\ RecordsOK(proc, Names) /\ Stacks
    BY DEF TreeInv, Shape
  <2>2. /\ Tasks = 0 .. Len(proc) /\ Len(proc) \in Nat /\ Pids = 1 .. Len(proc)
        /\ \A p \in Pids : proc[p] \in Records
        /\ \A t \in Tasks : \A i \in DOMAIN stack[t] : stack[t][i] \in Frames
    BY <2>1, TheStacks
  <2>3. ASSUME NEW p \in Pids
        PROVE  /\ proc[p].parent \in {0} \cup Pids
               /\ proc[p].supervisor \in {0} \cup Pids
               /\ ToSet(proc[p].kids) \subseteq Pids
               /\ p \in Live \/ proc[p].state \in Over \cup {"unborn"}
               /\ proc[p].os \in {"none", "alive", "dead"}
               /\ proc[p].charged \in 0 .. MaxRestarts
               /\ proc[p].escalated \in BOOLEAN
    <3>1. RecordOK(proc, Names, p)
      BY <2>1 DEF RecordsOK, Pids
    <3>2. /\ proc[p].state \in {"unborn"} \cup Alive \cup Over
          /\ proc[p].os \in {"none", "alive", "dead"} /\ proc[p].charged \in Nat
          /\ proc[p].escalated \in BOOLEAN
      BY <2>2, RecordFields
    <3>3. MaxRestarts \in Nat
      BY ConstantsAssumption DEF ConstantsAssumption
    <3> QED BY <3>1, <3>2, <3>3 DEF RecordOK, Kids, Live, Alive, Pids
  <2>4. Tasks = {0} \cup Pids
    BY <2>2
  <2>5. ASSUME NEW t \in Tasks, NEW i \in DOMAIN stack[t]
        PROVE  /\ stack[t][i].op \in {"body", "kill", "handle", "start", "external"}
               /\ stack[t][i].pid \in {0} \cup Pids
    <3>1. stack[t][i].op \in {"body", "kill", "handle", "start", "external"}
      BY <2>2, FrameFields
    <3>2. FrameOK(proc, Names, stack[t][i])
      BY <2>1 DEF Stacks, StackOK
    <3> QED BY <3>1, <3>2 DEF FrameOK, KillOK, HandleOK, StartOK, ExternalOK, Pids
  <2>6. busy \subseteq Tasks /\ Cardinality(busy) <= 1
    <3>1. CASE busy = {}
      BY <3>1, FS_EmptySet
    <3>2. ASSUME NEW t \in Tasks, busy = {t}
          PROVE  busy \subseteq Tasks /\ Cardinality(busy) <= 1
      <4>1. Cardinality({t}) = 1
        BY FS_Singleton
      <4> QED BY <3>2, <4>1
    <3> QED BY <2>1, <3>1, <3>2 DEF Typed
  <2>7. \A n \in DOMAIN by_name : by_name[n] \in {0} \cup Pids
    BY <2>1, <2>2, <2>4 DEF Typed, Names
  <2> QED BY <2>1, <2>3, <2>4, <2>5, <2>6, <2>7 DEF TypeOK, Typed, Tasks, Shell
<1> QED BY <1>1, TreeHolds, PTL

\* RestartsWarranted, for every tree: what _handle_terminal_process restarts is
\* asked for by the policies and the strategy, and within max_restarts, although
\* the budget is charged before waits in which other failures are handled.
THEOREM RestartsAreWarranted == Spec => []RestartsWarranted
<1>1. TreeInv => RestartsWarranted
  <2> SUFFICES ASSUME TreeInv PROVE RestartsWarranted
    OBVIOUS
  <2>1. Typed /\ RecordsOK(proc, Names) /\ Books /\ Justified
    BY DEF TreeInv, Shape
  <2>2. ASSUME NEW r \in restarts
        PROVE  LET policy == proc[r.child].spec.policy
               IN /\ policy # "temporary"
                  /\ policy = "transient" => proc[r.failed].state # "exited"
                  /\ r.child = r.failed \/ proc[r.by].spec.strategy # "one_for_one"
    BY <2>1 DEF Justified, Warranted
  <2>3. ASSUME NEW q \in Pids PROVE Cardinality({r \in restarts : r.by = q}) <= MaxRestarts
    <3>1. /\ IsFiniteSet(Owed(q)) /\ IsFiniteSet(Made(q))
          /\ Cardinality(Owed(q)) + Cardinality(Made(q)) <= proc[q].charged
      BY <2>1 DEF Books
    <3>2. Cardinality(Owed(q)) \in Nat /\ Cardinality(Made(q)) \in Nat
      BY <3>1, FS_CardinalityType
    <3>3. proc[q].charged \in Nat /\ proc[q].charged <= MaxRestarts /\ MaxRestarts \in Nat
      <4>1. RecordOK(proc, Names, q) /\ proc[q] \in Records
        BY <2>1, TheStacks DEF RecordsOK, Pids
      <4> QED BY <4>1, RecordFields, ConstantsAssumption
              DEF RecordOK, ConstantsAssumption
    <3>4. Cardinality(Made(q)) <= MaxRestarts
      BY <3>1, <3>2, <3>3
    <3> QED BY <3>4 DEF Made
  <2> QED BY <2>2, <2>3 DEF RestartsWarranted
<1> QED BY <1>1, TreeHolds, PTL

\* NamesSound, for every tree: until a kill is crossed, _by_name has exactly the
\* live processes, whatever tasks free and take names between their waits.
THEOREM NamesAreSound == Spec => []NamesSound
<1>1. TreeInv => NamesSound
  BY DEF TreeInv, Regular, Named, NamesSound
<1> QED BY <1>1, TreeHolds, PTL

\* Where no call is under way, every task is in the frame that it began with,
\* and none waits for the end of a process or of a start.
LEMMA NothingWaits ==
  ASSUME TreeInv, AtRest, NEW t \in Tasks
  PROVE  /\ ~ Starting(t)
         /\ \A i \in DOMAIN stack[t] : stack[t][i].op \in {"body", "external"}
<1>1. CASE stack[t] = <<>>
  BY <1>1 DEF Starting
<1>2. CASE At(t, "body", "run")
  <2>1. Typed /\ Stacks /\ stack[t] # <<>> /\ Top(t).op = "body"
    BY <1>2, AtTop DEF TreeInv, Shape
  <2>2. Bodily(t)
    BY <2>1, BodyTop
  <2>3. stack[t] \in Seq(Frames) /\ StackOK(proc, Names, t, stack[t])
    BY <2>1, TheStacks DEF Stacks
  <2>4. Len(stack[t]) = 1 /\ stack[t][1].op = "body"
    BY <2>2, <2>3, BodyAlone DEF Bodily
  <2>5. \A i \in DOMAIN stack[t] : i = 1
    BY <2>3, <2>4
  <2> QED BY <2>1, <2>4, <2>5 DEF Starting
<1>3. ASSUME NEW x, At(t, "external", x)
      PROVE  /\ ~ Starting(t)
             /\ \A i \in DOMAIN stack[t] : stack[t][i].op \in {"body", "external"}
  <2>1. DOMAIN stack[t] = {1} /\ stack[t][1] = Top(t)
    BY <1>3, TheAgent
  <2>2. Top(t).op = "external"
    BY <1>3 DEF At
  <2> QED BY <2>1, <2>2 DEF Starting
<1> QED BY <1>1, <1>2, <1>3 DEF AtRest, Tasks

\* NoOrphans, for every tree: unless a kill was crossed, a supervised process that
\* is live when all calls are over is on the list of a supervisor that is up, and
\* no operating system process is left behind.
THEOREM NoneOrphaned == Spec => []NoOrphans
<1>1. TreeInv => NoOrphans
  <2> SUFFICES ASSUME TreeInv, AtRest, ~ crossed, NEW p \in Pids
               PROVE  /\ p \in Live /\ proc[p].supervisor # 0 /\ ~ OfExternal(p) =>
                           /\ proc[p].parent = proc[p].supervisor
                           /\ Up(proc[p].parent)
                           /\ p \in ToSet(proc[proc[p].parent].kids)
                      /\ proc[p].os = "alive" => p \in Live
    BY DEF NoOrphans
  <2>1. Linked(proc) /\ Watched /\ Reaped
    BY DEF TreeInv, Regular
  <2>2. p \in Live <=> proc[p].state \in Alive
    BY DEF Live, Alive
  <2>3. ASSUME p \in Live, proc[p].supervisor # 0, ~ OfExternal(p)
        PROVE  /\ proc[p].parent = proc[p].supervisor
               /\ Up(proc[p].parent)
               /\ p \in ToSet(proc[proc[p].parent].kids)
    <3>1. Supervises(proc, p)
      BY <2>2, <2>3 DEF Supervises, OfExternal
    <3>2. proc[p].parent = proc[p].supervisor /\ p \in ToSet(proc[proc[p].parent].kids)
      BY <2>1, <3>1 DEF Linked, Pids
    <3>3. ~ Doomed(proc[p].supervisor, p)
      BY NothingWaits DEF Doomed, Takes
    <3>4. Up(proc[p].supervisor)
      BY <2>1, <3>1, <3>3 DEF Watched
    <3> QED BY <3>2, <3>4
  <2>4. ASSUME proc[p].os = "alive" PROVE p \in Live
    BY <2>1, <2>2, <2>4, NothingWaits DEF Reaped
  <2> QED BY <2>3, <2>4
<1> QED BY <1>1, TreeHolds, PTL
=============================================================================
