-------------------------- MODULE LLMRuntimeProofs --------------------------
(***************************************************************************)
(* That every behaviour of LLMRuntime has the invariants its run checks,   *)
(* for any number of callers, providers, fallbacks and reports.            *)
(*                                                                         *)
(* The inductive invariant is in five parts: the types; which requests are *)
(* where; that a stream has been heard from its present attempt only; that *)
(* a caller owns the answer it was given until it is cached or refused;    *)
(* and the books, which balance what the ledgers show, what the callers    *)
(* still owe them and what the providers reported.                         *)
(***************************************************************************)
EXTENDS LLMRuntime, DataLemmas

-----------------------------------------------------------------------------
(* The route *)

Keep(r, q) == IF q \in ToSet(r) THEN r ELSE Append(r, q)

\* The recursion FoldLeft is defined by, on the first k fallbacks.
Folds(g, p, k) ==
  g = [s \in SUBSET (1 .. k) |->
         IF s = {} THEN <<p>>
         ELSE Keep(g[s \ {Max(s)}], Fallbacks[Max(s)])]

\* There is a function that the recursion defines.
LEMMA FoldExists ==
  ASSUME NEW p
  PROVE  \A k \in Nat : \E g : Folds(g, p, k)
<1> DEFINE G == {k \in Nat : \E g : Folds(g, p, k)}
<1>1. 0 \in G
  <2> DEFINE g == [s \in SUBSET (1 .. 0) |-> <<p>>]
  <2>1. \A s \in SUBSET (1 .. 0) : s = {}
    OBVIOUS
  <2>2. Folds(g, p, 0)
    BY <2>1 DEF Folds
  <2> QED BY <2>2
<1>2. ASSUME NEW k \in Nat, k \in G PROVE k + 1 \in G
  <2>1. PICK g : Folds(g, p, k)
    BY <1>2
  <2> DEFINE h == [s \in SUBSET (1 .. k + 1) |->
                     IF k + 1 \in s
                     THEN Keep(g[s \ {k + 1}], Fallbacks[k + 1]) ELSE g[s]]
             F(s) == IF s = {} THEN <<p>>
                     ELSE Keep(h[s \ {Max(s)}], Fallbacks[Max(s)])
  <2>2. ASSUME NEW s \in SUBSET (1 .. k + 1) PROVE h[s] = F(s)
    <3>1. CASE k + 1 \in s
      <4>1. \A x \in s : x \in Nat /\ x <= k + 1
        OBVIOUS
      <4>2. Max(s) = k + 1
        <5>1. Max(s) \in s /\ \A x \in s : x <= Max(s)
          BY <4>1, <3>1, MaxOfBounded
        <5>2. Max(s) \in Nat /\ Max(s) <= k + 1 /\ k + 1 <= Max(s)
          BY <5>1, <4>1, <3>1
        <5> QED BY <5>2
      <4>3. s \ {k + 1} \in SUBSET (1 .. k + 1) /\ k + 1 \notin s \ {k + 1}
        OBVIOUS
      <4>4. h[s \ {k + 1}] = g[s \ {k + 1}]
        BY <4>3
      <4>5. h[s] = Keep(g[s \ {k + 1}], Fallbacks[k + 1])
        BY <3>1
      <4> HIDE DEF h
      <4> QED BY <4>2, <4>4, <4>5, <3>1
    <3>2. CASE k + 1 \notin s
      <4>1. s \in SUBSET (1 .. k)
        BY <3>2
      <4>2. h[s] = g[s]
        BY <3>2
      <4>3. CASE s = {}
        BY <4>1, <4>2, <4>3, <2>1 DEF Folds
      <4>4. CASE s # {}
        <5>1. g[s] = Keep(g[s \ {Max(s)}], Fallbacks[Max(s)])
          <6> HIDE DEF h
          <6> QED BY <4>1, <4>4, <2>1 DEF Folds
        <5>2. h[s \ {Max(s)}] = g[s \ {Max(s)}]
          BY <4>1, <3>2
        <5> HIDE DEF h
        <5> QED BY <5>1, <5>2, <4>2, <4>4
      <4> QED BY <4>3, <4>4
    <3> QED BY <3>1, <3>2
  <2>3. Folds(h, p, k + 1)
    <3>1. h = [s \in SUBSET (1 .. k + 1) |-> h[s]]
      OBVIOUS
    <3> HIDE DEF h
    <3> QED BY <2>2, <3>1 DEF Folds
  <2> QED BY <2>3
<1> HIDE DEF G
<1>3. \A k \in Nat : k \in G
  BY <1>1, <1>2, Induction
<1> QED BY <1>3 DEF G

\* A route has a first provider, and nothing but providers.
LEMMA RouteType ==
  ASSUME NEW p \in Providers
  PROVE  Route(p) \in Seq(Providers) /\ Len(Route(p)) > 0
<1> DEFINE n == Len(Fallbacks)
           Routes == {r \in Seq(Providers) : Len(r) > 0}
<1>1. n \in Nat /\ DOMAIN Fallbacks = 1 .. n
      /\ \A i \in 1 .. n : Fallbacks[i] \in Providers
  BY RuntimeAssumption
<1> DEFINE g == CHOOSE f : Folds(f, p, n)
<1>2. Route(p) = g[1 .. n]
  <2>1. Route(p) = LET f == CHOOSE f : Folds(f, p, n) IN f[DOMAIN Fallbacks]
    <3> HIDE DEF n
    <3> QED BY <1>1 DEF Route, FoldLeft, MapThenFoldSet, Keep, Folds
  <2> QED BY <2>1, <1>1
<1>3. Folds(g, p, n)
  BY <1>1, FoldExists
<1> HIDE DEF g
<1> DEFINE G == {k \in Nat : \A s \in SUBSET (1 .. n) :
                               (\A x \in s : x <= k) => g[s] \in Routes}
<1>4. 0 \in G
  <2> SUFFICES ASSUME NEW s \in SUBSET (1 .. n), \A x \in s : x <= 0
               PROVE  g[s] \in Routes
    OBVIOUS
  <2>1. s = {}
    BY <1>1
  <2>2. g[s] = <<p>>
    BY <2>1, <1>3 DEF Folds
  <2> QED BY <2>2
<1>5. ASSUME NEW k \in Nat, k \in G PROVE k + 1 \in G
  <2> SUFFICES ASSUME NEW s \in SUBSET (1 .. n), \A x \in s : x <= k + 1
               PROVE  g[s] \in Routes
    OBVIOUS
  <2>1. CASE s = {}
    BY <2>1, <1>4
  <2>2. CASE s # {}
    <3>1. s \in SUBSET Nat /\ \A x \in s : x <= n
      BY <1>1
    <3>2. Max(s) \in s /\ \A x \in s : x <= Max(s)
      BY <3>1, <2>2, <1>1, MaxOfBounded
    <3>3. \A x \in s \ {Max(s)} : x <= k
      <4>1. Max(s) \in Nat /\ Max(s) <= k + 1
        BY <3>1, <3>2
      <4> QED BY <3>1, <3>2, <4>1
    <3>4. g[s \ {Max(s)}] \in Routes
      <4> HIDE DEF n, Routes
      <4> QED BY <3>3, <1>5
    <3>5. g[s] = Keep(g[s \ {Max(s)}], Fallbacks[Max(s)])
      BY <2>2, <1>3 DEF Folds
    <3>6. Fallbacks[Max(s)] \in Providers
      BY <3>2, <1>1
    <3> HIDE DEF n
    <3>7. ASSUME NEW r \in Routes, NEW q \in Providers
          PROVE  Keep(r, q) \in Routes
      BY AppendProperties DEF Keep
    <3> HIDE DEF Routes
    <3> QED BY <3>4, <3>5, <3>6, <3>7
  <2> QED BY <2>1, <2>2
<1>6. n \in G
  <2> HIDE DEF G
  <2> QED BY <1>4, <1>5, <1>1, Induction
<1>7. g[1 .. n] \in Routes
  BY <1>6
<1> QED BY <1>2, <1>7
-----------------------------------------------------------------------------
(* The inductive invariant *)

Waiting == {"lookup", "open", "calling", "paused"}
Answered == {"cost", "price", "usage", "write", "check", "store"}

JobType ==
  [kind : {"chat", "stream"}, content : Contents, route : Seq(Providers),
   at : Nat, attempt : Nat, chunks : Nat, usage : Usages \cup {NoUsage},
   answer : Nat]

\* TypeOK, with what it leaves open: that the jobs have no other fields.
Places ==
  {"idle", "lookup", "open", "calling", "paused", "cost", "price", "usage",
   "write", "check", "store"}
Control ==
  /\ pc \in [Callers -> Places]
  /\ job \in [Callers -> JobType \cup {NoJob}]
  /\ voices \in [Callers -> SUBSET (Nat \X Nat)]
  /\ \A c \in Callers : JobOK(c)
  /\ answers \in Seq(Providers \X Contents)

Data ==
  /\ ledger \in [Fields -> Nat] /\ reported \in [Fields -> Nat]
  /\ seen \in [Callers -> [Fields -> Nat]] /\ seen_costs \in [Callers -> Nat]
  /\ costs \in Nat /\ priced \in Nat
  /\ DOMAIN cache \subseteq Providers \X Contents
  /\ cache \in [DOMAIN cache -> Nat]
  /\ served \in 0 .. MaxRequests
  /\ lost \subseteq {"ledger", "costs"} /\ refused \subseteq 0 .. Len(answers)

Typed == Control /\ Data

\* Which kind of request is where.
Kinds ==
  \A c \in Callers :
    /\ pc[c] \in {"lookup", "store"} => job[c].kind = "chat"
    /\ pc[c] \in {"open", "paused"} => job[c].kind = "stream"
    /\ job[c].kind # "chat" => job[c].answer = 0

\* A stream has been heard from the attempt it is at, if at all.
Heard ==
  \A c \in Callers :
    /\ voices[c] \subseteq {<<job[c].at, job[c].attempt>>}
    /\ job[c].chunks = 0 => voices[c] = {}

Owns(c) == pc[c] \in Answered /\ job[c].kind = "chat"

\* A caller that has been answered owns its answer: it came from the provider
\* it is asking, nobody else has it, it is not in the cache and not refused.
Owned ==
  /\ \A c \in Callers :
       Owns(c) => /\ job[c].answer \in 1 .. Len(answers)
                  /\ answers[job[c].answer] = Key(c)
                  /\ job[c].answer \notin refused
                  /\ \A k \in DOMAIN cache : cache[k] # job[c].answer
  /\ \A c, d \in Callers :
       Owns(c) /\ Owns(d) /\ c # d => job[c].answer # job[d].answer

Cached ==
  \A k \in DOMAIN cache :
    /\ cache[k] \in 1 .. Len(answers) /\ answers[cache[k]] = k
    /\ cache[k] \notin refused

\* What a caller has still to add to the ledgers, and what it may yet add.
OwedBy(c, f) ==
  IF Charging(c) /\ f \in DOMAIN job[c].usage THEN job[c].usage[f] ELSE 0
DueBy(c) ==
  IF pc[c] = "price" \/ (pc[c] = "cost" /\ HasPrice(c)) THEN 1 ELSE 0
ClaimBy(c, f) == IF pc[c] \in Waiting THEN Biggest(f) ELSE OwedBy(c, f)

Owed(f) == [c \in Callers |-> OwedBy(c, f)]
Due == [c \in Callers |-> DueBy(c)]
Claims(f) == [c \in Callers |-> ClaimBy(c, f)]
Most(f) == [c \in Callers |-> Biggest(f)]

Usage ==
  /\ \A f \in Fields : ledger[f] + Total(Owed(f)) <= reported[f]
  /\ \A c \in Callers, f \in Fields :
       pc[c] = "write" => seen[c][f] + Total(Owed(f)) <= reported[f]
  /\ "ledger" \notin lost =>
       \A f \in Fields : ledger[f] + Total(Owed(f)) = reported[f]

Cost ==
  /\ costs + Total(Due) <= priced
  /\ \A c \in Callers : pc[c] = "price" => seen_costs[c] + Total(Due) <= priced
  /\ "costs" \notin lost => costs + Total(Due) = priced

Claimed ==
  Strict /\ "ledger" \notin lost =>
    \A f \in DOMAIN Limits :
      ledger[f] + Total(Claims(f)) <= Limits[f] + Total(Most(f))

-----------------------------------------------------------------------------
(* Types *)

JobVars == <<pc, job, voices>>

\* A caller that is not idle has a job with the fields of a job.
LEMMA JobFields ==
  ASSUME Control, NEW c \in Callers, pc[c] # "idle"
  PROVE  job[c] \in JobType
BY RuntimeAssumption DEF Control, JobOK, NoJob, NewJob, JobType

\* The policy allows at least one attempt.
LEMMA Limited == MaxAttempts \in Nat \ {0} /\ MaxChunks \in Nat
  BY RuntimeAssumption DEF ValidPolicy

\* The updates of a job that the actions make.
LEMMA RetryJob ==
  ASSUME NEW r \in JobType, NEW attempt \in Nat, NEW chunks \in Nat
  PROVE  [r EXCEPT !.attempt = attempt, !.chunks = chunks] \in JobType
BY DEF JobType

\* FallBack starts over with the next provider.
LEMMA FallBackJob ==
  ASSUME NEW r \in JobType, NEW at \in Nat, NEW attempt \in Nat, NEW chunks \in Nat
  PROVE  [r EXCEPT !.at = at, !.attempt = attempt, !.chunks = chunks] \in JobType
BY DEF JobType

\* Answer notes the usage and the number of the response.
LEMMA AnswerJob ==
  ASSUME NEW r \in JobType, NEW usage \in Usages \cup {NoUsage}, NEW answer \in Nat
  PROVE  [r EXCEPT !.usage = usage, !.answer = answer] \in JobType
<1> HIDE DEF NoUsage
<1> QED BY DEF JobType

\* Chunk counts a chunk and notes its usage.
LEMMA ChunkJob ==
  ASSUME NEW r \in JobType, NEW chunks \in Nat, NEW usage \in Usages \cup {NoUsage}
  PROVE  [r EXCEPT !.chunks = chunks, !.usage = usage] \in JobType
<1> HIDE DEF NoUsage
<1> QED BY DEF JobType

\* The fields of a job, and that it has no others.
LEMMA JobShape ==
  ASSUME NEW r \in JobType
  PROVE  /\ r.kind \in {"chat", "stream"} /\ r.route \in Seq(Providers)
         /\ r.at \in Nat /\ r.attempt \in Nat /\ r.chunks \in Nat
         /\ r.usage \in Usages \cup {NoUsage} /\ r.answer \in Nat
         /\ r = [kind |-> r.kind, content |-> r.content, route |-> r.route,
                 at |-> r.at, attempt |-> r.attempt, chunks |-> r.chunks,
                 usage |-> r.usage, answer |-> r.answer]
BY DEF JobType

\* A caller that leaves has no job.
LEMMA LeaveTyped ==
  ASSUME Control, NEW c \in Callers, Leave(c), UNCHANGED answers
  PROVE  Control'
<1>1. /\ pc' \in [Callers -> Places] /\ job' \in [Callers -> JobType \cup {NoJob}]
      /\ voices' \in [Callers -> SUBSET (Nat \X Nat)]
  BY DEF Control, Leave, Places
<1>2. ASSUME NEW d \in Callers PROVE JobOK(d)'
  BY DEF Control, Leave, JobOK
<1> QED BY <1>1, <1>2 DEF Control

\* A caller that goes on with its job unchanged.
LEMMA MoveTyped ==
  ASSUME Control, NEW c \in Callers, pc[c] # "idle", NEW to \in Places \ {"idle"},
         pc' = [pc EXCEPT ![c] = to], Stay, UNCHANGED answers
  PROVE  Control'
<1>1. /\ pc' \in [Callers -> Places] /\ job' \in [Callers -> JobType \cup {NoJob}]
      /\ voices' \in [Callers -> SUBSET (Nat \X Nat)]
  BY DEF Control, Stay, Places
<1>2. ASSUME NEW d \in Callers PROVE JobOK(d)'
  BY DEF Control, Stay, JobOK
<1> QED BY <1>1, <1>2 DEF Control

\* A caller whose job changes to another well-formed one.
LEMMA WorkTyped ==
  ASSUME Control, NEW c \in Callers, NEW to \in Places \ {"idle"}, NEW j \in JobType,
         pc' = [pc EXCEPT ![c] = to], job' = [job EXCEPT ![c] = j],
         voices' \in [Callers -> SUBSET (Nat \X Nat)],
         answers' \in Seq(Providers \X Contents), Len(answers') >= Len(answers),
         j.at \in DOMAIN j.route, j.attempt \in 1 .. MaxAttempts,
         j.chunks \in 0 .. MaxChunks, j.answer \in 0 .. Len(answers')
  PROVE  Control'
<1>1. pc' \in [Callers -> Places] /\ job' \in [Callers -> JobType \cup {NoJob}]
  BY DEF Control, Places
<1>2. Len(answers) \in Nat /\ Len(answers') \in Nat
  BY DEF Control
<1>3. ASSUME NEW d \in Callers PROVE JobOK(d)'
  <2>1. CASE d = c
    BY <2>1 DEF Control, JobOK, JobType
  <2>2. CASE d # c
    BY <2>2, <1>2 DEF Control, JobOK
  <2> QED BY <2>1, <2>2
<1> QED BY <1>1, <1>3 DEF Control

\* chat and stream_chat make a well-formed job, or none.
LEMMA AdmitTyped ==
  ASSUME Typed, NEW c \in Callers, NEW content \in Contents, NEW p \in Providers,
         NEW max, NEW kind \in {"chat", "stream"}, Admit(c, kind, content, p, max)
  PROVE  Typed'
<1>1. Control'
  <2>1. CASE UNCHANGED JobVars
    BY <2>1 DEF Typed, Control, JobVars, Admit, history, JobOK
  <2>2. CASE ~ UNCHANGED JobVars
    <3> DEFINE j == NewJob(kind, content, Route(p))
               to == IF kind = "chat" THEN "lookup" ELSE "open"
    <3>1. /\ pc' = [pc EXCEPT ![c] = to] /\ job' = [job EXCEPT ![c] = j]
          /\ UNCHANGED <<voices, answers>>
      BY <2>2 DEF Admit, JobVars, history
    <3>2. Route(p) \in Seq(Providers) /\ 1 \in DOMAIN Route(p)
      BY RouteType
    <3>3. /\ j \in JobType /\ j.at = 1 /\ j.route = Route(p) /\ j.attempt = 1
          /\ j.chunks = 0 /\ j.answer = 0
      <4> HIDE DEF to
      <4> QED BY <3>2 DEF NewJob, JobType
    <3>4. to \in Places \ {"idle"}
      BY DEF Places
    <3>5. 1 \in 1 .. MaxAttempts /\ 0 \in 0 .. MaxChunks
      BY Limited
    <3> HIDE DEF j, to
    <3>6. Len(answers) \in Nat /\ answers \in Seq(Providers \X Contents)
      BY DEF Typed, Control
    <3>7. voices' \in [Callers -> SUBSET (Nat \X Nat)] /\ Control
      BY <3>1 DEF Typed, Control
    <3>8. /\ j.at \in DOMAIN j.route /\ j.attempt \in 1 .. MaxAttempts
          /\ j.chunks \in 0 .. MaxChunks /\ j.answer \in 0 .. Len(answers')
          /\ answers' \in Seq(Providers \X Contents)
          /\ Len(answers') >= Len(answers)
      BY <3>1, <3>2, <3>3, <3>5, <3>6
    <3> QED BY <3>1, <3>3, <3>4, <3>7, <3>8, WorkTyped
  <2> QED BY <2>1, <2>2
<1>2. Data'
  BY RuntimeAssumption DEF Typed, Data, Admit, books, history
<1> QED BY <1>1, <1>2 DEF Typed

\* A failed attempt leaves a job at a provider of its route and at an attempt
\* the policy allows.
LEMMA FailsTyped ==
  ASSUME Typed, NEW c \in Callers, NEW f, AttemptFails(c, f)
  PROVE  Typed'
<1>1. pc[c] # "idle" /\ UNCHANGED answers /\ Control
  BY DEF AttemptFails, history, Typed
<1>2. job[c] \in JobType /\ JobOK(c)
  BY <1>1, JobFields DEF Control
<1>3. Control'
  <2>1. CASE Leave(c)
    BY <1>1, <2>1, LeaveTyped
  <2>2. CASE Retry(c, f)
    <3> DEFINE j == [job[c] EXCEPT !.attempt = @ + 1, !.chunks = 0]
    <3>1. /\ job' = [job EXCEPT ![c] = j] /\ UNCHANGED <<pc, voices>>
      BY <2>2, <1>1 DEF Retry, Control
    <3>2. j \in JobType
      <4>1. job[c].attempt + 1 \in Nat
        BY <1>2, JobShape
      <4> QED BY <1>2, <4>1, RetryJob
    <3>3. /\ j.at = job[c].at /\ j.route = job[c].route
          /\ j.attempt = job[c].attempt + 1 /\ j.chunks = 0
          /\ j.answer = job[c].answer
      BY <1>2, JobShape
    <3>7. /\ j.at \in DOMAIN j.route /\ j.attempt \in 1 .. MaxAttempts
          /\ j.chunks \in 0 .. MaxChunks /\ j.answer \in 0 .. Len(answers)
      <4> HIDE DEF j
      <4> QED BY <1>1, <1>2, <2>2, <3>3, Limited DEF Retry, JobOK
    <3>4. pc[c] \in Places \ {"idle"} /\ pc' = [pc EXCEPT ![c] = pc[c]]
      BY <1>1, <3>1 DEF Control
    <3> HIDE DEF j
    <3>5. Len(answers) \in Nat /\ voices' \in [Callers -> SUBSET (Nat \X Nat)]
      BY <1>1, <3>1 DEF Control
    <3>6. answers' \in Seq(Providers \X Contents) /\ Len(answers') >= Len(answers)
      BY <1>1, <3>5 DEF Control
    <3> QED BY <1>1, <3>1, <3>2, <3>7, <3>4, <3>5, <3>6, WorkTyped
  <2>3. CASE FallBack(c, f) /\ ~ Leave(c)
    <3> DEFINE j == [job[c] EXCEPT !.at = @ + 1, !.attempt = 1, !.chunks = 0]
               to == IF job[c].kind = "chat" THEN "lookup" ELSE "calling"
    <3>1. /\ job' = [job EXCEPT ![c] = j] /\ UNCHANGED voices
          /\ pc' = [pc EXCEPT ![c] = to] /\ job[c].at < Len(job[c].route)
      BY <2>3, <1>1 DEF FallBack, Control, MayFallBack
    <3>2. j \in JobType
      <4>1. job[c].at + 1 \in Nat
        BY <1>2, JobShape
      <4> QED BY <1>2, <4>1, FallBackJob
    <3>3. /\ j.at = job[c].at + 1 /\ j.route = job[c].route
          /\ j.attempt = 1 /\ j.chunks = 0 /\ j.answer = job[c].answer
      BY <1>2, JobShape
    <3>7. /\ j.at \in DOMAIN j.route /\ j.attempt \in 1 .. MaxAttempts
          /\ j.chunks \in 0 .. MaxChunks /\ j.answer \in 0 .. Len(answers)
      <4> HIDE DEF j
      <4> QED BY <1>1, <1>2, <3>1, <3>3, Limited DEF JobOK
    <3>4. to \in Places \ {"idle"}
      BY DEF Places
    <3> HIDE DEF j, to
    <3>5. Len(answers) \in Nat /\ voices' \in [Callers -> SUBSET (Nat \X Nat)]
      BY <1>1, <3>1 DEF Control
    <3>6. answers' \in Seq(Providers \X Contents) /\ Len(answers') >= Len(answers)
      BY <1>1, <3>5 DEF Control
    <3> QED BY <1>1, <3>1, <3>2, <3>7, <3>4, <3>5, <3>6, WorkTyped
  <2> QED BY <2>1, <2>2, <2>3 DEF AttemptFails
<1>4. Data'
  BY DEF Typed, Data, AttemptFails, books, history
<1> QED BY <1>3, <1>4 DEF Typed

\* What a caller may add to a ledger.
LEMMA PlusType ==
  ASSUME NEW l \in [Fields -> Nat], NEW u \in Usages \cup {NoUsage}
  PROVE  /\ Plus(l, u) \in [Fields -> Nat]
         /\ \A f \in Fields :
              Plus(l, u)[f] = l[f] + (IF f \in DOMAIN u THEN u[f] ELSE 0)
<1>1. \A f \in DOMAIN u : u[f] \in Nat
  BY RuntimeAssumption DEF NoUsage
<1> QED BY <1>1 DEF Plus

\* A cache key is a provider and a content.
LEMMA KeyType ==
  ASSUME Control, NEW c \in Callers, pc[c] # "idle"
  PROVE  Key(c) \in Providers \X Contents /\ Asking(c) \in Providers
<1>1. JobOK(c)
  BY DEF Control
<1>2. /\ job[c].route \in Seq(Providers) /\ job[c].at \in DOMAIN job[c].route
      /\ job[c].content \in Contents
  BY <1>1 DEF JobOK
<1>3. job[c].route[job[c].at] \in Providers
  BY <1>2, ElementOfSeq
<1> QED BY <1>2, <1>3 DEF Key, Asking

\* A response keeps the types.
LEMMA AnswerTyped ==
  ASSUME Typed, NEW c \in Callers, NEW u \in Usages \cup {NoUsage}, Answer(c, u)
  PROVE  Typed'
<1>1. pc[c] # "idle" /\ Control
  BY DEF Answer, Goto, Typed
<1>2. job[c] \in JobType /\ JobOK(c) /\ Key(c) \in Providers \X Contents
  BY <1>1, JobFields, KeyType DEF Control
<1>3. /\ answers' \in Seq(Providers \X Contents)
      /\ Len(answers') = Len(answers) + 1 /\ Len(answers) \in Nat
  <2>1. answers \in Seq(Providers \X Contents) /\ answers' = Append(answers, Key(c))
    BY <1>1 DEF Answer, Control
  <2> QED BY <2>1, <1>2, AppendProperties, LenProperties
<1>4. Control'
  <2> DEFINE j == [job[c] EXCEPT !.usage = u, !.answer = Len(answers')]
  <2>1. /\ job' = [job EXCEPT ![c] = j] /\ UNCHANGED voices
        /\ pc' = [pc EXCEPT ![c] = "cost"]
    BY <1>1 DEF Answer, Control, Goto
  <2>2. j \in JobType
    <3>1. Len(answers') \in Nat
      BY <1>3
    <3> QED BY <1>2, <3>1, AnswerJob
  <2>3. /\ j.at = job[c].at /\ j.route = job[c].route
        /\ j.attempt = job[c].attempt /\ j.chunks = job[c].chunks
        /\ j.answer = Len(answers')
    BY <1>2, JobShape
  <2> HIDE DEF j
  <2>4. /\ j.at \in DOMAIN j.route /\ j.attempt \in 1 .. MaxAttempts
        /\ j.chunks \in 0 .. MaxChunks /\ j.answer \in 0 .. Len(answers')
        /\ Len(answers') >= Len(answers)
    BY <1>1, <1>2, <1>3, <2>3 DEF JobOK
  <2>5. voices' \in [Callers -> SUBSET (Nat \X Nat)] /\ "cost" \in Places \ {"idle"}
    BY <1>1, <2>1 DEF Control, Places
  <2> QED BY <1>1, <1>3, <2>1, <2>2, <2>4, <2>5, WorkTyped
<1>5. Data'
  <2>1. reported' \in [Fields -> Nat] /\ priced' \in Nat
    <3>1. Plus(reported, u) \in [Fields -> Nat]
      BY PlusType DEF Typed, Data
    <3> QED BY <3>1 DEF Typed, Data, Answer, Counted
  <2>2. refused' \subseteq 0 .. Len(answers')
    BY <1>3 DEF Typed, Data, Answer
  <2> QED BY <2>1, <2>2 DEF Typed, Data, Answer, books
<1> QED BY <1>4, <1>5 DEF Typed

\* A chunk keeps the types.
LEMMA ChunkTyped ==
  ASSUME Typed, NEW c \in Callers, NEW u \in Usages \cup {NoUsage}, Chunk(c, u)
  PROVE  Typed'
<1>1. pc[c] # "idle" /\ Control /\ UNCHANGED answers
  BY DEF Chunk, Goto, Typed, history
<1>2. job[c] \in JobType /\ JobOK(c)
  BY <1>1, JobFields DEF Control
<1>3. job[c].at \in Nat /\ job[c].attempt \in Nat /\ job[c].chunks \in Nat
  BY <1>2, JobShape
<1>4. Control'
  <2> DEFINE j == [job[c] EXCEPT !.chunks = @ + 1, !.usage = u]
  <2>1. /\ job' = [job EXCEPT ![c] = j] /\ pc' = [pc EXCEPT ![c] = "paused"]
        /\ job[c].chunks < MaxChunks
    BY <1>1 DEF Chunk, Control, Goto
  <2>2. j \in JobType
    <3>1. job[c].chunks + 1 \in Nat
      BY <1>3
    <3> QED BY <3>1, <1>2, ChunkJob
  <2>3. /\ j.at = job[c].at /\ j.route = job[c].route
        /\ j.attempt = job[c].attempt /\ j.chunks = job[c].chunks + 1
        /\ j.answer = job[c].answer
    BY <1>2, JobShape
  <2> HIDE DEF j
  <2>4. /\ j.at \in DOMAIN j.route /\ j.attempt \in 1 .. MaxAttempts
        /\ j.chunks \in 0 .. MaxChunks /\ j.answer \in 0 .. Len(answers')
    BY <1>1, <1>2, <1>3, <2>1, <2>3, Limited DEF JobOK
  <2>5. voices' \in [Callers -> SUBSET (Nat \X Nat)]
    BY <1>1, <1>3 DEF Control, Chunk
  <2>6. "paused" \in Places \ {"idle"} /\ Len(answers') >= Len(answers)
        /\ answers' \in Seq(Providers \X Contents)
    BY <1>1 DEF Control, Places
  <2> QED BY <1>1, <2>1, <2>2, <2>4, <2>5, <2>6, WorkTyped
<1>5. Data'
  BY DEF Typed, Data, Chunk, books, history
<1> QED BY <1>4, <1>5 DEF Typed

\* Every step keeps the types.
LEMMA TypedStep ==
  ASSUME Typed, [Next]_vars
  PROVE  Typed'
<1> USE DEF Typed
<1>1. ASSUME NEW c \in Callers, NEW content \in Contents, NEW p \in Providers,
             NEW max, Chat(c, content, p, max) \/ StreamChat(c, content, p, max)
      PROVE  Typed'
  BY <1>1, AdmitTyped DEF Chat, StreamChat
<1>2. ASSUME NEW c \in Callers, CacheHit(c) \/ Abandon(c) PROVE Typed'
  <2>1. Control'
    BY <1>2, LeaveTyped DEF CacheHit, Abandon, history
  <2>2. Data'
    BY <1>2 DEF CacheHit, Abandon, history, books, Data
  <2> QED BY <2>1, <2>2
<1>3. ASSUME NEW c \in Callers, CacheMiss(c) \/ AskNext(c) PROVE Typed'
  <2>1. pc[c] # "idle" /\ pc' = [pc EXCEPT ![c] = "calling"]
    BY <1>3 DEF CacheMiss, AskNext, Goto
  <2>2. Control'
    <3>1. "calling" \in Places \ {"idle"}
      BY DEF Places
    <3> QED BY <1>3, <2>1, <3>1, MoveTyped DEF CacheMiss, AskNext, history
  <2>3. Data'
    BY <1>3 DEF CacheMiss, AskNext, history, books, Data
  <2> QED BY <2>2, <2>3
<1>4. CASE ClearCache
  <2>1. Control'
    BY <1>4 DEF ClearCache, Control, history, JobOK
  <2>2. Data'
    BY <1>4 DEF ClearCache, Data, history, books, Empty
  <2> QED BY <2>1, <2>2
<1>5. ASSUME NEW c \in Callers, StreamEnds(c) PROVE Typed'
  <2>1. pc[c] # "idle" /\ pc' = [pc EXCEPT ![c] = "cost"] /\ Stay
    BY <1>5 DEF StreamEnds, Goto, Stay
  <2>2. Control'
    <3>1. "cost" \in Places \ {"idle"}
      BY DEF Places
    <3> QED BY <1>5, <2>1, <3>1, MoveTyped DEF StreamEnds
  <2>3. job[c].usage \in Usages \cup {NoUsage}
    BY <2>1 DEF Control, JobOK
  <2>4. reported' \in [Fields -> Nat] /\ priced' \in Nat
    <3>1. Plus(reported, job[c].usage) \in [Fields -> Nat]
      BY <2>3, PlusType DEF Data
    <3> QED BY <1>5, <3>1 DEF Data, StreamEnds, Counted
  <2>5. Data'
    BY <1>5, <2>4 DEF StreamEnds, books, Data
  <2> QED BY <2>2, <2>5
<1>6. ASSUME NEW c \in Callers, RecordCost(c) PROVE Typed'
  <2>1. Control'
    <3>1. CASE Leave(c)
      BY <1>6, <3>1, LeaveTyped DEF RecordCost, history
    <3>2. CASE ~ Leave(c)
      <4> DEFINE to == IF HasPrice(c) THEN "price" ELSE "usage"
      <4>1. pc[c] # "idle" /\ pc' = [pc EXCEPT ![c] = to] /\ Stay
        BY <1>6, <3>2 DEF RecordCost
      <4>2. to \in Places \ {"idle"}
        BY DEF Places
      <4> HIDE DEF to
      <4> QED BY <1>6, <4>1, <4>2, MoveTyped DEF RecordCost, history
    <3> QED BY <3>1, <3>2
  <2>2. Data'
    BY <1>6 DEF RecordCost, history, Data
  <2> QED BY <2>1, <2>2
<1>7. ASSUME NEW c \in Callers, WriteCost(c) PROVE Typed'
  <2>1. "usage" \in Places \ {"idle"}
    BY DEF Places
  <2>2. Control'
    BY <1>7, <2>1, MoveTyped DEF WriteCost, Goto, history
  <2>3. Data'
    BY <1>7 DEF WriteCost, history, Data
  <2> QED BY <2>2, <2>3
<1>8. ASSUME NEW c \in Callers, ReadLedger(c) PROVE Typed'
  <2>1. "write" \in Places \ {"idle"}
    BY DEF Places
  <2>2. Control'
    BY <1>8, <2>1, MoveTyped DEF ReadLedger, Goto, history
  <2>3. Data'
    BY <1>8 DEF ReadLedger, history, Data
  <2> QED BY <2>2, <2>3
<1>9. ASSUME NEW c \in Callers, WriteLedger(c) PROVE Typed'
  <2>1. "check" \in Places \ {"idle"}
    BY DEF Places
  <2>2. Control'
    BY <1>9, <2>1, MoveTyped DEF WriteLedger, Goto, history
  <2>3. job[c].usage \in Usages \cup {NoUsage}
    BY <1>9 DEF Control, JobOK, WriteLedger, Goto
  <2>4. ledger' \in [Fields -> Nat]
    BY <1>9, <2>3, PlusType DEF WriteLedger, Data
  <2>5. seen' \in [Callers -> [Fields -> Nat]]
    BY <1>9 DEF WriteLedger, Data, Zero
  <2>6. Data'
    BY <1>9, <2>4, <2>5 DEF WriteLedger, history, Data
  <2> QED BY <2>2, <2>6
<1>10. ASSUME NEW c \in Callers, CheckBudget(c) PROVE Typed'
  <2>1. "store" \in Places \ {"idle"}
    BY DEF Places
  <2>2. Control'
    BY <1>10, <2>1, LeaveTyped, MoveTyped DEF CheckBudget, Goto
  <2>3. job[c].answer \in 0 .. Len(answers)
    BY <1>10 DEF Control, JobOK, CheckBudget
  <2>4. Data'
    BY <1>10, <2>3 DEF CheckBudget, books, Data
  <2> QED BY <2>2, <2>4
<1>11. ASSUME NEW c \in Callers, StoreResponse(c) PROVE Typed'
  <2>1. Control'
    BY <1>11, LeaveTyped DEF StoreResponse, history
  <2>2. pc[c] # "idle" /\ job[c].answer \in Nat
    BY <1>11 DEF StoreResponse, Control, JobOK
  <2>3. DOMAIN cache' \subseteq Providers \X Contents /\ cache' \in [DOMAIN cache' -> Nat]
    <3>1. Key(c) \in Providers \X Contents
      BY <2>2, KeyType
    <3>2. CASE UNCHANGED cache
      BY <3>2 DEF Data
    <3>3. CASE Put(Key(c), job[c].answer)
      BY <2>2, <3>1, <3>3 DEF Put, Data
    <3> QED BY <1>11, <3>2, <3>3 DEF StoreResponse
  <2>4. Data'
    BY <1>11, <2>3 DEF StoreResponse, history, books, Data
  <2> QED BY <2>1, <2>4
<1>12. CASE UNCHANGED vars
  BY <1>12 DEF vars, Control, Data, JobOK
<1> HIDE DEF Typed
<1> QED
  BY <1>1, <1>2, <1>3, <1>4, <1>5, <1>6, <1>7, <1>8, <1>9, <1>10, <1>11, <1>12,
     FailsTyped, AnswerTyped, ChunkTyped
  DEF Next, Ask, Work, Consume

\* The job of an idle caller.
LEMMA NoJobFields ==
  /\ NoJob.kind = "none" /\ NoJob.answer = 0 /\ NoJob.chunks = 0
  /\ NoJob.usage = NoUsage
BY DEF NoJob, NewJob

\* The types hold at the start.
LEMMA TypedInit ==
  ASSUME Init
  PROVE  Typed
<1>1. Control
  <2>1. answers \in Seq(Providers \X Contents) /\ Len(answers) = 0
    BY DEF Init
  <2> QED BY <2>1 DEF Init, Control, Places, JobOK
<1>2. Data
  BY RuntimeAssumption DEF Init, Data, Zero
<1> QED BY <1>1, <1>2 DEF Typed

\* What is in the variables of LLMRuntime has the form the code gives it: a job
\* is at a provider of its route and at an attempt its policy allows.
THEOREM TypeCorrect == Spec => []TypeOK
<1>1. Typed /\ [Next]_vars => Typed'
  BY TypedStep
<1>2. Typed => TypeOK
  BY DEF Typed, Control, Data, Places, TypeOK
<1> QED BY TypedInit, <1>1, <1>2, PTL DEF Spec

-----------------------------------------------------------------------------
(* What a step does to the caller that takes it, and to the others *)

Step(c) == Ask(c) \/ Work(c) \/ Consume(c)

\* What Leave does.
LEMMA Left ==
  ASSUME Control, NEW c \in Callers, Leave(c)
  PROVE  /\ pc'[c] = "idle" /\ job'[c] = NoJob /\ voices'[c] = {}
         /\ \A d \in Callers : d # c => /\ pc'[d] = pc[d] /\ job'[d] = job[d]
                                        /\ voices'[d] = voices[d]
BY DEF Control, Leave

\* What Retry does to the job.
LEMMA Retried ==
  ASSUME Control, NEW c \in Callers, pc[c] # "idle", NEW f, Retry(c, f)
  PROVE  /\ job'[c].kind = job[c].kind /\ job'[c].answer = job[c].answer
         /\ job'[c].usage = job[c].usage /\ job'[c].chunks = 0
         /\ UNCHANGED <<pc, voices>>
         /\ \A d \in Callers : d # c => job'[d] = job[d]
<1>1. job[c] \in JobType
  BY JobFields
<1>2. job'[c] = [job[c] EXCEPT !.attempt = @ + 1, !.chunks = 0]
      /\ \A d \in Callers : d # c => job'[d] = job[d]
  BY DEF Retry, Control
<1>3. UNCHANGED <<pc, voices>>
  BY DEF Retry
<1> QED BY <1>1, <1>2, <1>3, JobShape

\* What FallBack does to the job when there is a provider left.
LEMMA FellBack ==
  ASSUME Control, NEW c \in Callers, pc[c] # "idle", NEW f, FallBack(c, f),
         ~ Leave(c)
  PROVE  /\ job'[c].kind = job[c].kind /\ job'[c].answer = job[c].answer
         /\ job'[c].usage = job[c].usage /\ job'[c].chunks = 0
         /\ pc'[c] = IF job[c].kind = "chat" THEN "lookup" ELSE "calling"
         /\ UNCHANGED voices
         /\ \A d \in Callers : d # c => pc'[d] = pc[d] /\ job'[d] = job[d]
<1>1. job[c] \in JobType
  BY JobFields
<1>2. /\ job'[c] = [job[c] EXCEPT !.at = @ + 1, !.attempt = 1, !.chunks = 0]
      /\ pc'[c] = IF job[c].kind = "chat" THEN "lookup" ELSE "calling"
      /\ UNCHANGED voices
      /\ \A d \in Callers : d # c => pc'[d] = pc[d] /\ job'[d] = job[d]
  BY DEF FallBack, Control
<1> QED BY <1>1, <1>2, JobShape

\* What Answer does to the job.
LEMMA WasAnswered ==
  ASSUME Control, NEW c \in Callers, NEW u, Answer(c, u)
  PROVE  /\ pc[c] = "calling" /\ pc'[c] = "cost"
         /\ job[c].kind = "chat" /\ job'[c].kind = "chat"
         /\ job'[c].at = job[c].at /\ job'[c].route = job[c].route
         /\ job'[c].attempt = job[c].attempt /\ job'[c].chunks = job[c].chunks
         /\ job'[c].content = job[c].content /\ job'[c].usage = u
         /\ job'[c].answer = Len(answers')
         /\ \A d \in Callers : d # c => pc'[d] = pc[d] /\ job'[d] = job[d]
<1>1. job[c] \in JobType
  BY JobFields DEF Answer, Goto
<1>2. /\ job'[c] = [job[c] EXCEPT !.usage = u, !.answer = Len(answers')]
      /\ \A d \in Callers : d # c => pc'[d] = pc[d] /\ job'[d] = job[d]
  BY DEF Answer, Goto, Control
<1> QED BY <1>1, <1>2, JobShape DEF Answer, Goto, Control

\* What Chunk does to the job.
LEMMA GaveChunk ==
  ASSUME Control, NEW c \in Callers, NEW u, Chunk(c, u)
  PROVE  /\ pc[c] = "calling" /\ pc'[c] = "paused"
         /\ job[c].kind = "stream" /\ job'[c].kind = "stream"
         /\ job'[c].at = job[c].at /\ job'[c].attempt = job[c].attempt
         /\ job'[c].chunks = job[c].chunks + 1 /\ job[c].chunks \in Nat
         /\ job'[c].usage = u /\ job'[c].answer = job[c].answer
         /\ voices'[c] = voices[c] \cup {<<job[c].at, job[c].attempt>>}
         /\ \A d \in Callers : d # c => /\ pc'[d] = pc[d] /\ job'[d] = job[d]
                                        /\ voices'[d] = voices[d]
<1>1. job[c] \in JobType
  BY JobFields DEF Chunk, Goto
<1>2. /\ job'[c] = [job[c] EXCEPT !.chunks = @ + 1, !.usage = u]
      /\ \A d \in Callers : d # c => /\ pc'[d] = pc[d] /\ job'[d] = job[d]
                                     /\ voices'[d] = voices[d]
  BY DEF Chunk, Goto, Control
<1> QED BY <1>1, <1>2, JobShape DEF Chunk, Goto, Control

\* What Admit does for a request within the budget.
LEMMA Admitted ==
  ASSUME Control, NEW c \in Callers, NEW kind \in {"chat", "stream"},
         NEW content, NEW p, NEW max, Admit(c, kind, content, p, max),
         ~ UNCHANGED JobVars
  PROVE  /\ pc[c] = "idle" /\ pc'[c] = IF kind = "chat" THEN "lookup" ELSE "open"
         /\ job'[c].kind = kind /\ job'[c].answer = 0 /\ job'[c].chunks = 0
         /\ job'[c].usage = NoUsage
         /\ UNCHANGED voices
         /\ \A d \in Callers : d # c => pc'[d] = pc[d] /\ job'[d] = job[d]
<1>1. /\ job'[c] = NewJob(kind, content, Route(p))
      /\ pc[c] = "idle" /\ pc'[c] = IF kind = "chat" THEN "lookup" ELSE "open"
      /\ UNCHANGED voices
      /\ \A d \in Callers : d # c => pc'[d] = pc[d] /\ job'[d] = job[d]
  BY DEF Admit, JobVars, Control
<1> QED BY <1>1 DEF NewJob

\* What a step does that only moves its caller on.
LEMMA Moved ==
  ASSUME Control, NEW c \in Callers, NEW to, pc' = [pc EXCEPT ![c] = to], Stay
  PROVE  /\ pc'[c] = to /\ UNCHANGED <<job, voices>>
         /\ \A d \in Callers : d # c => pc'[d] = pc[d]
BY DEF Control, Stay

-----------------------------------------------------------------------------
(* Streams *)

KindsOf(c) ==
  /\ pc[c] \in {"lookup", "store"} => job[c].kind = "chat"
  /\ pc[c] \in {"open", "paused"} => job[c].kind = "stream"
  /\ job[c].kind # "chat" => job[c].answer = 0
HeardBy(c) ==
  /\ voices[c] \subseteq {<<job[c].at, job[c].attempt>>}
  /\ job[c].chunks = 0 => voices[c] = {}

\* Every step keeps the requests where their kind may be and a stream heard
\* from its present attempt only.
LEMMA StreamsStep ==
  ASSUME Typed, Kinds, Heard, [Next]_vars
  PROVE  Kinds' /\ Heard'
<1> SUFFICES ASSUME NEW e \in Callers PROVE KindsOf(e)' /\ HeardBy(e)'
  BY DEF Kinds, Heard, KindsOf, HeardBy
<1>0. KindsOf(e) /\ HeardBy(e) /\ Control
  BY DEF Kinds, Heard, KindsOf, HeardBy, Typed
<1> USE DEF KindsOf, HeardBy
<1>1. ASSUME NEW c \in Callers, NEW kind \in {"chat", "stream"}, NEW content,
             NEW p, NEW max, Admit(c, kind, content, p, max)
      PROVE  KindsOf(e)' /\ HeardBy(e)'
  <2>1. CASE UNCHANGED JobVars
    BY <2>1, <1>0 DEF JobVars
  <2>2. CASE ~ UNCHANGED JobVars
    <3>1. CASE e = c
      <4>1. voices[e] = {}
        BY <3>1, <2>2, <1>0, <1>1, Admitted, NoJobFields DEF Control, JobOK
      <4> QED BY <3>1, <4>1, <2>2, <1>0, <1>1, Admitted
    <3>2. CASE e # c
      BY <3>2, <2>2, <1>0, <1>1, Admitted
    <3> QED BY <3>1, <3>2
  <2> QED BY <2>1, <2>2
<1>2. ASSUME NEW c \in Callers, Leave(c) PROVE KindsOf(e)' /\ HeardBy(e)'
  BY <1>0, <1>2, Left, NoJobFields
<1>3. ASSUME NEW c \in Callers, NEW f, AttemptFails(c, f)
      PROVE  KindsOf(e)' /\ HeardBy(e)'
  <2>1. pc[c] = "calling"
    BY <1>3 DEF AttemptFails
  <2>2. CASE Leave(c)
    BY <2>2, <1>2
  <2>3. CASE Retry(c, f) /\ ~ (job[c].chunks > 0)
    <3>1. job[c].chunks = 0
      BY <2>1, <2>3, <1>0, Limited DEF Control, JobOK
    <3>2. voices[c] = {}
      BY <3>1 DEF Heard
    <3> QED BY <2>1, <2>3, <3>2, <1>0, Retried
  <2>4. CASE FallBack(c, f) /\ ~ Leave(c) /\ ~ (job[c].chunks > 0)
    <3>1. job[c].chunks = 0
      BY <2>1, <2>4, <1>0, Limited DEF Control, JobOK
    <3>2. voices[c] = {} /\ job[c].kind \in {"chat", "stream"}
      BY <3>1, <2>1, <1>0 DEF Heard, Control, JobOK
    <3> QED BY <2>1, <2>4, <3>2, <1>0, FellBack
  <2> QED BY <1>3, <2>2, <2>3, <2>4 DEF AttemptFails
<1>4. ASSUME NEW c \in Callers, NEW u, Answer(c, u)
      PROVE  KindsOf(e)' /\ HeardBy(e)'
  <2>1. UNCHANGED voices
    BY <1>4 DEF Answer
  <2>2. /\ pc'[c] = "cost" /\ job'[c].kind = "chat"
        /\ job'[c].at = job[c].at /\ job'[c].attempt = job[c].attempt
        /\ job'[c].chunks = job[c].chunks
        /\ \A d \in Callers : d # c => pc'[d] = pc[d] /\ job'[d] = job[d]
    BY <1>0, <1>4, WasAnswered
  <2>3. CASE e = c
    BY <2>1, <2>2, <2>3, <1>0
  <2>4. CASE e # c
    BY <2>1, <2>2, <2>4, <1>0
  <2> QED BY <2>3, <2>4
<1>5. ASSUME NEW c \in Callers, NEW u, Chunk(c, u)
      PROVE  KindsOf(e)' /\ HeardBy(e)'
  BY <1>0, <1>5, GaveChunk
<1>6. ASSUME NEW c \in Callers, NEW to, pc' = [pc EXCEPT ![c] = to], Stay,
             to \in {"calling", "cost", "price", "usage", "write", "check"}
      PROVE  KindsOf(e)' /\ HeardBy(e)'
  BY <1>0, <1>6, Moved
<1>7. ASSUME NEW c \in Callers, CheckBudget(c) PROVE KindsOf(e)' /\ HeardBy(e)'
  <2>1. CASE pc' = [pc EXCEPT ![c] = "store"] /\ Stay /\ job[c].kind = "chat"
    BY <1>0, <2>1, Moved
  <2> QED BY <1>2, <1>7, <2>1 DEF CheckBudget, Goto
<1>8. CASE UNCHANGED JobVars
  BY <1>0, <1>8 DEF JobVars
<1> HIDE DEF KindsOf, HeardBy
<1>9. ASSUME NEW c \in Callers, Step(c) PROVE KindsOf(e)' /\ HeardBy(e)'
  <2>1. CASE Ask(c)
    BY <2>1, <1>1 DEF Ask, Chat, StreamChat
  <2>2. CASE CacheHit(c) \/ Abandon(c) \/ StoreResponse(c)
    BY <2>2, <1>2 DEF CacheHit, Abandon, StoreResponse
  <2>3. CASE CacheMiss(c) \/ AskNext(c)
    BY <2>3, <1>6 DEF CacheMiss, AskNext, Goto
  <2>4. CASE StreamEnds(c)
    BY <2>4, <1>6 DEF StreamEnds, Goto, Stay
  <2>5. CASE RecordCost(c)
    BY <2>5, <1>2, <1>6 DEF RecordCost
  <2>6. CASE WriteCost(c) \/ ReadLedger(c) \/ WriteLedger(c)
    BY <2>6, <1>6 DEF WriteCost, ReadLedger, WriteLedger, Goto
  <2> QED BY <1>9, <2>1, <2>2, <2>3, <2>4, <2>5, <2>6, <1>3, <1>4, <1>5, <1>7
          DEF Step, Work, Consume
<1>10. ClearCache \/ UNCHANGED vars => UNCHANGED JobVars
  BY DEF ClearCache, vars, JobVars
<1> QED BY <1>8, <1>9, <1>10 DEF Next, Step

\* All the chunks of a stream come from one attempt on one provider: after the
\* first the stream is neither retried nor handed to a fallback.
THEOREM StreamsOfOneVoice == Spec => []OneVoice
<1> DEFINE Inv == Typed /\ Kinds /\ Heard
<1>1. Init => Inv
  <2>1. Init => Kinds /\ Heard
    BY NoJobFields DEF Init, Kinds, Heard
  <2> QED BY <2>1, TypedInit
<1>2. Inv /\ [Next]_vars => Inv'
  BY TypedStep, StreamsStep
<1>3. Inv => OneVoice
  <2> SUFFICES ASSUME Heard, NEW c \in Callers PROVE Cardinality(voices[c]) <= 1
    BY DEF OneVoice
  <2>1. voices[c] = {} \/ voices[c] = {<<job[c].at, job[c].attempt>>}
    BY DEF Heard
  <2>2. Cardinality(voices[c]) = 0 \/ Cardinality(voices[c]) = 1
    BY <2>1, FS_EmptySet, FS_Singleton
  <2> QED BY <2>2
<1> QED BY <1>1, <1>2, <1>3, PTL DEF Spec

-----------------------------------------------------------------------------
(* The cache *)

KeepsAnswer(e) ==
  Owns(e)' => Owns(e) /\ job'[e].answer = job[e].answer /\ Key(e)' = Key(e)

\* A step that answers nobody, refuses nothing and leaves the cache alone.
LEMMA OwnedKept ==
  ASSUME Owned, Cached, UNCHANGED <<answers, cache, refused>>,
         \A e \in Callers : KeepsAnswer(e)
  PROVE  Owned' /\ Cached'
<1>1. Cached'
  BY DEF Cached
<1>2. ASSUME NEW e \in Callers, Owns(e)'
      PROVE  /\ Owns(e) /\ job'[e].answer = job[e].answer
             /\ job'[e].answer \in 1 .. Len(answers')
             /\ answers'[job'[e].answer] = Key(e)'
             /\ job'[e].answer \notin refused'
             /\ \A k \in DOMAIN cache' : cache'[k] # job'[e].answer
  BY <1>2 DEF Owned, KeepsAnswer
<1>3. ASSUME NEW e \in Callers, NEW d \in Callers, Owns(e)', Owns(d)', e # d
      PROVE  job'[e].answer # job'[d].answer
  BY <1>2, <1>3 DEF Owned
<1>4. Owned'
  BY <1>2, <1>3 DEF Owned
<1> QED BY <1>1, <1>4

\* A caller that a step does not touch keeps its answer.
LEMMA OthersKeep ==
  ASSUME NEW e, pc'[e] = pc[e], job'[e] = job[e]
  PROVE  KeepsAnswer(e)
BY DEF KeepsAnswer, Owns, Key

\* A new response is owned by nobody else, is not cached and not refused.
LEMMA OwnedAnswer ==
  ASSUME Typed, Owned, Cached, NEW c \in Callers, NEW u, Answer(c, u)
  PROVE  Owned' /\ Cached'
<1> DEFINE n == Len(answers)
<1>1. /\ n \in Nat /\ answers \in Seq(Providers \X Contents)
      /\ refused \subseteq 0 .. n
  BY DEF Typed, Control, Data
<1>2. /\ pc[c] = "calling" /\ pc'[c] = "cost"
      /\ job[c].kind = "chat" /\ job'[c].kind = "chat"
      /\ job'[c].answer = Len(answers') /\ Key(c)' = Key(c)
      /\ \A d \in Callers : d # c => pc'[d] = pc[d] /\ job'[d] = job[d]
  BY WasAnswered DEF Typed, Key
<1>3. Key(c) \in Providers \X Contents
  BY <1>2, KeyType DEF Typed
<1>4. /\ Len(answers') = n + 1 /\ answers'[n + 1] = Key(c)
      /\ \A i \in 1 .. n : answers'[i] = answers[i]
  <2>1. answers' = Append(answers, Key(c))
    BY DEF Answer
  <2> QED BY <1>1, <1>3, <2>1, AppendProperties
<1>5. UNCHANGED <<cache, refused>>
  BY DEF Answer
<1> HIDE DEF n
<1>6. Cached'
  BY <1>1, <1>4, <1>5 DEF Cached, n
<1>7. ASSUME NEW e \in Callers, e # c, Owns(e)'
      PROVE  /\ Owns(e) /\ job'[e].answer = job[e].answer
             /\ job'[e].answer \in 1 .. n
             /\ answers'[job'[e].answer] = Key(e)'
             /\ job'[e].answer \notin refused'
             /\ \A k \in DOMAIN cache' : cache'[k] # job'[e].answer
  <2>1. Owns(e) /\ job'[e] = job[e] /\ Key(e)' = Key(e)
    BY <1>2, <1>7 DEF Owns, Key
  <2> QED BY <2>1, <1>4, <1>5 DEF Owned, n
<1>8. /\ job'[c].answer = n + 1 /\ answers'[job'[c].answer] = Key(c)'
      /\ job'[c].answer \notin refused'
      /\ \A k \in DOMAIN cache' : cache'[k] # job'[c].answer
  BY <1>1, <1>2, <1>4, <1>5 DEF Cached, n
<1>9. ASSUME NEW e \in Callers, Owns(e)'
      PROVE  /\ job'[e].answer \in 1 .. Len(answers')
             /\ answers'[job'[e].answer] = Key(e)'
             /\ job'[e].answer \notin refused'
             /\ \A k \in DOMAIN cache' : cache'[k] # job'[e].answer
  <2>1. CASE e = c
    BY <2>1, <1>1, <1>4, <1>8
  <2>2. CASE e # c
    BY <2>2, <1>1, <1>4, <1>7, <1>9
  <2> QED BY <2>1, <2>2
<1>10. ASSUME NEW e \in Callers, NEW d \in Callers, Owns(e)', Owns(d)', e # d
       PROVE  job'[e].answer # job'[d].answer
  <2>1. CASE e # c /\ d # c
    BY <2>1, <1>7, <1>10 DEF Owned
  <2>2. CASE e = c \/ d = c
    BY <2>2, <1>1, <1>7, <1>8, <1>10
  <2> QED BY <2>1, <2>2
<1>11. Owned'
  BY <1>9, <1>10 DEF Owned
<1> QED BY <1>6, <1>11

\* The caller leaves, its answer goes to the cache or is refused.
LEMMA OwnedGivenUp ==
  ASSUME Typed, Kinds, Owned, Cached, NEW c \in Callers, pc[c] \in {"check", "store"},
         Leave(c), UNCHANGED answers,
         \/ UNCHANGED cache /\ refused' = refused \cup {job[c].answer}
         \/ /\ pc[c] = "store" /\ Put(Key(c), job[c].answer)
            /\ UNCHANGED refused
  PROVE  Owned' /\ Cached'
<1>1. /\ pc'[c] = "idle"
      /\ \A d \in Callers : d # c => pc'[d] = pc[d] /\ job'[d] = job[d]
  BY Left DEF Typed
<1>2. ASSUME NEW e \in Callers, Owns(e)'
      PROVE  e # c /\ Owns(e) /\ job'[e] = job[e] /\ Key(e)' = Key(e)
  BY <1>1, <1>2 DEF Owns, Key, Answered
<1>3. job[c].kind = "chat" => Owns(c)
  BY DEF Owns, Answered
<1>4. job[c].kind # "chat" => job[c].answer = 0
  BY DEF Kinds
<1>5. ASSUME NEW e \in Callers, Owns(e)'
      PROVE  job[e].answer # job[c].answer
  <2>1. CASE Owns(c)
    BY <2>1, <1>2, <1>5 DEF Owned
  <2>2. CASE job[c].answer = 0
    BY <2>2, <1>2, <1>5 DEF Owned
  <2> QED BY <2>1, <2>2, <1>3, <1>4
<1>6. \A k \in DOMAIN cache : cache[k] # job[c].answer
  <2>1. CASE Owns(c)
    BY <2>1 DEF Owned
  <2>2. CASE job[c].answer = 0
    BY <2>2 DEF Cached
  <2> QED BY <2>1, <2>2, <1>3, <1>4
<1>7. CASE UNCHANGED cache /\ refused' = refused \cup {job[c].answer}
  <2>1. Cached'
    BY <1>6, <1>7 DEF Cached
  <2>2. ASSUME NEW e \in Callers, Owns(e)'
        PROVE  /\ job'[e].answer \in 1 .. Len(answers')
               /\ answers'[job'[e].answer] = Key(e)'
               /\ job'[e].answer \notin refused'
               /\ \A k \in DOMAIN cache' : cache'[k] # job'[e].answer
    BY <1>2, <1>5, <1>7, <2>2 DEF Owned
  <2>3. \A e, d \in Callers : Owns(e)' /\ Owns(d)' /\ e # d =>
          job'[e].answer # job'[d].answer
    BY <1>2 DEF Owned
  <2> QED BY <2>1, <2>2, <2>3 DEF Owned
<1>8. CASE /\ pc[c] = "store" /\ Put(Key(c), job[c].answer) /\ UNCHANGED refused
  <2>1. Owns(c)
    BY <1>8, <1>3 DEF Kinds
  <2>2. /\ DOMAIN cache' = DOMAIN cache \cup {Key(c)}
        /\ \A k \in DOMAIN cache' :
             cache'[k] = IF k = Key(c) THEN job[c].answer ELSE cache[k]
    BY <1>8 DEF Put
  <2>3. Cached'
    BY <1>8, <2>1, <2>2 DEF Cached, Owned
  <2>4. ASSUME NEW e \in Callers, Owns(e)'
        PROVE  /\ job'[e].answer \in 1 .. Len(answers')
               /\ answers'[job'[e].answer] = Key(e)'
               /\ job'[e].answer \notin refused'
               /\ \A k \in DOMAIN cache' : cache'[k] # job'[e].answer
    <3>1. Owns(e) /\ job'[e] = job[e] /\ Key(e)' = Key(e)
          /\ job[e].answer # job[c].answer
      BY <1>2, <1>5, <2>4
    <3> QED BY <3>1, <1>8, <2>2 DEF Owned
  <2>5. \A e, d \in Callers : Owns(e)' /\ Owns(d)' /\ e # d =>
          job'[e].answer # job'[d].answer
    BY <1>2 DEF Owned
  <2> QED BY <2>3, <2>4, <2>5 DEF Owned
<1> QED BY <1>7, <1>8

\* Every step keeps answers with one owner, and the cache sound.
LEMMA CacheStep ==
  ASSUME Typed, Kinds, Owned, Cached, [Next]_vars
  PROVE  Owned' /\ Cached'
<1> DEFINE Same == UNCHANGED <<answers, cache, refused>>
<1>1. ASSUME NEW c \in Callers, Ask(c) PROVE Owned' /\ Cached'
  <2>1. PICK kind \in {"chat", "stream"}, content \in Contents, p \in Providers,
             max \in Asked : Admit(c, kind, content, p, max)
    BY <1>1 DEF Ask, Chat, StreamChat
  <2>2. Same
    BY <2>1 DEF Admit, history
  <2>3. CASE UNCHANGED JobVars
    BY <2>2, <2>3, OthersKeep, OwnedKept DEF JobVars
  <2>4. CASE ~ UNCHANGED JobVars
    <3>1. pc'[c] \in {"lookup", "open"}
          /\ \A d \in Callers : d # c => pc'[d] = pc[d] /\ job'[d] = job[d]
      BY <2>1, <2>4, Admitted DEF Typed
    <3>2. ASSUME NEW e \in Callers PROVE KeepsAnswer(e)
      <4>1. CASE e = c
        BY <3>1, <4>1 DEF KeepsAnswer, Owns, Answered
      <4> QED BY <4>1, <3>1, OthersKeep
    <3> QED BY <2>2, <3>2, OwnedKept
  <2> QED BY <2>3, <2>4
<1>2. ASSUME NEW c \in Callers, Leave(c), Same PROVE Owned' /\ Cached'
  <2>1. ASSUME NEW e \in Callers PROVE KeepsAnswer(e)
    <3>1. CASE e = c
      BY <1>2, <3>1, Left DEF Typed, KeepsAnswer, Owns, Answered
    <3> QED BY <1>2, <3>1, Left, OthersKeep DEF Typed
  <2> QED BY <1>2, <2>1, OwnedKept
<1>3. ASSUME NEW c \in Callers, NEW f, AttemptFails(c, f) PROVE Owned' /\ Cached'
  <2>1. pc[c] = "calling" /\ Same
    BY <1>3 DEF AttemptFails, history
  <2>2. CASE Leave(c)
    BY <2>1, <2>2, <1>2
  <2>3. CASE ~ Leave(c)
    <3>1. Retry(c, f) \/ FallBack(c, f)
      BY <1>3, <2>3 DEF AttemptFails
    <3>2. pc'[c] \in {"lookup", "calling"}
          /\ \A d \in Callers : d # c => pc'[d] = pc[d] /\ job'[d] = job[d]
      BY <3>1, <2>1, <2>3, Retried, FellBack DEF Typed
    <3>3. ASSUME NEW e \in Callers PROVE KeepsAnswer(e)
      <4>1. CASE e = c
        BY <3>2, <4>1 DEF KeepsAnswer, Owns, Answered
      <4> QED BY <4>1, <3>2, OthersKeep
    <3> QED BY <2>1, <3>3, OwnedKept
  <2> QED BY <2>2, <2>3
<1>4. ASSUME NEW c \in Callers, NEW u, Chunk(c, u) PROVE Owned' /\ Cached'
  <2>1. Same
    BY <1>4 DEF Chunk, history
  <2>2. ASSUME NEW e \in Callers PROVE KeepsAnswer(e)
    <3>1. CASE e = c
      BY <1>4, <3>1, GaveChunk DEF Typed, KeepsAnswer, Owns, Answered
    <3> QED BY <1>4, <3>1, GaveChunk, OthersKeep DEF Typed
  <2> QED BY <2>1, <2>2, OwnedKept
<1>5. ASSUME NEW c \in Callers, NEW to, pc' = [pc EXCEPT ![c] = to], Stay, Same,
             \/ to \notin Answered
             \/ pc[c] \in Answered
             \/ job[c].kind = "stream"
      PROVE  Owned' /\ Cached'
  <2>1. ASSUME NEW e \in Callers PROVE KeepsAnswer(e)
    <3>1. CASE e = c
      BY <1>5, <3>1, Moved DEF Typed, KeepsAnswer, Owns, Key
    <3> QED BY <1>5, <3>1, Moved, OthersKeep DEF Typed
  <2> QED BY <1>5, <2>1, OwnedKept
<1>6. ASSUME NEW c \in Callers, CheckBudget(c) PROVE Owned' /\ Cached'
  <2>1. pc[c] = "check" /\ UNCHANGED <<answers, cache>>
    BY <1>6 DEF CheckBudget, books
  <2>2. CASE Leave(c) /\ refused' = refused \cup {job[c].answer}
    BY <2>1, <2>2, OwnedGivenUp
  <2>3. CASE UNCHANGED refused /\ Leave(c)
    BY <2>1, <2>3, <1>2
  <2>4. CASE UNCHANGED refused /\ pc' = [pc EXCEPT ![c] = "store"] /\ Stay
    BY <2>1, <2>4, <1>5 DEF Answered
  <2> QED BY <1>6, <2>2, <2>3, <2>4 DEF CheckBudget, Goto
<1>7. ASSUME NEW c \in Callers, StoreResponse(c) PROVE Owned' /\ Cached'
  <2>1. pc[c] = "store" /\ Leave(c) /\ UNCHANGED <<answers, refused>>
    BY <1>7 DEF StoreResponse, history
  <2>2. CASE UNCHANGED cache
    BY <2>1, <2>2, <1>2
  <2>3. CASE Put(Key(c), job[c].answer)
    BY <2>1, <2>3, OwnedGivenUp
  <2> QED BY <1>7, <2>2, <2>3 DEF StoreResponse
<1>8. CASE ClearCache
  <2>1. /\ UNCHANGED <<pc, job, answers, refused>> /\ DOMAIN cache' = {}
    BY <1>8 DEF ClearCache, Empty, history
  <2> QED BY <2>1 DEF Owned, Cached, Owns, Key
<1>9. CASE UNCHANGED vars
  <2>1. \A e \in Callers : KeepsAnswer(e)
    BY <1>9, OthersKeep DEF vars
  <2>2. Same
    BY <1>9 DEF vars
  <2> QED BY <2>1, <2>2, OwnedKept
<1>10. ASSUME NEW c \in Callers, CacheHit(c) \/ Abandon(c) PROVE Owned' /\ Cached'
  BY <1>10, <1>2 DEF CacheHit, Abandon, history
<1>11. ASSUME NEW c \in Callers, CacheMiss(c) \/ AskNext(c) PROVE Owned' /\ Cached'
  <2>1. "calling" \notin Answered
    BY DEF Answered
  <2> QED BY <1>11, <2>1, <1>5 DEF CacheMiss, AskNext, Goto, history
<1>12. ASSUME NEW c \in Callers, StreamEnds(c) PROVE Owned' /\ Cached'
  BY <1>12, <1>5 DEF StreamEnds, Goto, Stay
<1>13. ASSUME NEW c \in Callers, RecordCost(c) PROVE Owned' /\ Cached'
  <2>1. pc[c] \in Answered /\ Same
    BY <1>13 DEF RecordCost, history, Answered
  <2> QED BY <1>13, <2>1, <1>2, <1>5 DEF RecordCost
<1>14. ASSUME NEW c \in Callers, WriteCost(c) \/ ReadLedger(c) \/ WriteLedger(c)
       PROVE  Owned' /\ Cached'
  <2>1. pc[c] \in Answered /\ Same
    BY <1>14 DEF WriteCost, ReadLedger, WriteLedger, Goto, history, Answered
  <2> QED BY <1>14, <2>1, <1>5 DEF WriteCost, ReadLedger, WriteLedger, Goto
<1> QED
  BY <1>1, <1>3, <1>4, <1>6, <1>7, <1>8, <1>9, <1>10, <1>11, <1>12, <1>13, <1>14,
     OwnedAnswer
  DEF Next, Work, Consume

\* The cache has under a key what that very provider answered for that content,
\* and nothing that was refused its caller: no fallback's answer is stored under
\* another provider's key, and a response over the budget is not kept.
THEOREM CacheIsSound == Spec => []CacheSound
<1> DEFINE Inv == Typed /\ Kinds /\ Heard /\ Owned /\ Cached
<1>1. Init => Inv
  <2>1. Init => Kinds /\ Heard /\ Owned /\ Cached
    BY NoJobFields DEF Init, Kinds, Heard, Owned, Cached, Owns, Answered
  <2> QED BY <2>1, TypedInit
<1>2. Inv /\ [Next]_vars => Inv'
  BY TypedStep, StreamsStep, CacheStep
<1>3. Inv => CacheSound
  BY DEF Cached, CacheSound
<1> QED BY <1>1, <1>2, <1>3, PTL DEF Spec

-----------------------------------------------------------------------------
(* The ledgers *)

\* Biggest bounds every report.
LEMMA BiggestIs ==
  ASSUME NEW f
  PROVE  /\ Biggest(f) \in Nat
         /\ \A u \in Usages \cup {NoUsage} : f \in DOMAIN u => u[f] <= Biggest(f)
<1> DEFINE V == {v \in Usages : f \in DOMAIN v}
           g == [u \in V |-> u[f]]
           S == {g[u] : u \in V}
           T == {0} \cup {u[f] : u \in V}
<1>1. \A u \in Usages : \A x \in DOMAIN u : u[x] \in Nat
  BY RuntimeAssumption
<1>2. IsFiniteSet(V)
  BY RuntimeAssumption, FS_Subset
<1>3. IsFiniteSet(S)
  <2>1. V = DOMAIN g
    OBVIOUS
  <2> HIDE DEF V, g
  <2> QED BY <1>2, <2>1, FiniteImage
<1>4. T = S \cup {0}
  OBVIOUS
<1>5. IsFiniteSet(T)
  <2> HIDE DEF S, T
  <2> QED BY <1>3, <1>4, FS_AddElement
<1>6. T \in SUBSET Nat /\ T # {}
  BY <1>1
<1>7. Max(T) \in T /\ \A x \in T : x <= Max(T)
  <2> HIDE DEF T
  <2> QED BY <1>5, <1>6, MaxOfFinite
<1>8. Biggest(f) = Max(T)
  BY DEF Biggest
<1>9. \A u \in Usages \cup {NoUsage} : f \in DOMAIN u => u[f] \in T
  BY DEF NoUsage
<1> HIDE DEF T
<1> QED BY <1>6, <1>7, <1>8, <1>9

Weighed ==
  /\ \A c \in Callers, f \in Fields :
       /\ OwedBy(c, f) \in Nat /\ ClaimBy(c, f) \in Nat /\ Biggest(f) \in Nat
       /\ OwedBy(c, f) <= ClaimBy(c, f) /\ ClaimBy(c, f) <= Biggest(f)
  /\ \A c \in Callers : DueBy(c) \in Nat

\* What a caller owes is at most what it claims, and that is at most the
\* biggest report.
LEMMA Weights == Typed => Weighed
<1> SUFFICES ASSUME Typed PROVE Weighed
  OBVIOUS
<1>1. ASSUME NEW c \in Callers, NEW f \in Fields
      PROVE  OwedBy(c, f) \in Nat /\ OwedBy(c, f) <= Biggest(f)
  <2>1. CASE Charging(c) /\ f \in DOMAIN job[c].usage
    <3>1. job[c].usage \in Usages \cup {NoUsage}
      BY <2>1 DEF Typed, Control, JobOK, Charging
    <3>2. job[c].usage[f] \in Nat
      BY <2>1, <3>1, RuntimeAssumption DEF NoUsage
    <3> QED BY <2>1, <3>1, <3>2, BiggestIs DEF OwedBy
  <2>2. CASE ~ (Charging(c) /\ f \in DOMAIN job[c].usage)
    BY <2>2, BiggestIs DEF OwedBy
  <2> QED BY <2>1, <2>2
<1>2. \A c \in Callers : DueBy(c) \in Nat
  BY DEF DueBy
<1>3. \A f \in Fields : Biggest(f) \in Nat
  BY BiggestIs
<1>4. ASSUME NEW c \in Callers, NEW f \in Fields
      PROVE  /\ ClaimBy(c, f) \in Nat /\ OwedBy(c, f) <= ClaimBy(c, f)
             /\ ClaimBy(c, f) <= Biggest(f)
  BY <1>1, <1>3 DEF ClaimBy, OwedBy, Charging, Waiting
<1> QED BY <1>1, <1>2, <1>3, <1>4 DEF Weighed

\* The same after a step.
LEMMA WeightsNext == Typed' => Weighed'
  BY Weights, PTL

Summed ==
  \A f \in Fields :
    /\ Total(Owed(f)) \in Nat /\ Total(Due) \in Nat
    /\ Total(Claims(f)) \in Nat /\ Total(Most(f)) \in Nat
    /\ Total(Owed(f)) <= Total(Claims(f)) /\ Total(Claims(f)) <= Total(Most(f))

\* The same of the sums over the callers.
LEMMA Totals == Typed => Summed
<1> SUFFICES ASSUME Typed, NEW f \in Fields
             PROVE  /\ Total(Owed(f)) \in Nat /\ Total(Due) \in Nat
                    /\ Total(Claims(f)) \in Nat /\ Total(Most(f)) \in Nat
                    /\ Total(Owed(f)) <= Total(Claims(f))
                    /\ Total(Claims(f)) <= Total(Most(f))
  BY DEF Summed
<1>1. /\ Owed(f) \in [Callers -> Nat] /\ Claims(f) \in [Callers -> Nat]
      /\ Most(f) \in [Callers -> Nat] /\ Due \in [Callers -> Nat]
  BY Weights, BiggestIs DEF Owed, Claims, Most, Due, Weighed
<1>2. /\ \A c \in Callers : Owed(f)[c] <= Claims(f)[c]
      /\ \A c \in Callers : Claims(f)[c] <= Most(f)[c]
  BY Weights DEF Owed, Claims, Most, Weighed
<1>3. IsFiniteSet(Callers)
  BY RuntimeAssumption
<1> QED BY <1>1, <1>2, <1>3, ThingsFinite, TotalMonotone

\* The same after a step.
LEMMA TotalsNext == Typed' => Summed'
  BY Totals, PTL

\* A caller that a step does not touch owes and claims what it did.
LEMMA Unchanged ==
  ASSUME NEW c, pc'[c] = pc[c], job'[c] = job[c]
  PROVE  DueBy(c)' = DueBy(c) /\ \A f : OwedBy(c, f)' = OwedBy(c, f)
                              /\ ClaimBy(c, f)' = ClaimBy(c, f)
BY DEF DueBy, OwedBy, ClaimBy, Charging, HasPrice, Asking

\* Only what the caller that takes the step owes changes.
LEMMA OneChanges ==
  ASSUME Typed, Typed', NEW c \in Callers, NEW f \in Fields,
         \A d \in Callers : d # c => pc'[d] = pc[d] /\ job'[d] = job[d]
  PROVE  /\ Total(Owed(f))' + OwedBy(c, f) = Total(Owed(f)) + OwedBy(c, f)'
         /\ Total(Claims(f))' + ClaimBy(c, f) = Total(Claims(f)) + ClaimBy(c, f)'
         /\ Total(Due)' + DueBy(c) = Total(Due) + DueBy(c)'
<1>1. /\ Owed(f) \in [Callers -> Nat] /\ Claims(f) \in [Callers -> Nat]
      /\ Due \in [Callers -> Nat]
  BY Weights DEF Owed, Claims, Due, Weighed
<1>2. /\ Owed(f)' \in [Callers -> Nat] /\ Claims(f)' \in [Callers -> Nat]
      /\ Due' \in [Callers -> Nat]
  <2>1. /\ \A e \in Callers : OwedBy(e, f)' \in Nat /\ ClaimBy(e, f)' \in Nat
                              /\ DueBy(e)' \in Nat
    BY WeightsNext DEF Weighed
  <2> QED BY <2>1 DEF Owed, Claims, Due
<1>3. ASSUME NEW d \in Callers, d # c
      PROVE  /\ Owed(f)'[d] = Owed(f)[d] /\ Claims(f)'[d] = Claims(f)[d]
             /\ Due'[d] = Due[d]
  BY <1>3, Unchanged DEF Owed, Claims, Due
<1>4. /\ Owed(f)[c] = OwedBy(c, f) /\ Owed(f)'[c] = OwedBy(c, f)'
      /\ Claims(f)[c] = ClaimBy(c, f) /\ Claims(f)'[c] = ClaimBy(c, f)'
      /\ Due[c] = DueBy(c) /\ Due'[c] = DueBy(c)'
  BY DEF Owed, Claims, Due
<1>5. IsFiniteSet(Callers)
  BY RuntimeAssumption
<1>6. Total(Owed(f)') + Owed(f)[c] = Total(Owed(f)) + Owed(f)'[c]
  BY <1>1, <1>2, <1>3, <1>5, TotalChange
<1>7. Total(Claims(f)') + Claims(f)[c] = Total(Claims(f)) + Claims(f)'[c]
  BY <1>1, <1>2, <1>3, <1>5, TotalChange
<1>8. Total(Due') + Due[c] = Total(Due) + Due'[c]
  BY <1>1, <1>2, <1>3, <1>5, TotalChange
<1> QED BY <1>4, <1>6, <1>7, <1>8

Books == Usage /\ Cost /\ Claimed

\* A step after which its caller owes what it owed before, and claims no more.
LEMMA QuietStep ==
  ASSUME Typed, Typed', Books, NEW c \in Callers,
         \A d \in Callers : d # c =>
           /\ pc'[d] = pc[d] /\ job'[d] = job[d]
           /\ seen'[d] = seen[d] /\ seen_costs'[d] = seen_costs[d],
         UNCHANGED <<ledger, reported, costs, priced, lost>>,
         \A f \in Fields : OwedBy(c, f)' = OwedBy(c, f)
                           /\ ClaimBy(c, f)' <= ClaimBy(c, f),
         DueBy(c)' = DueBy(c),
         pc'[c] = "write" => seen'[c] = ledger,
         pc'[c] = "price" => seen_costs'[c] = costs
  PROVE  Books'
<1>1. \A f \in Fields :
        /\ OwedBy(c, f) \in Nat /\ ClaimBy(c, f) \in Nat /\ ClaimBy(c, f)' \in Nat
        /\ Total(Owed(f)) \in Nat /\ Total(Owed(f))' \in Nat
        /\ Total(Claims(f)) \in Nat /\ Total(Claims(f))' \in Nat
        /\ Total(Owed(f))' + OwedBy(c, f) = Total(Owed(f)) + OwedBy(c, f)'
        /\ Total(Claims(f))' + ClaimBy(c, f) = Total(Claims(f)) + ClaimBy(c, f)'
  BY Weights, WeightsNext, Totals, TotalsNext, OneChanges DEF Weighed, Summed
<1>2. \A f \in Fields : /\ Total(Owed(f))' = Total(Owed(f))
                        /\ Total(Claims(f))' <= Total(Claims(f))
  BY <1>1
<1>3. Total(Due)' = Total(Due)
  <2>1. "total" \in Fields
    BY DEF Fields
  <2>2. /\ Total(Due)' + DueBy(c) = Total(Due) + DueBy(c)'
        /\ Total(Due) \in Nat /\ Total(Due)' \in Nat /\ DueBy(c) \in Nat
    BY <2>1, Weights, Totals, TotalsNext, OneChanges DEF Weighed, Summed
  <2> QED BY <2>2
<1>4. Usage'
  <2>1. ASSUME NEW f \in Fields
        PROVE  /\ ledger'[f] + Total(Owed(f))' <= reported'[f]
               /\ "ledger" \notin lost' =>
                    ledger'[f] + Total(Owed(f))' = reported'[f]
    BY <1>2 DEF Books, Usage
  <2>2. ASSUME NEW e \in Callers, NEW f \in Fields, pc'[e] = "write"
        PROVE  seen'[e][f] + Total(Owed(f))' <= reported'[f]
    <3>1. CASE e = c
      BY <1>2, <2>2, <3>1 DEF Books, Usage
    <3>2. CASE e # c
      BY <1>2, <2>2, <3>2 DEF Books, Usage
    <3> QED BY <3>1, <3>2
  <2> QED BY <2>1, <2>2 DEF Usage
<1>5. Cost'
  <2>1. ASSUME NEW e \in Callers, pc'[e] = "price"
        PROVE  seen_costs'[e] + Total(Due)' <= priced'
    BY <1>3, <2>1 DEF Books, Cost
  <2> QED BY <1>3, <2>1 DEF Books, Cost
<1>6. Claimed'
  <2> SUFFICES ASSUME Strict, "ledger" \notin lost, NEW f \in DOMAIN Limits
               PROVE  ledger[f] + Total(Claims(f))' <= Limits[f] + Total(Most(f))'
    BY DEF Claimed
  <2>1. /\ f \in Fields /\ Limits[f] \in Nat /\ ledger[f] \in Nat
    BY RuntimeAssumption DEF ValidBudget, Typed, Data
  <2>2. Most(f)' = Most(f)
    BY DEF Most
  <2>3. ledger[f] + Total(Claims(f)) <= Limits[f] + Total(Most(f))
        /\ Total(Most(f)) \in Nat
    BY <2>1, Totals DEF Books, Claimed, Summed
  <2> QED BY <1>1, <1>2, <2>1, <2>2, <2>3
<1> QED BY <1>4, <1>5, <1>6 DEF Books

\* A request is admitted only while the ledger is within every limit, and no
\* caller claims more than the biggest report.
LEMMA AdmitBooks ==
  ASSUME Typed, Typed', Books, NEW c \in Callers, NEW kind \in {"chat", "stream"},
         NEW content, NEW p, NEW max, Admit(c, kind, content, p, max)
  PROVE  Books'
<1>1. UNCHANGED <<ledger, reported, costs, priced, lost, seen, seen_costs>>
  BY DEF Admit, books, history
<1>2. CASE UNCHANGED JobVars
  <2>1. \A e \in Callers : pc'[e] = pc[e] /\ job'[e] = job[e]
    BY <1>2 DEF JobVars
  <2>2. \A f : Owed(f)' = Owed(f) /\ Claims(f)' = Claims(f)
    BY <2>1, Unchanged DEF Owed, Claims
  <2>3. Due' = Due
    BY <2>1, Unchanged DEF Due
  <2> QED BY <1>1, <2>1, <2>2, <2>3 DEF Books, Usage, Cost, Claimed, Most
<1>3. CASE ~ UNCHANGED JobVars
  <2>1. /\ pc[c] = "idle" /\ pc'[c] \in {"lookup", "open"}
        /\ \A d \in Callers : d # c => pc'[d] = pc[d] /\ job'[d] = job[d]
    BY <1>3, Admitted DEF Typed
  <2>2. ~ (Strict /\ ExceededWith(ledger, max) # {})
    BY <1>3 DEF Admit, JobVars
  <2>3. /\ \A f \in Fields : OwedBy(c, f)' = 0 /\ OwedBy(c, f) = 0
        /\ DueBy(c)' = 0 /\ DueBy(c) = 0
    BY <2>1 DEF OwedBy, DueBy, Charging
  <2>4. \A f \in Fields : Total(Owed(f))' = Total(Owed(f))
    <3>1. \A f \in Fields :
            /\ Total(Owed(f)) \in Nat /\ Total(Owed(f))' \in Nat
            /\ Total(Owed(f))' + OwedBy(c, f) = Total(Owed(f)) + OwedBy(c, f)'
      BY <2>1, Totals, TotalsNext, OneChanges DEF Summed
    <3> QED BY <3>1, <2>3
  <2>5. Total(Due)' = Total(Due)
    <3>1. "total" \in Fields
      BY DEF Fields
    <3>2. /\ Total(Due)' + DueBy(c) = Total(Due) + DueBy(c)'
          /\ Total(Due) \in Nat /\ Total(Due)' \in Nat
      BY <3>1, <2>1, Totals, TotalsNext, OneChanges DEF Summed
    <3> QED BY <3>2, <2>3
  <2>6. Usage'
    <3>1. \A e \in Callers : pc'[e] = "write" => pc[e] = "write"
      BY <2>1
    <3> QED BY <1>1, <2>4, <3>1 DEF Books, Usage
  <2>7. Cost'
    <3>1. \A e \in Callers : pc'[e] = "price" => pc[e] = "price"
      BY <2>1
    <3> QED BY <1>1, <2>5, <3>1 DEF Books, Cost
  <2>8. Claimed'
    <3> SUFFICES ASSUME Strict, NEW f \in DOMAIN Limits
                 PROVE  ledger'[f] + Total(Claims(f))' <= Limits[f] + Total(Most(f))'
      BY DEF Claimed
    <3>1. /\ f \in Fields /\ Limits[f] \in Nat /\ ledger[f] \in Nat
      BY RuntimeAssumption DEF ValidBudget, Typed, Data
    <3>2. ~ (ledger[f] > Limits[f])
      BY <2>2 DEF ExceededWith, Exceeded
    <3>3. /\ Total(Claims(f))' \in Nat /\ Total(Most(f))' \in Nat
          /\ Total(Claims(f))' <= Total(Most(f))'
      BY <3>1, TotalsNext DEF Summed
    <3> QED BY <1>1, <3>1, <3>2, <3>3
  <2> QED BY <2>6, <2>7, <2>8 DEF Books
<1> QED BY <1>2, <1>3

\* A response, or the end of a stream: its caller owes what it reports.
LEMMA CountedBooks ==
  ASSUME Typed, Typed', Books, NEW c \in Callers, NEW u \in Usages \cup {NoUsage},
         pc[c] = "calling", pc'[c] = "cost", job'[c].usage = u,
         Asking(c)' = Asking(c), Counted(c, u),
         \A d \in Callers : d # c => pc'[d] = pc[d] /\ job'[d] = job[d],
         UNCHANGED <<ledger, costs, seen, seen_costs, lost>>
  PROVE  Books'
<1> DEFINE n(f) == IF f \in DOMAIN u THEN u[f] ELSE 0
           m == IF Asking(c) \in Priced /\ {"prompt", "completion"} \subseteq DOMAIN u
                THEN 1 ELSE 0
<1>1. /\ \A f \in Fields : OwedBy(c, f) = 0 /\ OwedBy(c, f)' = n(f)
      /\ DueBy(c) = 0 /\ DueBy(c)' = m
      /\ \A f \in Fields : ClaimBy(c, f) = Biggest(f)
                           /\ ClaimBy(c, f)' <= Biggest(f)
  <2>1. \A f \in Fields : OwedBy(c, f) = 0 /\ OwedBy(c, f)' = n(f)
    BY DEF OwedBy, Charging
  <2>2. DueBy(c) = 0 /\ DueBy(c)' = m
    BY DEF DueBy, HasPrice
  <2>3. \A f \in Fields : Biggest(f)' = Biggest(f)
    BY DEF Biggest
  <2>4. \A f \in Fields : ClaimBy(c, f) = Biggest(f)
                          /\ ClaimBy(c, f)' <= Biggest(f)
    BY <2>3, WeightsNext DEF ClaimBy, Waiting, Weighed
  <2> QED BY <2>1, <2>2, <2>4
<1>2. /\ \A f \in Fields : reported'[f] = reported[f] + n(f)
      /\ priced' = priced + m /\ m \in Nat
  <2>1. \A f \in Fields : Plus(reported, u)[f] = reported[f] + n(f)
    <3>1. reported \in [Fields -> Nat]
      BY DEF Typed, Data
    <3> QED BY <3>1, PlusType
  <2> QED BY <2>1 DEF Counted
<1>3. \A f \in Fields : n(f) \in Nat /\ reported[f] \in Nat /\ ledger[f] \in Nat
  BY <1>1, WeightsNext DEF Weighed, Typed, Data
<1> HIDE DEF n, m
<1>4. \A f \in Fields :
        /\ Total(Owed(f)) \in Nat /\ Total(Owed(f))' \in Nat
        /\ Total(Claims(f)) \in Nat /\ Total(Claims(f))' \in Nat
        /\ Biggest(f) \in Nat /\ ClaimBy(c, f)' \in Nat
        /\ Total(Owed(f))' + OwedBy(c, f) = Total(Owed(f)) + OwedBy(c, f)'
        /\ Total(Claims(f))' + ClaimBy(c, f) = Total(Claims(f)) + ClaimBy(c, f)'
  BY Weights, WeightsNext, Totals, TotalsNext, OneChanges DEF Weighed, Summed
<1>5. \A f \in Fields : /\ Total(Owed(f))' = Total(Owed(f)) + n(f)
                        /\ Total(Claims(f))' <= Total(Claims(f))
  BY <1>1, <1>3, <1>4
<1>6. Total(Due)' = Total(Due) + m /\ Total(Due) \in Nat
  <2>1. "total" \in Fields
    BY DEF Fields
  <2>2. /\ Total(Due)' + DueBy(c) = Total(Due) + DueBy(c)'
        /\ Total(Due) \in Nat /\ Total(Due)' \in Nat
    BY <2>1, Totals, TotalsNext, OneChanges DEF Summed
  <2> QED BY <2>2, <1>1, <1>2
<1>7. Usage'
  <2>1. ASSUME NEW f \in Fields
        PROVE  /\ ledger'[f] + Total(Owed(f))' <= reported'[f]
               /\ "ledger" \notin lost' =>
                    ledger'[f] + Total(Owed(f))' = reported'[f]
    BY <1>2, <1>3, <1>4, <1>5 DEF Books, Usage
  <2>2. ASSUME NEW e \in Callers, NEW f \in Fields, pc'[e] = "write"
        PROVE  seen'[e][f] + Total(Owed(f))' <= reported'[f]
    <3>1. pc[e] = "write" /\ seen[e][f] \in Nat
      BY <2>2 DEF Typed, Data
    <3>2. seen[e][f] + Total(Owed(f)) <= reported[f]
      BY <3>1 DEF Books, Usage
    <3> QED BY <3>1, <3>2, <1>2, <1>3, <1>4, <1>5
  <2> QED BY <2>1, <2>2 DEF Usage
<1>8. Cost'
  <2>1. priced \in Nat /\ costs \in Nat
    BY DEF Typed, Data
  <2>2. ASSUME NEW e \in Callers, pc'[e] = "price"
        PROVE  seen_costs'[e] + Total(Due)' <= priced'
    <3>1. pc[e] = "price" /\ seen_costs[e] \in Nat
      BY <2>2 DEF Typed, Data
    <3>2. seen_costs[e] + Total(Due) <= priced
      BY <3>1 DEF Books, Cost
    <3> QED BY <3>1, <3>2, <2>1, <1>2, <1>6
  <2> QED BY <1>2, <1>6, <2>1, <2>2 DEF Books, Cost
<1>9. Claimed'
  <2> SUFFICES ASSUME Strict, "ledger" \notin lost, NEW f \in DOMAIN Limits
               PROVE  ledger[f] + Total(Claims(f))' <= Limits[f] + Total(Most(f))'
    BY DEF Claimed
  <2>1. f \in Fields /\ Limits[f] \in Nat
    BY RuntimeAssumption DEF ValidBudget
  <2>2. Most(f)' = Most(f)
    BY DEF Most
  <2>3. ledger[f] + Total(Claims(f)) <= Limits[f] + Total(Most(f))
        /\ Total(Most(f)) \in Nat
    BY <2>1, Totals DEF Books, Claimed, Summed
  <2> QED BY <1>3, <1>4, <1>5, <2>1, <2>2, <2>3
<1> QED BY <1>7, <1>8, <1>9 DEF Books

\* Writing the cost ledger turns one priced response due into one record, or
\* notes that an update was lost.
LEMMA WriteCostBooks ==
  ASSUME Typed, Typed', Books, NEW c \in Callers, WriteCost(c)
  PROVE  Books'
<1>1. /\ pc[c] = "price" /\ pc'[c] = "usage" /\ UNCHANGED job
      /\ \A d \in Callers : d # c => pc'[d] = pc[d]
      /\ costs' = seen_costs[c] + 1 /\ seen_costs[c] \in Nat /\ costs \in Nat
      /\ UNCHANGED <<ledger, reported, priced, seen>>
      /\ \A d \in Callers : d # c => seen_costs'[d] = seen_costs[d]
      /\ priced \in Nat
  BY DEF WriteCost, Goto, Stay, Typed, Control, Data, history
<1>2. \A f : OwedBy(c, f)' = OwedBy(c, f) /\ ClaimBy(c, f)' = ClaimBy(c, f)
  BY <1>1 DEF OwedBy, ClaimBy, Charging, Waiting
<1>3. \A d \in Callers : d # c => pc'[d] = pc[d] /\ job'[d] = job[d]
  BY <1>1
<1>4. \A f \in Fields : /\ Total(Owed(f))' = Total(Owed(f))
                        /\ Total(Claims(f))' = Total(Claims(f))
  <2>1. \A f \in Fields :
          /\ OwedBy(c, f) \in Nat /\ ClaimBy(c, f) \in Nat
          /\ Total(Owed(f)) \in Nat /\ Total(Owed(f))' \in Nat
          /\ Total(Claims(f)) \in Nat /\ Total(Claims(f))' \in Nat
          /\ Total(Owed(f))' + OwedBy(c, f) = Total(Owed(f)) + OwedBy(c, f)'
          /\ Total(Claims(f))' + ClaimBy(c, f) = Total(Claims(f)) + ClaimBy(c, f)'
    BY <1>3, Weights, Totals, TotalsNext, OneChanges DEF Weighed, Summed
  <2> QED BY <1>2, <2>1
<1>5. Total(Due) = Total(Due)' + 1 /\ Total(Due)' \in Nat
  <2>1. "total" \in Fields
    BY DEF Fields
  <2>2. DueBy(c) = 1 /\ DueBy(c)' = 0
    BY <1>1 DEF DueBy
  <2>3. /\ Total(Due)' + DueBy(c) = Total(Due) + DueBy(c)'
        /\ Total(Due) \in Nat /\ Total(Due)' \in Nat
    BY <2>1, <1>3, Totals, TotalsNext, OneChanges DEF Summed
  <2> QED BY <2>2, <2>3
<1>6. /\ "ledger" \in lost' <=> "ledger" \in lost
      /\ "costs" \notin lost' => "costs" \notin lost /\ costs = seen_costs[c]
  BY DEF WriteCost
<1>7. Usage'
  <2>1. \A e \in Callers : pc'[e] = "write" => pc[e] = "write"
    BY <1>1
  <2> QED BY <1>1, <1>4, <1>6, <2>1 DEF Books, Usage
<1>8. Cost'
  <2>1. seen_costs[c] + Total(Due) <= priced
    BY <1>1 DEF Books, Cost
  <2>2. ASSUME NEW e \in Callers, pc'[e] = "price"
        PROVE  seen_costs'[e] + Total(Due)' <= priced'
    <3>1. pc[e] = "price" /\ e # c /\ seen_costs[e] \in Nat
      BY <1>1, <2>2 DEF Typed, Data
    <3>2. seen_costs[e] + Total(Due) <= priced
      BY <3>1 DEF Books, Cost
    <3> QED BY <3>1, <3>2, <1>1, <1>5
  <2>3. costs' + Total(Due)' <= priced'
    BY <1>1, <1>5, <2>1
  <2>4. "costs" \notin lost' => costs' + Total(Due)' = priced'
    <3>1. "costs" \notin lost => costs + Total(Due) = priced
      BY DEF Books, Cost
    <3> QED BY <1>1, <1>5, <1>6, <3>1
  <2> QED BY <2>2, <2>3, <2>4 DEF Cost
<1>9. Claimed'
  <2> SUFFICES ASSUME Strict, "ledger" \notin lost, NEW f \in DOMAIN Limits
               PROVE  ledger[f] + Total(Claims(f))' <= Limits[f] + Total(Most(f))'
    BY <1>1, <1>6 DEF Claimed
  <2>1. f \in Fields
    BY RuntimeAssumption DEF ValidBudget
  <2>2. Most(f)' = Most(f)
    BY DEF Most
  <2> QED BY <1>4, <2>1, <2>2 DEF Books, Claimed
<1> QED BY <1>7, <1>8, <1>9 DEF Books

\* Writing the usage ledger moves what the caller owed into the ledger, or
\* notes that an update was lost.
LEMMA WriteLedgerBooks ==
  ASSUME Typed, Typed', Books, NEW c \in Callers, WriteLedger(c)
  PROVE  Books'
<1> DEFINE u == job[c].usage
           n(f) == IF f \in DOMAIN u THEN u[f] ELSE 0
<1>1. /\ pc[c] = "write" /\ pc'[c] = "check" /\ UNCHANGED job
      /\ \A d \in Callers : d # c => pc'[d] = pc[d]
      /\ UNCHANGED <<costs, seen_costs, reported, priced>>
      /\ \A d \in Callers : d # c => seen'[d] = seen[d]
  BY DEF WriteLedger, Goto, Stay, Typed, Control, Data, history
<1>2. \A d \in Callers : d # c => pc'[d] = pc[d] /\ job'[d] = job[d]
  BY <1>1
<1>3. \A f \in Fields : /\ OwedBy(c, f) = n(f) /\ OwedBy(c, f)' = 0
                        /\ ClaimBy(c, f) = n(f) /\ ClaimBy(c, f)' = 0
  BY <1>1 DEF OwedBy, ClaimBy, Charging, Waiting
<1>4. DueBy(c)' = 0 /\ DueBy(c) = 0
  BY <1>1 DEF DueBy
<1>5. u \in Usages \cup {NoUsage}
  BY <1>1 DEF Typed, Control, JobOK
<1>6. \A f \in Fields : /\ ledger'[f] = seen[c][f] + n(f) /\ seen[c][f] \in Nat
                        /\ ledger[f] \in Nat /\ reported[f] \in Nat
  <2>1. seen[c] \in [Fields -> Nat] /\ ledger' = Plus(seen[c], u)
    BY DEF Typed, Data, WriteLedger
  <2>2. \A f \in Fields : Plus(seen[c], u)[f] = seen[c][f] + n(f)
    BY <1>5, <2>1, PlusType
  <2> QED BY <2>1, <2>2 DEF Typed, Data
<1>7. \A f \in Fields : n(f) \in Nat
  BY <1>3, Weights DEF Weighed
<1> HIDE DEF n, u
<1>8. \A f \in Fields :
        /\ Total(Owed(f)) = Total(Owed(f))' + n(f) /\ Total(Owed(f))' \in Nat
        /\ Total(Claims(f)) = Total(Claims(f))' + n(f) /\ Total(Claims(f))' \in Nat
  <2>1. \A f \in Fields :
          /\ Total(Owed(f)) \in Nat /\ Total(Owed(f))' \in Nat
          /\ Total(Claims(f)) \in Nat /\ Total(Claims(f))' \in Nat
          /\ Total(Owed(f))' + OwedBy(c, f) = Total(Owed(f)) + OwedBy(c, f)'
          /\ Total(Claims(f))' + ClaimBy(c, f) = Total(Claims(f)) + ClaimBy(c, f)'
    BY <1>2, Totals, TotalsNext, OneChanges DEF Summed
  <2> QED BY <1>3, <1>7, <2>1
<1>9. Total(Due)' = Total(Due)
  <2>1. "total" \in Fields
    BY DEF Fields
  <2>2. /\ Total(Due)' + DueBy(c) = Total(Due) + DueBy(c)'
        /\ Total(Due) \in Nat /\ Total(Due)' \in Nat
    BY <2>1, <1>2, Totals, TotalsNext, OneChanges DEF Summed
  <2> QED BY <1>4, <2>2
<1>10. /\ "costs" \in lost' <=> "costs" \in lost
       /\ "ledger" \notin lost' => "ledger" \notin lost /\ ledger = seen[c]
  BY DEF WriteLedger
<1>11. Usage'
  <2>1. ASSUME NEW f \in Fields
        PROVE  /\ ledger'[f] + Total(Owed(f))' <= reported'[f]
               /\ "ledger" \notin lost' =>
                    ledger'[f] + Total(Owed(f))' = reported'[f]
    <3>1. /\ seen[c][f] + Total(Owed(f)) <= reported[f]
          /\ "ledger" \notin lost => ledger[f] + Total(Owed(f)) = reported[f]
      BY <1>1 DEF Books, Usage
    <3> QED BY <3>1, <1>1, <1>6, <1>7, <1>8, <1>10
  <2>2. ASSUME NEW e \in Callers, NEW f \in Fields, pc'[e] = "write"
        PROVE  seen'[e][f] + Total(Owed(f))' <= reported'[f]
    <3>1. pc[e] = "write" /\ e # c /\ seen[e][f] \in Nat
      BY <1>1, <2>2 DEF Typed, Data
    <3>2. seen[e][f] + Total(Owed(f)) <= reported[f]
      BY <3>1 DEF Books, Usage
    <3> QED BY <3>1, <3>2, <1>1, <1>6, <1>7, <1>8
  <2> QED BY <2>1, <2>2 DEF Usage
<1>12. Cost'
  <2>1. \A e \in Callers : pc'[e] = "price" => pc[e] = "price"
    BY <1>1
  <2> QED BY <1>1, <1>9, <1>10, <2>1 DEF Books, Cost
<1>13. Claimed'
  <2> SUFFICES ASSUME Strict, "ledger" \notin lost', NEW f \in DOMAIN Limits
               PROVE  ledger'[f] + Total(Claims(f))' <= Limits[f] + Total(Most(f))'
    BY DEF Claimed
  <2>1. f \in Fields /\ Limits[f] \in Nat
    BY RuntimeAssumption DEF ValidBudget
  <2>2. Most(f)' = Most(f)
    BY DEF Most
  <2>3. ledger[f] + Total(Claims(f)) <= Limits[f] + Total(Most(f))
        /\ Total(Most(f)) \in Nat /\ ledger[f] = seen[c][f]
    BY <2>1, <1>10, Totals DEF Books, Claimed, Summed
  <2> QED BY <1>6, <1>7, <1>8, <2>1, <2>2, <2>3
<1> QED BY <1>11, <1>12, <1>13 DEF Books

\* Every step keeps the books balanced.
LEMMA BooksStep ==
  ASSUME Typed, Typed', Books, [Next]_vars
  PROVE  Books'
<1> DEFINE Same == UNCHANGED <<ledger, reported, costs, priced, lost>>
           Alone(c) == \A d \in Callers : d # c =>
                         /\ pc'[d] = pc[d] /\ job'[d] = job[d]
                         /\ seen'[d] = seen[d] /\ seen_costs'[d] = seen_costs[d]
<1>0. Control
  BY DEF Typed
<1>1. ASSUME NEW c \in Callers, Ask(c) PROVE Books'
  BY <1>1, AdmitBooks DEF Ask, Chat, StreamChat
\* The caller leaves with nothing left to charge.
<1>2. ASSUME NEW c \in Callers, Leave(c), Same, UNCHANGED <<seen, seen_costs>>,
             \/ pc[c] \in Waiting \cup {"check", "store"}
             \/ pc[c] = "cost" /\ job[c].usage = NoUsage
      PROVE  Books'
  <2>1. pc'[c] = "idle" /\ Alone(c)
    BY <1>0, <1>2, Left
  <2>2. /\ \A f \in Fields : OwedBy(c, f) = 0 /\ OwedBy(c, f)' = 0
        /\ DueBy(c) = 0 /\ DueBy(c)' = 0
    BY <1>2, <2>1
    DEF OwedBy, DueBy, Charging, HasPrice, NoUsage, Waiting
  <2>3. \A f \in Fields : ClaimBy(c, f)' <= ClaimBy(c, f)
    <3>1. \A f \in Fields : ClaimBy(c, f)' = 0 /\ ClaimBy(c, f) \in Nat
      BY <2>1, <2>2, Weights DEF ClaimBy, Waiting, Weighed
    <3> QED BY <3>1
  <2> HIDE DEF Same, Alone
  <2> QED BY <1>2, <2>1, <2>2, <2>3, QuietStep DEF Same, Alone
\* The caller goes on waiting for an answer.
<1>3. ASSUME NEW c \in Callers, Same, UNCHANGED <<seen, seen_costs>>, Alone(c),
             pc[c] \in Waiting, pc'[c] \in Waiting
      PROVE  Books'
  <2>1. /\ \A f \in Fields : OwedBy(c, f) = 0 /\ OwedBy(c, f)' = 0
        /\ DueBy(c) = 0 /\ DueBy(c)' = 0
    BY <1>3 DEF OwedBy, DueBy, Charging, Waiting
  <2>2. \A f \in Fields : ClaimBy(c, f)' <= ClaimBy(c, f)
    <3>1. \A f \in Fields : /\ ClaimBy(c, f)' = Biggest(f)
                            /\ ClaimBy(c, f) = Biggest(f) /\ Biggest(f) \in Nat
      BY <1>3, BiggestIs DEF ClaimBy, Biggest
    <3> QED BY <3>1
  <2>3. pc'[c] # "write" /\ pc'[c] # "price"
    BY <1>3 DEF Waiting
  <2> HIDE DEF Alone
  <2> QED BY <1>3, <2>1, <2>2, <2>3, QuietStep DEF Alone
<1>4. ASSUME NEW c \in Callers, NEW f, AttemptFails(c, f) PROVE Books'
  <2>1. pc[c] = "calling" /\ Same /\ UNCHANGED <<seen, seen_costs>>
    BY <1>4 DEF AttemptFails, books, history
  <2>2. CASE Leave(c)
    BY <2>1, <2>2, <1>2 DEF Waiting
  <2>3. CASE ~ Leave(c)
    <3>1. Retry(c, f) \/ FallBack(c, f)
      BY <1>4, <2>3 DEF AttemptFails
    <3>2. pc'[c] \in {"lookup", "calling"}
          /\ \A d \in Callers : d # c => pc'[d] = pc[d] /\ job'[d] = job[d]
      BY <3>1, <2>1, <2>3, <1>0, Retried, FellBack
    <3> QED BY <2>1, <3>2, <1>3 DEF Waiting
  <2> QED BY <2>2, <2>3
<1>5. ASSUME NEW c \in Callers, NEW u \in Usages \cup {NoUsage}, Answer(c, u)
      PROVE  Books'
  <2>1. Asking(c)' = Asking(c)
    BY <1>0, <1>5, WasAnswered DEF Asking
  <2>2. /\ pc[c] = "calling" /\ pc'[c] = "cost" /\ job'[c].usage = u
        /\ \A d \in Callers : d # c => pc'[d] = pc[d] /\ job'[d] = job[d]
    BY <1>0, <1>5, WasAnswered
  <2>3. Counted(c, u) /\ UNCHANGED <<ledger, costs, seen, seen_costs, lost>>
    BY <1>5 DEF Answer, books
  <2> QED BY <2>1, <2>2, <2>3, CountedBooks
<1>6. ASSUME NEW c \in Callers, StreamEnds(c) PROVE Books'
  <2>1. /\ pc[c] = "calling" /\ pc'[c] = "cost" /\ UNCHANGED job
        /\ \A d \in Callers : d # c => pc'[d] = pc[d]
    BY <1>0, <1>6 DEF StreamEnds, Goto, Control
  <2>2. Asking(c)' = Asking(c) /\ job[c].usage \in Usages \cup {NoUsage}
    BY <1>0, <2>1 DEF Asking, Control, JobOK
  <2> QED BY <1>6, <2>1, <2>2, CountedBooks DEF StreamEnds, books
<1>7. ASSUME NEW c \in Callers, NEW u, Chunk(c, u) PROVE Books'
  <2>1. Same /\ UNCHANGED <<seen, seen_costs>>
    BY <1>7 DEF Chunk, books, history
  <2> QED BY <1>0, <1>7, <2>1, GaveChunk, <1>3 DEF Waiting
<1>8. ASSUME NEW c \in Callers, CacheMiss(c) \/ AskNext(c) PROVE Books'
  <2>1. /\ pc[c] \in Waiting /\ pc' = [pc EXCEPT ![c] = "calling"] /\ Stay
        /\ Same /\ UNCHANGED <<seen, seen_costs>>
    BY <1>8 DEF CacheMiss, AskNext, Goto, Waiting, books, history
  <2> QED BY <1>0, <2>1, Moved, <1>3 DEF Waiting
<1>9. ASSUME NEW c \in Callers, CacheHit(c) \/ Abandon(c) \/ StoreResponse(c)
      PROVE  Books'
  <2>1. /\ pc[c] \in Waiting \cup {"check", "store"} /\ Leave(c)
        /\ Same /\ UNCHANGED <<seen, seen_costs>>
    BY <1>9 DEF CacheHit, Abandon, StoreResponse, Waiting, books, history
  <2> QED BY <2>1, <1>2
<1>10. ASSUME NEW c \in Callers, RecordCost(c) PROVE Books'
  <2>1. pc[c] = "cost" /\ Same /\ UNCHANGED seen
    BY <1>10 DEF RecordCost, history
  <2>2. CASE job[c].usage = NoUsage /\ Leave(c) /\ UNCHANGED seen_costs
    BY <2>1, <2>2, <1>2
  <2>3. CASE ~ (job[c].kind = "stream" /\ job[c].usage = NoUsage)
    <3> DEFINE to == IF HasPrice(c) THEN "price" ELSE "usage"
    <3>1. /\ pc' = [pc EXCEPT ![c] = to] /\ Stay
          /\ seen_costs' = [seen_costs EXCEPT ![c] = IF HasPrice(c) THEN costs ELSE 0]
      BY <1>10, <2>3 DEF RecordCost
    <3>2. pc'[c] = to /\ UNCHANGED job /\ Alone(c)
      BY <1>0, <2>1, <3>1, Moved DEF Typed, Data
    <3>3. DueBy(c)' = DueBy(c)
      BY <2>1, <3>2 DEF DueBy, HasPrice, Asking
    <3>4. \A f \in Fields : OwedBy(c, f)' = OwedBy(c, f)
      BY <2>1, <3>2 DEF OwedBy, Charging
    <3>5. \A f \in Fields : ClaimBy(c, f)' <= ClaimBy(c, f)
      <4>1. \A f \in Fields : /\ ClaimBy(c, f)' = ClaimBy(c, f)
                              /\ ClaimBy(c, f) \in Nat
        BY <2>1, <3>2, <3>4, Weights DEF ClaimBy, Waiting, Weighed
      <4> QED BY <4>1
    <3>6. pc'[c] # "write" /\ (pc'[c] = "price" => seen_costs'[c] = costs)
      BY <3>1, <3>2 DEF Typed, Data
    <3> HIDE DEF Alone
    <3> QED BY <2>1, <3>2, <3>3, <3>4, <3>5, <3>6, QuietStep DEF Alone
  <2> QED BY <1>10, <2>2, <2>3 DEF RecordCost
<1>11. ASSUME NEW c \in Callers, ReadLedger(c) PROVE Books'
  <2>1. /\ pc[c] = "usage" /\ pc' = [pc EXCEPT ![c] = "write"] /\ Stay
        /\ Same /\ seen' = [seen EXCEPT ![c] = ledger] /\ UNCHANGED seen_costs
    BY <1>11 DEF ReadLedger, Goto, history
  <2>2. pc'[c] = "write" /\ UNCHANGED job /\ Alone(c) /\ seen'[c] = ledger
    BY <1>0, <2>1, Moved DEF Typed, Data
  <2>3. DueBy(c)' = DueBy(c)
    BY <2>1, <2>2 DEF DueBy
  <2>4. \A f \in Fields : OwedBy(c, f)' = OwedBy(c, f)
    BY <2>1, <2>2 DEF OwedBy, Charging
  <2>5. \A f \in Fields : ClaimBy(c, f)' <= ClaimBy(c, f)
    <3>1. \A f \in Fields : /\ ClaimBy(c, f)' = ClaimBy(c, f)
                            /\ ClaimBy(c, f) \in Nat
      BY <2>1, <2>2, <2>4, Weights DEF ClaimBy, Waiting, Weighed
    <3> QED BY <3>1
  <2> HIDE DEF Alone
  <2> QED BY <2>1, <2>2, <2>3, <2>4, <2>5, QuietStep DEF Alone
<1>12. ASSUME NEW c \in Callers, CheckBudget(c) PROVE Books'
  <2>1. /\ pc[c] = "check" /\ Same /\ UNCHANGED <<seen, seen_costs>>
    BY <1>12 DEF CheckBudget, books
  <2>2. CASE Leave(c)
    BY <2>1, <2>2, <1>2
  <2>3. CASE pc' = [pc EXCEPT ![c] = "store"] /\ Stay
    <3>1. pc'[c] = "store" /\ Alone(c)
      BY <1>0, <2>1, <2>3, Moved
    <3>2. /\ \A f \in Fields : OwedBy(c, f) = 0 /\ OwedBy(c, f)' = 0
          /\ DueBy(c) = 0 /\ DueBy(c)' = 0
          /\ \A f \in Fields : ClaimBy(c, f) = 0 /\ ClaimBy(c, f)' = 0
      BY <2>1, <3>1 DEF OwedBy, DueBy, ClaimBy, Charging, Waiting
    <3>3. \A f \in Fields : ClaimBy(c, f)' <= ClaimBy(c, f)
      BY <3>2
    <3> HIDE DEF Alone
    <3> QED BY <2>1, <3>1, <3>2, <3>3, QuietStep DEF Alone
  <2> QED BY <1>12, <2>2, <2>3 DEF CheckBudget, Goto
<1>13. CASE ClearCache \/ UNCHANGED vars
  <2>1. Same /\ UNCHANGED <<pc, job, seen, seen_costs>>
    BY <1>13 DEF ClearCache, vars, books, history
  <2>2. \A f : Owed(f)' = Owed(f) /\ Claims(f)' = Claims(f)
    BY <2>1, Unchanged DEF Owed, Claims
  <2>3. Due' = Due
    BY <2>1, Unchanged DEF Due
  <2> QED BY <2>1, <2>2, <2>3 DEF Books, Usage, Cost, Claimed, Most
<1> QED
  BY <1>1, <1>4, <1>5, <1>6, <1>7, <1>8, <1>9, <1>10, <1>11, <1>12, <1>13,
     WriteCostBooks, WriteLedgerBooks
  DEF Next, Work, Consume

\* The books balance at the start.
LEMMA BooksInit ==
  ASSUME Init
  PROVE  Books
<1>1. /\ \A f \in Fields : Owed(f) \in [Callers -> Nat]
      /\ \A f \in Fields, c \in Callers : Owed(f)[c] = 0
      /\ Due \in [Callers -> Nat] /\ \A c \in Callers : Due[c] = 0
      /\ \A f \in Fields : Claims(f) \in [Callers -> Nat]
      /\ \A f \in Fields, c \in Callers : Claims(f)[c] = 0
  BY DEF Init, Owed, Due, Claims, OwedBy, DueBy, ClaimBy, Charging, Waiting
<1>2. /\ \A f \in Fields : Total(Owed(f)) = 0 /\ Total(Claims(f)) = 0
      /\ Total(Due) = 0
  BY <1>1, TotalZero
<1>3. Usage /\ Cost
  BY <1>2 DEF Init, Usage, Cost, Zero
<1>4. Claimed
  <2> SUFFICES ASSUME NEW f \in DOMAIN Limits
               PROVE  ledger[f] + Total(Claims(f)) <= Limits[f] + Total(Most(f))
    BY DEF Claimed
  <2>1. f \in Fields /\ Limits[f] \in Nat
    BY RuntimeAssumption DEF ValidBudget
  <2>2. Total(Most(f)) \in Nat
    BY <2>1, TypedInit, Totals DEF Summed
  <2> QED BY <1>2, <2>1, <2>2 DEF Init, Zero
<1> QED BY <1>3, <1>4 DEF Books

\* The ledgers never show more than providers reported, whatever threads do;
\* and as long as no update was overwritten, they show all of it, once, when no
\* caller is between its answer and its charge.
THEOREM LedgersAreExact == Spec => []LedgerExact
<1>1. Init => Typed /\ Books
  BY TypedInit, BooksInit
<1>2. Typed /\ Books /\ [Next]_vars => (Typed /\ Books)'
  BY TypedStep, BooksStep
<1>3. Typed /\ Books => LedgerExact
  <2> SUFFICES ASSUME Typed, Books PROVE LedgerExact
    OBVIOUS
  <2>1. \A f \in Fields : /\ Total(Owed(f)) \in Nat /\ Total(Due) \in Nat
                          /\ ledger[f] \in Nat /\ reported[f] \in Nat
    BY Totals DEF Summed, Typed, Data
  <2>2. Total(Due) \in Nat /\ costs \in Nat /\ priced \in Nat
    BY <2>1 DEF Fields, Typed, Data
  <2>3. \A f \in Fields : ledger[f] <= reported[f]
    BY <2>1 DEF Books, Usage
  <2>4. costs <= priced
    BY <2>2 DEF Books, Cost
  <2>5. ASSUME \A c \in Callers : ~ Charging(c)
        PROVE  /\ "ledger" \notin lost => ledger = reported
               /\ "costs" \notin lost => costs = priced
    <3>1. /\ \A f \in Fields, c \in Callers : OwedBy(c, f) = 0
          /\ \A c \in Callers : DueBy(c) = 0
      BY <2>5 DEF OwedBy, DueBy, Charging
    <3>2. /\ \A f \in Fields : Owed(f) \in [Callers -> Nat]
          /\ \A f \in Fields, c \in Callers : Owed(f)[c] = 0
          /\ Due \in [Callers -> Nat] /\ \A c \in Callers : Due[c] = 0
      BY <3>1 DEF Owed, Due
    <3>3. (\A f \in Fields : Total(Owed(f)) = 0) /\ Total(Due) = 0
      BY <3>2, TotalZero
    <3>4. "ledger" \notin lost => \A f \in Fields : ledger[f] = reported[f]
      BY <2>1, <3>3 DEF Books, Usage
    <3>5. "ledger" \notin lost => ledger = reported
      BY <3>4 DEF Typed, Data
    <3>6. "costs" \notin lost => costs = priced
      BY <2>2, <3>3 DEF Books, Cost
    <3> QED BY <3>5, <3>6
  <2> QED BY <2>3, <2>4, <2>5 DEF LedgerExact
<1> QED BY <1>1, <1>2, <1>3, PTL DEF Spec

\* However many threads pass the check before any of them is charged, a strict
\* budget is overrun by no more than one biggest response for each of them.
THEOREM OverrunIsBounded == Spec => []OverrunBounded
<1>1. Init => Typed /\ Books
  BY TypedInit, BooksInit
<1>2. Typed /\ Books /\ [Next]_vars => (Typed /\ Books)'
  BY TypedStep, BooksStep
<1>3. Typed /\ Books => OverrunBounded
  <2> SUFFICES ASSUME Typed, Books, Strict, "ledger" \notin lost,
                      NEW f \in DOMAIN Limits
               PROVE  reported[f] <= Limits[f] + Cardinality(Callers) * Biggest(f)
    BY DEF OverrunBounded
  <2>1. /\ f \in Fields /\ Limits[f] \in Nat /\ ledger[f] \in Nat
    BY RuntimeAssumption DEF ValidBudget, Typed, Data
  <2>2. /\ Total(Owed(f)) \in Nat /\ Total(Claims(f)) \in Nat
        /\ Total(Most(f)) \in Nat /\ Total(Owed(f)) <= Total(Claims(f))
    BY <2>1, Totals DEF Summed
  <2>3. reported[f] = ledger[f] + Total(Owed(f))
    BY <2>1 DEF Books, Usage
  <2>4. ledger[f] + Total(Claims(f)) <= Limits[f] + Total(Most(f))
    BY DEF Books, Claimed
  <2>5. Total(Most(f)) = Cardinality(Callers) * Biggest(f)
    <3>1. IsFiniteSet(Callers) /\ Biggest(f) \in Nat
      BY RuntimeAssumption, BiggestIs
    <3> QED BY <3>1, TotalConstant DEF Most
  <2> QED BY <2>1, <2>2, <2>3, <2>4, <2>5
<1> QED BY <1>1, <1>2, <1>3, PTL DEF Spec

=============================================================================
