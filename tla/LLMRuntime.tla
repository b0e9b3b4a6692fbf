----------------------------- MODULE LLMRuntime -----------------------------
(***************************************************************************)
(* kernel/llm: the runtime that sends chat requests to providers, with its *)
(* retries, fallbacks, response cache, token budget and cost ledger, and   *)
(* its streams.  Threads share one runtime.  The cache has a lock; the     *)
(* ledgers have none: adding to one reads it in one step and writes it in  *)
(* another.  A stream is a generator, which runs when its consumer asks    *)
(* for the next chunk and which the consumer may drop at any chunk.        *)
(*                                                                         *)
(* A request's content is a model value; a response is the provider that   *)
(* gave it, its number and its usage.  Events are left out, and so is the  *)
(* length of a backoff: a retry comes at some later time.                  *)
(***************************************************************************)
EXTENDS Naturals, Sequences, SequencesExt, FiniteSets, FiniteSetsExt

CONSTANTS
  Callers,
  Contents,       \* what may be asked
  Providers, Fallbacks,
  Streamers,      \* the providers that support streaming
  Priced,         \* the providers with a rate in the cost table
  MaxAttempts, RetryOn,   \* LLMRetryPolicy
  Limits, Strict,         \* LLMTokenBudget; a category without limit is absent
  Usages,         \* what a provider may report: some of the categories
  MaxRequests,    \* bound on the requests
  MaxChunks       \* bound on the chunks of a stream

Fields == {"prompt", "completion", "total"}
NoUsage == [f \in {} |-> 0]
Asked == {0} \cup {Limits[f] : f \in DOMAIN Limits}   \* max_tokens; 0 is None

\* What an attempt can fail with: the category, and whether it is typed, an
\* LLMProviderError.  The OpenAI-compatible provider raises nothing else: for
\* want of a key or a client, for a message it cannot send, for whatever the
\* client raises, and for an answer it cannot read, which is not charged.
Categories == RetryOn \cup {"configuration", "request", "provider"}
NotConfigured == [category : {"configuration"}, typed : {TRUE}]
Unsendable == [category : {"provider"}, typed : {TRUE}]
CallFails == [category : Categories, typed : {TRUE}]
Malformed == [category : {"provider"}, typed : {TRUE}]
\* Another provider may raise anything, which classify_llm_error classifies.
Raised == [category : Categories, typed : {FALSE}]
Failures ==
  NotConfigured \cup Unsendable \cup CallFails \cup Malformed \cup Raised
Unsupported == [category |-> "unsupported", typed |-> TRUE]

\* What LLMTokenBudget and LLMRetryPolicy refuse to be made of.
ValidBudget(limits, strict) ==
  /\ DOMAIN limits \subseteq Fields /\ \A f \in DOMAIN limits : limits[f] \in Nat
  /\ strict \in BOOLEAN
ValidPolicy(attempts, categories) == attempts \in Nat \ {0} /\ "" \notin categories

ASSUME RuntimeAssumption ==
  /\ IsFiniteSet(Callers) /\ IsFiniteSet(Usages)
  /\ MaxRequests \in Nat /\ MaxChunks \in Nat
  /\ Fallbacks \in Seq(Providers)
  /\ Streamers \subseteq Providers /\ Priced \subseteq Providers
  /\ ValidBudget(Limits, Strict) /\ ValidPolicy(MaxAttempts, RetryOn)
  /\ \A u \in Usages :
       DOMAIN u \subseteq Fields /\ \A f \in DOMAIN u : u[f] \in Nat

VARIABLES
  pc,        \* where each caller is
  job,       \* its request
  seen, seen_costs,   \* the ledgers it has read and not yet written
  ledger,    \* _usage_ledger
  costs,     \* the number of records in _cost_ledger
  cache,     \* the response cached for each key
  served,    \* requests made
  \* History variables: nothing below is read by an action.
  answers,   \* the responses providers gave, in order
  reported,  \* the usage of the responses, and of the streams that ended
  priced,    \* how many of them the cost table has a price for
  lost,      \* ledgers an update of which was overwritten
  refused,   \* responses whose caller got LLMBudgetExceededError instead
  voices     \* the attempts whose chunks a caller's stream has given it

vars == <<pc, job, seen, seen_costs, ledger, costs, cache, served, answers,
          reported, priced, lost, refused, voices>>
books == <<ledger, costs, seen, seen_costs, lost>>
history == <<answers, reported, priced, refused>>

Zero == [f \in Fields |-> 0]
NewJob(kind, content, route) ==
  [kind |-> kind, content |-> content, route |-> route, at |-> 1, attempt |-> 1,
   chunks |-> 0, usage |-> NoUsage, answer |-> 0]
NoJob == NewJob("none", "none", <<>>)

\* A cache key: the provider asked, and the content; other options are part
\* of the content.
Key(c) == <<job[c].route[job[c].at], job[c].content>>
Asking(c) == job[c].route[job[c].at]

Init ==
  /\ pc = [c \in Callers |-> "idle"] /\ job = [c \in Callers |-> NoJob]
  /\ seen = [c \in Callers |-> Zero] /\ seen_costs = [c \in Callers |-> 0]
  /\ ledger = Zero /\ costs = 0
  /\ cache = [k \in {} |-> 0]
  /\ served = 0
  /\ answers = <<>> /\ reported = Zero /\ priced = 0
  /\ lost = {} /\ refused = {} /\ voices = [c \in Callers |-> {}]

\* apply_usage_to_ledger: what a provider does not report counts as zero.
Plus(l, u) == [f \in Fields |-> l[f] + (IF f \in DOMAIN u THEN u[f] ELSE 0)]

\* check_token_budget
Exceeded(l) == {f \in DOMAIN Limits : l[f] > Limits[f]}

\* Mutant: a request is refused only by a budget that was used up twice.
ExceededWithLate(l, max) == {f \in DOMAIN Limits : l[f] > 2 * (Limits[f] + max)}

\* _check_request_budget also counts what the request may add.
ExceededWith(l, max) ==
  Exceeded(l) \cup
  {f \in DOMAIN Limits \cap {"completion", "total"} :
     max > 0 /\ l[f] + max > Limits[f]}

Goto(c, from, to) == pc[c] = from /\ pc' = [pc EXCEPT ![c] = to]

\* The call returns or raises.
Leave(c) ==
  /\ pc' = [pc EXCEPT ![c] = "idle"]
  /\ job' = [job EXCEPT ![c] = NoJob]
  /\ voices' = [voices EXCEPT ![c] = {}]
Stay == UNCHANGED <<job, voices>>

-----------------------------------------------------------------------------
(* chat and stream_chat up to the first provider *)

\* _ordered_unique: the provider asked for, then the fallbacks, none twice.
Route(selected) ==
  FoldLeft(LAMBDA r, p : IF p \in ToSet(r) THEN r ELSE Append(r, p),
           <<selected>>, Fallbacks)

\* The budget is checked once, here; a cached response is refused too.
Admit(c, kind, content, selected, max) ==
  /\ pc[c] = "idle" /\ served < MaxRequests
  /\ served' = served + 1
  /\ IF Strict /\ ExceededWith(ledger, max) # {}
     THEN UNCHANGED <<pc, job, voices>>
     ELSE /\ UNCHANGED voices
          /\ pc' = [pc EXCEPT ![c] = IF kind = "chat" THEN "lookup" ELSE "open"]
          /\ job' = [job EXCEPT ![c] =
               NewJob(kind, content, Route(selected))]
  /\ UNCHANGED <<books, cache, history>>

Chat(c, content, selected, max) == Admit(c, "chat", content, selected, max)

\* The generator it returns has not run yet.
StreamChat(c, content, selected, max) ==
  Admit(c, "stream", content, selected, max)

\* LLMResponseCache: get, set and clear, each under its lock
Has(k) == k \in DOMAIN cache
Put(k, answer) ==
  cache' = [j \in DOMAIN cache \cup {k} |-> IF j = k THEN answer ELSE cache[j]]
Empty == [k \in {} |-> 0]

CacheHit(c) ==
  /\ pc[c] = "lookup" /\ Has(Key(c))
  /\ Leave(c)
  /\ UNCHANGED <<books, cache, served, history>>

\* A request may say that it wants no cached response.
CacheMiss(c) ==
  /\ Goto(c, "lookup", "calling") /\ Stay
  /\ UNCHANGED <<books, cache, served, history>>

\* clear_cache, by any thread
ClearCache ==
  /\ cache # Empty /\ cache' = Empty
  /\ UNCHANGED <<pc, job, voices, books, served, history>>

-----------------------------------------------------------------------------
(* _complete_with_retries, _stream_provider_with_retries and the fallbacks *)

Retryable(f) == f.category # "configuration" /\ f.category \in RetryOn

\* Mutant: the last attempt is followed by a first one.
RetryForever(c, f) ==
  /\ Retryable(f)
  /\ job' = [job EXCEPT ![c].attempt = (@ % MaxAttempts) + 1, ![c].chunks = 0]
  /\ UNCHANGED <<pc, voices>>

Retry(c, f) ==
  /\ Retryable(f) /\ job[c].attempt < MaxAttempts
  /\ job' = [job EXCEPT ![c].attempt = @ + 1, ![c].chunks = 0]
  /\ UNCHANGED <<pc, voices>>

\* Mutant: there is one provider more than the route has.
FallBackBeyond(c, f) ==
  /\ ~ (Retryable(f) /\ job[c].attempt < MaxAttempts)
  /\ IF (f.typed \/ Retryable(f)) /\ job[c].at <= Len(job[c].route)
     THEN /\ job' = [job EXCEPT ![c].at = @ + 1, ![c].attempt = 1,
                               ![c].chunks = 0]
          /\ UNCHANGED <<pc, voices>>
     ELSE Leave(c)

\* An error of a provider leads to the next one, any other only if it was
\* worth a retry.
MayFallBack(c, f) == (f.typed \/ Retryable(f)) /\ job[c].at < Len(job[c].route)

\* After the last provider the call raises.
FallBack(c, f) ==
  /\ ~ (Retryable(f) /\ job[c].attempt < MaxAttempts)
  /\ IF MayFallBack(c, f)
     THEN /\ job' = [job EXCEPT ![c].at = @ + 1, ![c].attempt = 1,
                               ![c].chunks = 0]
          /\ UNCHANGED voices
          /\ pc' = [pc EXCEPT ![c] = IF job[c].kind = "chat" THEN "lookup"
                                     ELSE "calling"]
     ELSE Leave(c)

\* Mutant: a stream that has begun is retried and falls back like any other.
AttemptFailsAnyway(c, f) ==
  /\ pc[c] = "calling"
  /\ job[c].kind = "stream" /\ Asking(c) \notin Streamers => f = Unsupported
  /\ Retry(c, f) \/ FallBack(c, f)
  /\ UNCHANGED <<books, cache, served, history>>

\* An attempt fails.  After a chunk has been given out it is the end of the
\* stream; a provider that cannot stream fails without being called.
AttemptFails(c, f) ==
  /\ pc[c] = "calling"
  /\ job[c].kind = "stream" /\ Asking(c) \notin Streamers => f = Unsupported
  /\ IF job[c].chunks > 0 THEN Leave(c) ELSE Retry(c, f) \/ FallBack(c, f)
  /\ UNCHANGED <<books, cache, served, history>>

Counted(c, u) ==
  /\ reported' = Plus(reported, u)
  /\ priced' = priced +
       (IF Asking(c) \in Priced /\ {"prompt", "completion"} \subseteq DOMAIN u
        THEN 1 ELSE 0)

\* The provider answers a chat request.
Answer(c, u) ==
  /\ job[c].kind = "chat" /\ Goto(c, "calling", "cost")
  /\ answers' = Append(answers, Key(c))
  /\ job' = [job EXCEPT ![c].usage = u, ![c].answer = Len(answers')]
  /\ Counted(c, u)
  /\ UNCHANGED <<books, cache, served, refused, voices>>

\* The consumer asks for the first, or the next, chunk.
AskNext(c) ==
  /\ pc[c] \in {"open", "paused"} /\ pc' = [pc EXCEPT ![c] = "calling"] /\ Stay
  /\ UNCHANGED <<books, cache, served, history>>

\* The last chunk may bring the usage.
Chunk(c, u) ==
  /\ job[c].kind = "stream" /\ Asking(c) \in Streamers
  /\ job[c].usage = NoUsage /\ job[c].chunks < MaxChunks
  /\ Goto(c, "calling", "paused")
  /\ job' = [job EXCEPT ![c].chunks = @ + 1, ![c].usage = u]
  /\ voices' = [voices EXCEPT ![c] = @ \cup {<<job[c].at, job[c].attempt>>}]
  /\ UNCHANGED <<books, cache, served, history>>

StreamEnds(c) ==
  /\ job[c].kind = "stream" /\ Asking(c) \in Streamers
  /\ Goto(c, "calling", "cost")
  /\ Counted(c, job[c].usage)
  /\ UNCHANGED <<job, voices, books, cache, served, answers, refused>>

\* The consumer drops the generator; nothing is charged, even when the last
\* chunk has told it the usage.
Abandon(c) ==
  /\ pc[c] \in {"open", "paused"} /\ Leave(c)
  /\ UNCHANGED <<books, cache, served, history>>

-----------------------------------------------------------------------------
(* _record_cost, _apply_response_usage, _apply_stream_usage *)

HasPrice(c) ==
  Asking(c) \in Priced /\ {"prompt", "completion"} \subseteq DOMAIN job[c].usage

\* Mutant: usage without a price is not charged to the budget either.
RecordCostOrReturn(c) ==
  /\ pc[c] = "cost"
  /\ IF HasPrice(c) THEN Goto(c, "cost", "price") /\ Stay ELSE Leave(c)
  /\ seen_costs' = [seen_costs EXCEPT ![c] = costs]
  /\ UNCHANGED <<ledger, costs, seen, lost, cache, served, history>>

\* The cost ledger is read if the usage has a price.  Then a stream without
\* usage is done, and a chat response goes on, whatever it reports.
RecordCost(c) ==
  /\ pc[c] = "cost"
  /\ IF job[c].kind = "stream" /\ job[c].usage = NoUsage
     THEN Leave(c) /\ UNCHANGED seen_costs
     ELSE /\ pc' = [pc EXCEPT ![c] = IF HasPrice(c) THEN "price" ELSE "usage"]
          /\ seen_costs' =
               [seen_costs EXCEPT ![c] = IF HasPrice(c) THEN costs ELSE 0]
          /\ Stay
  /\ UNCHANGED <<ledger, costs, seen, lost, cache, served, history>>

WriteCost(c) ==
  /\ Goto(c, "price", "usage") /\ Stay
  /\ costs' = seen_costs[c] + 1
  /\ lost' = IF costs = seen_costs[c] THEN lost ELSE lost \cup {"costs"}
  /\ seen_costs' = [seen_costs EXCEPT ![c] = 0]
  /\ UNCHANGED <<ledger, seen, cache, served, history>>

ReadLedger(c) ==
  /\ Goto(c, "usage", "write") /\ Stay
  /\ seen' = [seen EXCEPT ![c] = ledger]
  /\ UNCHANGED <<ledger, costs, seen_costs, lost, cache, served, history>>

\* Without any usage the ledger that was read is written back all the same.
WriteLedger(c) ==
  /\ Goto(c, "write", "check") /\ Stay
  /\ ledger' = Plus(seen[c], job[c].usage)
  /\ lost' = IF ledger = seen[c] THEN lost ELSE lost \cup {"ledger"}
  /\ seen' = [seen EXCEPT ![c] = Zero]
  /\ UNCHANGED <<costs, seen_costs, cache, served, history>>

\* Mutant: a response is cached before the budget is looked at again.
CheckBudgetLate(c) ==
  /\ pc[c] = "check"
  /\ IF job[c].kind = "chat" THEN Goto(c, "check", "store") /\ Stay
     ELSE Leave(c)
  /\ refused' = IF Strict /\ Exceeded(ledger) # {}
                THEN refused \cup {job[c].answer} ELSE refused
  /\ UNCHANGED <<books, cache, served, answers, reported, priced>>

\* A strict budget that is exceeded now costs the caller the response.
CheckBudget(c) ==
  /\ pc[c] = "check"
  /\ IF Strict /\ Exceeded(ledger) # {}
     THEN Leave(c) /\ refused' = refused \cup {job[c].answer}
     ELSE /\ UNCHANGED refused
          /\ IF job[c].kind = "chat"
             THEN Goto(c, "check", "store") /\ Stay
             ELSE Leave(c)
  /\ UNCHANGED <<books, cache, served, answers, reported, priced>>

\* _store_cached_response, unless the request said otherwise, and return
StoreResponse(c) ==
  /\ pc[c] = "store" /\ Leave(c)
  /\ Put(Key(c), job[c].answer) \/ UNCHANGED cache
  /\ UNCHANGED <<books, served, history>>

-----------------------------------------------------------------------------

Ask(c) ==
  \E content \in Contents, p \in Providers, max \in Asked :
    Chat(c, content, p, max) \/ StreamChat(c, content, p, max)

\* What thread c does by itself in a call it has made.
Work(c) ==
  \/ CacheHit(c) \/ CacheMiss(c)
  \/ \E f \in Failures \cup {Unsupported} : AttemptFails(c, f)
  \/ \E u \in Usages \cup {NoUsage} : Answer(c, u) \/ Chunk(c, u)
  \/ StreamEnds(c)
  \/ RecordCost(c) \/ WriteCost(c) \/ ReadLedger(c) \/ WriteLedger(c)
  \/ CheckBudget(c) \/ StoreResponse(c)

Consume(c) == AskNext(c) \/ Abandon(c)

Next == ClearCache \/ \E c \in Callers : Ask(c) \/ Work(c) \/ Consume(c)

\* A thread keeps running, and a provider answers or fails in the end: both
\* clients have a timeout.  A consumer reads on or drops its stream.
Spec == /\ Init /\ [][Next]_vars
        /\ \A c \in Callers : WF_vars(Work(c)) /\ WF_vars(Consume(c))

-----------------------------------------------------------------------------
(* Properties *)

JobOK(c) ==
  IF pc[c] = "idle" THEN job[c] = NoJob
  ELSE /\ job[c].kind \in {"chat", "stream"} /\ job[c].content \in Contents
       /\ job[c].route \in Seq(Providers) /\ job[c].at \in DOMAIN job[c].route
       /\ job[c].attempt \in 1 .. MaxAttempts
       /\ job[c].chunks \in 0 .. MaxChunks
       /\ job[c].usage \in Usages \cup {NoUsage}
       /\ job[c].answer \in 0 .. Len(answers)

TypeOK ==
  /\ pc \in [Callers -> {"idle", "lookup", "open", "calling", "paused", "cost",
                         "price", "usage", "write", "check", "store"}]
  /\ \A c \in Callers : JobOK(c)
  /\ {ledger, reported} \subseteq [Fields -> Nat]
  /\ seen \in [Callers -> [Fields -> Nat]] /\ seen_costs \in [Callers -> Nat]
  /\ costs \in Nat /\ priced \in Nat
  /\ DOMAIN cache \subseteq Providers \X Contents
  /\ answers \in Seq(Providers \X Contents)
  /\ served \in 0 .. MaxRequests
  /\ lost \subseteq {"ledger", "costs"} /\ refused \subseteq 0 .. Len(answers)

Charging(c) == pc[c] \in {"cost", "price", "usage", "write"}

\* The ledgers never show more than the providers reported.  When no update
\* was overwritten by another thread, every response and every stream that
\* ended is in them exactly once as soon as its caller is past the ledgers,
\* whichever provider and attempt it came from, refused ones included.
LedgerExact ==
  /\ \A f \in Fields : ledger[f] <= reported[f]
  /\ costs <= priced
  /\ (\A c \in Callers : ~ Charging(c)) =>
       /\ "ledger" \notin lost => ledger = reported
       /\ "costs" \notin lost => costs = priced

Biggest(f) == Max({0} \cup {u[f] : u \in {v \in Usages : f \in DOMAIN v}})

\* A strict budget is overrun by at most one response for each caller: the
\* check comes before the call and the charge after it, but a caller that has
\* seen the ledger over its limit asks no provider.
OverrunBounded ==
  Strict /\ "ledger" \notin lost =>
    \A f \in DOMAIN Limits :
      reported[f] <= Limits[f] + Cardinality(Callers) * Biggest(f)

\* What the cache has under a key was given by that very provider for that
\* content, not by the fallback of another, and was not refused its caller.
CacheSound ==
  \A k \in DOMAIN cache : answers[cache[k]] = k /\ cache[k] \notin refused

\* A stream's chunks all come from one attempt on one provider: after output
\* began there is no retry and no fallback.
OneVoice == \A c \in Callers : Cardinality(voices[c]) <= 1

\* Every call and every stream ends, after however many failures.
RequestsEnd == \A c \in Callers : pc[c] # "idle" ~> pc[c] = "idle"
=============================================================================
