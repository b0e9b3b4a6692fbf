-------------------------- MODULE PersistentMemory --------------------------
(***************************************************************************)
(* kernel/memory_store.py, the tiered memory of the agents, with the part  *)
(* of kernel/process.py that snapshots and restores it.  A record is hot   *)
(* when remembered, and is in memory only; eviction moves it to the warm   *)
(* list, the cold index and the file memories.jsonl.  A forget of a cold   *)
(* record rewrites the whole file in place.  Every call runs on the event  *)
(* loop's thread without a pause, so calls do not interleave; but a crash, *)
(* or an I/O error, may fall between any two writes of a call.             *)
(*                                                                         *)
(* A record is its number, in order of creation; its content stays out.    *)
(* The snapshot a process is restored from is one of its own.              *)
(***************************************************************************)
EXTENDS Naturals, Sequences, SequencesExt, FiniteSets, FiniteSetsExt, Lists

CONSTANTS
  Agents, Nobody,
  AgentBudget,     \* the token budget an agent registers with
  DefaultBudget,   \* the one _state() gives an agent that is not registered
  TokenSizes, Importances,
  WarmLimit, RecallLimit,
  MaxRecords, MaxSnaps, MaxFaults

ASSUME MemoryAssumption ==
  /\ Nobody \notin Agents
  /\ {AgentBudget, DefaultBudget, WarmLimit} \subseteq Nat \ {0}
  /\ TokenSizes \subseteq Nat \ {0} /\ Importances \subseteq Nat
  /\ {RecallLimit, MaxRecords, MaxSnaps, MaxFaults} \subseteq Nat

Ids == 1 .. MaxRecords

VARIABLES
  record,       \* the records created: owner, tokens and importance
  budget,       \* token_budget of each registered agent; 0 for the others
  hot, warm,    \* the tiers of each agent: a set and, oldest first, a list
  cold,         \* ids in _cold_index
  disk,         \* ids with a line in memories.jsonl
  torn,         \* some line of the file is incomplete
  snaps,        \* the snapshot files
  latest,       \* latest_snapshot_id of each agent's process; 0 is None
  mode,         \* "idle", inside a call, or "down"
  actor,        \* the agent whose tiers it changes in steps
  chosen,       \* the snapshot it restores; 0 is None
  todo,         \* the record it forgets, or those it still has to copy
  faults,       \* crashes and I/O errors so far
  \* History variables: nothing below is read by an action.
  forgotten,    \* ids for which forget() returned True
  cut           \* agents whose last eviction an I/O error cut short

tiers == <<budget, hot, warm>>
file == <<disk, torn>>
call == <<actor, chosen, todo>>
history == <<forgotten, cut>>
memvars == <<record, tiers, cold, file, snaps, latest, mode, call, faults,
             history>>

Tokens(S) == SumFunction([i \in S |-> record[i].tokens])
Owned(a) == {i \in 1 .. Len(record) : record[i].owner = a}
Without(s, i) == Those(s, Ids \ {i})

MemInit ==
  /\ record = <<>> /\ budget = [a \in Agents |-> 0]
  /\ hot = [a \in Agents |-> {}] /\ warm = [a \in Agents |-> <<>>]
  /\ cold = {} /\ disk = {} /\ torn = FALSE
  /\ snaps = <<>> /\ latest = [a \in Agents |-> 0]
  /\ mode = "idle" /\ actor = Nobody /\ chosen = 0 /\ todo = {}
  /\ faults = 0 /\ forgotten = {} /\ cut = {}

Idle == mode = "idle" /\ UNCHANGED <<mode, call>>

\* A call for agent a begins that takes several steps, or ends.
Begin(a, to) == mode = "idle" /\ mode' = to /\ actor' = a
End(to) == mode' = to /\ actor' = IF to = "idle" THEN Nobody ELSE actor
AfterEviction == IF todo = {} THEN "idle" ELSE "copying"

-----------------------------------------------------------------------------
(* Registration *)

\* A process starts under the name: its tiers begin empty, the index stays.
Register(a) ==
  /\ Idle
  /\ budget' = [budget EXCEPT ![a] = AgentBudget]
  /\ hot' = [hot EXCEPT ![a] = {}] /\ warm' = [warm EXCEPT ![a] = <<>>]
  /\ latest' = [latest EXCEPT ![a] = 0]
  /\ cut' = cut \ {a}
  /\ UNCHANGED <<record, cold, file, snaps, faults, forgotten>>

Unregister(a) ==
  /\ Idle /\ budget[a] # 0
  /\ budget' = [budget EXCEPT ![a] = 0]
  /\ hot' = [hot EXCEPT ![a] = {}] /\ warm' = [warm EXCEPT ![a] = <<>>]
  /\ cut' = cut \ {a}
  /\ UNCHANGED <<record, cold, file, snaps, latest, faults, forgotten>>

\* Mutant: the default budget is added to the one the agent has.
KnownTwice(a) == [budget EXCEPT ![a] = @ + DefaultBudget]

\* _state() registers a name it does not know.
Known(a) == [budget EXCEPT ![a] = IF @ = 0 THEN DefaultBudget ELSE @]

-----------------------------------------------------------------------------
(* append_context_frame and _evict_if_needed *)

NewRecord(a, tokens, importance) ==
  [owner |-> a, tokens |-> tokens, importance |-> importance]

Append1(a, tokens, importance) ==
  /\ Len(record) < MaxRecords
  /\ record' = Append(record, NewRecord(a, tokens, importance))
  /\ budget' = Known(a)
  /\ hot' = [hot EXCEPT ![a] = @ \cup {Len(record) + 1}]

Remember(a, tokens, importance) ==
  /\ Begin(a, "evicting") /\ Append1(a, tokens, importance)
  /\ UNCHANGED <<warm, cold, file, snaps, latest, chosen, todo, faults,
                 history>>

\* Mutant: a budget that is exceeded by one token is not exceeded.
OverBudgetByOne(a) == Tokens(hot[a]) > budget[a] + 1

OverBudget(a) == Tokens(hot[a]) > budget[a]

\* The least important record goes.  Ties are broken by last_accessed, which
\* every recall() renews, so any record of the least importance may be next.
Candidates(a) ==
  {i \in hot[a] :
     \A j \in hot[a] : record[i].importance <= record[j].importance}

\* The record leaves the hot tier and is in the index before it is on disk.
Move(i) ==
  /\ hot' = [hot EXCEPT ![actor] = @ \ {i}]
  /\ cold' = cold \cup {i}

\* The last WarmLimit of a list.
Newest(s) == SubSeq(s, Max({1, Len(s) - WarmLimit + 1}), Len(s))

\* One turn of the eviction loop.  The test against 70% of the budget that
\* ends the loop's body can only end a loop that its own condition ends.
Evict ==
  /\ mode = "evicting" /\ OverBudget(actor)
  /\ \E i \in Candidates(actor) :
       /\ Move(i)
       /\ disk' = disk \cup {i}
       /\ warm' = [warm EXCEPT ![actor] = Newest(Append(@, i))]
  /\ UNCHANGED <<record, budget, torn, snaps, latest, mode, call, faults,
                 history>>

\* The append to the file fails, perhaps with part of the line written: the
\* warm list is not cut to its limit and the exception leaves the loop.  Only
\* a restart that is copying records suppresses it, and takes the next one.
EvictFails ==
  /\ mode = "evicting" /\ OverBudget(actor) /\ faults < MaxFaults
  /\ \E i \in Candidates(actor) :
       /\ Move(i)
       /\ warm' = [warm EXCEPT ![actor] = Append(@, i)]
  /\ torn' \in {torn, TRUE}
  /\ End(AfterEviction)
  /\ chosen' = 0
  /\ cut' = cut \cup {actor} /\ faults' = faults + 1
  /\ UNCHANGED <<record, budget, disk, snaps, latest, todo, forgotten>>

\* The loop ends; a restore now records its snapshot in the process table.
WithinAgain ==
  /\ mode = "evicting" /\ ~ OverBudget(actor)
  /\ End(AfterEviction)
  /\ latest' = [latest EXCEPT ![actor] = IF chosen = 0 THEN @ ELSE chosen]
  /\ chosen' = 0
  /\ cut' = cut \ {actor}
  /\ UNCHANGED <<record, tiers, cold, file, snaps, todo, faults, forgotten>>

-----------------------------------------------------------------------------
(* forget and _rewrite_records_file *)

\* Mutant: the file is not rewritten; the line of the record stays.
ForgetInMemory(i) ==
  /\ Idle
  /\ hot' = [a \in Agents |-> hot[a] \ {i}]
  /\ warm' = [a \in Agents |-> Without(warm[a], i)]
  /\ cold' = cold \ {i}
  /\ forgotten' = forgotten \cup {i}
  /\ UNCHANGED <<record, budget, file, snaps, latest, faults, cut>>

\* The record goes from every tier of every agent, whoever asked; if it was
\* cold the file has to be written again.
Forget(i) ==
  /\ mode = "idle" /\ i <= Len(record)
  /\ hot' = [a \in Agents |-> hot[a] \ {i}]
  /\ warm' = [a \in Agents |-> Without(warm[a], i)]
  /\ cold' = cold \ {i}
  /\ IF i \in cold
     THEN mode' = "rewriting" /\ todo' = {i} /\ UNCHANGED forgotten
     ELSE /\ UNCHANGED <<mode, todo>>
          /\ forgotten' =
               forgotten \cup ({i} \cap UNION {hot[a] : a \in Agents})
  /\ UNCHANGED <<record, budget, file, snaps, latest, actor, chosen, faults,
                 cut>>

\* open("w") empties the file before the first record is written.
Truncate ==
  /\ mode = "rewriting" /\ mode' = "truncated"
  /\ disk' = {} /\ torn' = FALSE
  /\ UNCHANGED <<record, tiers, cold, snaps, latest, call, faults, history>>

WriteBack ==
  /\ mode = "truncated" /\ mode' = "idle"
  /\ disk' = cold
  /\ forgotten' = forgotten \cup todo /\ todo' = {}
  /\ UNCHANGED <<record, tiers, cold, torn, snaps, latest, actor, chosen,
                 faults, cut>>

\* The open, or a write, fails and forget() raises; some lines may be there.
RewriteFails ==
  /\ mode \in {"rewriting", "truncated"} /\ faults < MaxFaults
  /\ IF mode = "rewriting" THEN UNCHANGED file
     ELSE disk' \in SUBSET cold /\ torn' \in BOOLEAN
  /\ mode' = "idle" /\ todo' = {} /\ faults' = faults + 1
  /\ UNCHANGED <<record, tiers, cold, snaps, latest, actor, chosen, history>>

-----------------------------------------------------------------------------
(* Snapshots, and what a restarted process gets back *)

\* What a snapshot file holds: the hot records, and the names of the warm.
Image(a) == [owner |-> a, hot |-> hot[a], warm |-> warm[a]]

Snapshot(a) ==
  /\ Idle /\ Len(snaps) < MaxSnaps
  /\ budget' = Known(a)
  /\ snaps' = Append(snaps, Image(a))
  /\ latest' = [latest EXCEPT ![a] = Len(snaps')]
  /\ UNCHANGED <<record, hot, warm, cold, file, faults, history>>

Owns(a) == {s \in 1 .. Len(snaps) : snaps[s].owner = a}

\* The first WarmLimit of a list.
Oldest(s) == SubSeq(s, 1, Min({Len(s), WarmLimit}))

\* Mutant: the records the snapshot names as warm are restored as hot ones,
\* without a look at the index.
LoadAll(a, s, hot_only) ==
  /\ hot' = [hot EXCEPT ![a] = snaps[s].hot \cup ToSet(snaps[s].warm)]
  /\ warm' = [warm EXCEPT ![a] = <<>>]
  /\ Begin(a, "evicting") /\ chosen' = s

\* restore_process_memory: the hot records are those in the snapshot, the
\* warm ones those it names that the index still has.  Only a process that
\* was just registered, with no warm records, is restored hot_only.
Load(a, s, hot_only) ==
  /\ hot' = [hot EXCEPT ![a] = snaps[s].hot]
  /\ warm' = [warm EXCEPT ![a] =
       Oldest(Those(snaps[s].warm, IF hot_only THEN {} ELSE cold))]
  /\ Begin(a, "evicting") /\ chosen' = s

Restore(a, s) ==
  /\ s \in Owns(a)
  /\ budget' = Known(a) /\ Load(a, s, FALSE)
  /\ UNCHANGED <<record, cold, file, snaps, latest, todo, faults, history>>

\* The snapshot a restart uses: the last one of the old process, or the
\* newest of its name.
RestartFrom(a) == IF latest[a] # 0 THEN latest[a] ELSE Max(Owns(a))

\* Register and _restore_memory_for_restarted_child, one after the other;
\* under the policy "none", or without a snapshot, a restart is Register.
RestartFromSnapshot(a, hot_only) ==
  /\ Owns(a) # {}
  /\ budget' = [budget EXCEPT ![a] = AgentBudget]
  /\ Load(a, RestartFrom(a), hot_only)
  /\ latest' = [latest EXCEPT ![a] = 0]
  /\ cut' = cut \ {a}
  /\ UNCHANGED <<record, cold, file, snaps, todo, faults, forgotten>>

\* The order of recall(): the most important first, then the newest.
Before(i, j) ==
  \/ record[i].importance > record[j].importance
  \/ record[i].importance = record[j].importance /\ i > j

\* recall(limit).  The tiers of the new process are empty, so only the index
\* answers.
Best(a) ==
  LET found == Owned(a) \cap cold
  IN {i \in found : Cardinality({j \in found : Before(j, i)}) < RecallLimit}

RestartByRecall(a) ==
  /\ Begin(a, "copying")
  /\ budget' = [budget EXCEPT ![a] = AgentBudget]
  /\ hot' = [hot EXCEPT ![a] = {}] /\ warm' = [warm EXCEPT ![a] = <<>>]
  /\ latest' = [latest EXCEPT ![a] = 0]
  /\ todo' = Best(a)
  /\ cut' = cut \ {a}
  /\ UNCHANGED <<record, cold, file, snaps, chosen, faults, forgotten>>

\* Each record found becomes, in that order, a new one with the same content.
Copy ==
  /\ mode = "copying" /\ mode' = "evicting"
  /\ \E i \in todo :
       /\ \A j \in todo \ {i} : Before(i, j)
       /\ Append1(actor, record[i].tokens, record[i].importance)
       /\ todo' = todo \ {i}
  /\ UNCHANGED <<warm, cold, file, snaps, latest, actor, chosen, faults,
                 history>>

CopiesDone ==
  /\ mode = "copying" /\ (todo = {} \/ Len(record) = MaxRecords)
  /\ End("idle") /\ todo' = {}
  /\ UNCHANGED <<record, tiers, cold, file, snaps, latest, chosen, faults,
                 history>>

-----------------------------------------------------------------------------
(* Crash and start *)

\* Everything in memory is gone.  A crash in an append may leave part of a
\* line, one in a rewrite any part of the file.
Crash ==
  /\ mode # "down" /\ faults < MaxFaults
  /\ CASE mode = "evicting" -> torn' \in {torn, TRUE} /\ UNCHANGED disk
       [] mode = "truncated" -> disk' \in SUBSET cold /\ torn' \in BOOLEAN
       [] OTHER -> UNCHANGED file
  /\ budget' = [a \in Agents |-> 0]
  /\ hot' = [a \in Agents |-> {}] /\ warm' = [a \in Agents |-> <<>>]
  /\ cold' = {} /\ latest' = [a \in Agents |-> 0]
  /\ mode' = "down" /\ actor' = Nobody /\ chosen' = 0 /\ todo' = {}
  /\ faults' = faults + 1 /\ cut' = {}
  /\ UNCHANGED <<record, snaps, forgotten>>

\* __init__ and _load_cold_index, which raises on a line it cannot parse.
Boot ==
  /\ mode = "down" /\ ~ torn
  /\ mode' = "idle" /\ cold' = disk
  /\ UNCHANGED <<record, tiers, file, snaps, latest, call, faults, history>>

MemNext ==
  \/ \E a \in Agents :
       \/ Register(a) \/ Unregister(a) \/ Snapshot(a) \/ RestartByRecall(a)
       \/ \E t \in TokenSizes, p \in Importances : Remember(a, t, p)
       \/ \E s \in Owns(a) : Restore(a, s)
       \/ \E hot_only \in BOOLEAN : RestartFromSnapshot(a, hot_only)
  \/ \E i \in Ids : Forget(i)
  \/ Evict \/ EvictFails \/ WithinAgain \/ Truncate \/ WriteBack \/ RewriteFails
  \/ Copy \/ CopiesDone \/ Crash \/ Boot

-----------------------------------------------------------------------------
(* Properties *)

MemTypeOK ==
  /\ record \in Seq([owner : Agents, tokens : TokenSizes,
                     importance : Importances])
  /\ Len(record) <= MaxRecords
  /\ budget \in [Agents -> {0, AgentBudget, DefaultBudget}]
  /\ hot \in [Agents -> SUBSET Ids] /\ warm \in [Agents -> Seq(Ids)]
  /\ {cold, disk, forgotten} \subseteq SUBSET Ids /\ torn \in BOOLEAN
  /\ snaps \in Seq([owner : Agents, hot : SUBSET Ids, warm : Seq(Ids)])
  /\ latest \in [Agents -> 0 .. Len(snaps)] /\ chosen \in 0 .. Len(snaps)
  /\ mode \in {"idle", "evicting", "copying", "rewriting", "truncated", "down"}
  /\ actor \in Agents \cup {Nobody} /\ todo \subseteq Ids
  /\ faults \in 0 .. MaxFaults /\ cut \subseteq Agents

\* Between calls an agent's hot records fit its budget, after any sequence of
\* registrations, restores of old snapshots and copying restarts, unless an
\* I/O error cut its last eviction short.  The warm list exceeds its limit by
\* no more than one record for each write that failed, and a record in it is
\* always in the index too.
WithinBudget ==
  \A a \in Agents :
    /\ mode = "idle" /\ a \notin cut => Tokens(hot[a]) <= budget[a]
    /\ Len(warm[a]) <= WarmLimit + faults
    /\ ToSet(warm[a]) \subseteq cold

Recallable(i) ==
  i \in cold \/ \E a \in Agents : i \in hot[a] \cup ToSet(warm[a])

\* Once forget() has returned True the record is not recalled again, not by
\* a restart, a restore, a crash or a failed rewrite, except where a snapshot
\* taken before holds its content.
ForgottenStaysForgotten ==
  \A i \in forgotten :
    Recallable(i) => \E s \in 1 .. Len(snaps) : i \in snaps[s].hot

\* The tiers, the index and the file implement the abstract store: eviction
\* never loses a record, a restart or a restore loses none that is saved, and
\* a crash loses only what the index and the file disagreed about.
Differ == (cold \ disk) \cup (disk \ cold)
Store == INSTANCE RecordStore WITH
  used <- 1 .. Len(record),
  known <- IF mode = "down" THEN disk ELSE {i \in Ids : Recallable(i)},
  saved <- IF mode = "down" THEN disk ELSE cold,
  doubt <- IF mode = "down" THEN {} ELSE Differ,
  kept <- UNION {snaps[s].hot : s \in 1 .. Len(snaps)},
  status <- IF mode \in {"rewriting", "truncated"} THEN "rewriting"
            ELSE IF mode = "down" THEN "down" ELSE "up"

=============================================================================
