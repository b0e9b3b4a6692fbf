-------------------------- MODULE HostMemoryProofs --------------------------
(***************************************************************************)
(* What the memory of a host keeps true, and that the persistent manager   *)
(* implements the abstract store.  The inductive invariant MemInv has six  *)
(* parts, each with its lemma: types, where records come from, the phases  *)
(* of a call, the warm list, where a record may be twice, and the budgets. *)
(***************************************************************************)
EXTENDS HostMemory, PageTableProofs

-----------------------------------------------------------------------------
(* The lists *)

\* What is cut to the limit of the warm list.
LEMMA NewestProperties ==
  ASSUME NEW T, NEW s \in Seq(T)
  PROVE  /\ Newest(s) \in Seq(T) /\ Len(Newest(s)) \in Nat
         /\ Len(Newest(s)) <= WarmLimit /\ ToSet(Newest(s)) \subseteq ToSet(s)
<1>1. Len(s) \in Nat /\ WarmLimit \in Nat \ {0}
  BY MemoryAssumption
<1> DEFINE m == Max({1, Len(s) - WarmLimit + 1})
           n == Len(s)
<1>2. m = IF 1 <= Len(s) - WarmLimit + 1 THEN Len(s) - WarmLimit + 1 ELSE 1
  BY <1>1, MaxOfTwo
<1>3. m \in 1 .. Len(s) + 1 /\ n \in 0 .. Len(s) /\ n - m + 1 <= WarmLimit
  BY <1>1, <1>2
<1> HIDE DEF m
<1>4. /\ SubSeq(s, m, n) \in Seq(T)
      /\ Len(SubSeq(s, m, n)) = IF m <= n THEN n - m + 1 ELSE 0
      /\ ToSet(SubSeq(s, m, n)) \subseteq ToSet(s)
  BY <1>3, PartOfList
<1>5. Newest(s) = SubSeq(s, m, n)
  BY DEF Newest, m
<1> DEFINE r == SubSeq(s, m, n)
<1> HIDE DEF r, n
<1>6. Len(r) \in Nat /\ Len(r) <= WarmLimit
  BY <1>1, <1>3, <1>4 DEF r
<1> QED BY <1>4, <1>5, <1>6 DEF r

\* What a restore cuts to that limit.
LEMMA OldestProperties ==
  ASSUME NEW T, NEW s \in Seq(T)
  PROVE  /\ Oldest(s) \in Seq(T) /\ Len(Oldest(s)) \in Nat
         /\ Len(Oldest(s)) <= WarmLimit /\ ToSet(Oldest(s)) \subseteq ToSet(s)
<1>1. Len(s) \in Nat /\ WarmLimit \in Nat \ {0}
  BY MemoryAssumption
<1> DEFINE n == Min({Len(s), WarmLimit})
<1>2. n = IF Len(s) <= WarmLimit THEN Len(s) ELSE WarmLimit
  BY <1>1, MinOfTwo
<1>3. 1 \in 1 .. Len(s) + 1 /\ n \in 0 .. Len(s) /\ n <= WarmLimit
  BY <1>1, <1>2
<1> HIDE DEF n
<1>4. /\ SubSeq(s, 1, n) \in Seq(T)
      /\ Len(SubSeq(s, 1, n)) = IF 1 <= n THEN n - 1 + 1 ELSE 0
      /\ ToSet(SubSeq(s, 1, n)) \subseteq ToSet(s)
  BY <1>3, PartOfList
<1>5. Oldest(s) = SubSeq(s, 1, n)
  BY DEF Oldest, n
<1> DEFINE r == SubSeq(s, 1, n)
<1> HIDE DEF r
<1>6. Len(r) \in Nat /\ Len(r) <= WarmLimit
  BY <1>1, <1>3, <1>4 DEF r
<1> QED BY <1>4, <1>5, <1>6 DEF r

-----------------------------------------------------------------------------
(* The inductive invariant of the persistent memory *)

\* The records created, and those some snapshot holds.
Given == 1 .. Len(record)
Kept == UNION {snaps[s].hot : s \in 1 .. Len(snaps)}

\* Hot records are the agent's own, in the tiers and in the snapshots, and
\* every id in use is that of a record.
Provenance ==
  /\ \A a \in Agents : hot[a] \subseteq Owned(a)
  /\ cold \cup disk \cup forgotten \cup todo \subseteq Given
  /\ \A s \in 1 .. Len(snaps) : snaps[s].hot \subseteq Owned(snaps[s].owner)
  /\ \A a \in Agents : latest[a] # 0 => snaps[latest[a]].owner = a
  /\ chosen # 0 => mode = "evicting" /\ snaps[chosen].owner = actor

\* What may be assumed inside a call, and while the process is down.
Phases ==
  /\ mode \in {"evicting", "copying"} => actor \in Agents
  /\ mode = "down" =>
       cold = {} /\ \A a \in Agents : hot[a] = {} /\ warm[a] = <<>>
  /\ mode \in {"rewriting", "truncated"} =>
       todo \cap cold = {} /\ \A a \in Agents : todo \cap hot[a] = {}
  /\ mode = "truncated" => disk = {}

\* The warm list names cold records, and is too long by failed writes only.
Indexed ==
  \A a \in Agents :
    ToSet(warm[a]) \subseteq cold /\ Len(warm[a]) <= WarmLimit + faults

\* A record that is hot and cold, or forgotten and there, is in a snapshot.
Once ==
  \A a \in Agents :
    /\ hot[a] \cap (cold \cup disk) \subseteq Kept
    /\ forgotten \cap (hot[a] \cup cold \cup disk) \subseteq Kept

\* The hot records fit the budget but during an eviction, or after one that
\* failed.
Afforded ==
  \A a \in Agents \ cut :
    (mode = "evicting" /\ a = actor) \/ Tokens(hot[a]) <= budget[a]

\* The numbers.
LEMMA Limits ==
  /\ AgentBudget \in Nat \ {0} /\ DefaultBudget \in Nat \ {0}
  /\ WarmLimit \in Nat \ {0} /\ MaxRecords \in Nat /\ MaxFaults \in Nat
  /\ TokenSizes \subseteq Nat \ {0} /\ Nobody \notin Agents
  /\ AgentBudget \in Nat /\ DefaultBudget \in Nat /\ WarmLimit \in Nat
BY MemoryAssumption

RecordType == [owner : Agents, tokens : TokenSizes, importance : Importances]
SnapType == [owner : Agents, hot : SUBSET Ids, warm : Seq(Ids)]

\* A record.
LEMMA RecordIn ==
  ASSUME MemTypeOK, NEW i \in 1 .. Len(record)
  PROVE  record[i] \in RecordType
<1>1. record \in Seq(RecordType)
  BY DEF MemTypeOK, RecordType
<1> HIDE DEF RecordType
<1> QED BY <1>1

\* A snapshot.
LEMMA SnapIn ==
  ASSUME MemTypeOK, NEW s \in 1 .. Len(snaps)
  PROVE  snaps[s] \in SnapType
<1>1. snaps \in Seq(SnapType)
  BY DEF MemTypeOK, SnapType
<1> HIDE DEF SnapType
<1> QED BY <1>1

\* The snapshot of a restart is one of the agent's own.
LEMMA RestartFromOwns ==
  ASSUME MemTypeOK, Provenance, NEW a \in Agents, Owns(a) # {}
  PROVE  RestartFrom(a) \in Owns(a)
<1>1. Len(snaps) \in Nat /\ latest[a] \in 0 .. Len(snaps)
  BY DEF MemTypeOK
<1>2. CASE latest[a] # 0
  BY <1>1, <1>2 DEF RestartFrom, Owns, Provenance
<1>3. CASE latest[a] = 0
  <2>1. Owns(a) \in SUBSET Nat /\ \A x \in Owns(a) : x <= Len(snaps)
    BY <1>1 DEF Owns
  <2>2. Max(Owns(a)) \in Owns(a)
    BY <2>1, <1>1, MaxOfBounded
  <2> QED BY <2>2, <1>3 DEF RestartFrom
<1> QED BY <1>2, <1>3

\* A list without one of its elements.
LEMMA WithoutProperties ==
  ASSUME NEW s \in Seq(Ids), NEW i
  PROVE  /\ Without(s, i) \in Seq(Ids) /\ Len(Without(s, i)) \in Nat
         /\ ToSet(Without(s, i)) = ToSet(s) \ {i}
         /\ Len(Without(s, i)) <= Len(s)
<1> DEFINE X == Ids \ {i}
<1>1. /\ Those(s, X) \in Seq(Ids) /\ ToSet(Those(s, X)) = ToSet(s) \cap X
      /\ Len(Those(s, X)) <= Len(s)
  <2> HIDE DEF X
  <2> QED BY ThoseProperties
<1>2. ToSet(s) \subseteq Ids
  BY ElementsOfList
<1>3. Len(Those(s, X)) \in Nat
  BY <1>1
<1> QED BY <1>1, <1>2, <1>3 DEF Without

\* What a restore makes of the warm list.
LEMMA LoadedProperties ==
  ASSUME NEW s \in Seq(Ids), NEW X
  PROVE  LET w == Oldest(Those(s, X))
         IN /\ w \in Seq(Ids) /\ Len(w) \in Nat /\ Len(w) <= WarmLimit
            /\ ToSet(w) \subseteq X
<1> DEFINE r == Those(s, X)
<1>1. r \in Seq(Ids) /\ ToSet(r) = ToSet(s) \cap X
  BY ThoseProperties
<1> HIDE DEF r
<1>2. /\ Oldest(r) \in Seq(Ids) /\ Len(Oldest(r)) \in Nat
      /\ Len(Oldest(r)) <= WarmLimit /\ ToSet(Oldest(r)) \subseteq ToSet(r)
  BY <1>1, OldestProperties
<1> QED BY <1>1, <1>2 DEF r

\* The types of the persistent memory hold at first.
LEMMA MemTypeInit == MemInit => MemTypeOK
<1> SUFFICES ASSUME MemInit PROVE MemTypeOK
  OBVIOUS
<1> USE Limits DEF MemInit
<1>1. record \in Seq(RecordType) /\ Len(record) <= MaxRecords
  OBVIOUS
<1>2. /\ snaps \in Seq(SnapType) /\ Len(snaps) = 0
  OBVIOUS
<1>3. /\ latest \in [Agents -> 0 .. Len(snaps)] /\ chosen \in 0 .. Len(snaps)
  BY <1>2
<1>4. warm \in [Agents -> Seq(Ids)] /\ hot \in [Agents -> SUBSET Ids]
  OBVIOUS
<1>5. /\ {cold, disk, forgotten} \subseteq SUBSET Ids
      /\ todo \subseteq Ids /\ cut \subseteq Agents
  <2>1. /\ cold = {} /\ disk = {} /\ forgotten = {} /\ todo = {} /\ cut = {}
    OBVIOUS
  <2> QED BY <2>1
<1>8. faults \in 0 .. MaxFaults
  OBVIOUS
<1>9. torn \in BOOLEAN
  BY Zenon
<1>6. budget \in [Agents -> {0, AgentBudget, DefaultBudget}]
  OBVIOUS
<1>7. mode = "idle" /\ actor = Nobody
  OBVIOUS
<1> QED BY <1>1, <1>2, <1>3, <1>4, <1>5, <1>6, <1>7, <1>8, <1>9
        DEF MemTypeOK, RecordType, SnapType

\* A new record.
LEMMA Append1Type ==
  ASSUME MemTypeOK, NEW a \in Agents, NEW t \in TokenSizes,
         NEW p \in Importances, Append1(a, t, p)
  PROVE  /\ record' \in Seq(RecordType) /\ Len(record') <= MaxRecords
         /\ Len(record') = Len(record) + 1 /\ Len(record) \in Nat
         /\ \A i \in 1 .. Len(record) : record'[i] = record[i]
         /\ record'[Len(record) + 1] = NewRecord(a, t, p)
         /\ Len(record) + 1 \in Ids
         /\ budget' \in [Agents -> {0, AgentBudget, DefaultBudget}]
         /\ hot' \in [Agents -> SUBSET Ids]
<1>1. record \in Seq(RecordType) /\ Len(record) \in Nat
  BY DEF MemTypeOK, RecordType
<1>2. NewRecord(a, t, p) \in RecordType
  BY DEF NewRecord, RecordType
<1>3. Len(record) < MaxRecords /\ record' = Append(record, NewRecord(a, t, p))
  BY DEF Append1
<1>4. /\ record' \in Seq(RecordType) /\ Len(record') = Len(record) + 1
      /\ \A i \in 1 .. Len(record) : record'[i] = record[i]
      /\ record'[Len(record) + 1] = NewRecord(a, t, p)
  <2> HIDE DEF RecordType, NewRecord
  <2> QED BY <1>1, <1>2, <1>3, AppendProperties
<1>5. Len(record') <= MaxRecords /\ Len(record) + 1 \in Ids
  BY <1>1, <1>3, <1>4, Limits DEF Ids
<1>6. budget' \in [Agents -> {0, AgentBudget, DefaultBudget}]
  BY Limits DEF MemTypeOK, Append1, Known
<1>7. hot' \in [Agents -> SUBSET Ids]
  BY <1>5 DEF MemTypeOK, Append1
<1> QED BY <1>1, <1>4, <1>5, <1>6, <1>7

\* The tiers after a restore.
LEMMA LoadType ==
  ASSUME MemTypeOK, NEW a \in Agents, NEW s \in Owns(a), NEW h, Load(a, s, h)
  PROVE  /\ snaps[s] \in SnapType /\ s \in 1 .. Len(snaps)
         /\ hot' \in [Agents -> SUBSET Ids] /\ hot'[a] = snaps[s].hot
         /\ warm' \in [Agents -> Seq(Ids)]
         /\ Len(warm'[a]) \in Nat /\ Len(warm'[a]) <= WarmLimit
         /\ ToSet(warm'[a]) \subseteq cold
         /\ \A b \in Agents : b # a => hot'[b] = hot[b] /\ warm'[b] = warm[b]
<1>1. s \in 1 .. Len(snaps) /\ snaps[s] \in SnapType
  BY SnapIn DEF Owns
<1> DEFINE X == IF h THEN {} ELSE cold
           w == Oldest(Those(snaps[s].warm, X))
<1>2. snaps[s].warm \in Seq(Ids) /\ snaps[s].hot \in SUBSET Ids
  BY <1>1 DEF SnapType
<1>3. X \subseteq cold
  OBVIOUS
<1> HIDE DEF X
<1>4. /\ w \in Seq(Ids) /\ Len(w) \in Nat /\ Len(w) <= WarmLimit
      /\ ToSet(w) \subseteq X
  BY <1>2, LoadedProperties
<1>5. /\ hot' = [hot EXCEPT ![a] = snaps[s].hot] /\ warm' = [warm EXCEPT ![a] = w]
  BY DEF Load, X
<1> HIDE DEF w
<1>6. hot \in [Agents -> SUBSET Ids] /\ warm \in [Agents -> Seq(Ids)]
  BY DEF MemTypeOK
<1>7. hot' \in [Agents -> SUBSET Ids] /\ hot'[a] = snaps[s].hot
  BY <1>2, <1>5, <1>6
<1>8. warm' \in [Agents -> Seq(Ids)] /\ warm'[a] = w
  BY <1>4, <1>5, <1>6
<1>9. \A b \in Agents : b # a => hot'[b] = hot[b] /\ warm'[b] = warm[b]
  BY <1>5, <1>6
<1> QED BY <1>1, <1>3, <1>4, <1>7, <1>8, <1>9

\* The warm list of the agent whose record is evicted.
LEMMA EvictedType ==
  ASSUME MemTypeOK, NEW a \in Agents, NEW i \in Candidates(a)
  PROVE  /\ i \in Ids /\ i \in hot[a]
         /\ Append(warm[a], i) \in Seq(Ids)
         /\ Newest(Append(warm[a], i)) \in Seq(Ids)
         /\ Len(Append(warm[a], i)) = Len(warm[a]) + 1 /\ Len(warm[a]) \in Nat
         /\ Len(Newest(Append(warm[a], i))) \in Nat
         /\ Len(Newest(Append(warm[a], i))) <= WarmLimit
         /\ ToSet(Append(warm[a], i)) = ToSet(warm[a]) \cup {i}
         /\ ToSet(Newest(Append(warm[a], i))) \subseteq ToSet(warm[a]) \cup {i}
<1>1. i \in hot[a] /\ i \in Ids /\ warm[a] \in Seq(Ids)
  BY DEF MemTypeOK, Candidates
<1> DEFINE s == Append(warm[a], i)
<1>2. /\ s \in Seq(Ids) /\ Len(s) = Len(warm[a]) + 1 /\ Len(warm[a]) \in Nat
      /\ ToSet(s) = ToSet(warm[a]) \cup {i}
  BY <1>1, AppendToList
<1> HIDE DEF s
<1>3. /\ Newest(s) \in Seq(Ids) /\ Len(Newest(s)) \in Nat
      /\ Len(Newest(s)) <= WarmLimit /\ ToSet(Newest(s)) \subseteq ToSet(s)
  BY <1>2, NewestProperties
<1> QED BY <1>1, <1>2, <1>3 DEF s

\* Every call of the persistent memory, and every step inside one, keeps the
\* types.
LEMMA MemTypeStep ==
  ASSUME MemTypeOK, Provenance, Phases, MemNext
  PROVE  MemTypeOK'
<1> USE Limits DEF MemTypeOK, tiers, file, call, history
<1>1. ASSUME NEW a \in Agents, Register(a) PROVE MemTypeOK'
  BY <1>1 DEF Register, Idle
<1>2. ASSUME NEW a \in Agents, Unregister(a) PROVE MemTypeOK'
  BY <1>2 DEF Unregister, Idle
<1>3. ASSUME NEW a \in Agents, Snapshot(a) PROVE MemTypeOK'
  BY <1>3 DEF Snapshot, Idle, Known, Image
<1>4. ASSUME NEW a \in Agents, RestartByRecall(a) PROVE MemTypeOK'
  BY <1>4 DEF RestartByRecall, Begin, Best, Owned, Provenance
<1>5. ASSUME NEW a \in Agents, NEW t \in TokenSizes, NEW p \in Importances,
             Remember(a, t, p)
      PROVE  MemTypeOK'
  <2>1. Append1(a, t, p)
    BY <1>5 DEF Remember
  <2>2. /\ record' \in Seq(RecordType) /\ Len(record') <= MaxRecords
        /\ budget' \in [Agents -> {0, AgentBudget, DefaultBudget}]
        /\ hot' \in [Agents -> SUBSET Ids]
    BY <2>1, Append1Type
  <2> QED BY <1>5, <2>2 DEF Remember, Begin, RecordType
<1>6. ASSUME NEW a \in Agents, NEW s \in Owns(a), Restore(a, s)
      PROVE  MemTypeOK'
  <2>1. Load(a, s, FALSE)
    BY <1>6 DEF Restore
  <2>2. /\ hot' \in [Agents -> SUBSET Ids] /\ warm' \in [Agents -> Seq(Ids)]
        /\ s \in 1 .. Len(snaps)
    BY <2>1, LoadType
  <2>3. mode' = "evicting" /\ actor' = a /\ chosen' = s
    BY <2>1 DEF Load, Begin
  <2>4. chosen' \in 0 .. Len(snaps)
    BY <2>2, <2>3
  <2>5. budget' \in [Agents -> {0, AgentBudget, DefaultBudget}]
    BY <1>6 DEF Restore, Known
  <2> QED BY <1>6, <2>2, <2>3, <2>4, <2>5 DEF Restore
<1>7. ASSUME NEW a \in Agents, NEW h, RestartFromSnapshot(a, h)
      PROVE  MemTypeOK'
  <2> DEFINE s == RestartFrom(a)
  <2>1. s \in Owns(a) /\ Load(a, s, h)
    BY <1>7, RestartFromOwns DEF RestartFromSnapshot
  <2> HIDE DEF s
  <2>2. /\ hot' \in [Agents -> SUBSET Ids] /\ warm' \in [Agents -> Seq(Ids)]
        /\ s \in 1 .. Len(snaps)
    BY <2>1, LoadType
  <2>3. mode' = "evicting" /\ actor' = a /\ chosen' = s
    BY <2>1 DEF Load, Begin
  <2>4. chosen' \in 0 .. Len(snaps)
    BY <2>2, <2>3
  <2>5. /\ budget' \in [Agents -> {0, AgentBudget, DefaultBudget}]
        /\ latest' \in [Agents -> 0 .. Len(snaps)] /\ cut' \subseteq Agents
    BY <1>7 DEF RestartFromSnapshot
  <2> QED BY <1>7, <2>2, <2>3, <2>4, <2>5 DEF RestartFromSnapshot
<1>8. ASSUME NEW i \in Ids, Forget(i) PROVE MemTypeOK'
  <2>1. \A a \in Agents : Without(warm[a], i) \in Seq(Ids)
    BY WithoutProperties
  <2> QED BY <1>8, <2>1 DEF Forget
<1>9. CASE Evict
  <2>1. actor \in Agents
    BY <1>9 DEF Evict, Phases
  <2>2. PICK i \in Candidates(actor) :
          /\ Move(i) /\ disk' = disk \cup {i}
          /\ warm' = [warm EXCEPT ![actor] = Newest(Append(@, i))]
    BY <1>9 DEF Evict
  <2>3. i \in Ids /\ Newest(Append(warm[actor], i)) \in Seq(Ids)
    BY <2>1, EvictedType
  <2> QED BY <1>9, <2>1, <2>2, <2>3 DEF Evict, Move
<1>10. CASE EvictFails
  <2>1. actor \in Agents
    BY <1>10 DEF EvictFails, Phases
  <2>2. PICK i \in Candidates(actor) :
          Move(i) /\ warm' = [warm EXCEPT ![actor] = Append(@, i)]
    BY <1>10 DEF EvictFails
  <2>3. i \in Ids /\ Append(warm[actor], i) \in Seq(Ids)
    BY <2>1, EvictedType
  <2>4. faults' \in 0 .. MaxFaults /\ cut' \subseteq Agents
    BY <1>10, <2>1 DEF EvictFails
  <2>5. mode' \in {"idle", "copying"} /\ actor' \in Agents \cup {Nobody}
    BY <1>10 DEF EvictFails, End, AfterEviction
  <2>6. /\ hot' \in [Agents -> SUBSET Ids] /\ warm' \in [Agents -> Seq(Ids)]
        /\ cold' \in SUBSET Ids
    BY <2>1, <2>2, <2>3 DEF Move
  <2>8. torn' \in BOOLEAN
    BY <1>10, Zenon DEF EvictFails
  <2>7. /\ chosen' \in 0 .. Len(snaps) /\ snaps' = snaps
        /\ record' = record /\ budget' = budget /\ disk' = disk
        /\ latest' = latest /\ todo' = todo /\ forgotten' = forgotten
    BY <1>10 DEF EvictFails
  <2> QED BY <2>4, <2>5, <2>6, <2>7, <2>8
<1>11. CASE WithinAgain
  <2>1. mode' \in {"idle", "copying"} /\ actor' \in Agents \cup {Nobody}
    BY <1>11 DEF WithinAgain, End, AfterEviction
  <2>2. Len(snaps) \in Nat /\ 0 \in 0 .. Len(snaps)
    OBVIOUS
  <2>3. /\ latest' = [latest EXCEPT ![actor] = IF chosen = 0 THEN @ ELSE chosen]
        /\ chosen' = 0
    BY <1>11 DEF WithinAgain
  <2>4. latest' \in [Agents -> 0 .. Len(snaps)] /\ chosen' \in 0 .. Len(snaps)
    BY <2>2, <2>3
  <2> QED BY <1>11, <2>1, <2>4 DEF WithinAgain
<1>12. CASE Truncate
  BY <1>12 DEF Truncate
<1>13. CASE WriteBack
  BY <1>13 DEF WriteBack
<1>14. CASE RewriteFails
  BY <1>14 DEF RewriteFails
<1>15. CASE Copy
  <2>1. PICK i \in todo :
          /\ Append1(actor, record[i].tokens, record[i].importance)
          /\ todo' = todo \ {i}
    BY <1>15 DEF Copy
  <2>2. record[i] \in RecordType
    <3>1. i \in 1 .. Len(record)
      BY DEF Provenance, Given
    <3> QED BY <3>1, RecordIn
  <2>3. actor \in Agents
    BY <1>15 DEF Copy, Phases
  <2>4. record[i].tokens \in TokenSizes /\ record[i].importance \in Importances
    BY <2>2 DEF RecordType
  <2>5. /\ record' \in Seq(RecordType) /\ Len(record') <= MaxRecords
        /\ budget' \in [Agents -> {0, AgentBudget, DefaultBudget}]
        /\ hot' \in [Agents -> SUBSET Ids]
    BY <2>1, <2>3, <2>4, Append1Type
  <2> QED BY <1>15, <2>1, <2>5 DEF Copy, RecordType
<1>16. CASE CopiesDone
  BY <1>16 DEF CopiesDone, End
<1>17. CASE Crash
  <2>1. disk' \in SUBSET Ids /\ torn' \in BOOLEAN
    BY <1>17 DEF Crash
  <2>2. faults' \in 0 .. MaxFaults
    BY <1>17 DEF Crash
  <2> QED BY <1>17, <2>1, <2>2 DEF Crash
<1>18. CASE Boot
  BY <1>18 DEF Boot
<1> QED
  BY <1>1, <1>2, <1>3, <1>4, <1>5, <1>6, <1>7, <1>8, <1>9, <1>10, <1>11,
     <1>12, <1>13, <1>14, <1>15, <1>16, <1>17, <1>18 DEF MemNext

\* The empty list.
LEMMA EmptyList == ToSet(<<>>) = {} /\ Len(<<>>) = 0
BY DEF ToSet

\* The tiers have their types.
LEMMA TiersType ==
  ASSUME MemTypeOK
  PROVE  /\ hot \in [Agents -> SUBSET Ids] /\ warm \in [Agents -> Seq(Ids)]
         /\ faults \in Nat /\ WarmLimit + faults \in Nat
         /\ \A a \in Agents : Len(warm[a]) \in Nat
<1>1. hot \in [Agents -> SUBSET Ids] /\ warm \in [Agents -> Seq(Ids)]
  BY DEF MemTypeOK
<1>2. faults \in Nat /\ WarmLimit \in Nat
  BY Limits DEF MemTypeOK
<1>3. \A a \in Agents : warm[a] \in Seq(Ids)
  BY <1>1
<1>4. WarmLimit + faults \in Nat
  BY <1>2
<1> QED BY <1>1, <1>2, <1>3, <1>4

\* A new record belongs to the agent that gave it, and no other changes.
LEMMA Append1Owned ==
  ASSUME MemTypeOK, NEW a \in Agents, NEW t \in TokenSizes,
         NEW p \in Importances, Append1(a, t, p)
  PROVE  /\ \A b : Owned(b) \subseteq Owned(b)'
         /\ Len(record) + 1 \in Owned(a)'
         /\ Given' = Given \cup {Len(record) + 1}
         /\ Len(record) + 1 \notin Given
         /\ hot'[a] = hot[a] \cup {Len(record) + 1}
         /\ \A b \in Agents : b # a => hot'[b] = hot[b]
<1>1. /\ Len(record') = Len(record) + 1 /\ Len(record) \in Nat
      /\ \A i \in 1 .. Len(record) : record'[i] = record[i]
      /\ record'[Len(record) + 1] = NewRecord(a, t, p)
  BY Append1Type
<1>2. \A b : Owned(b) \subseteq Owned(b)'
  BY <1>1 DEF Owned
<1>3. Len(record) + 1 \in Owned(a)'
  BY <1>1 DEF Owned, NewRecord
<1>4. Given' = Given \cup {Len(record) + 1} /\ Len(record) + 1 \notin Given
  BY <1>1 DEF Given
<1>5. /\ hot'[a] = hot[a] \cup {Len(record) + 1}
      /\ \A b \in Agents : b # a => hot'[b] = hot[b]
  BY DEF Append1, MemTypeOK
<1> QED BY <1>2, <1>3, <1>4, <1>5

\* A copy is a new record of the agent that restarts.
LEMMA CopyAppends ==
  ASSUME MemTypeOK, Provenance, Phases, Copy
  PROVE  \E a \in Agents, t \in TokenSizes, p \in Importances :
           a = actor /\ Append1(a, t, p) /\ todo' \subseteq todo
<1>1. PICK i \in todo :
        /\ Append1(actor, record[i].tokens, record[i].importance)
        /\ todo' = todo \ {i}
  BY DEF Copy
<1>2. record[i] \in RecordType
  <2>1. i \in 1 .. Len(record)
    BY DEF Provenance, Given
  <2> QED BY <2>1, RecordIn
<1>3. actor \in Agents
  BY DEF Copy, Phases
<1>4. record[i].tokens \in TokenSizes /\ record[i].importance \in Importances
  BY <1>2 DEF RecordType
<1> QED BY <1>1, <1>3, <1>4

\* What an eviction does, whether its write succeeds or not.
LEMMA EvictMoves ==
  ASSUME MemTypeOK, Phases, Evict \/ EvictFails
  PROVE  /\ actor \in Agents
         /\ \E i \in hot[actor] :
              /\ hot' = [hot EXCEPT ![actor] = @ \ {i}] /\ cold' = cold \cup {i}
              /\ disk' \in {disk, disk \cup {i}} /\ (Evict => disk' = disk \cup {i})
              /\ EvictFails => disk' = disk
              /\ i \in Ids
              /\ warm' \in [Agents -> Seq(Ids)]
              /\ ToSet(warm'[actor]) \subseteq ToSet(warm[actor]) \cup {i}
              /\ Evict => Len(warm'[actor]) <= WarmLimit
              /\ EvictFails => Len(warm'[actor]) = Len(warm[actor]) + 1
              /\ \A b \in Agents : b # actor => warm'[b] = warm[b]
<1>1. actor \in Agents
  BY DEF Evict, EvictFails, Phases
<1>2. warm \in [Agents -> Seq(Ids)]
  BY DEF MemTypeOK
<1>3. CASE Evict
  <2>1. PICK i \in Candidates(actor) :
          /\ Move(i) /\ disk' = disk \cup {i}
          /\ warm' = [warm EXCEPT ![actor] = Newest(Append(@, i))]
    BY <1>3 DEF Evict
  <2> DEFINE w == Newest(Append(warm[actor], i))
  <2>2. /\ i \in Ids /\ i \in hot[actor] /\ w \in Seq(Ids) /\ Len(w) <= WarmLimit
        /\ ToSet(w) \subseteq ToSet(warm[actor]) \cup {i}
    BY <1>1, EvictedType
  <2>3. warm' = [warm EXCEPT ![actor] = w]
    BY <2>1
  <2> HIDE DEF w
  <2>4. warm' \in [Agents -> Seq(Ids)] /\ warm'[actor] = w
        /\ \A b \in Agents : b # actor => warm'[b] = warm[b]
    BY <1>1, <1>2, <2>2, <2>3
  <2>5. ~ EvictFails
    BY <1>3, TiersType DEF Evict, EvictFails, history
  <2> QED BY <1>1, <1>3, <2>1, <2>2, <2>4, <2>5 DEF Move
<1>4. CASE EvictFails
  <2>1. PICK i \in Candidates(actor) :
          Move(i) /\ warm' = [warm EXCEPT ![actor] = Append(@, i)]
    BY <1>4 DEF EvictFails
  <2> DEFINE w == Append(warm[actor], i)
  <2>2. /\ i \in Ids /\ i \in hot[actor] /\ w \in Seq(Ids)
        /\ Len(w) = Len(warm[actor]) + 1
        /\ ToSet(w) \subseteq ToSet(warm[actor]) \cup {i}
    BY <1>1, EvictedType
  <2>3. warm' = [warm EXCEPT ![actor] = w]
    BY <2>1
  <2> HIDE DEF w
  <2>4. warm' \in [Agents -> Seq(Ids)] /\ warm'[actor] = w
        /\ \A b \in Agents : b # actor => warm'[b] = warm[b]
    BY <1>1, <1>2, <2>2, <2>3
  <2>5. ~ Evict
    BY <1>4, TiersType DEF Evict, EvictFails
  <2>6. disk' = disk
    BY <1>4 DEF EvictFails
  <2> QED BY <1>1, <1>4, <2>1, <2>2, <2>4, <2>5, <2>6 DEF Move
<1> QED BY <1>3, <1>4

\* The phases of a call follow each other as they should.
LEMMA PhasesStep ==
  ASSUME MemTypeOK, Phases, MemNext
  PROVE  Phases'
<1> USE Limits DEF tiers, file, call, history, MemTypeOK, Phases
<1>1. ASSUME NEW a \in Agents, Register(a) PROVE Phases'
  BY <1>1 DEF Register, Idle
<1>2. ASSUME NEW a \in Agents, Unregister(a) PROVE Phases'
  BY <1>2 DEF Unregister, Idle
<1>3. ASSUME NEW a \in Agents, Snapshot(a) PROVE Phases'
  BY <1>3 DEF Snapshot, Idle, Known, Image
<1>4. ASSUME NEW a \in Agents, RestartByRecall(a) PROVE Phases'
  BY <1>4 DEF RestartByRecall, Begin, Best
<1>5. ASSUME NEW a \in Agents, NEW t \in TokenSizes, NEW p \in Importances,
             Remember(a, t, p)
      PROVE Phases'
  BY <1>5 DEF Remember, Begin
<1>6. ASSUME NEW a \in Agents, NEW s \in Owns(a), Restore(a, s) PROVE Phases'
  BY <1>6 DEF Restore, Load, Begin
<1>7. ASSUME NEW a \in Agents, NEW h, RestartFromSnapshot(a, h) PROVE Phases'
  BY <1>7 DEF RestartFromSnapshot, Load, Begin
<1>8. ASSUME NEW i \in Ids, Forget(i) PROVE Phases'
  BY <1>8 DEF Forget
<1>9. CASE Evict
  BY <1>9 DEF Evict, Move
<1>10. CASE EvictFails
  BY <1>10 DEF EvictFails, Move, End, AfterEviction
<1>11. CASE WithinAgain
  BY <1>11 DEF WithinAgain, End, AfterEviction
<1>12. CASE Truncate
  BY <1>12 DEF Truncate
<1>13. CASE WriteBack
  BY <1>13 DEF WriteBack
<1>14. CASE RewriteFails
  BY <1>14 DEF RewriteFails
<1>15. CASE Copy
  BY <1>15 DEF Copy
<1>16. CASE CopiesDone
  BY <1>16 DEF CopiesDone, End
<1>17. CASE Crash
  BY <1>17 DEF Crash
<1>18. CASE Boot
  BY <1>18 DEF Boot
<1> QED
  BY <1>1, <1>2, <1>3, <1>4, <1>5, <1>6, <1>7, <1>8, <1>9, <1>10, <1>11,
     <1>12, <1>13, <1>14, <1>15, <1>16, <1>17, <1>18 DEF MemNext

\* A warm record never leaves the index without leaving the warm list, and the
\* list grows past its limit by failed writes only.
LEMMA IndexedStep ==
  ASSUME MemTypeOK, Provenance, Phases, Indexed, MemNext
  PROVE  Indexed'
<1> USE Limits DEF tiers, file, call, history, Indexed
<1>1. ASSUME NEW a \in Agents, Register(a) PROVE Indexed'
  <2> SUFFICES ASSUME NEW b \in Agents
               PROVE  ToSet(warm'[b]) \subseteq cold' /\ Len(warm'[b]) <= WarmLimit + faults'
    OBVIOUS
  <2>1. cold' = cold /\ faults' = faults /\ warm' = [warm EXCEPT ![a] = <<>>]
    BY <1>1 DEF Register, Idle
  <2>2. CASE b = a
    <3>1. warm'[b] = <<>>
      BY <2>1, <2>2, TiersType
    <3> QED BY <2>1, <3>1, EmptyList, TiersType
  <2>3. CASE b # a
    <3>1. warm'[b] = warm[b]
      BY <2>1, <2>3, TiersType
    <3> QED BY <2>1, <3>1
  <2> QED BY <2>2, <2>3
<1>2. ASSUME NEW a \in Agents, Unregister(a) PROVE Indexed'
  <2> SUFFICES ASSUME NEW b \in Agents
               PROVE  ToSet(warm'[b]) \subseteq cold' /\ Len(warm'[b]) <= WarmLimit + faults'
    OBVIOUS
  <2>1. cold' = cold /\ faults' = faults /\ warm' = [warm EXCEPT ![a] = <<>>]
    BY <1>2 DEF Unregister, Idle
  <2>2. CASE b = a
    <3>1. warm'[b] = <<>>
      BY <2>1, <2>2, TiersType
    <3> QED BY <2>1, <3>1, EmptyList, TiersType
  <2>3. CASE b # a
    <3>1. warm'[b] = warm[b]
      BY <2>1, <2>3, TiersType
    <3> QED BY <2>1, <3>1
  <2> QED BY <2>2, <2>3
<1>3. ASSUME NEW a \in Agents, Snapshot(a) PROVE Indexed'
  BY <1>3 DEF Snapshot, Idle, Known, Image
<1>4. ASSUME NEW a \in Agents, RestartByRecall(a) PROVE Indexed'
  <2> SUFFICES ASSUME NEW b \in Agents
               PROVE  ToSet(warm'[b]) \subseteq cold' /\ Len(warm'[b]) <= WarmLimit + faults'
    OBVIOUS
  <2>1. cold' = cold /\ faults' = faults /\ warm' = [warm EXCEPT ![a] = <<>>]
    BY <1>4 DEF RestartByRecall, Begin, Best
  <2>2. CASE b = a
    <3>1. warm'[b] = <<>>
      BY <2>1, <2>2, TiersType
    <3> QED BY <2>1, <3>1, EmptyList, TiersType
  <2>3. CASE b # a
    <3>1. warm'[b] = warm[b]
      BY <2>1, <2>3, TiersType
    <3> QED BY <2>1, <3>1
  <2> QED BY <2>2, <2>3
<1>5. ASSUME NEW a \in Agents, NEW t \in TokenSizes, NEW p \in Importances,
             Remember(a, t, p)
      PROVE Indexed'
  BY <1>5 DEF Remember, Begin
<1>6. ASSUME NEW a \in Agents, NEW s \in Owns(a), Restore(a, s) PROVE Indexed'
  <2>1. s \in Owns(a) /\ Load(a, s, FALSE)
    BY <1>6 DEF Restore
  <2>3. cold' = cold /\ faults' = faults
    BY <1>6 DEF Restore, Load, Begin
  <2> SUFFICES ASSUME NEW b \in Agents
               PROVE  ToSet(warm'[b]) \subseteq cold' /\ Len(warm'[b]) <= WarmLimit + faults'
    OBVIOUS
  <2>4. CASE b = a
    <3>1. /\ Len(warm'[a]) \in Nat /\ Len(warm'[a]) <= WarmLimit
          /\ ToSet(warm'[a]) \subseteq cold
      BY <2>1, LoadType
    <3> QED BY <2>3, <2>4, <3>1, TiersType
  <2>5. CASE b # a
    <3>1. warm'[b] = warm[b]
      BY <2>1, <2>5, LoadType
    <3> QED BY <2>3, <3>1
  <2> QED BY <2>4, <2>5
<1>7. ASSUME NEW a \in Agents, NEW h, RestartFromSnapshot(a, h) PROVE Indexed'
  <2> DEFINE s == RestartFrom(a)
  <2>1. s \in Owns(a) /\ Load(a, s, h)
    BY <1>7, RestartFromOwns DEF RestartFromSnapshot
  <2> HIDE DEF s
  <2>3. cold' = cold /\ faults' = faults
    BY <1>7 DEF RestartFromSnapshot, Load, Begin
  <2> SUFFICES ASSUME NEW b \in Agents
               PROVE  ToSet(warm'[b]) \subseteq cold' /\ Len(warm'[b]) <= WarmLimit + faults'
    OBVIOUS
  <2>4. CASE b = a
    <3>1. /\ Len(warm'[a]) \in Nat /\ Len(warm'[a]) <= WarmLimit
          /\ ToSet(warm'[a]) \subseteq cold
      BY <2>1, LoadType
    <3> QED BY <2>3, <2>4, <3>1, TiersType
  <2>5. CASE b # a
    <3>1. warm'[b] = warm[b]
      BY <2>1, <2>5, LoadType
    <3> QED BY <2>3, <3>1
  <2> QED BY <2>4, <2>5
<1>8. ASSUME NEW i \in Ids, Forget(i) PROVE Indexed'
  <2>1. cold' = cold \ {i} /\ faults' = faults
        /\ \A b \in Agents : warm'[b] = Without(warm[b], i)
    BY <1>8 DEF Forget
  <2> SUFFICES ASSUME NEW b \in Agents
               PROVE  ToSet(warm'[b]) \subseteq cold' /\ Len(warm'[b]) <= WarmLimit + faults'
    OBVIOUS
  <2>2. warm[b] \in Seq(Ids)
    BY TiersType
  <2>3. /\ ToSet(Without(warm[b], i)) = ToSet(warm[b]) \ {i}
        /\ Len(Without(warm[b], i)) \in Nat /\ Len(Without(warm[b], i)) <= Len(warm[b])
    BY <2>2, WithoutProperties
  <2>4. Len(Without(warm[b], i)) <= WarmLimit + faults
    BY <2>3, TiersType
  <2> QED BY <2>1, <2>3, <2>4
<1>9. CASE Evict
  <2>1. PICK i \in hot[actor] :
          /\ cold' = cold \cup {i} /\ warm' \in [Agents -> Seq(Ids)]
          /\ ToSet(warm'[actor]) \subseteq ToSet(warm[actor]) \cup {i}
          /\ Len(warm'[actor]) <= WarmLimit
          /\ \A b \in Agents : b # actor => warm'[b] = warm[b]
    BY <1>9, EvictMoves
  <2>2. actor \in Agents
    BY <1>9, EvictMoves
  <2>3. faults' = faults /\ faults \in Nat /\ WarmLimit \in Nat
    BY <1>9, TiersType DEF Evict, EvictFails
  <2> SUFFICES ASSUME NEW b \in Agents
               PROVE  ToSet(warm'[b]) \subseteq cold' /\ Len(warm'[b]) <= WarmLimit + faults'
    OBVIOUS
  <2>5. Len(warm'[b]) \in Nat /\ Len(warm[b]) \in Nat
    BY <2>1, TiersType
  <2>6. ToSet(warm[b]) \subseteq cold /\ Len(warm[b]) <= WarmLimit + faults
    OBVIOUS
  <2>7. CASE b = actor
    <3>1. ToSet(warm'[b]) \subseteq cold'
      BY <2>1, <2>6, <2>7
    <3>2. Len(warm'[b]) <= WarmLimit + faults'
      BY <2>1, <2>3, <2>5, <2>6, <2>7
    <3> QED BY <3>1, <3>2
  <2>8. CASE b # actor
    <3>1. warm'[b] = warm[b]
      BY <2>1, <2>8
    <3>2. Len(warm'[b]) <= WarmLimit + faults'
      BY <3>1, <2>3, <2>5, <2>6
    <3> QED BY <3>1, <3>2, <2>1, <2>6
  <2> QED BY <2>7, <2>8
<1>10. CASE EvictFails
  <2>1. PICK i \in hot[actor] :
          /\ cold' = cold \cup {i} /\ warm' \in [Agents -> Seq(Ids)]
          /\ ToSet(warm'[actor]) \subseteq ToSet(warm[actor]) \cup {i}
          /\ Len(warm'[actor]) = Len(warm[actor]) + 1
          /\ \A b \in Agents : b # actor => warm'[b] = warm[b]
    BY <1>10, EvictMoves
  <2>2. actor \in Agents
    BY <1>10, EvictMoves
  <2>3. faults' = faults + 1 /\ faults \in Nat /\ WarmLimit \in Nat
    BY <1>10, TiersType DEF Evict, EvictFails
  <2> SUFFICES ASSUME NEW b \in Agents
               PROVE  ToSet(warm'[b]) \subseteq cold' /\ Len(warm'[b]) <= WarmLimit + faults'
    OBVIOUS
  <2>5. Len(warm'[b]) \in Nat /\ Len(warm[b]) \in Nat
    BY <2>1, TiersType
  <2>6. ToSet(warm[b]) \subseteq cold /\ Len(warm[b]) <= WarmLimit + faults
    OBVIOUS
  <2>7. CASE b = actor
    <3>1. ToSet(warm'[b]) \subseteq cold'
      BY <2>1, <2>6, <2>7
    <3>2. Len(warm'[b]) <= WarmLimit + faults'
      BY <2>1, <2>3, <2>5, <2>6, <2>7
    <3> QED BY <3>1, <3>2
  <2>8. CASE b # actor
    <3>1. warm'[b] = warm[b]
      BY <2>1, <2>8
    <3>2. Len(warm'[b]) <= WarmLimit + faults'
      BY <3>1, <2>3, <2>5, <2>6
    <3> QED BY <3>1, <3>2, <2>1, <2>6
  <2> QED BY <2>7, <2>8
<1>11. CASE WithinAgain
  BY <1>11 DEF WithinAgain, End, AfterEviction
<1>12. CASE Truncate
  BY <1>12 DEF Truncate
<1>13. CASE WriteBack
  BY <1>13 DEF WriteBack
<1>14. CASE RewriteFails
  <2>1. warm' = warm /\ cold' = cold /\ faults' = faults + 1
    BY <1>14 DEF RewriteFails
  <2>2. faults \in Nat /\ \A b \in Agents : Len(warm[b]) \in Nat
    BY TiersType
  <2>3. \A b \in Agents : Len(warm[b]) <= WarmLimit + (faults + 1)
    BY <2>2
  <2> QED BY <2>1, <2>3
<1>15. CASE Copy
  BY <1>15 DEF Copy
<1>16. CASE CopiesDone
  BY <1>16 DEF CopiesDone, End
<1>17. CASE Crash
  <2>1. \A b \in Agents : warm'[b] = <<>>
    BY <1>17, TiersType DEF Crash
  <2>2. faults' \in Nat
    BY <1>17, TiersType DEF Crash
  <2>3. ToSet(<<>>) \subseteq cold' /\ Len(<<>>) <= WarmLimit + faults'
    <3>1. WarmLimit \in Nat
      OBVIOUS
    <3>2. \A n \in Nat : Len(<<>>) <= WarmLimit + n
      BY <3>1, EmptyList
    <3>3. Len(<<>>) <= WarmLimit + faults'
      BY <2>2, <3>2, Zenon
    <3> QED BY <3>3, EmptyList
  <2> QED BY <2>1, <2>3
<1>18. CASE Boot
  <2>1. \A b \in Agents : warm[b] = <<>>
    BY <1>18 DEF Boot, Phases
  <2>2. warm' = warm /\ faults' = faults
    BY <1>18 DEF Boot
  <2>3. ToSet(<<>>) \subseteq cold' /\ Len(<<>>) <= WarmLimit + faults'
    BY <2>2, EmptyList, TiersType
  <2> QED BY <2>1, <2>2, <2>3
<1> QED
  BY <1>1, <1>2, <1>3, <1>4, <1>5, <1>6, <1>7, <1>8, <1>9, <1>10, <1>11,
     <1>12, <1>13, <1>14, <1>15, <1>16, <1>17, <1>18 DEF MemNext


\* A new snapshot keeps the hot records of its agent.
LEMMA SnapshotKeeps ==
  ASSUME MemTypeOK, NEW a \in Agents, Snapshot(a)
  PROVE  /\ Len(snaps') = Len(snaps) + 1 /\ Len(snaps) \in Nat
         /\ \A s \in 1 .. Len(snaps) : snaps'[s] = snaps[s]
         /\ snaps'[Len(snaps) + 1] = Image(a)
         /\ Kept' = Kept \cup hot[a]
<1>1. snaps \in Seq(SnapType) /\ Len(snaps) \in Nat
  BY DEF MemTypeOK, SnapType
<1>2. Image(a) \in SnapType /\ Image(a).hot = hot[a]
  BY DEF MemTypeOK, SnapType, Image
<1>3. snaps' = Append(snaps, Image(a))
  BY DEF Snapshot
<1>4. /\ Len(snaps') = Len(snaps) + 1
      /\ \A s \in 1 .. Len(snaps) : snaps'[s] = snaps[s]
      /\ snaps'[Len(snaps) + 1] = Image(a)
  <2> HIDE DEF SnapType, Image
  <2> QED BY <1>1, <1>2, <1>3, AppendProperties
<1>5. 1 .. Len(snaps') = 1 .. Len(snaps) \cup {Len(snaps) + 1}
  BY <1>1, <1>4
<1>6. Kept' = Kept \cup hot[a]
  <2> HIDE DEF Image
  <2> QED BY <1>2, <1>4, <1>5 DEF Kept
<1> QED BY <1>1, <1>4, <1>6

\* What a snapshot holds is kept.
LEMMA KeptHas ==
  ASSUME NEW a, NEW s \in Owns(a)
  PROVE  snaps[s].hot \subseteq Kept /\ snaps[s].owner = a
BY DEF Owns, Kept

\* No call makes a record of one agent the hot record of another.
LEMMA ProvenanceStep ==
  ASSUME MemTypeOK, Provenance, Phases, MemNext
  PROVE  Provenance'
<1> USE Limits DEF tiers, file, call, history, Provenance
<1>1. ASSUME NEW a \in Agents, Register(a) PROVE Provenance'
  BY <1>1 DEF Register, Idle, Owned, Given
<1>2. ASSUME NEW a \in Agents, Unregister(a) PROVE Provenance'
  BY <1>2 DEF Unregister, Idle, Owned, Given
<1>3. ASSUME NEW a \in Agents, Snapshot(a) PROVE Provenance'
  <2>1. /\ Len(snaps') = Len(snaps) + 1 /\ Len(snaps) \in Nat
        /\ \A s \in 1 .. Len(snaps) : snaps'[s] = snaps[s]
        /\ snaps'[Len(snaps) + 1] = Image(a)
    BY <1>3, SnapshotKeeps
  <2>2. record' = record /\ hot' = hot
    BY <1>3 DEF Snapshot
  <2>3. Given' = Given /\ \A b : Owned(b)' = Owned(b)
    BY <2>2 DEF Owned, Given
  <2>4. Image(a).owner = a /\ Image(a).hot \subseteq Owned(a)
    BY DEF Image
  <2>5. \A s \in 1 .. Len(snaps') : s \in 1 .. Len(snaps) \/ s = Len(snaps) + 1
    BY <2>1
  <2> HIDE DEF Image
  <2>6. (\A s \in 1 .. Len(snaps) : snaps[s].hot \subseteq Owned(snaps[s].owner))'
    BY <2>1, <2>2, <2>4, <2>5 DEF Owned
  <2>7. latest \in [Agents -> 0 .. Len(snaps)] /\ chosen \in 0 .. Len(snaps)
    BY DEF MemTypeOK
  <2>8. \A b \in Agents : latest'[b] # 0 => snaps'[latest'[b]].owner = b
    <3> SUFFICES ASSUME NEW b \in Agents, latest'[b] # 0
                 PROVE  snaps'[latest'[b]].owner = b
      OBVIOUS
    <3>1. CASE b = a
      <4>1. latest'[b] = Len(snaps) + 1
        BY <1>3, <2>1, <2>7, <3>1 DEF Snapshot
      <4> QED BY <4>1, <2>1, <2>4, <3>1
    <3>2. CASE b # a
      <4>1. latest'[b] = latest[b] /\ latest[b] \in 1 .. Len(snaps)
        BY <1>3, <2>1, <2>7, <3>2 DEF Snapshot
      <4> QED BY <4>1, <2>1
    <3> QED BY <3>1, <3>2
  <2>9. chosen' = 0
    BY <1>3 DEF Snapshot, Idle
  <2>10. (cold \cup disk \cup forgotten \cup todo)' \subseteq Given'
    BY <1>3, <2>3 DEF Snapshot, Idle
  <2> QED BY <2>2, <2>3, <2>6, <2>8, <2>9, <2>10
<1>4. ASSUME NEW a \in Agents, RestartByRecall(a) PROVE Provenance'
  BY <1>4 DEF RestartByRecall, Begin, Best, Owned, Given
<1>5. ASSUME NEW a \in Agents, NEW t \in TokenSizes, NEW p \in Importances,
             Remember(a, t, p)
      PROVE Provenance'
  <2>1. Append1(a, t, p)
    BY <1>5 DEF Remember
  <2>2. /\ \A b : Owned(b) \subseteq Owned(b)'
        /\ Len(record) + 1 \in Owned(a)'
        /\ Given' = Given \cup {Len(record) + 1}
        /\ hot'[a] = hot[a] \cup {Len(record) + 1}
        /\ \A b \in Agents : b # a => hot'[b] = hot[b]
    BY <2>1, Append1Owned
  <2>3. \A b \in Agents : hot'[b] \subseteq Owned(b)'
    BY <2>2
  <2>4. (cold \cup disk \cup forgotten \cup todo)' \subseteq Given'
    BY <1>5, <2>1, <2>2 DEF Remember, Begin
  <2>5. /\ snaps' = snaps /\ latest' = latest /\ chosen' = chosen
        /\ mode # "evicting"
    BY <1>5 DEF Remember, Begin
  <2>6. (\A s \in 1 .. Len(snaps) : snaps[s].hot \subseteq Owned(snaps[s].owner))'
    <3>1. \A s \in 1 .. Len(snaps) : Owned(snaps[s].owner) \subseteq
                                        {j \in 1 .. Len(record') : record'[j].owner = snaps[s].owner}
      <4>1. /\ Len(record') = Len(record) + 1 /\ Len(record) \in Nat
            /\ \A i \in 1 .. Len(record) : record'[i] = record[i]
        BY <2>1, Append1Type
      <4> QED BY <4>1 DEF Owned
    <3> QED BY <3>1, <2>5 DEF Owned
  <2> QED BY <2>2, <2>3, <2>4, <2>5, <2>6
<1>6. ASSUME NEW a \in Agents, NEW s \in Owns(a), Restore(a, s) PROVE Provenance'
  <2>1. s \in Owns(a) /\ Load(a, s, FALSE)
    BY <1>6 DEF Restore
  <2>2. /\ hot'[a] = snaps[s].hot /\ s \in 1 .. Len(snaps)
        /\ \A b \in Agents : b # a => hot'[b] = hot[b]
    BY <2>1, LoadType
  <2>3. snaps[s].owner = a
    BY <2>1 DEF Owns
  <2>4. mode' = "evicting" /\ actor' = a /\ chosen' = s
    BY <2>1 DEF Load, Begin
  <2>5. record' = record /\ snaps' = snaps
    BY <1>6 DEF Restore, Load, Begin
  <2>6. Owned(a)' = Owned(a) /\ \A b \in Agents : Owned(b)' = Owned(b)
    BY <2>5 DEF Owned
  <2>7. \A b \in Agents : hot'[b] \subseteq Owned(b)'
    BY <2>2, <2>3, <2>6
  <2>8. (cold \cup disk \cup forgotten \cup todo)' \subseteq Given'
    BY <1>6, <2>5 DEF Restore, Load, Begin, Given
  <2>9. \A b \in Agents : latest'[b] # 0 => latest'[b] = latest[b]
    BY <1>6 DEF Restore, Load, Begin, MemTypeOK
  <2>10. (\A r \in 1 .. Len(snaps) : snaps[r].hot \subseteq Owned(snaps[r].owner))'
    BY <2>5 DEF Owned
  <2> QED BY <2>3, <2>4, <2>5, <2>7, <2>8, <2>9, <2>10
<1>7. ASSUME NEW a \in Agents, NEW h, RestartFromSnapshot(a, h) PROVE Provenance'
  <2> DEFINE s == RestartFrom(a)
  <2>1. s \in Owns(a) /\ Load(a, s, h)
    BY <1>7, RestartFromOwns DEF RestartFromSnapshot
  <2> HIDE DEF s
  <2>2. /\ hot'[a] = snaps[s].hot /\ s \in 1 .. Len(snaps)
        /\ \A b \in Agents : b # a => hot'[b] = hot[b]
    BY <2>1, LoadType
  <2>3. snaps[s].owner = a
    BY <2>1 DEF Owns
  <2>4. mode' = "evicting" /\ actor' = a /\ chosen' = s
    BY <2>1 DEF Load, Begin
  <2>5. record' = record /\ snaps' = snaps
    BY <1>7 DEF RestartFromSnapshot, Load, Begin
  <2>6. Owned(a)' = Owned(a) /\ \A b \in Agents : Owned(b)' = Owned(b)
    BY <2>5 DEF Owned
  <2>7. \A b \in Agents : hot'[b] \subseteq Owned(b)'
    BY <2>2, <2>3, <2>6
  <2>8. (cold \cup disk \cup forgotten \cup todo)' \subseteq Given'
    BY <1>7, <2>5 DEF RestartFromSnapshot, Load, Begin, Given
  <2>9. \A b \in Agents : latest'[b] # 0 => latest'[b] = latest[b]
    BY <1>7 DEF RestartFromSnapshot, Load, Begin, MemTypeOK
  <2>10. (\A r \in 1 .. Len(snaps) : snaps[r].hot \subseteq Owned(snaps[r].owner))'
    BY <2>5 DEF Owned
  <2> QED BY <2>3, <2>4, <2>5, <2>7, <2>8, <2>9, <2>10
<1>8. ASSUME NEW i \in Ids, Forget(i) PROVE Provenance'
  BY <1>8 DEF Forget, Owned, Given
<1>9. CASE Evict
  <2>1. PICK i \in hot[actor] :
          /\ cold' = cold \cup {i} /\ disk' \in {disk, disk \cup {i}}
          /\ hot' = [hot EXCEPT ![actor] = @ \ {i}]
    BY <1>9, EvictMoves
  <2>2. actor \in Agents
    BY <1>9, EvictMoves
  <2>3. /\ record' = record /\ snaps' = snaps /\ latest' = latest
        /\ todo' = todo /\ forgotten' = forgotten
        /\ chosen' = 0 \/ (chosen' = chosen /\ mode' = mode /\ actor' = actor)
    BY <1>9 DEF Evict, EvictFails
  <2>4. Given' = Given /\ \A b : Owned(b)' = Owned(b)
    BY <2>3 DEF Owned, Given
  <2>8. (\A s \in 1 .. Len(snaps) : snaps[s].hot \subseteq Owned(snaps[s].owner))'
    BY <2>3 DEF Owned
  <2>5. i \in Given
    BY <2>1, <2>2 DEF Given, Owned
  <2>6. \A b \in Agents : hot'[b] \subseteq hot[b]
    BY <2>1, <2>2, TiersType
  <2>7. (cold \cup disk \cup forgotten \cup todo)' \subseteq Given'
    BY <2>1, <2>3, <2>4, <2>5
  <2> QED BY <2>3, <2>4, <2>6, <2>7, <2>8
<1>10. CASE EvictFails
  <2>1. PICK i \in hot[actor] :
          /\ cold' = cold \cup {i} /\ disk' \in {disk, disk \cup {i}}
          /\ hot' = [hot EXCEPT ![actor] = @ \ {i}]
    BY <1>10, EvictMoves
  <2>2. actor \in Agents
    BY <1>10, EvictMoves
  <2>3. /\ record' = record /\ snaps' = snaps /\ latest' = latest
        /\ todo' = todo /\ forgotten' = forgotten
        /\ chosen' = 0 \/ (chosen' = chosen /\ mode' = mode /\ actor' = actor)
    BY <1>10 DEF Evict, EvictFails
  <2>4. Given' = Given /\ \A b : Owned(b)' = Owned(b)
    BY <2>3 DEF Owned, Given
  <2>8. (\A s \in 1 .. Len(snaps) : snaps[s].hot \subseteq Owned(snaps[s].owner))'
    BY <2>3 DEF Owned
  <2>5. i \in Given
    BY <2>1, <2>2 DEF Given, Owned
  <2>6. \A b \in Agents : hot'[b] \subseteq hot[b]
    BY <2>1, <2>2, TiersType
  <2>7. (cold \cup disk \cup forgotten \cup todo)' \subseteq Given'
    BY <2>1, <2>3, <2>4, <2>5
  <2> QED BY <2>3, <2>4, <2>6, <2>7, <2>8
<1>11. CASE WithinAgain
  BY <1>11 DEF WithinAgain, End, AfterEviction, Owned, Given
<1>12. CASE Truncate
  BY <1>12 DEF Truncate, Owned, Given
<1>13. CASE WriteBack
  BY <1>13 DEF WriteBack, Owned, Given
<1>14. CASE RewriteFails
  BY <1>14 DEF RewriteFails, Owned, Given
<1>15. CASE Copy
  <2>1. PICK a \in Agents, t \in TokenSizes, p \in Importances :
          a = actor /\ Append1(a, t, p) /\ todo' \subseteq todo
    BY <1>15, CopyAppends
  <2>2. /\ \A b : Owned(b) \subseteq Owned(b)'
        /\ Len(record) + 1 \in Owned(a)'
        /\ Given' = Given \cup {Len(record) + 1}
        /\ hot'[a] = hot[a] \cup {Len(record) + 1}
        /\ \A b \in Agents : b # a => hot'[b] = hot[b]
    BY <2>1, Append1Owned
  <2>3. \A b \in Agents : hot'[b] \subseteq Owned(b)'
    BY <2>2
  <2>4. (cold \cup disk \cup forgotten \cup todo)' \subseteq Given'
    BY <1>15, <2>1, <2>2 DEF Copy
  <2>5. /\ snaps' = snaps /\ latest' = latest /\ chosen' = chosen
        /\ mode # "evicting"
    BY <1>15 DEF Copy
  <2>6. (\A s \in 1 .. Len(snaps) : snaps[s].hot \subseteq Owned(snaps[s].owner))'
    <3>1. \A s \in 1 .. Len(snaps) : Owned(snaps[s].owner) \subseteq
                                        {j \in 1 .. Len(record') : record'[j].owner = snaps[s].owner}
      <4>1. /\ Len(record') = Len(record) + 1 /\ Len(record) \in Nat
            /\ \A i \in 1 .. Len(record) : record'[i] = record[i]
        BY <2>1, Append1Type
      <4> QED BY <4>1 DEF Owned
    <3> QED BY <3>1, <2>5 DEF Owned
  <2> QED BY <2>2, <2>3, <2>4, <2>5, <2>6
<1>16. CASE CopiesDone
  BY <1>16 DEF CopiesDone, End, Owned, Given
<1>17. CASE Crash
  BY <1>17 DEF Crash, Owned, Given
<1>18. CASE Boot
  BY <1>18 DEF Boot, Owned, Given
<1> QED
  BY <1>1, <1>2, <1>3, <1>4, <1>5, <1>6, <1>7, <1>8, <1>9, <1>10, <1>11,
     <1>12, <1>13, <1>14, <1>15, <1>16, <1>17, <1>18 DEF MemNext

\* A record gets into two tiers, or comes back after it was forgotten, through
\* a snapshot only.
LEMMA OnceStep ==
  ASSUME MemTypeOK, Provenance, Phases, Once, MemNext
  PROVE  Once'
<1> USE Limits DEF tiers, file, call, history, Once
<1>1. ASSUME NEW a \in Agents, Register(a) PROVE Once'
  BY <1>1 DEF Register, Idle, Kept
<1>2. ASSUME NEW a \in Agents, Unregister(a) PROVE Once'
  BY <1>2 DEF Unregister, Idle, Kept
<1>3. ASSUME NEW a \in Agents, Snapshot(a) PROVE Once'
  <2>1. Kept' = Kept \cup hot[a]
    BY <1>3, SnapshotKeeps
  <2> QED BY <1>3, <2>1 DEF Snapshot, Idle
<1>4. ASSUME NEW a \in Agents, RestartByRecall(a) PROVE Once'
  BY <1>4 DEF RestartByRecall, Begin, Best, Kept
<1>5. ASSUME NEW a \in Agents, NEW t \in TokenSizes, NEW p \in Importances,
             Remember(a, t, p)
      PROVE Once'
  <2>1. Append1(a, t, p)
    BY <1>5 DEF Remember
  <2>2. /\ Len(record) + 1 \notin Given
        /\ hot'[a] = hot[a] \cup {Len(record) + 1}
        /\ \A b \in Agents : b # a => hot'[b] = hot[b]
    BY <2>1, Append1Owned
  <2>3. cold' = cold /\ disk' = disk /\ forgotten' = forgotten /\ snaps' = snaps
    BY <1>5 DEF Remember, Begin
  <2>4. Kept' = Kept
    BY <2>3 DEF Kept
  <2>5. Len(record) + 1 \notin cold \cup disk \cup forgotten
    BY <2>2 DEF Provenance
  <2> QED BY <2>2, <2>3, <2>4, <2>5
<1>6. ASSUME NEW a \in Agents, NEW s \in Owns(a), Restore(a, s) PROVE Once'
  <2>1. s \in Owns(a) /\ Load(a, s, FALSE)
    BY <1>6 DEF Restore
  <2>2. /\ hot'[a] = snaps[s].hot
        /\ \A b \in Agents : b # a => hot'[b] = hot[b]
    BY <2>1, LoadType
  <2>3. cold' = cold /\ disk' = disk /\ forgotten' = forgotten /\ snaps' = snaps
    BY <1>6 DEF Restore, Load, Begin
  <2>4. Kept' = Kept /\ hot'[a] \subseteq Kept
    BY <2>1, <2>2, <2>3, KeptHas DEF Kept
  <2> QED BY <2>2, <2>3, <2>4
<1>7. ASSUME NEW a \in Agents, NEW h, RestartFromSnapshot(a, h) PROVE Once'
  <2> DEFINE s == RestartFrom(a)
  <2>1. s \in Owns(a) /\ Load(a, s, h)
    BY <1>7, RestartFromOwns DEF RestartFromSnapshot
  <2> HIDE DEF s
  <2>2. /\ hot'[a] = snaps[s].hot
        /\ \A b \in Agents : b # a => hot'[b] = hot[b]
    BY <2>1, LoadType
  <2>3. cold' = cold /\ disk' = disk /\ forgotten' = forgotten /\ snaps' = snaps
    BY <1>7 DEF RestartFromSnapshot, Load, Begin
  <2>4. Kept' = Kept /\ hot'[a] \subseteq Kept
    BY <2>1, <2>2, <2>3, KeptHas DEF Kept
  <2> QED BY <2>2, <2>3, <2>4
<1>8. ASSUME NEW i \in Ids, Forget(i) PROVE Once'
  BY <1>8 DEF Forget, Kept
<1>9. CASE Evict
  <2>1. PICK i \in hot[actor] :
          /\ cold' = cold \cup {i} /\ disk' \in {disk, disk \cup {i}}
          /\ hot' = [hot EXCEPT ![actor] = @ \ {i}]
    BY <1>9, EvictMoves
  <2>2. actor \in Agents
    BY <1>9, EvictMoves
  <2>3. snaps' = snaps /\ forgotten' = forgotten
    BY <1>9 DEF Evict, EvictFails
  <2>4. Kept' = Kept
    BY <2>3 DEF Kept
  <2> SUFFICES ASSUME NEW b \in Agents
               PROVE  /\ hot'[b] \cap (cold' \cup disk') \subseteq Kept
                      /\ forgotten \cap (hot'[b] \cup cold' \cup disk') \subseteq Kept
    BY <2>3, <2>4
  <2>5. hot'[b] \subseteq hot[b] /\ i \notin hot'[b]
    <3>1. CASE b = actor
      BY <2>1, <2>2, <3>1, TiersType
    <3>2. CASE b # actor
      <4>1. hot'[b] = hot[b]
        BY <2>1, <2>2, <3>2, TiersType
      <4>2. i \notin hot[b]
        BY <2>1, <2>2, <3>2 DEF Provenance, Owned
      <4> QED BY <4>1, <4>2
    <3> QED BY <3>1, <3>2
  <2>6. i \in forgotten => i \in Kept
    BY <2>1, <2>2
  <2> QED BY <2>1, <2>5, <2>6
<1>10. CASE EvictFails
  <2>1. PICK i \in hot[actor] :
          /\ cold' = cold \cup {i} /\ disk' \in {disk, disk \cup {i}}
          /\ hot' = [hot EXCEPT ![actor] = @ \ {i}]
    BY <1>10, EvictMoves
  <2>2. actor \in Agents
    BY <1>10, EvictMoves
  <2>3. snaps' = snaps /\ forgotten' = forgotten
    BY <1>10 DEF Evict, EvictFails
  <2>4. Kept' = Kept
    BY <2>3 DEF Kept
  <2> SUFFICES ASSUME NEW b \in Agents
               PROVE  /\ hot'[b] \cap (cold' \cup disk') \subseteq Kept
                      /\ forgotten \cap (hot'[b] \cup cold' \cup disk') \subseteq Kept
    BY <2>3, <2>4
  <2>5. hot'[b] \subseteq hot[b] /\ i \notin hot'[b]
    <3>1. CASE b = actor
      BY <2>1, <2>2, <3>1, TiersType
    <3>2. CASE b # actor
      <4>1. hot'[b] = hot[b]
        BY <2>1, <2>2, <3>2, TiersType
      <4>2. i \notin hot[b]
        BY <2>1, <2>2, <3>2 DEF Provenance, Owned
      <4> QED BY <4>1, <4>2
    <3> QED BY <3>1, <3>2
  <2>6. i \in forgotten => i \in Kept
    BY <2>1, <2>2
  <2> QED BY <2>1, <2>5, <2>6
<1>11. CASE WithinAgain
  BY <1>11 DEF WithinAgain, End, AfterEviction, Kept
<1>12. CASE Truncate
  BY <1>12 DEF Truncate, Kept
<1>13. CASE WriteBack
  <2>1. /\ hot' = hot /\ cold' = cold /\ disk' = cold /\ snaps' = snaps
        /\ forgotten' = forgotten \cup todo
    BY <1>13 DEF WriteBack
  <2>2. todo \cap cold = {} /\ \A a \in Agents : todo \cap hot[a] = {}
    BY <1>13 DEF WriteBack, Phases
  <2>3. Kept' = Kept
    BY <2>1 DEF Kept
  <2> QED BY <2>1, <2>2, <2>3
<1>14. CASE RewriteFails
  BY <1>14 DEF RewriteFails, Kept
<1>15. CASE Copy
  <2>1. PICK a \in Agents, t \in TokenSizes, p \in Importances :
          a = actor /\ Append1(a, t, p) /\ todo' \subseteq todo
    BY <1>15, CopyAppends
  <2>2. /\ Len(record) + 1 \notin Given
        /\ hot'[a] = hot[a] \cup {Len(record) + 1}
        /\ \A b \in Agents : b # a => hot'[b] = hot[b]
    BY <2>1, Append1Owned
  <2>3. cold' = cold /\ disk' = disk /\ forgotten' = forgotten /\ snaps' = snaps
    BY <1>15 DEF Copy
  <2>4. Kept' = Kept
    BY <2>3 DEF Kept
  <2>5. Len(record) + 1 \notin cold \cup disk \cup forgotten
    BY <2>2 DEF Provenance
  <2> QED BY <2>2, <2>3, <2>4, <2>5
<1>16. CASE CopiesDone
  BY <1>16 DEF CopiesDone, End, Kept
<1>17. CASE Crash
  BY <1>17 DEF Crash, Kept
<1>18. CASE Boot
  BY <1>18 DEF Boot, Kept
<1> QED
  BY <1>1, <1>2, <1>3, <1>4, <1>5, <1>6, <1>7, <1>8, <1>9, <1>10, <1>11,
     <1>12, <1>13, <1>14, <1>15, <1>16, <1>17, <1>18 DEF MemNext


\* Token counts are numbers, and grow with the set.
LEMMA TokensType ==
  ASSUME MemTypeOK, NEW S \in SUBSET Given, NEW R \in SUBSET S
  PROVE  Tokens(S) \in Nat /\ Tokens(R) \in Nat /\ Tokens(R) <= Tokens(S)
<1>1. IsFiniteSet(S)
  <2>1. IsFiniteSet(Given)
    BY FS_Interval DEF Given, MemTypeOK
  <2> QED BY <2>1, FS_Subset
<1> DEFINE w == [i \in S |-> record[i].tokens]
<1>2. w \in [S -> Nat]
  <2> SUFFICES ASSUME NEW i \in S PROVE record[i].tokens \in Nat
    OBVIOUS
  <2>1. record[i] \in RecordType
    BY RecordIn DEF Given
  <2> QED BY <2>1, Limits DEF RecordType
<1>3. [i \in R |-> w[i]] = [i \in R |-> record[i].tokens] /\ [i \in S |-> w[i]] = w
  OBVIOUS
<1> HIDE DEF w
<1>4. /\ SumFunction([y \in R |-> w[y]]) \in Nat
      /\ SumFunction([y \in S |-> w[y]]) \in Nat
      /\ SumFunction([y \in R |-> w[y]]) <= SumFunction([y \in S |-> w[y]])
  BY <1>1, <1>2, SumSubset
<1>5. /\ Tokens(R) = SumFunction([y \in R |-> w[y]])
      /\ Tokens(S) = SumFunction([y \in S |-> w[y]])
  BY <1>3 DEF Tokens, w
<1> QED BY <1>4, <1>5

\* No records have no tokens.
LEMMA TokensOfNone ==
  ASSUME NEW S, S = {}
  PROVE  Tokens(S) = 0
<1> DEFINE w == [i \in S |-> record[i].tokens]
<1>1. IsFiniteSet(S) /\ w \in [S -> Nat] /\ \A x \in S : w[x] = 0
  BY FS_EmptySet
<1> HIDE DEF w
<1>2. SumFunction(w) = 0
  BY <1>1, SumIsTotal, TotalZero
<1> QED BY <1>2 DEF Tokens, w

\* An agent whose hot tier does not change has the same tokens in it, also
\* when a record is created.
LEMMA TokensSame ==
  ASSUME MemTypeOK, Provenance, NEW b \in Agents, hot'[b] = hot[b],
         \A i \in Given : record'[i] = record[i]
  PROVE  Tokens(hot[b])' = Tokens(hot[b])
<1>1. hot[b] \subseteq Given
  BY DEF Provenance, Owned, Given
<1>2. [i \in hot'[b] |-> record'[i].tokens] = [i \in hot[b] |-> record[i].tokens]
  BY <1>1
<1> QED BY <1>2 DEF Tokens

\* The tokens of an agent are a number, and so is its budget.
LEMMA TokensOfAgent ==
  ASSUME MemTypeOK, Provenance, NEW b \in Agents
  PROVE  Tokens(hot[b]) \in Nat /\ budget[b] \in Nat
<1>1. hot[b] \in SUBSET Given
  BY DEF Provenance, Owned, Given
<1>2. budget[b] \in {0, AgentBudget, DefaultBudget}
  BY DEF MemTypeOK
<1>3. hot[b] \in SUBSET hot[b]
  OBVIOUS
<1>4. Tokens(hot[b]) \in Nat
  BY <1>1, <1>3, TokensType
<1> QED BY <1>2, <1>4, Limits

\* An eviction is never left with an agent over its budget, unless a write
\* failed.
LEMMA AffordedStep ==
  ASSUME MemTypeOK, Provenance, Phases, Afforded, MemNext
  PROVE  Afforded'
<1> USE Limits DEF tiers, file, call, history, Afforded
<1>1. ASSUME NEW a \in Agents, Register(a) PROVE Afforded'
  <2> SUFFICES ASSUME NEW b \in Agents, b \notin cut'
               PROVE  (mode' = "evicting" /\ b = actor') \/ Tokens(hot[b])' <= budget'[b]
    BY Zenon
  <2>1. /\ mode = "idle" /\ hot' = [hot EXCEPT ![a] = {}] /\ record' = record
        /\ cut' = cut \ {a}
    BY <1>1 DEF Register, Idle
  <2>2. CASE b = a
    <3>1. hot'[b] = {}
      BY <2>1, <2>2, TiersType
    <3>2. Tokens(hot[b])' = 0
      BY <3>1, TokensOfNone DEF Tokens
    <3>3. budget'[b] \in Nat
      BY <1>1, TokensOfAgent DEF Register, Idle, MemTypeOK
    <3> QED BY <3>2, <3>3
  <2>3. CASE b # a
    <3>1. hot'[b] = hot[b] /\ budget'[b] = budget[b] /\ b \notin cut
      BY <1>1, <2>1, <2>3, TiersType DEF Register, Idle, MemTypeOK
    <3>2. Tokens(hot[b])' = Tokens(hot[b])
      BY <2>1, <3>1, TokensSame
    <3> QED BY <2>1, <3>1, <3>2
  <2> QED BY <2>2, <2>3
<1>2. ASSUME NEW a \in Agents, Unregister(a) PROVE Afforded'
  <2> SUFFICES ASSUME NEW b \in Agents, b \notin cut'
               PROVE  (mode' = "evicting" /\ b = actor') \/ Tokens(hot[b])' <= budget'[b]
    BY Zenon
  <2>1. /\ mode = "idle" /\ hot' = [hot EXCEPT ![a] = {}] /\ record' = record
        /\ cut' = cut \ {a}
    BY <1>2 DEF Unregister, Idle
  <2>2. CASE b = a
    <3>1. hot'[b] = {}
      BY <2>1, <2>2, TiersType
    <3>2. Tokens(hot[b])' = 0
      BY <3>1, TokensOfNone DEF Tokens
    <3>3. budget'[b] \in Nat
      BY <1>2, TokensOfAgent DEF Unregister, Idle, MemTypeOK
    <3> QED BY <3>2, <3>3
  <2>3. CASE b # a
    <3>1. hot'[b] = hot[b] /\ budget'[b] = budget[b] /\ b \notin cut
      BY <1>2, <2>1, <2>3, TiersType DEF Unregister, Idle, MemTypeOK
    <3>2. Tokens(hot[b])' = Tokens(hot[b])
      BY <2>1, <3>1, TokensSame
    <3> QED BY <2>1, <3>1, <3>2
  <2> QED BY <2>2, <2>3
<1>3. ASSUME NEW a \in Agents, Snapshot(a) PROVE Afforded'
  <2> SUFFICES ASSUME NEW b \in Agents, b \notin cut'
               PROVE  (mode' = "evicting" /\ b = actor') \/ Tokens(hot[b])' <= budget'[b]
    BY Zenon
  <2>1. hot' = hot /\ record' = record /\ cut' = cut /\ mode = "idle"
    BY <1>3 DEF Snapshot, Idle
  <2>2. Tokens(hot[b])' = Tokens(hot[b])
    BY <2>1, TokensSame
  <2>3. Tokens(hot[b]) <= budget[b] /\ Tokens(hot[b]) \in Nat /\ budget[b] \in Nat
    BY <2>1, TokensOfAgent
  <2>4. budget'[b] = budget[b] \/ (budget[b] = 0 /\ budget'[b] = DefaultBudget)
    BY <1>3 DEF Snapshot, Known, MemTypeOK
  <2> QED BY <2>2, <2>3, <2>4
<1>4. ASSUME NEW a \in Agents, RestartByRecall(a) PROVE Afforded'
  <2> SUFFICES ASSUME NEW b \in Agents, b \notin cut'
               PROVE  (mode' = "evicting" /\ b = actor') \/ Tokens(hot[b])' <= budget'[b]
    BY Zenon
  <2>1. /\ mode = "idle" /\ hot' = [hot EXCEPT ![a] = {}] /\ record' = record
        /\ cut' = cut \ {a}
    BY <1>4 DEF RestartByRecall, Begin, Best
  <2>2. CASE b = a
    <3>1. hot'[b] = {}
      BY <2>1, <2>2, TiersType
    <3>2. Tokens(hot[b])' = 0
      BY <3>1, TokensOfNone DEF Tokens
    <3>3. budget'[b] \in Nat
      BY <1>4, TokensOfAgent DEF RestartByRecall, Begin, Best, MemTypeOK
    <3> QED BY <3>2, <3>3
  <2>3. CASE b # a
    <3>1. hot'[b] = hot[b] /\ budget'[b] = budget[b] /\ b \notin cut
      BY <1>4, <2>1, <2>3, TiersType DEF RestartByRecall, Begin, Best, MemTypeOK
    <3>2. Tokens(hot[b])' = Tokens(hot[b])
      BY <2>1, <3>1, TokensSame
    <3> QED BY <2>1, <3>1, <3>2
  <2> QED BY <2>2, <2>3
<1>5. ASSUME NEW a \in Agents, NEW t \in TokenSizes, NEW p \in Importances,
             Remember(a, t, p)
      PROVE Afforded'
  <2>1. Append1(a, t, p)
    BY <1>5 DEF Remember
  <2> SUFFICES ASSUME NEW b \in Agents, b \notin cut'
               PROVE  (mode' = "evicting" /\ b = actor') \/ Tokens(hot[b])' <= budget'[b]
    BY Zenon
  <2>2. /\ mode # "evicting" /\ mode' = "evicting" /\ actor' = a /\ cut' = cut
    BY <1>5, <2>1 DEF Remember, Begin
  <2>3. CASE b = a
    BY <2>2, <2>3
  <2>4. CASE b # a
    <3>1. hot'[b] = hot[b]
      BY <2>1, <2>4, Append1Owned
    <3>2. \A i \in Given : record'[i] = record[i]
      BY <2>1, Append1Type DEF Given
    <3>3. Tokens(hot[b])' = Tokens(hot[b])
      BY <3>1, <3>2, TokensSame
    <3>4. budget'[b] = budget[b]
      BY <2>1, <2>4 DEF Append1, Known, MemTypeOK
    <3> QED BY <2>2, <3>3, <3>4
  <2> QED BY <2>3, <2>4
<1>6. ASSUME NEW a \in Agents, NEW s \in Owns(a), Restore(a, s) PROVE Afforded'
  <2>1. s \in Owns(a) /\ Load(a, s, FALSE)
    BY <1>6 DEF Restore
  <2> SUFFICES ASSUME NEW b \in Agents, b \notin cut'
               PROVE  (mode' = "evicting" /\ b = actor') \/ Tokens(hot[b])' <= budget'[b]
    BY Zenon
  <2>2. mode' = "evicting" /\ actor' = a /\ mode = "idle"
    BY <2>1 DEF Load, Begin
  <2>3. CASE b = a
    BY <2>2, <2>3
  <2>4. CASE b # a
    <3>1. hot'[b] = hot[b]
      BY <2>1, <2>4, LoadType
    <3>2. record' = record /\ budget'[b] = budget[b] /\ b \notin cut
      BY <1>6, <2>4 DEF Restore, Load, Begin, Known, MemTypeOK
    <3>3. Tokens(hot[b])' = Tokens(hot[b])
      BY <3>1, <3>2, TokensSame
    <3> QED BY <2>2, <3>2, <3>3
  <2> QED BY <2>3, <2>4
<1>7. ASSUME NEW a \in Agents, NEW h, RestartFromSnapshot(a, h) PROVE Afforded'
  <2> DEFINE s == RestartFrom(a)
  <2>1. s \in Owns(a) /\ Load(a, s, h)
    BY <1>7, RestartFromOwns DEF RestartFromSnapshot
  <2> HIDE DEF s
  <2> SUFFICES ASSUME NEW b \in Agents, b \notin cut'
               PROVE  (mode' = "evicting" /\ b = actor') \/ Tokens(hot[b])' <= budget'[b]
    BY Zenon
  <2>2. mode' = "evicting" /\ actor' = a /\ mode = "idle"
    BY <2>1 DEF Load, Begin
  <2>3. CASE b = a
    BY <2>2, <2>3
  <2>4. CASE b # a
    <3>1. hot'[b] = hot[b]
      BY <2>1, <2>4, LoadType
    <3>2. record' = record /\ budget'[b] = budget[b] /\ b \notin cut
      BY <1>7, <2>4 DEF RestartFromSnapshot, Load, Begin, Known, MemTypeOK
    <3>3. Tokens(hot[b])' = Tokens(hot[b])
      BY <3>1, <3>2, TokensSame
    <3> QED BY <2>2, <3>2, <3>3
  <2> QED BY <2>3, <2>4
<1>8. ASSUME NEW i \in Ids, Forget(i) PROVE Afforded'
  <2> SUFFICES ASSUME NEW b \in Agents, b \notin cut'
               PROVE  (mode' = "evicting" /\ b = actor') \/ Tokens(hot[b])' <= budget'[b]
    BY Zenon
  <2>1. /\ hot'[b] = hot[b] \ {i} /\ record' = record /\ cut' = cut
        /\ mode = "idle" /\ budget' = budget
    BY <1>8 DEF Forget
  <2>2. hot[b] \in SUBSET Given /\ hot[b] \ {i} \in SUBSET hot[b]
    BY DEF Provenance, Owned, Given
  <2> DEFINE r == hot[b] \ {i}
  <2>3. Tokens(hot[b])' = Tokens(r)
    BY <2>1 DEF Tokens
  <2>4. Tokens(r) <= Tokens(hot[b]) /\ Tokens(r) \in Nat
    BY <2>2, TokensType
  <2> HIDE DEF r
  <2> QED BY <2>1, <2>3, <2>4, TokensOfAgent
<1>9. CASE Evict
  <2> SUFFICES ASSUME NEW b \in Agents, b \notin cut'
               PROVE  (mode' = "evicting" /\ b = actor') \/ Tokens(hot[b])' <= budget'[b]
    BY Zenon
  <2>1. actor \in Agents /\ hot' = [hot EXCEPT ![actor] = hot'[actor]]
    BY <1>9, EvictMoves, TiersType
  <2>2. /\ record' = record /\ budget' = budget /\ cut' = cut /\ mode' = "evicting"
        /\ actor' = actor
    BY <1>9 DEF Evict
  <2>3. CASE b = actor
    BY <2>2, <2>3
  <2>4. CASE b # actor
    <3>1. hot'[b] = hot[b]
      BY <2>1, <2>4, TiersType
    <3>2. Tokens(hot[b])' = Tokens(hot[b])
      BY <3>1, <2>2, TokensSame
    <3> QED BY <2>2, <2>4, <3>2
  <2> QED BY <2>3, <2>4
<1>10. CASE EvictFails
  <2> SUFFICES ASSUME NEW b \in Agents, b \notin cut'
               PROVE  (mode' = "evicting" /\ b = actor') \/ Tokens(hot[b])' <= budget'[b]
    BY Zenon
  <2>1. actor \in Agents /\ hot' = [hot EXCEPT ![actor] = hot'[actor]]
    BY <1>10, EvictMoves, TiersType
  <2>2. record' = record /\ budget' = budget /\ b \notin cut /\ b # actor
    BY <1>10 DEF EvictFails
  <2>3. hot'[b] = hot[b]
    BY <2>1, <2>2, TiersType
  <2>4. Tokens(hot[b])' = Tokens(hot[b])
    BY <2>2, <2>3, TokensSame
  <2> QED BY <2>2, <2>4
<1>11. CASE WithinAgain
  <2> SUFFICES ASSUME NEW b \in Agents, b \notin cut'
               PROVE  (mode' = "evicting" /\ b = actor') \/ Tokens(hot[b])' <= budget'[b]
    BY Zenon
  <2>1. /\ hot' = hot /\ record' = record /\ budget' = budget
        /\ cut' = cut \ {actor} /\ ~ OverBudget(actor) /\ mode = "evicting"
    BY <1>11 DEF WithinAgain
  <2>2. Tokens(hot[b])' = Tokens(hot[b])
    BY <2>1, TokensSame
  <2>3. Tokens(hot[b]) \in Nat /\ budget[b] \in Nat
    BY TokensOfAgent
  <2>4. CASE b = actor
    BY <2>1, <2>2, <2>3, <2>4 DEF OverBudget
  <2>5. CASE b # actor
    BY <2>1, <2>2, <2>5
  <2> QED BY <2>4, <2>5
<1>12. CASE Truncate
  <2>1. /\ hot' = hot /\ record' = record /\ cut' = cut /\ budget' = budget
        /\ mode # "evicting"
    BY <1>12 DEF Truncate
  <2> SUFFICES ASSUME NEW b \in Agents, b \notin cut'
               PROVE  (mode' = "evicting" /\ b = actor') \/ Tokens(hot[b])' <= budget'[b]
    BY Zenon
  <2>2. Tokens(hot[b])' = Tokens(hot[b])
    BY <2>1, TokensSame
  <2> QED BY <2>1, <2>2
<1>13. CASE WriteBack
  <2>1. /\ hot' = hot /\ record' = record /\ cut' = cut /\ budget' = budget
        /\ mode # "evicting"
    BY <1>13 DEF WriteBack
  <2> SUFFICES ASSUME NEW b \in Agents, b \notin cut'
               PROVE  (mode' = "evicting" /\ b = actor') \/ Tokens(hot[b])' <= budget'[b]
    BY Zenon
  <2>2. Tokens(hot[b])' = Tokens(hot[b])
    BY <2>1, TokensSame
  <2> QED BY <2>1, <2>2
<1>14. CASE RewriteFails
  <2>1. /\ hot' = hot /\ record' = record /\ cut' = cut /\ budget' = budget
        /\ mode # "evicting"
    BY <1>14 DEF RewriteFails
  <2> SUFFICES ASSUME NEW b \in Agents, b \notin cut'
               PROVE  (mode' = "evicting" /\ b = actor') \/ Tokens(hot[b])' <= budget'[b]
    BY Zenon
  <2>2. Tokens(hot[b])' = Tokens(hot[b])
    BY <2>1, TokensSame
  <2> QED BY <2>1, <2>2
<1>15. CASE Copy
  <2>1. PICK a \in Agents, t \in TokenSizes, p \in Importances :
          a = actor /\ Append1(a, t, p) /\ todo' \subseteq todo
    BY <1>15, CopyAppends
  <2> SUFFICES ASSUME NEW b \in Agents, b \notin cut'
               PROVE  (mode' = "evicting" /\ b = actor') \/ Tokens(hot[b])' <= budget'[b]
    BY Zenon
  <2>2. /\ mode # "evicting" /\ mode' = "evicting" /\ actor' = a /\ cut' = cut
    BY <1>15, <2>1 DEF Copy
  <2>3. CASE b = a
    BY <2>2, <2>3
  <2>4. CASE b # a
    <3>1. hot'[b] = hot[b]
      BY <2>1, <2>4, Append1Owned
    <3>2. \A i \in Given : record'[i] = record[i]
      BY <2>1, Append1Type DEF Given
    <3>3. Tokens(hot[b])' = Tokens(hot[b])
      BY <3>1, <3>2, TokensSame
    <3>4. budget'[b] = budget[b]
      BY <2>1, <2>4 DEF Append1, Known, MemTypeOK
    <3> QED BY <2>2, <3>3, <3>4
  <2> QED BY <2>3, <2>4
<1>16. CASE CopiesDone
  <2>1. /\ hot' = hot /\ record' = record /\ cut' = cut /\ budget' = budget
        /\ mode # "evicting"
    BY <1>16 DEF CopiesDone, End
  <2> SUFFICES ASSUME NEW b \in Agents, b \notin cut'
               PROVE  (mode' = "evicting" /\ b = actor') \/ Tokens(hot[b])' <= budget'[b]
    BY Zenon
  <2>2. Tokens(hot[b])' = Tokens(hot[b])
    BY <2>1, TokensSame
  <2> QED BY <2>1, <2>2
<1>17. CASE Crash
  <2> SUFFICES ASSUME NEW b \in Agents, b \notin cut'
               PROVE  (mode' = "evicting" /\ b = actor') \/ Tokens(hot[b])' <= budget'[b]
    BY Zenon
  <2>1. hot'[b] = {} /\ budget'[b] = 0
    BY <1>17 DEF Crash
  <2>2. Tokens(hot[b])' = 0
    BY <2>1, TokensOfNone DEF Tokens
  <2> QED BY <2>1, <2>2
<1>18. CASE Boot
  <2>1. /\ hot' = hot /\ record' = record /\ cut' = cut /\ budget' = budget
        /\ mode # "evicting"
    BY <1>18 DEF Boot
  <2> SUFFICES ASSUME NEW b \in Agents, b \notin cut'
               PROVE  (mode' = "evicting" /\ b = actor') \/ Tokens(hot[b])' <= budget'[b]
    BY Zenon
  <2>2. Tokens(hot[b])' = Tokens(hot[b])
    BY <2>1, TokensSame
  <2> QED BY <2>1, <2>2
<1> QED
  BY <1>1, <1>2, <1>3, <1>4, <1>5, <1>6, <1>7, <1>8, <1>9, <1>10, <1>11,
     <1>12, <1>13, <1>14, <1>15, <1>16, <1>17, <1>18 DEF MemNext

-----------------------------------------------------------------------------
(* The refinement *)

\* The invariant of the persistent memory.
MemInv ==
  /\ MemTypeOK /\ Provenance /\ Phases /\ Indexed /\ Once /\ Afforded

\* The state of the abstract store, as the tiers, index and file represent it.
Used == 1 .. Len(record)
CanRecall == IF mode = "down" THEN disk ELSE {i \in Ids : Recallable(i)}
Saved == IF mode = "down" THEN disk ELSE cold
Doubt == IF mode = "down" THEN {} ELSE Differ
Status == IF mode \in {"rewriting", "truncated"} THEN "rewriting"
          ELSE IF mode = "down" THEN "down" ELSE "up"
Hot == UNION {hot[a] : a \in Agents}

\* A record can be recalled if it is hot or in the index.
LEMMA CanRecallIs == MemInv => CanRecall = IF mode = "down" THEN disk ELSE cold \cup Hot
<1> SUFFICES ASSUME MemInv PROVE {i \in Ids : Recallable(i)} = cold \cup Hot
  BY DEF CanRecall
<1>1. cold \in SUBSET Ids /\ \A a \in Agents : hot[a] \in SUBSET Ids
  BY DEF MemInv, MemTypeOK
<1>2. \A a \in Agents : ToSet(warm[a]) \subseteq cold
  BY DEF MemInv, Indexed
<1> QED BY <1>1, <1>2 DEF Recallable, Hot

\* The same in the next state.
LEMMA CanRecallIsNext ==
  MemInv' => (CanRecall = IF mode = "down" THEN disk ELSE cold \cup Hot)'
BY CanRecallIs, PTL

\* The steps of the abstract store, in these terms.
LEMMA MapsToStutter ==
  ASSUME Used' = Used, CanRecall' = CanRecall, Saved' = Saved, Doubt' = Doubt,
         Kept' = Kept, Status' = Status
  PROVE  UNCHANGED Store!vars
BY DEF Store!vars, Used, CanRecall, Saved, Doubt, Kept, Status

\* A step with these effects is the abstract Remember.
LEMMA MapsToRemember ==
  ASSUME NEW i \in Ids, Status = "up", i \notin Used, Used' = Used \cup {i},
         CanRecall' = CanRecall \cup {i}, Saved' = Saved, Doubt' = Doubt,
         Kept' = Kept, Status' = Status
  PROVE  Store!Next
<1>1. Store!Remember(i)
  BY DEF Store!Remember, Used, CanRecall, Saved, Doubt, Kept, Status
<1> QED BY <1>1 DEF Store!Next

\* A step with these effects is the abstract Save.
LEMMA MapsToSave ==
  ASSUME NEW i \in Ids, Status = "up", i \in CanRecall, Used' = Used,
         CanRecall' = CanRecall, Saved' = Saved \cup {i},
         \/ Doubt' = Doubt \ {i}
         \/ Doubt' = Doubt \cup {i} /\ i \notin Saved
         \/ Doubt' = Doubt,
         Kept' = Kept, Status' = Status
  PROVE  Store!Next
<1>1. Store!Save(i)
  BY DEF Store!Save, Used, CanRecall, Saved, Doubt, Kept, Status
<1> QED BY <1>1 DEF Store!Next

\* A step with these effects is the abstract Keep.
LEMMA MapsToKeep ==
  ASSUME NEW S \in SUBSET CanRecall, Status = "up", Used' = Used,
         CanRecall' = CanRecall, Saved' = Saved, Doubt' = Doubt,
         Kept' = Kept \cup S, Status' = Status
  PROVE  Store!Next
<1>1. Store!Keep(S)
  BY DEF Store!Keep, Used, CanRecall, Saved, Doubt, Kept, Status
<1> QED BY <1>1 DEF Store!Next, CanRecall

\* A step with these effects is the abstract Replace.
LEMMA MapsToReplace ==
  ASSUME Status = "up", Saved \subseteq CanRecall', CanRecall' \subseteq CanRecall \cup Kept,
         Used' = Used, Saved' = Saved, Doubt' = Doubt, Kept' = Kept,
         Status' = Status
  PROVE  Store!Next
<1> DEFINE gone == CanRecall \ CanRecall'
           back == CanRecall' \ CanRecall
<1>1. /\ gone \in SUBSET CanRecall /\ back \in SUBSET Kept /\ gone \cap Saved = {}
      /\ CanRecall' = (CanRecall \ gone) \cup back
  OBVIOUS
<1>2. PICK g \in SUBSET CanRecall, b \in SUBSET Kept :
        g \cap Saved = {} /\ CanRecall' = (CanRecall \ g) \cup b
  BY <1>1
<1>3. Store!Replace(g, b)
  BY <1>2 DEF Store!Replace, Used, CanRecall, Saved, Doubt, Kept, Status
<1>4. g \in SUBSET CanRecall /\ b \in SUBSET Kept
  BY <1>2
<1> QED BY <1>3, <1>4 DEF Store!Next, CanRecall, Kept

\* A step with these effects is the abstract Forget.
LEMMA MapsToForget ==
  ASSUME NEW i \in Ids, Status = "up", CanRecall' = CanRecall \ {i}, Used' = Used,
         Kept' = Kept,
         IF i \in Saved
         THEN /\ Saved' = Saved \ {i} /\ Status' = "rewriting"
              /\ Doubt' = IF i \in Doubt THEN Doubt \ {i} ELSE Doubt \cup {i}
         ELSE Saved' = Saved /\ Doubt' = Doubt /\ Status' = Status
  PROVE  Store!Next
<1>1. Store!Forget(i)
  BY DEF Store!Forget, Used, CanRecall, Saved, Doubt, Kept, Status
<1> QED BY <1>1 DEF Store!Next

\* A step with these effects is the abstract Rewrite.
LEMMA MapsToRewrite ==
  ASSUME Status = "rewriting", Used' = Used, CanRecall' = CanRecall, Saved' = Saved,
         Kept' = Kept,
         \/ Status' = "rewriting" /\ Doubt' = Saved
         \/ Status' = "up" /\ Doubt' \in SUBSET Saved
         \/ Status' = "up" /\ Doubt' = Doubt
  PROVE  Store!Next
<1>1. Store!Rewrite
  BY DEF Store!Rewrite, Used, CanRecall, Saved, Doubt, Kept, Status
<1> QED BY <1>1 DEF Store!Next

\* A step with these effects is the abstract Crash.
LEMMA MapsToCrash ==
  ASSUME Status # "down", Status' = "down", Used' = Used, Kept' = Kept,
         CanRecall' = Saved', Doubt' = {},
         Saved \ Doubt \subseteq Saved', Saved' \subseteq Saved \cup Doubt
  PROVE  Store!Next
<1> DEFINE lucky == Saved' \cap Doubt
<1>1. lucky \in SUBSET Doubt /\ Saved' = (Saved \ Doubt) \cup lucky
  OBVIOUS
<1>2. PICK luck \in SUBSET Doubt : Saved' = (Saved \ Doubt) \cup luck
  BY <1>1
<1>3. Store!Crash
  BY <1>2 DEF Store!Crash, Used, CanRecall, Saved, Doubt, Kept, Status
<1> QED BY <1>3 DEF Store!Next

\* A step with these effects is the abstract Boot.
LEMMA MapsToBoot ==
  ASSUME Status = "down", Status' = "up", Used' = Used, CanRecall' = CanRecall,
         Saved' = Saved, Doubt' = Doubt, Kept' = Kept
  PROVE  Store!Next
<1>1. Store!Boot
  BY DEF Store!Boot, Used, CanRecall, Saved, Doubt, Kept, Status
<1> QED BY <1>1 DEF Store!Next

\* Every step of the persistent memory is a step of the abstract store, or
\* leaves it alone.
LEMMA StoreStep ==
  ASSUME MemInv, MemInv', MemNext
  PROVE  Store!Next \/ UNCHANGED Store!vars
<1> USE Limits DEF tiers, file, call, history, MemInv
<1>1. ASSUME NEW a \in Agents, Register(a)
      PROVE  Store!Next \/ UNCHANGED Store!vars
  <2>1. /\ mode \notin {"rewriting", "truncated", "down"}
        /\ mode' \notin {"rewriting", "truncated", "down"}
        /\ cold' = cold /\ disk' = disk /\ snaps' = snaps /\ record' = record
    BY <1>1 DEF Register, Idle
  <2>2. /\ Used' = Used /\ Saved' = Saved /\ Doubt' = Doubt /\ Kept' = Kept
        /\ Status = "up" /\ Status' = "up"
    BY <2>1 DEF Used, Saved, Doubt, Differ, Kept, Status
  <2>3. Hot' \subseteq Hot \cup Kept
    <3>1. hot' = [hot EXCEPT ![a] = {}] /\ hot \in [Agents -> SUBSET Ids]
      BY <1>1, TiersType DEF Register, Idle
    <3> QED BY <3>1 DEF Hot
  <2>4. CanRecall = cold \cup Hot /\ CanRecall' = cold \cup Hot'
    BY <2>1, CanRecallIs, CanRecallIsNext
  <2>5. Saved = cold
    BY <2>1 DEF Saved
  <2> QED BY <2>2, <2>3, <2>4, <2>5, MapsToReplace
<1>2. ASSUME NEW a \in Agents, Unregister(a)
      PROVE  Store!Next \/ UNCHANGED Store!vars
  <2>1. /\ mode \notin {"rewriting", "truncated", "down"}
        /\ mode' \notin {"rewriting", "truncated", "down"}
        /\ cold' = cold /\ disk' = disk /\ snaps' = snaps /\ record' = record
    BY <1>2 DEF Unregister, Idle
  <2>2. /\ Used' = Used /\ Saved' = Saved /\ Doubt' = Doubt /\ Kept' = Kept
        /\ Status = "up" /\ Status' = "up"
    BY <2>1 DEF Used, Saved, Doubt, Differ, Kept, Status
  <2>3. Hot' \subseteq Hot \cup Kept
    <3>1. hot' = [hot EXCEPT ![a] = {}] /\ hot \in [Agents -> SUBSET Ids]
      BY <1>2, TiersType DEF Unregister, Idle
    <3> QED BY <3>1 DEF Hot
  <2>4. CanRecall = cold \cup Hot /\ CanRecall' = cold \cup Hot'
    BY <2>1, CanRecallIs, CanRecallIsNext
  <2>5. Saved = cold
    BY <2>1 DEF Saved
  <2> QED BY <2>2, <2>3, <2>4, <2>5, MapsToReplace
<1>3. ASSUME NEW a \in Agents, Snapshot(a)
      PROVE  Store!Next \/ UNCHANGED Store!vars
  <2>1. /\ mode = "idle" /\ mode' = "idle" /\ hot' = hot
        /\ cold' = cold /\ disk' = disk /\ record' = record
    BY <1>3 DEF Snapshot, Idle, Known, Image
  <2>2. /\ Used' = Used /\ Saved' = Saved /\ Doubt' = Doubt
        /\ Status = "up" /\ Status' = "up"
    BY <2>1 DEF Used, Saved, Doubt, Differ, Status
  <2>3. CanRecall = cold \cup Hot /\ CanRecall' = CanRecall
    BY <2>1, CanRecallIs, CanRecallIsNext DEF Hot
  <2>4. Kept' = Kept \cup hot[a]
    BY <1>3, SnapshotKeeps
  <2>5. hot[a] \in SUBSET CanRecall
    BY <2>3 DEF Hot
  <2> QED BY <2>2, <2>3, <2>4, <2>5, MapsToKeep
<1>4. ASSUME NEW a \in Agents, RestartByRecall(a)
      PROVE  Store!Next \/ UNCHANGED Store!vars
  <2>1. /\ mode \notin {"rewriting", "truncated", "down"}
        /\ mode' \notin {"rewriting", "truncated", "down"}
        /\ cold' = cold /\ disk' = disk /\ snaps' = snaps /\ record' = record
    BY <1>4 DEF RestartByRecall, Begin, Best
  <2>2. /\ Used' = Used /\ Saved' = Saved /\ Doubt' = Doubt /\ Kept' = Kept
        /\ Status = "up" /\ Status' = "up"
    BY <2>1 DEF Used, Saved, Doubt, Differ, Kept, Status
  <2>3. Hot' \subseteq Hot \cup Kept
    <3>1. hot' = [hot EXCEPT ![a] = {}] /\ hot \in [Agents -> SUBSET Ids]
      BY <1>4, TiersType DEF RestartByRecall, Begin, Best
    <3> QED BY <3>1 DEF Hot
  <2>4. CanRecall = cold \cup Hot /\ CanRecall' = cold \cup Hot'
    BY <2>1, CanRecallIs, CanRecallIsNext
  <2>5. Saved = cold
    BY <2>1 DEF Saved
  <2> QED BY <2>2, <2>3, <2>4, <2>5, MapsToReplace
<1>5. ASSUME NEW a \in Agents, NEW t \in TokenSizes, NEW p \in Importances,
             Remember(a, t, p)
     
      PROVE  Store!Next \/ UNCHANGED Store!vars
  <2>1. Append1(a, t, p)
    BY <1>5 DEF Remember
  <2>2. /\ mode \notin {"rewriting", "truncated", "down"} /\ mode' = "evicting"
        /\ cold' = cold /\ disk' = disk /\ snaps' = snaps
    BY <1>5 DEF Remember, Begin
  <2>3. /\ Saved' = Saved /\ Doubt' = Doubt /\ Kept' = Kept
        /\ Status = "up" /\ Status' = "up"
    BY <2>2 DEF Saved, Doubt, Differ, Kept, Status
  <2> DEFINE n == Len(record) + 1
  <2>4. /\ Given' = Given \cup {n} /\ n \notin Given /\ hot'[a] = hot[a] \cup {n}
        /\ \A b \in Agents : b # a => hot'[b] = hot[b]
    BY <2>1, Append1Owned
  <2>5. n \in Ids
    BY <2>1, Append1Type
  <2> HIDE DEF n
  <2>6. Hot' = Hot \cup {n}
    BY <2>4 DEF Hot
  <2>7. CanRecall = cold \cup Hot /\ CanRecall' = cold \cup Hot'
    BY <2>2, CanRecallIs, CanRecallIsNext
  <2>8. Used = Given /\ Used' = Given'
    BY DEF Used, Given
  <2> QED BY <2>3, <2>4, <2>5, <2>6, <2>7, <2>8, MapsToRemember
<1>6. ASSUME NEW a \in Agents, NEW s \in Owns(a), Restore(a, s)
      PROVE  Store!Next \/ UNCHANGED Store!vars
  <2>1. /\ mode \notin {"rewriting", "truncated", "down"}
        /\ mode' \notin {"rewriting", "truncated", "down"}
        /\ cold' = cold /\ disk' = disk /\ snaps' = snaps /\ record' = record
    BY <1>6 DEF Restore, Load, Begin
  <2>2. /\ Used' = Used /\ Saved' = Saved /\ Doubt' = Doubt /\ Kept' = Kept
        /\ Status = "up" /\ Status' = "up"
    BY <2>1 DEF Used, Saved, Doubt, Differ, Kept, Status
  <2>3. Hot' \subseteq Hot \cup Kept
    <3>1. s \in Owns(a) /\ Load(a, s, FALSE)
      BY <1>6 DEF Restore
    <3>2. hot'[a] = snaps[s].hot /\ \A b \in Agents : b # a => hot'[b] = hot[b]
      BY <3>1, LoadType
    <3>3. snaps[s].hot \subseteq Kept
      BY <3>1, KeptHas
    <3> QED BY <3>2, <3>3 DEF Hot
  <2>4. CanRecall = cold \cup Hot /\ CanRecall' = cold \cup Hot'
    BY <2>1, CanRecallIs, CanRecallIsNext
  <2>5. Saved = cold
    BY <2>1 DEF Saved
  <2> QED BY <2>2, <2>3, <2>4, <2>5, MapsToReplace
<1>7. ASSUME NEW a \in Agents, NEW h, RestartFromSnapshot(a, h)
      PROVE  Store!Next \/ UNCHANGED Store!vars
  <2>1. /\ mode \notin {"rewriting", "truncated", "down"}
        /\ mode' \notin {"rewriting", "truncated", "down"}
        /\ cold' = cold /\ disk' = disk /\ snaps' = snaps /\ record' = record
    BY <1>7 DEF RestartFromSnapshot, Load, Begin
  <2>2. /\ Used' = Used /\ Saved' = Saved /\ Doubt' = Doubt /\ Kept' = Kept
        /\ Status = "up" /\ Status' = "up"
    BY <2>1 DEF Used, Saved, Doubt, Differ, Kept, Status
  <2>3. Hot' \subseteq Hot \cup Kept
    <3> DEFINE s == RestartFrom(a)
    <3>1. s \in Owns(a) /\ Load(a, s, h)
      BY <1>7, RestartFromOwns DEF RestartFromSnapshot
    <3> HIDE DEF s
    <3>2. hot'[a] = snaps[s].hot /\ \A b \in Agents : b # a => hot'[b] = hot[b]
      BY <3>1, LoadType
    <3>3. snaps[s].hot \subseteq Kept
      BY <3>1, KeptHas
    <3> QED BY <3>2, <3>3 DEF Hot
  <2>4. CanRecall = cold \cup Hot /\ CanRecall' = cold \cup Hot'
    BY <2>1, CanRecallIs, CanRecallIsNext
  <2>5. Saved = cold
    BY <2>1 DEF Saved
  <2> QED BY <2>2, <2>3, <2>4, <2>5, MapsToReplace
<1>8. ASSUME NEW i \in Ids, Forget(i)
      PROVE  Store!Next \/ UNCHANGED Store!vars
  <2>1. /\ mode = "idle" /\ cold' = cold \ {i} /\ disk' = disk
        /\ snaps' = snaps /\ record' = record
        /\ \A a \in Agents : hot'[a] = hot[a] \ {i}
        /\ mode' = IF i \in cold THEN "rewriting" ELSE "idle"
    BY <1>8 DEF Forget
  <2>2. Used' = Used /\ Kept' = Kept /\ Status = "up"
    BY <2>1 DEF Used, Kept, Status
  <2>3. CanRecall = cold \cup Hot /\ CanRecall' = cold' \cup Hot'
    BY <2>1, CanRecallIs, CanRecallIsNext
  <2>4. CanRecall' = CanRecall \ {i}
    BY <2>1, <2>3 DEF Hot
  <2>5. Saved = cold /\ Saved' = cold' /\ Doubt = Differ /\ Doubt' = Differ'
    BY <2>1 DEF Saved, Doubt
  <2>6. IF i \in Saved
        THEN /\ Saved' = Saved \ {i} /\ Status' = "rewriting"
             /\ Doubt' = IF i \in Doubt THEN Doubt \ {i} ELSE Doubt \cup {i}
        ELSE Saved' = Saved /\ Doubt' = Doubt /\ Status' = Status
    BY <2>1, <2>5 DEF Differ, Status
  <2> QED BY <2>2, <2>4, <2>6, MapsToForget
<1>9. CASE Evict
  <2>1. PICK i \in hot[actor] :
          /\ cold' = cold \cup {i} /\ disk' = disk \cup {i}
          /\ hot' = [hot EXCEPT ![actor] = @ \ {i}] /\ i \in Ids
    BY <1>9, EvictMoves
  <2>2. actor \in Agents
    BY <1>9, EvictMoves
  <2>3. /\ mode = "evicting" /\ mode' \notin {"rewriting", "truncated", "down"}
        /\ snaps' = snaps /\ record' = record
    BY <1>9 DEF Evict, Move
  <2>4. Used' = Used /\ Kept' = Kept /\ Status = "up" /\ Status' = "up"
    BY <2>3 DEF Used, Kept, Status
  <2>5. CanRecall = cold \cup Hot /\ CanRecall' = cold' \cup Hot'
    BY <2>3, CanRecallIs, CanRecallIsNext
  <2>6. i \in Hot /\ Hot' \subseteq Hot /\ Hot \subseteq Hot' \cup {i}
    BY <2>1, <2>2, TiersType DEF Hot
  <2>7. CanRecall' = CanRecall /\ i \in CanRecall
    BY <2>1, <2>5, <2>6
  <2>8. /\ Saved' = Saved \cup {i} /\ Saved = cold /\ Doubt = Differ
        /\ Doubt' = Differ'
    BY <2>1, <2>3 DEF Saved, Doubt
  <2>9. \/ Doubt' = Doubt \ {i}
        \/ Doubt' = Doubt \cup {i} /\ i \notin Saved
        \/ Doubt' = Doubt
    BY <2>1, <2>8 DEF Differ
  <2> QED BY <2>1, <2>4, <2>7, <2>8, <2>9, MapsToSave
<1>10. CASE EvictFails
  <2>1. PICK i \in hot[actor] :
          /\ cold' = cold \cup {i} /\ disk' = disk
          /\ hot' = [hot EXCEPT ![actor] = @ \ {i}] /\ i \in Ids
    BY <1>10, EvictMoves
  <2>2. actor \in Agents
    BY <1>10, EvictMoves
  <2>3. /\ mode = "evicting" /\ mode' \notin {"rewriting", "truncated", "down"}
        /\ snaps' = snaps /\ record' = record
    BY <1>10 DEF EvictFails, Move, End, AfterEviction
  <2>4. Used' = Used /\ Kept' = Kept /\ Status = "up" /\ Status' = "up"
    BY <2>3 DEF Used, Kept, Status
  <2>5. CanRecall = cold \cup Hot /\ CanRecall' = cold' \cup Hot'
    BY <2>3, CanRecallIs, CanRecallIsNext
  <2>6. i \in Hot /\ Hot' \subseteq Hot /\ Hot \subseteq Hot' \cup {i}
    BY <2>1, <2>2, TiersType DEF Hot
  <2>7. CanRecall' = CanRecall /\ i \in CanRecall
    BY <2>1, <2>5, <2>6
  <2>8. /\ Saved' = Saved \cup {i} /\ Saved = cold /\ Doubt = Differ
        /\ Doubt' = Differ'
    BY <2>1, <2>3 DEF Saved, Doubt
  <2>9. \/ Doubt' = Doubt \ {i}
        \/ Doubt' = Doubt \cup {i} /\ i \notin Saved
        \/ Doubt' = Doubt
    BY <2>1, <2>8 DEF Differ
  <2> QED BY <2>1, <2>4, <2>7, <2>8, <2>9, MapsToSave
<1>11. CASE WithinAgain
  <2>1. /\ mode \notin {"rewriting", "truncated", "down"}
        /\ mode' \notin {"rewriting", "truncated", "down"}
        /\ cold' = cold /\ disk' = disk /\ snaps' = snaps /\ record' = record
    BY <1>11 DEF WithinAgain, End, AfterEviction
  <2>2. /\ Used' = Used /\ Saved' = Saved /\ Doubt' = Doubt /\ Kept' = Kept
        /\ Status = "up" /\ Status' = "up"
    BY <2>1 DEF Used, Saved, Doubt, Differ, Kept, Status
  <2>3. hot' = hot
    BY <1>11 DEF WithinAgain, End, AfterEviction
  <2>4. CanRecall' = CanRecall
    BY <2>1, <2>3, CanRecallIs, CanRecallIsNext DEF Hot
  <2> QED BY <2>2, <2>4, MapsToStutter
<1>12. CASE Truncate
  <2>1. /\ mode \in {"rewriting", "truncated"} /\ mode' # "down"
        /\ cold' = cold /\ snaps' = snaps /\ record' = record /\ hot' = hot
    BY <1>12 DEF Truncate
  <2>2. /\ Used' = Used /\ Saved' = Saved /\ Kept' = Kept
        /\ Status = "rewriting" /\ Saved = cold
    BY <2>1 DEF Used, Saved, Kept, Status
  <2>3. CanRecall' = CanRecall
    BY <2>1, CanRecallIs, CanRecallIsNext DEF Hot
  <2>4. Status' = "rewriting" /\ Doubt' = Saved
    BY <1>12, <2>1 DEF Truncate, Status, Saved, Doubt, Differ, Phases
  <2> QED BY <2>2, <2>3, <2>4, MapsToRewrite
<1>13. CASE WriteBack
  <2>1. /\ mode \in {"rewriting", "truncated"} /\ mode' # "down"
        /\ cold' = cold /\ snaps' = snaps /\ record' = record /\ hot' = hot
    BY <1>13 DEF WriteBack
  <2>2. /\ Used' = Used /\ Saved' = Saved /\ Kept' = Kept
        /\ Status = "rewriting" /\ Saved = cold
    BY <2>1 DEF Used, Saved, Kept, Status
  <2>3. CanRecall' = CanRecall
    BY <2>1, CanRecallIs, CanRecallIsNext DEF Hot
  <2>4. Status' = "up" /\ Doubt' = {}
    BY <1>13, <2>1 DEF WriteBack, Status, Saved, Doubt, Differ, Phases
  <2> QED BY <2>2, <2>3, <2>4, MapsToRewrite
<1>14. CASE RewriteFails
  <2>1. /\ mode \in {"rewriting", "truncated"} /\ mode' # "down"
        /\ cold' = cold /\ snaps' = snaps /\ record' = record /\ hot' = hot
    BY <1>14 DEF RewriteFails
  <2>2. /\ Used' = Used /\ Saved' = Saved /\ Kept' = Kept
        /\ Status = "rewriting" /\ Saved = cold
    BY <2>1 DEF Used, Saved, Kept, Status
  <2>3. CanRecall' = CanRecall
    BY <2>1, CanRecallIs, CanRecallIsNext DEF Hot
  <2>4. Status' = "up" /\ (Doubt' \in SUBSET Saved \/ Doubt' = Doubt)
    BY <1>14, <2>1 DEF RewriteFails, Status, Saved, Doubt, Differ, Phases
  <2> QED BY <2>2, <2>3, <2>4, MapsToRewrite
<1>15. CASE Copy
  <2>1. PICK a \in Agents, t \in TokenSizes, p \in Importances :
          a = actor /\ Append1(a, t, p) /\ todo' \subseteq todo
    BY <1>15, CopyAppends
  <2>2. /\ mode \notin {"rewriting", "truncated", "down"} /\ mode' = "evicting"
        /\ cold' = cold /\ disk' = disk /\ snaps' = snaps
    BY <1>15 DEF Copy
  <2>3. /\ Saved' = Saved /\ Doubt' = Doubt /\ Kept' = Kept
        /\ Status = "up" /\ Status' = "up"
    BY <2>2 DEF Saved, Doubt, Differ, Kept, Status
  <2> DEFINE n == Len(record) + 1
  <2>4. /\ Given' = Given \cup {n} /\ n \notin Given /\ hot'[a] = hot[a] \cup {n}
        /\ \A b \in Agents : b # a => hot'[b] = hot[b]
    BY <2>1, Append1Owned
  <2>5. n \in Ids
    BY <2>1, Append1Type
  <2> HIDE DEF n
  <2>6. Hot' = Hot \cup {n}
    BY <2>4 DEF Hot
  <2>7. CanRecall = cold \cup Hot /\ CanRecall' = cold \cup Hot'
    BY <2>2, CanRecallIs, CanRecallIsNext
  <2>8. Used = Given /\ Used' = Given'
    BY DEF Used, Given
  <2> QED BY <2>3, <2>4, <2>5, <2>6, <2>7, <2>8, MapsToRemember
<1>16. CASE CopiesDone
  <2>1. /\ mode \notin {"rewriting", "truncated", "down"}
        /\ mode' \notin {"rewriting", "truncated", "down"}
        /\ cold' = cold /\ disk' = disk /\ snaps' = snaps /\ record' = record
    BY <1>16 DEF CopiesDone, End
  <2>2. /\ Used' = Used /\ Saved' = Saved /\ Doubt' = Doubt /\ Kept' = Kept
        /\ Status = "up" /\ Status' = "up"
    BY <2>1 DEF Used, Saved, Doubt, Differ, Kept, Status
  <2>3. hot' = hot
    BY <1>16 DEF CopiesDone, End
  <2>4. CanRecall' = CanRecall
    BY <2>1, <2>3, CanRecallIs, CanRecallIsNext DEF Hot
  <2> QED BY <2>2, <2>4, MapsToStutter
<1>17. CASE Crash
  <2>1. /\ mode # "down" /\ mode' = "down" /\ snaps' = snaps /\ record' = record
        /\ disk' = disk \/ (mode = "truncated" /\ disk' \in SUBSET cold)
    BY <1>17 DEF Crash
  <2>2. /\ Used' = Used /\ Kept' = Kept /\ Status # "down" /\ Status' = "down"
        /\ CanRecall' = Saved' /\ Doubt' = {} /\ Saved = cold /\ Saved' = disk'
        /\ Doubt = Differ
    BY <2>1 DEF Used, Kept, Status, CanRecall, Saved, Doubt
  <2>3. mode = "truncated" => disk = {}
    BY DEF Phases
  <2>4. Saved \ Doubt \subseteq Saved' /\ Saved' \subseteq Saved \cup Doubt
    BY <2>1, <2>2, <2>3 DEF Differ
  <2> QED BY <2>2, <2>4, MapsToCrash
<1>18. CASE Boot
  <2>1. /\ mode = "down" /\ mode' = "idle" /\ cold' = disk /\ disk' = disk
        /\ hot' = hot /\ snaps' = snaps /\ record' = record
        /\ \A a \in Agents : hot[a] = {}
    BY <1>18 DEF Boot, Phases
  <2>2. /\ Used' = Used /\ Kept' = Kept /\ Status = "down" /\ Status' = "up"
        /\ Saved' = Saved /\ Doubt' = Doubt
    BY <2>1 DEF Used, Kept, Status, Saved, Doubt, Differ
  <2>3. CanRecall' = disk' \cup Hot' /\ CanRecall = disk /\ Hot' = {}
    BY <2>1, CanRecallIs, CanRecallIsNext DEF Hot
  <2> QED BY <2>1, <2>2, <2>3, MapsToBoot
<1> QED
  BY <1>1, <1>2, <1>3, <1>4, <1>5, <1>6, <1>7, <1>8, <1>9, <1>10, <1>11,
     <1>12, <1>13, <1>14, <1>15, <1>16, <1>17, <1>18 DEF MemNext

-----------------------------------------------------------------------------
(* The theorems *)

\* The memory begins in order.
LEMMA MemInvInit == MemInit => MemInv
<1> SUFFICES ASSUME MemInit PROVE MemInv
  OBVIOUS
<1>1. MemTypeOK
  BY MemTypeInit
<1>2. Len(record) = 0 /\ Len(snaps) = 0 /\ Given = {}
  BY DEF MemInit, Given
<1>3. Provenance
  BY <1>2 DEF MemInit, Provenance, Owned
<1>4. Phases
  BY DEF MemInit, Phases
<1>5. Indexed
  <2>1. WarmLimit + 0 \in Nat /\ 0 <= WarmLimit + 0
    BY Limits
  <2> QED BY <2>1, EmptyList DEF MemInit, Indexed
<1>6. Once
  BY DEF MemInit, Once
<1>7. Afforded
  <2> SUFFICES ASSUME NEW a \in Agents PROVE Tokens(hot[a]) <= budget[a]
    BY DEF Afforded
  <2>1. hot[a] = {} /\ budget[a] = 0
    BY DEF MemInit
  <2> DEFINE S == hot[a]
  <2>2. S = {}
    BY <2>1
  <2> HIDE DEF S
  <2>3. Tokens(S) = 0
    BY <2>2, TokensOfNone
  <2> QED BY <2>1, <2>3 DEF S
<1> QED BY <1>1, <1>3, <1>4, <1>5, <1>6, <1>7 DEF MemInv

\* Every step keeps it so.
LEMMA MemInvStep == MemInv /\ (MemNext \/ UNCHANGED memvars) => MemInv'
<1> SUFFICES ASSUME MemInv, MemNext \/ UNCHANGED memvars PROVE MemInv'
  OBVIOUS
<1>1. CASE MemNext
  <2>1. MemTypeOK /\ Provenance /\ Phases /\ Indexed /\ Once /\ Afforded
    BY DEF MemInv
  <2>2. MemTypeOK'
    BY <1>1, <2>1, MemTypeStep
  <2>3. Provenance'
    BY <1>1, <2>1, ProvenanceStep
  <2>4. Phases'
    BY <1>1, <2>1, PhasesStep
  <2>5. Indexed'
    BY <1>1, <2>1, IndexedStep
  <2>6. Once'
    BY <1>1, <2>1, OnceStep
  <2>7. Afforded'
    BY <1>1, <2>1, AffordedStep
  <2> QED BY <2>2, <2>3, <2>4, <2>5, <2>6, <2>7 DEF MemInv
<1>2. CASE UNCHANGED memvars
  <2> USE <1>2 DEF memvars, tiers, file, call, history, MemInv
  <2>1. MemTypeOK'
    BY DEF MemTypeOK
  <2>2. Provenance'
    BY DEF Provenance, Given, Owned
  <2>3. Phases'
    BY DEF Phases
  <2>4. Indexed'
    BY DEF Indexed
  <2>5. Once'
    BY DEF Once, Kept
  <2>6. Afforded'
    BY DEF Afforded, Tokens
  <2> QED BY <2>1, <2>2, <2>3, <2>4, <2>5, <2>6
<1> QED BY <1>1, <1>2

\* What is in order is within budget, and has forgotten what it forgot.
LEMMA MemInvImplies == MemInv => WithinBudget /\ ForgottenStaysForgotten
<1> SUFFICES ASSUME MemInv PROVE WithinBudget /\ ForgottenStaysForgotten
  OBVIOUS
<1>1. WithinBudget
  BY DEF MemInv, Indexed, Afforded, WithinBudget
<1>2. ForgottenStaysForgotten
  <2> SUFFICES ASSUME NEW i \in forgotten, Recallable(i)
               PROVE  \E s \in 1 .. Len(snaps) : i \in snaps[s].hot
    BY DEF ForgottenStaysForgotten
  <2>1. PICK a \in Agents : i \in cold \/ i \in hot[a]
    <3>1. CASE \E a \in Agents : TRUE
      BY <3>1 DEF Recallable, MemInv, Indexed
    <3>2. CASE Agents = {}
      <4>1. i \in Given /\ i \in 1 .. Len(record)
        BY DEF MemInv, Provenance, Given
      <4>2. record[i] \in RecordType
        BY <4>1, RecordIn DEF MemInv
      <4> QED BY <3>2, <4>2 DEF RecordType
    <3> QED BY <3>1, <3>2
  <2>2. i \in Kept
    BY <2>1 DEF MemInv, Once
  <2> QED BY <2>2 DEF Kept
<1> QED BY <1>1, <1>2

\* The invariant of the host.
HostInv == MemInv /\ PageInv

\* Both managers keep their invariants, whichever the host was built with.
LEMMA HostInvariant == Spec => []HostInv
<1>1. Init => HostInv
  BY MemInvInit, PageInvInit DEF Init, HostInv
<1>2. HostInv /\ [Next]_vars => HostInv'
  <2> SUFFICES ASSUME HostInv, [Next]_vars PROVE HostInv'
    OBVIOUS
  <2>1. MemNext \/ UNCHANGED memvars
    BY DEF Next, vars
  <2>2. PageNext \/ UNCHANGED pagevars
    BY DEF Next, vars
  <2> QED BY <2>1, <2>2, MemInvStep, PageInvStep DEF HostInv
<1> QED BY <1>1, <1>2, PTL DEF Spec

\* Every variable of the two managers keeps its type through every call of
\* memory_store.py and memory.rs, and every fault inside one.
THEOREM TypeCorrect == Spec => []TypeOK
<1>1. HostInv => TypeOK
  BY DEF HostInv, MemInv, PageInv, TypeOK
<1> QED BY <1>1, HostInvariant, PTL

\* For any number of agents, records, snapshots and faults: between calls an
\* agent's hot records fit its budget unless an I/O error cut its last
\* eviction short (_evict_if_needed), and the warm list never names a record
\* that is not in the index nor outgrows its limit by more than the writes
\* that failed.
THEOREM BudgetsHold == Spec => []WithinBudget
<1>1. HostInv => WithinBudget
  BY MemInvImplies DEF HostInv
<1> QED BY <1>1, HostInvariant, PTL

\* A record for which forget() returned True is recalled again only where a
\* snapshot held it, whatever restarts, restores, crashes and failed rewrites
\* of memories.jsonl come after.
THEOREM ForgottenForGood == Spec => []ForgottenStaysForgotten
<1>1. HostInv => ForgottenStaysForgotten
  BY MemInvImplies DEF HostInv
<1> QED BY <1>1, HostInvariant, PTL

\* The native table's current_active_tokens is always what its active pages
\* add up to and never exceeds the limit, and no active page shows a stub, for
\* every page size and limit: paging the victims out is always enough.
THEOREM PagesAreAccounted == Spec => []PagesAccounted
<1>1. HostInv => PagesAccounted
  BY PageInvImplies DEF HostInv
<1> QED BY <1>1, HostInvariant, PTL

\* The newest eviction of a page that is out has the content last given to
\* that page, however appends, page-ins and take_evicted_pages follow each
\* other.
THEOREM PagesAreRecoverable == Spec => []PagedOutRecoverable
<1>1. HostInv => PagedOutRecoverable
  BY PageInvImplies DEF HostInv
<1> QED BY <1>1, HostInvariant, PTL

\* The tiers, the index and the file together implement the abstract store:
\* every step, those inside a call and those that fail included, is one that
\* RecordStore allows or changes nothing in it.
THEOREM MemoryIsAStore == Spec => ImplementsStore
<1>1. Init => Store!Init
  <2> SUFFICES ASSUME Init PROVE Store!Init
    OBVIOUS
  <2>1. MemInit
    BY DEF Init
  <2>2. MemInv
    BY <2>1, MemInvInit
  <2>3. CanRecall = {}
    BY <2>1, <2>2, CanRecallIs DEF MemInit, Hot
  <2>4. Used = {} /\ Saved = {} /\ Doubt = {} /\ Kept = {} /\ Status = "up"
    BY <2>1 DEF MemInit, Used, Saved, Doubt, Differ, Kept, Status
  <2> QED BY <2>3, <2>4 DEF Store!Init, CanRecall, Used, Saved, Doubt, Kept, Status
<1>2. HostInv /\ HostInv' /\ [Next]_vars => [Store!Next]_(Store!vars)
  <2> SUFFICES ASSUME HostInv, HostInv', [Next]_vars
               PROVE  Store!Next \/ UNCHANGED Store!vars
    BY DEF Store!vars
  <2>1. MemInv /\ MemInv'
    BY DEF HostInv
  <2>2. CASE MemNext
    BY <2>1, <2>2, StoreStep
  <2>3. CASE UNCHANGED memvars
    <3> USE <2>3 DEF memvars, tiers, file, call, history
    <3>1. Used' = Used /\ Saved' = Saved /\ Doubt' = Doubt /\ Kept' = Kept
          /\ Status' = Status
      BY DEF Used, Saved, Doubt, Differ, Kept, Status
    <3>2. CanRecall' = CanRecall
      BY DEF CanRecall, Recallable
    <3> QED BY <3>1, <3>2, MapsToStutter
  <2> QED BY <2>2, <2>3 DEF Next, vars
<1> QED BY <1>1, <1>2, HostInvariant, PTL DEF Spec, ImplementsStore, Store!Spec
=============================================================================
