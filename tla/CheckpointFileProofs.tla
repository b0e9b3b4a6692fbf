------------------------ MODULE CheckpointFileProofs ------------------------
(***************************************************************************)
(* Proofs about CheckpointFile, for any number of processes and threads.   *)
(*                                                                         *)
(* The argument for at-most-once: as long as the path is used regularly,   *)
(* the checkpoint file is a token.  It lies at the path, or one thread     *)
(* holds it between its claim and its restore, or it is spent.  The one    *)
(* for durability: a temporary file belongs to the thread that writes it,  *)
(* and every rename moves a complete file.                                 *)
(***************************************************************************)
EXTENDS CheckpointFile, TLAPS

\* Between a successful claim and the end of the resume or of the restore.
HoldStates == {"resume", "consume", "execute", "continue", "restore", "putback"}
Holding(t) == pc[t] \in HoldStates

Unspent == \A c \in Cps : executed[c] = 0

OneToken ==
  /\ \A t \in Threads : Holding(t) => target = NoFile /\ "claim" \in seen
  /\ \A t, u \in Threads : Holding(t) /\ Holding(u) => t = u
  /\ \A t \in Threads : Holding(t) /\ pc[t] # "continue" => Unspent
  /\ ~Unspent => target = NoFile /\ "claim" \in seen
  /\ \A c \in Cps : executed[c] <= 1

TokenInv == Regular => OneToken

Inv == TypeOK /\ TokenInv

-----------------------------------------------------------------------------
\* Moving a thread on, or ending its call, keeps its variables typed.
LEMMA GotoTyped ==
  ASSUME ThreadType, NEW t \in Threads, NEW to \in ThreadStates,
         pc' = [pc EXCEPT ![t] = to], UNCHANGED <<cp, open, by_path, files>>
  PROVE  ThreadType'
BY DEF ThreadType

\* So does the end of a call.
LEMMA LeaveTyped ==
  ASSUME DirectoryType, ThreadType, NEW t \in Threads, NEW from,
         NEW to \in ThreadStates, Leave(t, from, to), UNCHANGED files
  PROVE  ThreadType'
BY DirectoryAssumption
DEF DirectoryAssumption, DirectoryType, ThreadType, Leave, Goto, NoFile, Cps

\* The invariant of type correctness is inductive.
LEMMA TypeStep == TypeOK /\ [Next]_vars => TypeOK'
<1> USE DirectoryAssumption DEF DirectoryAssumption, Cps, Files, NoFile,
        directory, storage, local, memory
<1> SUFFICES ASSUME TypeOK, [Next]_vars PROVE TypeOK'
  OBVIOUS
<1>0. DirectoryType /\ ThreadType /\ HistoryType
  BY DEF TypeOK
<1>1. ASSUME NEW t \in Threads, NEW c \in Cps, BeginSave(t, c) PROVE TypeOK'
  <2>1. DirectoryType'
    BY <1>0, <1>1
    DEF BeginSave, DirectoryType
  <2>2. ThreadType'
    BY <1>0, <1>1
    DEF BeginSave, Begin, ThreadType, ThreadStates
  <2>3. HistoryType'
    BY <1>0, <1>1
    DEF BeginSave, HistoryType, Seen
  <2> QED BY <2>1, <2>2, <2>3 DEF TypeOK
<1>2. ASSUME NEW t \in Threads, OpenTemp(t) PROVE TypeOK'
  <2>1. CASE temp[Home[t]] = NoFile
    <3>4. /\ files < MaxFiles /\ files' = files + 1
          /\ pc' = [pc EXCEPT ![t] = "write"]
          /\ temp' = [temp EXCEPT ![Home[t]] = files + 1]
          /\ content' = [content EXCEPT ![files + 1] = cp[t]]
          /\ open' = [open EXCEPT ![t] = files + 1]
          /\ UNCHANGED <<target, claimed, whole, cp, by_path>>
      BY <1>2, <2>1 DEF OpenTemp, Create, Goto
    <3>5. files \in Nat /\ files + 1 \in 1 .. MaxFiles
          /\ 0 .. files \subseteq 0 .. files'
      BY <1>0, <3>4 DEF DirectoryType
    <3>1. DirectoryType'
      <4>1. temp' \in [Procs -> 0 .. files'] /\ content' \in [Files -> Cps]
        BY <1>0, <3>4, <3>5 DEF DirectoryType, ThreadType
      <4> QED BY <1>0, <3>4, <3>5, <4>1 DEF DirectoryType
    <3>2. ThreadType'
      BY <1>0, <3>4, <3>5 DEF DirectoryType, ThreadType, ThreadStates
    <3>3. HistoryType'
      BY <1>0, <1>2, <2>1
      DEF OpenTemp, HistoryType, Seen
    <3> QED BY <3>1, <3>2, <3>3 DEF TypeOK
  <2>2. CASE ~(temp[Home[t]] = NoFile)
    <3>1. DirectoryType'
      BY <1>0, <1>2, <2>2
      DEF OpenTemp, DirectoryType
    <3>2. ThreadType'
      BY <1>0, <1>2, <2>2, GotoTyped
      DEF OpenTemp, Goto, ThreadStates
    <3>3. HistoryType'
      BY <1>0, <1>2, <2>2
      DEF OpenTemp, HistoryType, Seen
    <3> QED BY <3>1, <3>2, <3>3 DEF TypeOK
  <2> QED BY <2>1, <2>2
<1>3. ASSUME NEW t \in Threads, WriteTemp(t) PROVE TypeOK'
  <2>1. DirectoryType'
    BY <1>0, <1>3
    DEF WriteTemp, DirectoryType, ThreadType
  <2>2. ThreadType'
    BY <1>0, <1>3, GotoTyped
    DEF WriteTemp, Goto, ThreadStates
  <2>3. HistoryType'
    BY <1>0, <1>3
    DEF WriteTemp, HistoryType, Seen
  <2> QED BY <2>1, <2>2, <2>3 DEF TypeOK
<1>4. ASSUME NEW t \in Threads, ReplaceTarget(t) PROVE TypeOK'
  <2>1. CASE temp[Home[t]] = NoFile
    <3>1. DirectoryType'
      BY <1>0, <1>4, <2>1
      DEF ReplaceTarget, DirectoryType
    <3>2. ThreadType'
      BY <1>0, <1>4, <2>1, GotoTyped
      DEF ReplaceTarget, Goto, ThreadStates
    <3>3. HistoryType'
      BY <1>0, <1>4, <2>1
      DEF ReplaceTarget, HistoryType, Seen
    <3> QED BY <3>1, <3>2, <3>3 DEF TypeOK
  <2>2. CASE ~(temp[Home[t]] = NoFile)
    <3>1. DirectoryType'
      BY <1>0, <1>4, <2>2
      DEF ReplaceTarget, DirectoryType
    <3>2. ThreadType'
      BY <1>0, <1>4, <2>2, GotoTyped
      DEF ReplaceTarget, Goto, ThreadStates
    <3>3. HistoryType'
      <4>1. last' = cp[t] /\ cp[t] \in Cps
        BY <1>0, <1>4, <2>2 DEF ReplaceTarget, ThreadType
      <4>2. seen' \subseteq Seen
        BY <1>0, <1>4, <2>2 DEF ReplaceTarget, HistoryType, Seen
      <4> QED
        BY <1>0, <1>4, <4>1, <4>2 DEF ReplaceTarget, HistoryType
    <3> QED BY <3>1, <3>2, <3>3 DEF TypeOK
  <2> QED BY <2>1, <2>2
<1>5. ASSUME NEW t \in Threads, UnlinkTemp(t) PROVE TypeOK'
  <2>1. DirectoryType'
    BY <1>0, <1>5
    DEF UnlinkTemp, DirectoryType
  <2>2. ThreadType'
    BY <1>0, <1>5, LeaveTyped
    DEF UnlinkTemp, ThreadStates
  <2>3. HistoryType'
    BY <1>0, <1>5
    DEF UnlinkTemp, HistoryType, Seen
  <2> QED BY <2>1, <2>2, <2>3 DEF TypeOK
<1>6. ASSUME NEW t \in Threads, LoadObject(t) PROVE TypeOK'
  <2>1. DirectoryType'
    BY <1>0, <1>6
    DEF LoadObject, DirectoryType
  <2>2. ThreadType'
    BY <1>0, <1>6
    DEF LoadObject, ThreadType, ThreadStates
  <2>3. HistoryType'
    BY <1>0, <1>6
    DEF LoadObject, Readable, DirectoryType, HistoryType
  <2> QED BY <2>1, <2>2, <2>3 DEF TypeOK
<1>7. ASSUME NEW t \in Threads, ResumePartially(t) PROVE TypeOK'
  <2>1. DirectoryType'
    BY <1>0, <1>7
    DEF ResumePartially, DirectoryType
  <2>2. ThreadType'
    BY <1>0, <1>7, GotoTyped
    DEF ResumePartially, Begin, ThreadStates
  <2>3. HistoryType'
    BY <1>0, <1>7
    DEF ResumePartially, HistoryType, Seen
  <2> QED BY <2>1, <2>2, <2>3 DEF TypeOK
<1>8. ASSUME NEW t \in Threads, BeginResume(t) PROVE TypeOK'
  <2>1. DirectoryType'
    BY <1>0, <1>8
    DEF BeginResume, DirectoryType
  <2>2. ThreadType'
    BY <1>0, <1>8
    DEF BeginResume, Begin, Readable, DirectoryType, ThreadType, ThreadStates
  <2>3. HistoryType'
    BY <1>0, <1>8
    DEF BeginResume, HistoryType, Seen
  <2> QED BY <2>1, <2>2, <2>3 DEF TypeOK
<1>9. ASSUME NEW t \in Threads, NEW c \in Cps, BeginObjectResume(t, c) PROVE TypeOK'
  <2>1. DirectoryType'
    BY <1>0, <1>9
    DEF BeginObjectResume, DirectoryType
  <2>2. ThreadType'
    BY <1>0, <1>9
    DEF BeginObjectResume, Begin, ThreadType, ThreadStates
  <2>3. HistoryType'
    BY <1>0, <1>9
    DEF BeginObjectResume, HistoryType, Seen
  <2> QED BY <2>1, <2>2, <2>3 DEF TypeOK
<1>10. ASSUME NEW t \in Threads, CheckConsumed(t) PROVE TypeOK'
  <2>1. CASE claimed # NoFile
    <3>1. DirectoryType'
      BY <1>0, <1>10, <2>1
      DEF CheckConsumed, DirectoryType
    <3>2. ThreadType'
      BY <1>0, <1>10, <2>1, LeaveTyped
      DEF CheckConsumed, ThreadStates
    <3>3. HistoryType'
      BY <1>0, <1>10, <2>1
      DEF CheckConsumed, HistoryType, Seen
    <3> QED BY <3>1, <3>2, <3>3 DEF TypeOK
  <2>2. CASE ~(claimed # NoFile)
    <3>1. DirectoryType'
      BY <1>0, <1>10, <2>2
      DEF CheckConsumed, DirectoryType
    <3>2. ThreadType'
      BY <1>0, <1>10, <2>2, GotoTyped
      DEF CheckConsumed, Goto, ThreadStates
    <3>3. HistoryType'
      BY <1>0, <1>10, <2>2
      DEF CheckConsumed, HistoryType, Seen
    <3> QED BY <3>1, <3>2, <3>3 DEF TypeOK
  <2> QED BY <2>1, <2>2
<1>11. ASSUME NEW t \in Threads, Claim(t) PROVE TypeOK'
  <2>1. CASE target = NoFile
    <3>1. DirectoryType'
      BY <1>0, <1>11, <2>1
      DEF Claim, DirectoryType
    <3>2. ThreadType'
      BY <1>0, <1>11, <2>1, LeaveTyped
      DEF Claim, ThreadStates
    <3>3. HistoryType'
      BY <1>0, <1>11, <2>1
      DEF Claim, HistoryType, Seen
    <3> QED BY <3>1, <3>2, <3>3 DEF TypeOK
  <2>2. CASE ~(target = NoFile)
    <3>1. DirectoryType'
      BY <1>0, <1>11, <2>2
      DEF Claim, DirectoryType
    <3>2. ThreadType'
      BY <1>0, <1>11, <2>2, GotoTyped
      DEF Claim, Goto, ThreadStates
    <3>3. HistoryType'
      BY <1>0, <1>11, <2>2
      DEF Claim, HistoryType, Seen
    <3> QED BY <3>1, <3>2, <3>3 DEF TypeOK
  <2> QED BY <2>1, <2>2
<1>12. ASSUME NEW t \in Threads, ResumeRejected(t) PROVE TypeOK'
  <2>1. DirectoryType'
    BY <1>0, <1>12
    DEF ResumeRejected, DirectoryType
  <2>2. ThreadType'
    BY <1>0, <1>12, GotoTyped
    DEF ResumeRejected, Goto, ThreadStates
  <2>3. HistoryType'
    BY <1>0, <1>12
    DEF ResumeRejected, HistoryType, Seen
  <2> QED BY <2>1, <2>2, <2>3 DEF TypeOK
<1>13. ASSUME NEW t \in Threads, ResumeAccepted(t) PROVE TypeOK'
  <2>1. DirectoryType'
    BY <1>0, <1>13
    DEF ResumeAccepted, DirectoryType
  <2>2. ThreadType'
    BY <1>0, <1>13, GotoTyped
    DEF ResumeAccepted, Goto, ThreadStates
  <2>3. HistoryType'
    BY <1>0, <1>13
    DEF ResumeAccepted, HistoryType, Seen
  <2> QED BY <2>1, <2>2, <2>3 DEF TypeOK
<1>14. ASSUME NEW t \in Threads, Consume(t) PROVE TypeOK'
  <2>1. DirectoryType'
    BY <1>0, <1>14
    DEF Consume, DirectoryType
  <2>2. ThreadType'
    BY <1>0, <1>14, GotoTyped
    DEF Consume, Goto, ThreadStates
  <2>3. HistoryType'
    BY <1>0, <1>14
    DEF Consume, HistoryType, ThreadType
  <2> QED BY <2>1, <2>2, <2>3 DEF TypeOK
<1>15. ASSUME NEW t \in Threads, Execute(t) PROVE TypeOK'
  <2>1. DirectoryType'
    BY <1>0, <1>15
    DEF Execute, DirectoryType
  <2>2. ThreadType'
    BY <1>0, <1>15, GotoTyped
    DEF Execute, Goto, ThreadStates
  <2>3. HistoryType'
    BY <1>0, <1>15
    DEF Execute, HistoryType, ThreadType
  <2> QED BY <2>1, <2>2, <2>3 DEF TypeOK
<1>16. ASSUME NEW t \in Threads, RunEnds(t) PROVE TypeOK'
  <2>1. DirectoryType'
    BY <1>0, <1>16
    DEF RunEnds, DirectoryType
  <2>2. ThreadType'
    BY <1>0, <1>16, LeaveTyped
    DEF RunEnds, ThreadStates
  <2>3. HistoryType'
    BY <1>0, <1>16
    DEF RunEnds, HistoryType, Seen
  <2> QED BY <2>1, <2>2, <2>3 DEF TypeOK
<1>17. ASSUME NEW t \in Threads, RunPauses(t) PROVE TypeOK'
  <2>1. DirectoryType'
    BY <1>0, <1>17
    DEF RunPauses, DirectoryType
  <2>2. ThreadType'
    BY <1>0, <1>17, LeaveTyped
    DEF RunPauses, ThreadStates
  <2>3. HistoryType'
    BY <1>0, <1>17
    DEF RunPauses, HistoryType, Seen
  <2> QED BY <2>1, <2>2, <2>3 DEF TypeOK
<1>18. ASSUME NEW t \in Threads, RunRaises(t) PROVE TypeOK'
  <2>1. DirectoryType'
    BY <1>0, <1>18
    DEF RunRaises, DirectoryType
  <2>2. ThreadType'
    BY <1>0, <1>18, GotoTyped
    DEF RunRaises, Goto, ThreadStates
  <2>3. HistoryType'
    BY <1>0, <1>18
    DEF RunRaises, HistoryType, Seen
  <2> QED BY <2>1, <2>2, <2>3 DEF TypeOK
<1>19. ASSUME NEW t \in Threads, CheckRestore(t) PROVE TypeOK'
  <2>1. CASE t \in by_path /\ claimed # NoFile /\ target = NoFile
    <3>1. DirectoryType'
      BY <1>0, <1>19, <2>1
      DEF CheckRestore, DirectoryType
    <3>2. ThreadType'
      BY <1>0, <1>19, <2>1, GotoTyped
      DEF CheckRestore, Goto, ThreadStates
    <3>3. HistoryType'
      BY <1>0, <1>19, <2>1
      DEF CheckRestore, HistoryType, Seen
    <3> QED BY <3>1, <3>2, <3>3 DEF TypeOK
  <2>2. CASE ~(t \in by_path /\ claimed # NoFile /\ target = NoFile)
    <3>1. DirectoryType'
      BY <1>0, <1>19, <2>2
      DEF CheckRestore, DirectoryType
    <3>2. ThreadType'
      BY <1>0, <1>19, <2>2, LeaveTyped
      DEF CheckRestore, ThreadStates
    <3>3. HistoryType'
      BY <1>0, <1>19, <2>2
      DEF CheckRestore, HistoryType, Seen
    <3> QED BY <3>1, <3>2, <3>3 DEF TypeOK
  <2> QED BY <2>1, <2>2
<1>20. ASSUME NEW t \in Threads, PutBack(t) PROVE TypeOK'
  <2>1. CASE claimed = NoFile
    <3>1. DirectoryType'
      BY <1>0, <1>20, <2>1
      DEF PutBack, DirectoryType
    <3>2. ThreadType'
      BY <1>0, <1>20, <2>1, LeaveTyped
      DEF PutBack, ThreadStates
    <3>3. HistoryType'
      BY <1>0, <1>20, <2>1
      DEF PutBack, HistoryType, Seen
    <3> QED BY <3>1, <3>2, <3>3 DEF TypeOK
  <2>2. CASE ~(claimed = NoFile)
    <3>1. DirectoryType'
      BY <1>0, <1>20, <2>2
      DEF PutBack, DirectoryType
    <3>2. ThreadType'
      BY <1>0, <1>20, <2>2, LeaveTyped
      DEF PutBack, ThreadStates
    <3>3. HistoryType'
      BY <1>0, <1>20, <2>2
      DEF PutBack, HistoryType, Seen
    <3> QED BY <3>1, <3>2, <3>3 DEF TypeOK
  <2> QED BY <2>1, <2>2
<1>21. ASSUME NEW p \in Procs, Crash(p) PROVE TypeOK'
  <2>1. DirectoryType'
    BY <1>0, <1>21 DEF Crash, DirectoryType
  <2>2. ThreadType'
    BY <1>0, <1>21 DEF Crash, DirectoryType, ThreadType, ThreadStates
  <2>3. HistoryType'
    BY <1>0, <1>21 DEF Crash, HistoryType
  <2> QED BY <2>1, <2>2, <2>3 DEF TypeOK
<1>22. CASE UNCHANGED vars
  BY <1>0, <1>22 DEF vars, TypeOK, DirectoryType, ThreadType, HistoryType
<1> QED
  BY <1>1, <1>2, <1>3, <1>4, <1>5, <1>6, <1>7, <1>8, <1>9, <1>10, <1>11, <1>12, <1>13, <1>14, <1>15, <1>16, <1>17, <1>18, <1>19, <1>20, <1>21, <1>22
  DEF Next, Save, ResumeSteps

\* The initial state, an empty directory, is well typed.
LEMMA TypeInit == Init => TypeOK
BY DirectoryAssumption
DEF DirectoryAssumption, Init, TypeOK, DirectoryType, ThreadType, HistoryType,
    ThreadStates, Seen, Cps, Files, NoFile

\* Type correctness: the names in the directory and the open handles always
\* refer to files that a save created.
THEOREM TypeCorrect == Spec => []TypeOK
BY TypeInit, TypeStep, PTL DEF Spec

-----------------------------------------------------------------------------
\* A step of one thread that leaves the path and the executions alone, and
\* either gives the file up or keeps what it already holds, keeps the token.
LEMMA QuietStep ==
  ASSUME ThreadType, OneToken, NEW t \in Threads, NEW to,
         pc' = [pc EXCEPT ![t] = to],
         UNCHANGED <<target, executed>>, seen \subseteq seen',
         to \in HoldStates => Holding(t) /\ pc[t] # "continue"
  PROVE  OneToken'
<1>1. \A u \in Threads : Holding(u)' => Holding(u)
  BY DEF Holding, HoldStates, ThreadType
<1>2. \A u \in Threads : Holding(u)' /\ pc'[u] # "continue" => pc[u] # "continue"
  BY DEF Holding, HoldStates, ThreadType
<1> QED
  BY <1>1, <1>2 DEF OneToken, Unspent

\* The token invariant is inductive, given the types.
LEMMA TokenStep == TypeOK /\ TokenInv /\ [Next]_vars => TokenInv'
<1> SUFFICES ASSUME TypeOK, TokenInv, [Next]_vars, Regular' PROVE OneToken'
  BY DEF TokenInv
<1> USE DEF directory, storage, local, memory
<1>0. DirectoryType /\ ThreadType /\ HistoryType
  BY DEF TypeOK
<1>1. ASSUME NEW t \in Threads, NEW c \in Cps, BeginSave(t, c) PROVE OneToken'
  <2>1. OneToken /\ seen \subseteq seen'
    BY <1>1 DEF BeginSave, Regular, TokenInv
  <2> QED
    BY <1>0, <1>1, <2>1, QuietStep
    DEF BeginSave, Begin, Holding, HoldStates
<1>2. ASSUME NEW t \in Threads, OpenTemp(t) PROVE OneToken'
  <2>1. OneToken /\ seen \subseteq seen'
    BY <1>2 DEF OpenTemp, Regular, TokenInv
  <2> QED
    BY <1>0, <1>2, <2>1, QuietStep
    DEF OpenTemp, Goto, Holding, HoldStates
<1>3. ASSUME NEW t \in Threads, WriteTemp(t) PROVE OneToken'
  <2>1. OneToken /\ seen \subseteq seen'
    BY <1>3 DEF WriteTemp, Regular, TokenInv
  <2> QED
    BY <1>0, <1>3, <2>1, QuietStep
    DEF WriteTemp, Goto, Holding, HoldStates
<1>4. ASSUME NEW t \in Threads, ReplaceTarget(t) PROVE OneToken'
  <2>1. OneToken /\ seen \subseteq seen'
    BY <1>4 DEF ReplaceTarget, Regular, TokenInv
  <2>2. CASE temp[Home[t]] = NoFile
    BY <1>0, <1>4, <2>1, <2>2, QuietStep DEF ReplaceTarget, Goto, HoldStates
  <2>3. CASE temp[Home[t]] # NoFile
    <3>1. "claim" \notin seen /\ UNCHANGED executed
      BY <1>4, <2>3 DEF ReplaceTarget, Regular
    <3>2. \A u \in Threads : ~Holding(u)'
      BY <1>0, <1>4, <2>1, <3>1 DEF OneToken, Holding, HoldStates, ReplaceTarget, Goto, ThreadType
    <3> QED BY <2>1, <3>1, <3>2 DEF OneToken, Unspent
  <2> QED BY <2>2, <2>3
<1>5. ASSUME NEW t \in Threads, UnlinkTemp(t) PROVE OneToken'
  <2>1. OneToken /\ seen \subseteq seen'
    BY <1>5 DEF UnlinkTemp, Regular, TokenInv
  <2> QED
    BY <1>0, <1>5, <2>1, QuietStep
    DEF UnlinkTemp, Leave, Goto, Holding, HoldStates
<1>6. ASSUME NEW t \in Threads, LoadObject(t) PROVE OneToken'
  BY <1>6 DEF LoadObject, Regular, TokenInv, OneToken, Holding, HoldStates, Unspent
<1>7. ASSUME NEW t \in Threads, ResumePartially(t) PROVE OneToken'
  <2>1. OneToken /\ seen \subseteq seen'
    BY <1>7 DEF ResumePartially, Regular, TokenInv
  <2> QED
    BY <1>0, <1>7, <2>1, QuietStep
    DEF ResumePartially, Begin, Holding, HoldStates
<1>8. ASSUME NEW t \in Threads, BeginResume(t) PROVE OneToken'
  <2>1. OneToken /\ seen \subseteq seen'
    BY <1>8 DEF BeginResume, Regular, TokenInv
  <2> QED
    BY <1>0, <1>8, <2>1, QuietStep
    DEF BeginResume, Begin, Holding, HoldStates
<1>9. ASSUME NEW t \in Threads, NEW c \in Cps, BeginObjectResume(t, c) PROVE OneToken'
  BY <1>9 DEF BeginObjectResume, Regular
<1>10. ASSUME NEW t \in Threads, CheckConsumed(t) PROVE OneToken'
  <2>1. OneToken /\ seen \subseteq seen'
    BY <1>10 DEF CheckConsumed, Regular, TokenInv
  <2> QED
    BY <1>0, <1>10, <2>1, QuietStep
    DEF CheckConsumed, Goto, Leave, Holding, HoldStates
<1>11. ASSUME NEW t \in Threads, Claim(t) PROVE OneToken'
  <2>1. OneToken /\ seen \subseteq seen'
    BY <1>11 DEF Claim, Regular, TokenInv
  <2>2. CASE target = NoFile
    BY <1>0, <1>11, <2>1, <2>2, QuietStep DEF Claim, Goto, Leave, HoldStates
  <2>3. CASE target # NoFile
    <3>1. target' = NoFile /\ "claim" \in seen' /\ UNCHANGED executed
      BY <1>11, <2>3 DEF Claim
    <3>2. Unspent /\ \A u \in Threads : ~Holding(u)
      BY <2>1, <2>3 DEF OneToken
    <3>3. \A u \in Threads : Holding(u)' => u = t
      BY <1>0, <1>11, <2>3, <3>2 DEF Claim, Goto, Holding, HoldStates, ThreadType
    <3> QED BY <2>1, <3>1, <3>2, <3>3 DEF OneToken, Unspent
  <2> QED BY <2>2, <2>3
<1>12. ASSUME NEW t \in Threads, ResumeRejected(t) PROVE OneToken'
  <2>1. OneToken /\ seen \subseteq seen'
    BY <1>12 DEF ResumeRejected, Regular, TokenInv
  <2> QED
    BY <1>0, <1>12, <2>1, QuietStep
    DEF ResumeRejected, Goto, Holding, HoldStates
<1>13. ASSUME NEW t \in Threads, ResumeAccepted(t) PROVE OneToken'
  <2>1. OneToken /\ seen \subseteq seen'
    BY <1>13 DEF ResumeAccepted, Regular, TokenInv
  <2> QED
    BY <1>0, <1>13, <2>1, QuietStep
    DEF ResumeAccepted, Goto, Holding, HoldStates
<1>14. ASSUME NEW t \in Threads, Consume(t) PROVE OneToken'
  <2>1. OneToken /\ seen \subseteq seen'
    BY <1>14 DEF Consume, Regular, TokenInv
  <2> QED
    BY <1>0, <1>14, <2>1, QuietStep
    DEF Consume, Goto, Holding, HoldStates
<1>15. ASSUME NEW t \in Threads, Execute(t) PROVE OneToken'
  <2>1. OneToken
    BY <1>15 DEF Execute, Regular, TokenInv
  <2>2. Holding(t) /\ pc[t] # "continue"
    BY <1>15 DEF Execute, Goto, Holding, HoldStates
  <2>3. /\ target = NoFile /\ "claim" \in seen /\ Unspent
        /\ \A u \in Threads : Holding(u) => u = t
    BY <2>1, <2>2 DEF OneToken
  <2>4. UNCHANGED <<target, seen>>
    BY <1>15 DEF Execute
  <2>5. \A u \in Threads : Holding(u)' => u = t /\ pc'[u] = "continue"
    BY <1>0, <1>15, <2>3 DEF Execute, Goto, Holding, HoldStates, ThreadType
  <2>6. \A d \in Cps : executed'[d] <= 1
    BY <1>0, <1>15, <2>3, DirectoryAssumption
    DEF DirectoryAssumption, Execute, Unspent, HistoryType
  <2> QED BY <2>3, <2>4, <2>5, <2>6 DEF OneToken
<1>16. ASSUME NEW t \in Threads, RunEnds(t) PROVE OneToken'
  <2>1. OneToken /\ seen \subseteq seen'
    BY <1>16 DEF RunEnds, Regular, TokenInv
  <2> QED
    BY <1>0, <1>16, <2>1, QuietStep
    DEF RunEnds, Goto, Leave, Holding, HoldStates
<1>17. ASSUME NEW t \in Threads, RunPauses(t) PROVE OneToken'
  <2>1. OneToken /\ seen \subseteq seen'
    BY <1>17 DEF RunPauses, Regular, TokenInv
  <2>2. PICK to \in {"preserved", "idle"} : pc' = [pc EXCEPT ![t] = to]
    BY <1>17 DEF RunPauses, Leave, Goto
  <2> QED
    BY <1>0, <1>17, <2>1, <2>2, QuietStep DEF RunPauses, HoldStates
<1>18. ASSUME NEW t \in Threads, RunRaises(t) PROVE OneToken'
  BY <1>18 DEF RunRaises, Regular
<1>19. ASSUME NEW t \in Threads, CheckRestore(t) PROVE OneToken'
  <2>1. OneToken /\ seen \subseteq seen'
    BY <1>19 DEF CheckRestore, Regular, TokenInv
  <2> QED
    BY <1>0, <1>19, <2>1, QuietStep
    DEF CheckRestore, Goto, Leave, Holding, HoldStates
<1>20. ASSUME NEW t \in Threads, PutBack(t) PROVE OneToken'
  <2>1. OneToken
    BY <1>20 DEF PutBack, Regular, TokenInv
  <2>2. Holding(t) /\ pc[t] # "continue"
    BY <1>20 DEF PutBack, Leave, Goto, Holding, HoldStates
  <2>3. Unspent /\ \A u \in Threads : Holding(u) => u = t
    BY <2>1, <2>2 DEF OneToken
  <2>4. UNCHANGED executed
    BY <1>20 DEF PutBack
  <2>5. \A u \in Threads : ~Holding(u)'
    BY <1>0, <1>20, <2>3 DEF PutBack, Leave, Goto, Holding, HoldStates, ThreadType
  <2> QED BY <2>1, <2>3, <2>4, <2>5 DEF OneToken, Unspent
<1>21. ASSUME NEW p \in Procs, Crash(p) PROVE OneToken'
  <2>1. OneToken /\ UNCHANGED <<target, executed, seen>>
    BY <1>21 DEF Crash, Regular, TokenInv
  <2>2. \A u \in Threads : Holding(u)' => Holding(u) /\ pc'[u] = pc[u]
    BY <1>21 DEF Crash, Holding, HoldStates
  <2> QED BY <2>1, <2>2 DEF OneToken, Unspent
<1>22. CASE UNCHANGED vars
  BY <1>22 DEF vars, Regular, TokenInv, OneToken, Holding, HoldStates, Unspent
<1> QED
  BY <1>1, <1>2, <1>3, <1>4, <1>5, <1>6, <1>7, <1>8, <1>9, <1>10, <1>11, <1>12, <1>13, <1>14, <1>15, <1>16, <1>17, <1>18, <1>19, <1>20, <1>21, <1>22
  DEF Next, Save, ResumeSteps

\* The inductive invariant holds in every behaviour.
LEMMA InvCorrect == Spec => []Inv
<1>1. Init => TypeOK
  BY TypeInit
<1>2. Init => TokenInv
  BY DirectoryAssumption
  DEF DirectoryAssumption, Init, TokenInv, OneToken, Holding, HoldStates, Unspent, Cps, NoFile
<1>3. Inv /\ [Next]_vars => Inv'
  BY TypeStep, TokenStep DEF Inv
<1> QED
  BY <1>1, <1>2, <1>3, PTL DEF Spec, Inv

\* However many processes and threads race to resume one path, and wherever
\* they crash, resume_checkpoint executes the decisions on a checkpoint at most
\* once, as long as the path is used regularly.
THEOREM AtMostOnceHolds == Spec => []AtMostOnce
<1>1. Inv => AtMostOnce
  BY DEF Inv, TokenInv, OneToken, AtMostOnce
<1> QED
  BY <1>1, InvCorrect, PTL

\* A file that is at the path, restored or not, was not executed.
THEOREM PresentMeansUnspentHolds == Spec => []PresentMeansUnspent
<1>1. Inv => PresentMeansUnspent
  <2> SUFFICES ASSUME Inv, Regular, target # NoFile
               PROVE  executed[content[target]] = 0
    BY DEF PresentMeansUnspent
  <2>1. Unspent
    BY DEF Inv, TokenInv, OneToken
  <2>2. content[target] \in Cps
    BY DirectoryAssumption
    DEF DirectoryAssumption, Inv, TypeOK, DirectoryType, NoFile, Files
  <2> QED BY <2>1, <2>2 DEF Unspent
<1> QED
  BY <1>1, InvCorrect, PTL

-----------------------------------------------------------------------------
(* Durability: as long as the saves of a process do not overlap and the    *)
(* path is not reused, a temporary file belongs to the one thread that     *)
(* writes it, and a claim and its restore only rename the file.            *)

Undisturbed == seen \cap {"resaved", "overlap"} = {}

Written(t) ==
  /\ pc[t] \in {"write", "replace"} =>
       /\ open[t] # NoFile /\ temp[Home[t]] = open[t]
       /\ content[open[t]] = cp[t]
  /\ pc[t] = "replace" => open[t] \in whole

OneFile ==
  /\ \A t, u \in Threads : Saving(t) /\ Saving(u) /\ Home[t] = Home[u] => t = u
  /\ \A t \in Threads : Written(t)
  /\ claimed # NoFile => "claim" \in seen /\ target = NoFile
  /\ last # 0 => \E f \in {target, claimed} :
                   f # NoFile /\ content[f] = last /\ f \in whole

DurableInv == Undisturbed => OneFile

\* A thread that moves on outside save_checkpoint, and leaves the directory
\* and the files alone, leaves every save as it was.
LEMMA OutsideSave ==
  ASSUME ThreadType, OneFile, NEW t \in Threads, NEW to,
         pc' = [pc EXCEPT ![t] = to],
         to \notin {"open", "write", "replace", "unlink"},
         \A u \in Threads \ {t} : cp'[u] = cp[u] /\ open'[u] = open[u],
         UNCHANGED <<target, claimed, temp, content, whole, last>>,
         seen \subseteq seen'
  PROVE  OneFile'
<1>1. \A u \in Threads : Saving(u)' => u # t /\ Saving(u) /\ pc'[u] = pc[u]
  BY DEF Saving, ThreadType
<1>2. \A u \in Threads : Written(u)'
  BY <1>1 DEF OneFile, Written, Saving
<1>3. \A u, v \in Threads : Saving(u)' /\ Saving(v)' /\ Home[u] = Home[v] => u = v
  BY <1>1 DEF OneFile
<1> QED BY <1>2, <1>3 DEF OneFile

\* A call that ends leaves the variables of the other threads alone.
LEMMA LeaveOthers ==
  ASSUME ThreadType, NEW t \in Threads, NEW from, NEW to, Leave(t, from, to)
  PROVE  \A u \in Threads \ {t} : cp'[u] = cp[u] /\ open'[u] = open[u]
BY DEF Leave, ThreadType

\* The durability invariant is inductive, given the types.
LEMMA DurableStep == TypeOK /\ DurableInv /\ [Next]_vars => DurableInv'
<1> SUFFICES ASSUME TypeOK, DurableInv, [Next]_vars, Undisturbed' PROVE OneFile'
  BY DEF DurableInv
<1> USE DEF directory, storage, local, memory
<1>0. DirectoryType /\ ThreadType /\ HistoryType
  BY DEF TypeOK
<1>a. ASSUME seen \subseteq seen' PROVE OneFile
  BY <1>a DEF DurableInv, Undisturbed
<1>1. ASSUME NEW t \in Threads, NEW c \in Cps, BeginSave(t, c) PROVE OneFile'
  <2>1. OneFile /\ ~ \E u \in Threads \ {t} : Saving(u) /\ Home[u] = Home[t]
    BY <1>1, <1>a DEF BeginSave, Undisturbed
  <2>2. \A u \in Threads : Saving(u)' => u = t \/ (Saving(u) /\ pc'[u] = pc[u])
    BY <1>0, <1>1 DEF BeginSave, Begin, Saving, ThreadType
  <2>3. \A u \in Threads : Written(u)'
    BY <1>0, <1>1, <2>1 DEF BeginSave, Begin, Written, OneFile, ThreadType
  <2>4. \A u, v \in Threads : Saving(u)' /\ Saving(v)' /\ Home[u] = Home[v] => u = v
    BY <2>1, <2>2 DEF OneFile
  <2>5. UNCHANGED <<target, claimed, content, whole, last>> /\ seen \subseteq seen'
    BY <1>1 DEF BeginSave
  <2> QED BY <2>1, <2>3, <2>4, <2>5 DEF OneFile
<1>2. ASSUME NEW t \in Threads, OpenTemp(t) PROVE OneFile'
  <2>1. OneFile /\ UNCHANGED <<target, claimed, whole, cp, last, seen>>
    BY <1>2, <1>a DEF OpenTemp
  <2>2. Saving(t) /\ \A u \in Threads : Saving(u)' => Saving(u)
    BY <1>0, <1>2 DEF OpenTemp, Goto, Saving, ThreadType
  <2>3. \A u, v \in Threads : Saving(u)' /\ Saving(v)' /\ Home[u] = Home[v] => u = v
    BY <2>1, <2>2 DEF OneFile
  <2>4. \A u \in Threads \ {t} : Saving(u) => Home[u] # Home[t]
    BY <2>1, <2>2 DEF OneFile
  <2>5. CASE temp[Home[t]] = NoFile
    <3>1. /\ files < MaxFiles /\ files' = files + 1
          /\ pc' = [pc EXCEPT ![t] = "write"]
          /\ temp' = [temp EXCEPT ![Home[t]] = files + 1]
          /\ content' = [content EXCEPT ![files + 1] = cp[t]]
          /\ open' = [open EXCEPT ![t] = files + 1]
      BY <1>2, <2>5 DEF OpenTemp, Create, Goto
    <3>2. files + 1 \in Files /\ files + 1 # NoFile
          /\ \A f \in 0 .. files : f # NoFile => content'[f] = content[f]
      BY <1>0, <3>1, DirectoryAssumption
      DEF DirectoryAssumption, DirectoryType, Files, NoFile
    <3>3. Written(t)'
      <4>1. Home[t] \in Procs /\ content'[files + 1] = cp[t]
        BY <1>0, <3>1, <3>2, DirectoryAssumption DEF DirectoryAssumption, DirectoryType
      <4> QED BY <1>0, <2>1, <3>1, <3>2, <4>1 DEF Written, DirectoryType, ThreadType
    <3>4. ASSUME NEW u \in Threads \ {t} PROVE Written(u)'
      <4>1. pc'[u] = pc[u] /\ open'[u] = open[u] /\ open[u] \in 0 .. files
        BY <1>0, <3>1 DEF ThreadType
      <4>2. pc[u] \in {"write", "replace"} => temp'[Home[u]] = temp[Home[u]]
        BY <1>0, <2>4, <3>1, DirectoryAssumption DEF DirectoryAssumption, Saving, DirectoryType
      <4> QED BY <2>1, <3>2, <4>1, <4>2 DEF Written, OneFile
    <3>5. \A f \in {target, claimed} : f # NoFile => content'[f] = content[f]
      BY <1>0, <3>2 DEF DirectoryType
    <3> QED BY <2>1, <2>3, <3>3, <3>4, <3>5 DEF OneFile
  <2>6. CASE temp[Home[t]] # NoFile
    <3>1. pc' = [pc EXCEPT ![t] = "unlink"] /\ UNCHANGED <<temp, content, open>>
      BY <1>2, <2>6 DEF OpenTemp, Goto
    <3>2. \A u \in Threads : Written(u)'
      BY <1>0, <2>1, <3>1 DEF Written, OneFile, ThreadType
    <3> QED BY <2>1, <2>3, <3>1, <3>2 DEF OneFile
  <2> QED BY <2>5, <2>6
<1>3. ASSUME NEW t \in Threads, WriteTemp(t) PROVE OneFile'
  <2>1. /\ OneFile /\ UNCHANGED <<target, claimed, temp, content, cp, open, last, seen>>
        /\ pc[t] = "write" /\ pc' = [pc EXCEPT ![t] = "replace"]
        /\ whole' = whole \cup {open[t]}
    BY <1>3, <1>a DEF WriteTemp, Goto
  <2>2. \A u \in Threads : Saving(u)' => Saving(u)
    BY <1>0, <2>1 DEF Saving, ThreadType
  <2>3. \A u \in Threads : Written(u)'
    BY <1>0, <2>1 DEF Written, OneFile, ThreadType
  <2> QED BY <2>1, <2>2, <2>3 DEF OneFile
<1>4. ASSUME NEW t \in Threads, ReplaceTarget(t) PROVE OneFile'
  <2>1. /\ OneFile /\ UNCHANGED <<content, whole, cp, open, claimed>>
        /\ seen \subseteq seen'
        /\ pc[t] = "replace" /\ pc' = [pc EXCEPT ![t] = "unlink"]
    BY <1>4, <1>a DEF ReplaceTarget, Goto
  <2>2. Saving(t) /\ \A u \in Threads : Saving(u)' => Saving(u)
    BY <1>0, <2>1 DEF Saving, ThreadType
  <2>3. \A u, v \in Threads : Saving(u)' /\ Saving(v)' /\ Home[u] = Home[v] => u = v
    BY <2>1, <2>2 DEF OneFile
  <2>4. Written(t) /\ temp[Home[t]] = open[t] /\ open[t] # NoFile
        /\ content[open[t]] = cp[t] /\ open[t] \in whole
    BY <2>1 DEF OneFile, Written
  <2>5. /\ target' = open[t] /\ last' = cp[t]
        /\ temp' = [temp EXCEPT ![Home[t]] = NoFile]
        /\ "claim" \notin seen
    BY <1>4, <2>4 DEF ReplaceTarget, Undisturbed
  <2>6. \A u \in Threads : Written(u)'
    <3> SUFFICES ASSUME NEW u \in Threads, pc'[u] \in {"write", "replace"}
                 PROVE  Written(u)'
      BY DEF Written
    <3>1. u # t /\ pc'[u] = pc[u]
      BY <1>0, <2>1 DEF ThreadType
    <3>2. Home[u] # Home[t]
      BY <2>1, <2>2, <3>1 DEF OneFile, Saving
    <3>3. temp'[Home[u]] = temp[Home[u]]
      BY <1>0, <2>5, <3>2, DirectoryAssumption DEF DirectoryAssumption, DirectoryType
    <3> QED BY <2>1, <3>1, <3>3 DEF OneFile, Written
  <2>7. claimed' = NoFile
    BY <2>1, <2>5 DEF OneFile
  <2> QED BY <2>1, <2>3, <2>4, <2>5, <2>6, <2>7 DEF OneFile
<1>5. ASSUME NEW t \in Threads, UnlinkTemp(t) PROVE OneFile'
  <2>1. /\ OneFile /\ UNCHANGED <<target, claimed, content, whole, last, seen>>
        /\ pc[t] = "unlink" /\ pc' = [pc EXCEPT ![t] = "idle"]
        /\ temp' = [temp EXCEPT ![Home[t]] = NoFile]
        /\ \A u \in Threads \ {t} : cp'[u] = cp[u] /\ open'[u] = open[u]
    <3>1. OneFile /\ UNCHANGED <<target, claimed, content, whole, last, seen>>
      BY <1>5, <1>a DEF UnlinkTemp
    <3>2. \A u \in Threads \ {t} : cp'[u] = cp[u] /\ open'[u] = open[u]
      BY <1>0, <1>5, LeaveOthers DEF UnlinkTemp
    <3> QED BY <1>5, <3>1, <3>2 DEF UnlinkTemp, Leave, Goto
  <2>2. Saving(t) /\ \A u \in Threads : Saving(u)' => Saving(u)
    BY <1>0, <2>1 DEF Saving, ThreadType
  <2>3. \A u, v \in Threads : Saving(u)' /\ Saving(v)' /\ Home[u] = Home[v] => u = v
    BY <2>1, <2>2 DEF OneFile
  <2>4. \A u \in Threads : Written(u)'
    <3> SUFFICES ASSUME NEW u \in Threads, pc'[u] \in {"write", "replace"}
                 PROVE  Written(u)'
      BY DEF Written
    <3>1. u # t /\ pc'[u] = pc[u]
      BY <1>0, <2>1 DEF ThreadType
    <3>2. Home[u] # Home[t]
      BY <2>1, <2>2, <3>1 DEF OneFile, Saving
    <3>3. temp'[Home[u]] = temp[Home[u]]
      BY <1>0, <2>1, <3>2, DirectoryAssumption DEF DirectoryAssumption, DirectoryType
    <3> QED BY <2>1, <3>1, <3>3 DEF OneFile, Written
  <2> QED BY <2>1, <2>3, <2>4 DEF OneFile
<1>6. ASSUME NEW t \in Threads, LoadObject(t) PROVE OneFile'
  BY <1>6, <1>a DEF LoadObject, OneFile, Saving, Written
<1>7. ASSUME NEW t \in Threads, ResumePartially(t) PROVE OneFile'
  <2>1. OneFile /\ seen \subseteq seen'
        /\ UNCHANGED <<target, claimed, temp, content, whole, last>>
    BY <1>7, <1>a DEF ResumePartially
  <2>2. PICK to \in {"preserved"} : pc' = [pc EXCEPT ![t] = to]
    BY <1>7 DEF ResumePartially, Begin
  <2>3. \A u \in Threads \ {t} : cp'[u] = cp[u] /\ open'[u] = open[u]
    BY <1>0, <1>7 DEF ResumePartially, ThreadType
  <2> QED BY <1>0, <2>1, <2>2, <2>3, OutsideSave
<1>8. ASSUME NEW t \in Threads, BeginResume(t) PROVE OneFile'
  <2>1. OneFile /\ seen \subseteq seen'
        /\ UNCHANGED <<target, claimed, temp, content, whole, last>>
    BY <1>8, <1>a DEF BeginResume
  <2>2. PICK to \in {"check"} : pc' = [pc EXCEPT ![t] = to]
    BY <1>8 DEF BeginResume, Begin
  <2>3. \A u \in Threads \ {t} : cp'[u] = cp[u] /\ open'[u] = open[u]
    BY <1>0, <1>8 DEF BeginResume, ThreadType
  <2> QED BY <1>0, <2>1, <2>2, <2>3, OutsideSave
<1>9. ASSUME NEW t \in Threads, NEW c \in Cps, BeginObjectResume(t, c) PROVE OneFile'
  <2>1. OneFile /\ seen \subseteq seen'
        /\ UNCHANGED <<target, claimed, temp, content, whole, last>>
    BY <1>9, <1>a DEF BeginObjectResume
  <2>2. PICK to \in {"resume"} : pc' = [pc EXCEPT ![t] = to]
    BY <1>9 DEF BeginObjectResume, Begin
  <2>3. \A u \in Threads \ {t} : cp'[u] = cp[u] /\ open'[u] = open[u]
    BY <1>0, <1>9 DEF BeginObjectResume, ThreadType
  <2> QED BY <1>0, <2>1, <2>2, <2>3, OutsideSave
<1>10. ASSUME NEW t \in Threads, CheckConsumed(t) PROVE OneFile'
  <2>1. OneFile /\ seen \subseteq seen'
        /\ UNCHANGED <<target, claimed, temp, content, whole, last>>
    BY <1>10, <1>a DEF CheckConsumed
  <2>2. PICK to \in {"idle", "claim"} : pc' = [pc EXCEPT ![t] = to]
    BY <1>10 DEF CheckConsumed, Goto, Leave
  <2>3. \A u \in Threads \ {t} : cp'[u] = cp[u] /\ open'[u] = open[u]
    BY <1>0, <1>10, LeaveOthers DEF CheckConsumed, ThreadType
  <2> QED BY <1>0, <2>1, <2>2, <2>3, OutsideSave
<1>11. ASSUME NEW t \in Threads, Claim(t) PROVE OneFile'
  <2>1. /\ OneFile /\ seen \subseteq seen'
        /\ UNCHANGED <<temp, content, whole, last>>
    BY <1>11, <1>a DEF Claim
  <2>2. PICK to \in {"idle", "resume"} : pc' = [pc EXCEPT ![t] = to]
    BY <1>11 DEF Claim, Goto, Leave
  <2>3. \A u \in Threads \ {t} : cp'[u] = cp[u] /\ open'[u] = open[u]
    BY <1>0, <1>11, LeaveOthers DEF Claim
  <2>4. CASE target = NoFile
    <3>1. UNCHANGED <<target, claimed>>
      BY <1>11, <2>4 DEF Claim
    <3> QED BY <1>0, <2>1, <2>2, <2>3, <3>1, OutsideSave
  <2>5. CASE target # NoFile
    <3>1. claimed' = target /\ target' = NoFile /\ "claim" \in seen' /\ claimed = NoFile
      BY <1>11, <2>1, <2>5 DEF Claim, OneFile
    <3>2. \A u \in Threads : Saving(u)' => u # t /\ Saving(u) /\ pc'[u] = pc[u]
      BY <1>0, <2>2 DEF Saving, ThreadType
    <3>3. \A u \in Threads : Written(u)'
      BY <2>1, <2>3, <3>2 DEF OneFile, Written, Saving
    <3>4. \A u, v \in Threads : Saving(u)' /\ Saving(v)' /\ Home[u] = Home[v] => u = v
      BY <2>1, <3>2 DEF OneFile
    <3> QED BY <2>1, <3>1, <3>3, <3>4 DEF OneFile
  <2> QED BY <2>4, <2>5
<1>12. ASSUME NEW t \in Threads, ResumeRejected(t) PROVE OneFile'
  <2>1. OneFile /\ seen \subseteq seen'
        /\ UNCHANGED <<target, claimed, temp, content, whole, last>>
    BY <1>12, <1>a DEF ResumeRejected
  <2>2. PICK to \in {"restore"} : pc' = [pc EXCEPT ![t] = to]
    BY <1>12 DEF ResumeRejected, Goto
  <2>3. \A u \in Threads \ {t} : cp'[u] = cp[u] /\ open'[u] = open[u]
    BY <1>0, <1>12 DEF ResumeRejected, ThreadType
  <2> QED BY <1>0, <2>1, <2>2, <2>3, OutsideSave
<1>13. ASSUME NEW t \in Threads, ResumeAccepted(t) PROVE OneFile'
  <2>1. OneFile /\ seen \subseteq seen'
        /\ UNCHANGED <<target, claimed, temp, content, whole, last>>
    BY <1>13, <1>a DEF ResumeAccepted
  <2>2. PICK to \in {"consume"} : pc' = [pc EXCEPT ![t] = to]
    BY <1>13 DEF ResumeAccepted, Goto
  <2>3. \A u \in Threads \ {t} : cp'[u] = cp[u] /\ open'[u] = open[u]
    BY <1>0, <1>13 DEF ResumeAccepted, ThreadType
  <2> QED BY <1>0, <2>1, <2>2, <2>3, OutsideSave
<1>14. ASSUME NEW t \in Threads, Consume(t) PROVE OneFile'
  <2>1. OneFile /\ seen \subseteq seen'
        /\ UNCHANGED <<target, claimed, temp, content, whole, last>>
    BY <1>14, <1>a DEF Consume
  <2>2. PICK to \in {"execute"} : pc' = [pc EXCEPT ![t] = to]
    BY <1>14 DEF Consume, Goto
  <2>3. \A u \in Threads \ {t} : cp'[u] = cp[u] /\ open'[u] = open[u]
    BY <1>0, <1>14 DEF Consume, ThreadType
  <2> QED BY <1>0, <2>1, <2>2, <2>3, OutsideSave
<1>15. ASSUME NEW t \in Threads, Execute(t) PROVE OneFile'
  <2>1. OneFile /\ seen \subseteq seen'
        /\ UNCHANGED <<target, claimed, temp, content, whole, last>>
    BY <1>15, <1>a DEF Execute
  <2>2. PICK to \in {"continue"} : pc' = [pc EXCEPT ![t] = to]
    BY <1>15 DEF Execute, Goto
  <2>3. \A u \in Threads \ {t} : cp'[u] = cp[u] /\ open'[u] = open[u]
    BY <1>0, <1>15 DEF Execute, ThreadType
  <2> QED BY <1>0, <2>1, <2>2, <2>3, OutsideSave
<1>16. ASSUME NEW t \in Threads, RunEnds(t) PROVE OneFile'
  <2>1. OneFile /\ seen \subseteq seen'
        /\ UNCHANGED <<target, claimed, temp, content, whole, last>>
    BY <1>16, <1>a DEF RunEnds
  <2>2. PICK to \in {"idle"} : pc' = [pc EXCEPT ![t] = to]
    BY <1>16 DEF RunEnds, Goto, Leave
  <2>3. \A u \in Threads \ {t} : cp'[u] = cp[u] /\ open'[u] = open[u]
    BY <1>0, <1>16, LeaveOthers DEF RunEnds, ThreadType
  <2> QED BY <1>0, <2>1, <2>2, <2>3, OutsideSave
<1>17. ASSUME NEW t \in Threads, RunPauses(t) PROVE OneFile'
  <2>1. OneFile /\ seen \subseteq seen'
        /\ UNCHANGED <<target, claimed, temp, content, whole, last>>
    BY <1>17, <1>a DEF RunPauses
  <2>2. PICK to \in {"preserved", "idle"} : pc' = [pc EXCEPT ![t] = to]
    BY <1>17 DEF RunPauses, Goto, Leave
  <2>3. \A u \in Threads \ {t} : cp'[u] = cp[u] /\ open'[u] = open[u]
    BY <1>0, <1>17, LeaveOthers DEF RunPauses, ThreadType
  <2> QED BY <1>0, <2>1, <2>2, <2>3, OutsideSave
<1>18. ASSUME NEW t \in Threads, RunRaises(t) PROVE OneFile'
  <2>1. OneFile /\ seen \subseteq seen'
        /\ UNCHANGED <<target, claimed, temp, content, whole, last>>
    BY <1>18, <1>a DEF RunRaises
  <2>2. PICK to \in {"restore"} : pc' = [pc EXCEPT ![t] = to]
    BY <1>18 DEF RunRaises, Goto
  <2>3. \A u \in Threads \ {t} : cp'[u] = cp[u] /\ open'[u] = open[u]
    BY <1>0, <1>18 DEF RunRaises, ThreadType
  <2> QED BY <1>0, <2>1, <2>2, <2>3, OutsideSave
<1>19. ASSUME NEW t \in Threads, CheckRestore(t) PROVE OneFile'
  <2>1. OneFile /\ seen \subseteq seen'
        /\ UNCHANGED <<target, claimed, temp, content, whole, last>>
    BY <1>19, <1>a DEF CheckRestore
  <2>2. PICK to \in {"putback", "idle"} : pc' = [pc EXCEPT ![t] = to]
    BY <1>19 DEF CheckRestore, Goto, Leave
  <2>3. \A u \in Threads \ {t} : cp'[u] = cp[u] /\ open'[u] = open[u]
    BY <1>0, <1>19, LeaveOthers DEF CheckRestore, ThreadType
  <2> QED BY <1>0, <2>1, <2>2, <2>3, OutsideSave
<1>20. ASSUME NEW t \in Threads, PutBack(t) PROVE OneFile'
  <2>1. /\ OneFile
        /\ pc' = [pc EXCEPT ![t] = "idle"]
        /\ UNCHANGED <<temp, content, whole, last, seen>>
    BY <1>20, <1>a DEF PutBack, Leave, Goto
  <2>2. \A u \in Threads \ {t} : cp'[u] = cp[u] /\ open'[u] = open[u]
    BY <1>0, <1>20, LeaveOthers DEF PutBack
  <2>3. CASE claimed = NoFile
    <3>1. UNCHANGED <<target, claimed>>
      BY <1>20, <2>3 DEF PutBack
    <3> QED BY <1>0, <2>1, <2>2, <3>1, OutsideSave
  <2>4. CASE claimed # NoFile
    <3>1. target' = claimed /\ claimed' = NoFile /\ target = NoFile
      BY <1>20, <2>1, <2>4 DEF PutBack, OneFile
    <3>2. \A u \in Threads : Saving(u)' => u # t /\ Saving(u) /\ pc'[u] = pc[u]
      BY <1>0, <2>1 DEF Saving, ThreadType
    <3>3. \A u \in Threads : Written(u)'
      BY <2>1, <2>2, <3>2 DEF OneFile, Written, Saving
    <3>4. \A u, v \in Threads : Saving(u)' /\ Saving(v)' /\ Home[u] = Home[v] => u = v
      BY <2>1, <3>2 DEF OneFile
    <3> QED BY <2>1, <3>1, <3>3, <3>4 DEF OneFile
  <2> QED BY <2>3, <2>4
<1>21. ASSUME NEW p \in Procs, Crash(p) PROVE OneFile'
  <2>1. OneFile /\ UNCHANGED <<directory, storage, last, seen>>
    BY <1>21, <1>a DEF Crash
  <2>2. \A u \in Threads : Saving(u)' =>
          Saving(u) /\ pc'[u] = pc[u] /\ cp'[u] = cp[u] /\ open'[u] = open[u]
    BY <1>21 DEF Crash, Saving
  <2>3. \A u \in Threads : Written(u)'
    BY <2>1, <2>2 DEF OneFile, Written, Saving
  <2>4. \A u, v \in Threads : Saving(u)' /\ Saving(v)' /\ Home[u] = Home[v] => u = v
    BY <2>1, <2>2 DEF OneFile
  <2> QED BY <2>1, <2>3, <2>4 DEF OneFile
<1>22. CASE UNCHANGED vars
  BY <1>22, <1>a DEF vars, OneFile, Saving, Written
<1> QED
  BY <1>1, <1>2, <1>3, <1>4, <1>5, <1>6, <1>7, <1>8, <1>9, <1>10, <1>11,
     <1>12, <1>13, <1>14, <1>15, <1>16, <1>17, <1>18, <1>19, <1>20, <1>21, <1>22
  DEF Next, Save, ResumeSteps

\* A checkpoint that save_checkpoint reported as saved is on disk in full, at
\* the path or under .consumed, whatever crashes, claims and restores came
\* after, as long as the saves of a process do not overlap and the path is not
\* saved to again once it was claimed.
THEOREM SavedIsDurableHolds == Spec => []SavedIsDurable
<1>1. Init => DurableInv
  BY DEF Init, DurableInv, OneFile, Saving, Written, NoFile
<1>2. TypeOK /\ DurableInv /\ [Next]_vars => DurableInv'
  BY DurableStep
<1>3. DurableInv => SavedIsDurable
  BY DEF DurableInv, Undisturbed, OneFile, SavedIsDurable
<1> QED
  BY <1>1, <1>2, <1>3, TypeCorrect, PTL DEF Spec
=============================================================================
