--------------------------- MODULE CheckpointFile ---------------------------
(***************************************************************************)
(* agentos/checkpoints.py: approval checkpoints kept in one file, saved,   *)
(* loaded, claimed and restored by threads of several operating system     *)
(* processes that share the directory, any of which may crash.  Every      *)
(* system call on the directory is a step of its own.                      *)
(*                                                                         *)
(* The directory has three kinds of names: the path itself, <path>.consumed*)
(* and one temporary name per process id.  A name refers to a file (an     *)
(* inode); a thread that has a file open keeps writing to it whatever      *)
(* happens to its name.  os.replace, exists, open("x") and unlink are      *)
(* external and modelled as POSIX has them.                                *)
(***************************************************************************)
EXTENDS Naturals, FiniteSets

CONSTANTS
  Procs,       \* process ids; a restarted process has its old id again
  Threads,
  Home,        \* the process of each thread
  Origin,      \* the process in which the first run paused
  MaxCps,      \* bound on the checkpoints pauses create
  MaxFiles,    \* bound on the temporary files saves create
  MaxRuns,     \* bound on how often one checkpoint is executed
  MaxCrashes

Cps == 1 .. MaxCps
Files == 1 .. MaxFiles
NoFile == 0

ASSUME DirectoryAssumption ==
  /\ Home \in [Threads -> Procs] /\ Origin \in Procs
  /\ MaxCps \in Nat \ {0} /\ MaxFiles \in Nat
  /\ MaxRuns \in Nat /\ MaxCrashes \in Nat

VARIABLES
  target, claimed,   \* the files at path and at path.consumed
  temp,              \* the file at the temporary name of each process
  content,           \* the checkpoint in each file
  whole,             \* the files that are completely written
  files,             \* files created so far
  pc,                \* where each thread is; between calls "idle", or "preserved"
                     \* after a call the CLI reports as "Checkpoint preserved"
  cp,                \* the checkpoint it saves or resumes
  open,              \* the file it writes
  by_path,           \* the threads in a file-backed resume
  held,              \* checkpoint objects each process has in memory
  consumed,          \* _consumed_checkpoints of the loop of each process
  made, crashes,
  \* History variables: nothing below is read by an action.
  executed,          \* how often the decisions on each checkpoint were run
  last,              \* the checkpoint of the last successful save
  seen               \* which of the things below have happened

directory == <<target, claimed, temp>>
storage == <<content, whole, files>>
local == <<cp, open, by_path>>
memory == <<held, consumed, made>>
vars == <<directory, storage, pc, local, memory, crashes,
          executed, last, seen>>

\* "claim": the path was claimed.
\* "resaved": a save reached the path after the first claim.
\* "late_raise": resume() raised after it had run the tools.
\* "object": a checkpoint object was resumed rather than the path.
\* "overlap": two threads of one process were saving at the same time.
Seen == {"claim", "resaved", "late_raise", "object", "overlap"}

Init ==
  /\ target = NoFile /\ claimed = NoFile /\ temp = [p \in Procs |-> NoFile]
  /\ content = [f \in Files |-> 1] /\ whole = {} /\ files = 0
  /\ pc = [t \in Threads |-> "idle"]
  /\ cp = [t \in Threads |-> 1] /\ open = [t \in Threads |-> NoFile]
  /\ by_path = {}
  /\ held = [p \in Procs |-> IF p = Origin THEN {1} ELSE {}]
  /\ consumed = [p \in Procs |-> {}]
  /\ made = 1 /\ crashes = 0
  /\ executed = [c \in Cps |-> 0] /\ last = 0 /\ seen = {}

Goto(t, from, to) == pc[t] = from /\ pc' = [pc EXCEPT ![t] = to]
Resting(t) == pc[t] \in {"idle", "preserved"}
Begin(t, to) == Resting(t) /\ pc' = [pc EXCEPT ![t] = to]

\* A call ends, by returning or by an exception, and its locals are gone.
Leave(t, from, to) ==
  /\ Goto(t, from, to)
  /\ cp' = [cp EXCEPT ![t] = 1]
  /\ open' = [open EXCEPT ![t] = NoFile]
  /\ by_path' = by_path \ {t}

-----------------------------------------------------------------------------
(* save_checkpoint *)

Saving(t) == pc[t] \in {"open", "write", "replace", "unlink"}

BeginSave(t, c) ==
  /\ Begin(t, "open")
  /\ c \in held[Home[t]]
  /\ cp' = [cp EXCEPT ![t] = c]
  /\ seen' = seen \cup
       (IF \E u \in Threads \ {t} : Saving(u) /\ Home[u] = Home[t]
        THEN {"overlap"} ELSE {})
  /\ UNCHANGED <<directory, storage, open, by_path, memory, crashes,
                 executed, last>>

\* Mutant: a new file takes the number of the one before it.
CreateUncounted(t) ==
  /\ temp' = [temp EXCEPT ![Home[t]] = files + 1]
  /\ content' = [content EXCEPT ![files + 1] = cp[t]]
  /\ open' = [open EXCEPT ![t] = files + 1]
  /\ UNCHANGED files

\* A new, empty file at the temporary name, open in thread t.
Create(t) ==
  /\ files' = files + 1
  /\ temp' = [temp EXCEPT ![Home[t]] = files + 1]
  /\ content' = [content EXCEPT ![files + 1] = cp[t]]
  /\ open' = [open EXCEPT ![t] = files + 1]

\* open(temporary, "x") fails if the name is taken; the finally clause then
\* still unlinks it.
OpenTemp(t) ==
  /\ IF temp[Home[t]] = NoFile
     THEN /\ files < MaxFiles
          /\ Goto(t, "open", "write")
          /\ Create(t)
     ELSE /\ Goto(t, "open", "unlink")
          /\ UNCHANGED <<files, temp, content, open>>
  /\ UNCHANGED <<target, claimed, whole, cp, by_path, memory, crashes, executed,
                 last, seen>>

\* Mutant: the data is not flushed before the file gets its name.
WriteTempUnflushed(t) ==
  /\ Goto(t, "write", "replace")
  /\ UNCHANGED <<directory, storage, local, memory, crashes, executed,
                 last, seen>>

\* write, flush, fsync
WriteTemp(t) ==
  /\ Goto(t, "write", "replace")
  /\ whole' = whole \cup {open[t]}
  /\ UNCHANGED <<directory, content, files, local, memory, crashes, executed,
                 last, seen>>

\* os.replace(temporary, target), which fails if the temporary name is gone
ReplaceTarget(t) ==
  /\ Goto(t, "replace", "unlink")
  /\ IF temp[Home[t]] = NoFile THEN UNCHANGED <<directory, last, seen>>
     ELSE /\ target' = temp[Home[t]]
          /\ temp' = [temp EXCEPT ![Home[t]] = NoFile]
          /\ last' = cp[t]
          /\ seen' = seen \cup (IF "claim" \in seen THEN {"resaved"} ELSE {})
          /\ UNCHANGED claimed
  /\ UNCHANGED <<storage, local, memory, crashes, executed>>

\* finally: temporary.unlink()
UnlinkTemp(t) ==
  /\ Leave(t, "unlink", "idle")
  /\ temp' = [temp EXCEPT ![Home[t]] = NoFile]
  /\ UNCHANGED <<target, claimed, storage, memory, crashes, executed,
                 last, seen>>

-----------------------------------------------------------------------------
(* load_checkpoint and resume_checkpoint; a file that is missing or torn   *)
(* is refused before anything is changed.                                  *)

Readable == target # NoFile /\ target \in whole

\* load_checkpoint by a caller that keeps the object
LoadObject(t) ==
  /\ Resting(t) /\ Readable
  /\ held' = [held EXCEPT ![Home[t]] = @ \cup {content[target]}]
  /\ UNCHANGED <<directory, storage, pc, local, consumed, made, crashes,
                 executed, last, seen>>

\* resume_checkpoint(path) with decisions for only some of the pending calls
ResumePartially(t) ==
  /\ Begin(t, "preserved") /\ Readable
  /\ content[target] \notin consumed[Home[t]]
  /\ UNCHANGED <<directory, storage, local, memory, crashes, executed,
                 last, seen>>

\* resume_checkpoint(path) with a decision for every pending call
BeginResume(t) ==
  /\ Begin(t, "check") /\ Readable
  /\ cp' = [cp EXCEPT ![t] = content[target]]
  /\ by_path' = by_path \cup {t}
  /\ UNCHANGED <<directory, storage, open, memory, crashes, executed,
                 last, seen>>

\* resume_checkpoint(checkpoint), or loop.resume, on an object in memory
BeginObjectResume(t, c) ==
  /\ Begin(t, "resume")
  /\ c \in held[Home[t]]
  /\ cp' = [cp EXCEPT ![t] = c]
  /\ seen' = seen \cup {"object"}
  /\ UNCHANGED <<directory, storage, open, by_path, memory, crashes,
                 executed, last>>

\* claimed.exists()
CheckConsumed(t) ==
  /\ IF claimed # NoFile THEN Leave(t, "check", "idle")
     ELSE Goto(t, "check", "claim") /\ UNCHANGED local
  /\ UNCHANGED <<directory, storage, memory, crashes, executed,
                 last, seen>>

\* Mutant: the path is copied, not renamed.
ClaimByCopy(t) ==
  /\ IF target = NoFile
     THEN Leave(t, "claim", "idle") /\ UNCHANGED <<directory, seen>>
     ELSE /\ Goto(t, "claim", "resume")
          /\ claimed' = target
          /\ seen' = seen \cup {"claim"}
          /\ UNCHANGED <<target, temp, local>>
  /\ UNCHANGED <<storage, memory, crashes, executed, last>>

\* os.replace(path, claimed)
Claim(t) ==
  /\ IF target = NoFile
     THEN Leave(t, "claim", "idle") /\ UNCHANGED <<directory, seen>>
     ELSE /\ Goto(t, "claim", "resume")
          /\ claimed' = target /\ target' = NoFile
          /\ seen' = seen \cup {"claim"}
          /\ UNCHANGED <<temp, local>>
  /\ UNCHANGED <<storage, memory, crashes, executed, last>>

\* loop.resume raises: its loop has consumed the checkpoint, or a tool
\* definition is no longer the registered one.
ResumeRejected(t) ==
  /\ Goto(t, "resume", "restore")
  /\ UNCHANGED <<directory, storage, local, memory, crashes, executed,
                 last, seen>>

ResumeAccepted(t) ==
  /\ Goto(t, "resume", "consume")
  /\ cp[t] \notin consumed[Home[t]]
  /\ UNCHANGED <<directory, storage, local, memory, crashes, executed,
                 last, seen>>

\* self._consumed_checkpoints.add
Consume(t) ==
  /\ Goto(t, "consume", "execute")
  /\ consumed' = [consumed EXCEPT ![Home[t]] = @ \cup {cp[t]}]
  /\ UNCHANGED <<directory, storage, local, held, made, crashes,
                 executed, last, seen>>

\* run(): the approved calls of the checkpoint are executed.
Execute(t) ==
  /\ Goto(t, "execute", "continue") /\ executed[cp[t]] < MaxRuns
  /\ executed' = [executed EXCEPT ![cp[t]] = @ + 1]
  /\ UNCHANGED <<directory, storage, local, memory, crashes,
                 last, seen>>

\* Mutant: the restore is in a finally clause.
RunEndsRestoring(t) ==
  /\ Goto(t, "continue", "restore")
  /\ UNCHANGED <<directory, storage, local, memory, crashes, executed,
                 last, seen>>

\* run() goes on to its end.
RunEnds(t) ==
  /\ Leave(t, "continue", "idle")
  /\ UNCHANGED <<directory, storage, memory, crashes, executed,
                 last, seen>>

\* run() pauses again in a later round: the caller gets a new checkpoint
\* object and the reason approval_required, for which the CLI prints
\* "Checkpoint preserved".
RunPauses(t) ==
  /\ made < MaxCps
  /\ Leave(t, "continue", IF t \in by_path THEN "preserved" ELSE "idle")
  /\ made' = made + 1
  /\ held' = [held EXCEPT ![Home[t]] = @ \cup {made + 1}]
  /\ UNCHANGED <<directory, storage, consumed, crashes, executed,
                 last, seen>>

\* run() raises after tools were executed.
RunRaises(t) ==
  /\ Goto(t, "continue", "restore")
  /\ seen' = seen \cup {"late_raise"}
  /\ UNCHANGED <<directory, storage, local, memory, crashes, executed,
                 last>>

\* except: claimed.exists() and not path.exists()
CheckRestore(t) ==
  /\ IF t \in by_path /\ claimed # NoFile /\ target = NoFile
     THEN Goto(t, "restore", "putback") /\ UNCHANGED local
     ELSE Leave(t, "restore", "idle")
  /\ UNCHANGED <<directory, storage, memory, crashes, executed,
                 last, seen>>

\* os.replace(claimed, path), which fails if the claim is gone by now
PutBack(t) ==
  /\ Leave(t, "putback", "idle")
  /\ IF claimed = NoFile THEN UNCHANGED directory
     ELSE target' = claimed /\ claimed' = NoFile /\ UNCHANGED temp
  /\ UNCHANGED <<storage, memory, crashes, executed, last,
                 seen>>

-----------------------------------------------------------------------------
\* A process dies, or a CLI process exits, and a new one takes its id: what
\* was in memory is gone, the directory is as it was.
Crash(p) ==
  LET reset(f, v) == [t \in Threads |-> IF Home[t] = p THEN v ELSE f[t]]
  IN  /\ crashes < MaxCrashes
      /\ crashes' = crashes + 1
      /\ pc' = reset(pc, "idle") /\ cp' = reset(cp, 1)
      /\ open' = reset(open, NoFile) /\ by_path' = {t \in by_path : Home[t] # p}
      /\ held' = [held EXCEPT ![p] = {}]
      /\ consumed' = [consumed EXCEPT ![p] = {}]
      /\ UNCHANGED <<directory, storage, made, executed, last,
                     seen>>

Save(t) ==
  \/ \E c \in Cps : BeginSave(t, c)
  \/ OpenTemp(t) \/ WriteTemp(t) \/ ReplaceTarget(t) \/ UnlinkTemp(t)

ResumeSteps(t) ==
  \/ LoadObject(t) \/ ResumePartially(t) \/ BeginResume(t)
  \/ \E c \in Cps : BeginObjectResume(t, c)
  \/ CheckConsumed(t) \/ Claim(t) \/ ResumeRejected(t) \/ ResumeAccepted(t)
  \/ Consume(t) \/ Execute(t) \/ RunEnds(t) \/ RunPauses(t) \/ RunRaises(t)
  \/ CheckRestore(t) \/ PutBack(t)

Next == (\E t \in Threads : Save(t) \/ ResumeSteps(t)) \/ (\E p \in Procs : Crash(p))

Spec == Init /\ [][Next]_vars

-----------------------------------------------------------------------------
(* Properties. *)

ThreadStates ==
  {"idle", "preserved", "open", "write", "replace", "unlink", "check", "claim", "resume",
   "consume", "execute", "continue", "restore", "putback"}

DirectoryType ==
  /\ files \in 0 .. MaxFiles
  /\ target \in 0 .. files /\ claimed \in 0 .. files
  /\ temp \in [Procs -> 0 .. files]
  /\ content \in [Files -> Cps] /\ whole \subseteq 0 .. files

ThreadType ==
  /\ pc \in [Threads -> ThreadStates]
  /\ cp \in [Threads -> Cps] /\ open \in [Threads -> 0 .. files]
  /\ by_path \subseteq Threads

HistoryType ==
  /\ held \in [Procs -> SUBSET Cps] /\ consumed \in [Procs -> SUBSET Cps]
  /\ made \in Cps /\ crashes \in 0 .. MaxCrashes
  /\ executed \in [Cps -> 0 .. MaxRuns] /\ last \in 0 .. MaxCps
  /\ seen \subseteq Seen

\* Every variable has its type, and the names in the directory and the open
\* handles refer to files that were created.
TypeOK == DirectoryType /\ ThreadType /\ HistoryType

\* The path is resumed as documented: by name, without saving to it again
\* after a claim, and no resume raises once it has run tools.
Regular == seen \cap {"resaved", "late_raise", "object"} = {}

\* However many threads and processes race to resume the path, and wherever
\* they crash, the decisions on a checkpoint are executed at most once.
AtMostOnce == Regular => \A c \in Cps : executed[c] <= 1

\* A file at the path is never one that was already executed, so a restored
\* file may safely be resumed again.
PresentMeansUnspent ==
  Regular /\ target # NoFile => executed[content[target]] = 0

\* A checkpoint that a save reported is on disk in full, under the path or
\* under .consumed, whatever crashes or races came after; unless saves of one
\* process overlapped or the path was reused.
SavedIsDurable ==
  last # 0 /\ seen \cap {"resaved", "overlap"} = {} =>
    \E f \in {target, claimed} :
      f # NoFile /\ content[f] = last /\ f \in whole

\* "Incomplete decisions return status 3 and preserve the file"
\* (docs/checkpoints.md): whenever the CLI says "Checkpoint preserved", the
\* path still holds a checkpoint.
PreservedMeansPresent ==
  [][\A t \in Threads : pc'[t] # pc[t] /\ pc'[t] = "preserved"
       => target' # NoFile]_pc
=============================================================================
