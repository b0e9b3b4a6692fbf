----------------------------- MODULE HostMemory -----------------------------
(***************************************************************************)
(* The memory a host gives its processes: AgentProcess in                  *)
(* kernel/process.py talks to whichever manager it was built with, the     *)
(* persistent one (main.py) or the native page table.                      *)
(***************************************************************************)
EXTENDS PersistentMemory, PageTable

VARIABLE manager     \* which of the two the host was built with

vars == <<memvars, pagevars, manager>>

Init == MemInit /\ PageInit /\ manager \in {"persistent", "native"}

Next ==
  /\ UNCHANGED manager
  /\ \/ manager = "persistent" /\ MemNext /\ UNCHANGED pagevars
     \/ manager = "native" /\ PageNext /\ UNCHANGED memvars

Spec == Init /\ [][Next]_vars

TypeOK == MemTypeOK /\ PageTypeOK

\* The persistent manager implements the abstract store.
ImplementsStore == Store!Spec
=============================================================================
