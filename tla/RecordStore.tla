---------------------------- MODULE RecordStore ----------------------------
(***************************************************************************)
(* What the memory of the agents promises, whatever its tiers: which       *)
(* records can be recalled, which are saved, and what a crash may cost.    *)
(* A saved record is lost by forgetting it and in no other way, unless the *)
(* file is in doubt about it: a write of it failed, or a rewrite of the    *)
(* whole file was under way.  A forgotten record comes back only from a    *)
(* snapshot, or when the file was in doubt.                                *)
(***************************************************************************)
EXTENDS Naturals

CONSTANT Ids

VARIABLES
  used,      \* ids given out
  known,     \* records that can be recalled
  saved,     \* records the manager counts as saved
  doubt,     \* records on which the manager and its file disagree
  kept,      \* records held by a snapshot
  status     \* "up", "rewriting" or "down"

vars == <<used, known, saved, doubt, kept, status>>

Init ==
  /\ used = {} /\ known = {} /\ saved = {} /\ doubt = {} /\ kept = {}
  /\ status = "up"

Remember(i) ==
  /\ status = "up" /\ i \notin used
  /\ used' = used \cup {i}
  /\ known' = known \cup {i}
  /\ UNCHANGED <<saved, doubt, kept, status>>

Save(i) ==
  /\ status = "up" /\ i \in known
  /\ saved' = saved \cup {i}
  /\ \/ doubt' = doubt \ {i}
     \/ doubt' = doubt \cup {i} /\ i \notin saved
     \/ UNCHANGED doubt
  /\ UNCHANGED <<used, known, kept, status>>

Keep(S) ==
  /\ status = "up" /\ S \subseteq known
  /\ kept' = kept \cup S
  /\ UNCHANGED <<used, known, saved, doubt, status>>

\* An agent starts, stops or goes back to a snapshot: only what was not
\* saved goes, only what a snapshot kept comes.
Replace(gone, back) ==
  /\ status = "up"
  /\ gone \cap saved = {} /\ back \subseteq kept
  /\ known' = (known \ gone) \cup back
  /\ UNCHANGED <<used, saved, doubt, kept, status>>

Forget(i) ==
  /\ status = "up"
  /\ known' = known \ {i}
  /\ IF i \in saved
     THEN /\ saved' = saved \ {i}
          /\ doubt' = IF i \in doubt THEN doubt \ {i} ELSE doubt \cup {i}
          /\ status' = "rewriting"
     ELSE UNCHANGED <<saved, doubt, status>>
  /\ UNCHANGED <<used, kept>>

\* While the file is rewritten nothing in it is certain; a rewrite that
\* succeeds removes every doubt, earlier ones too.
Rewrite ==
  /\ status = "rewriting"
  /\ \/ status' = "rewriting" /\ doubt' = saved
     \/ status' = "up" /\ doubt' = {}
     \/ status' = "up" /\ doubt' \in SUBSET saved
     \/ status' = "up" /\ UNCHANGED doubt
  /\ UNCHANGED <<used, known, saved, kept>>

Crash ==
  /\ status # "down" /\ status' = "down"
  /\ \E luck \in SUBSET doubt : saved' = (saved \ doubt) \cup luck
  /\ known' = saved' /\ doubt' = {}
  /\ UNCHANGED <<used, kept>>

Boot ==
  /\ status = "down" /\ status' = "up"
  /\ UNCHANGED <<used, known, saved, doubt, kept>>

Next ==
  \/ \E i \in Ids : Remember(i) \/ Save(i) \/ Forget(i)
  \/ \E S \in SUBSET known : Keep(S)
  \/ \E gone \in SUBSET known, back \in SUBSET kept : Replace(gone, back)
  \/ Rewrite \/ Crash \/ Boot

Spec == Init /\ [][Next]_vars
=============================================================================
