-------------------------- MODULE MCCheckpointFile --------------------------
(* Instances of CheckpointFile for TLC. *)
EXTENDS CheckpointFile, TLC

CONSTANTS p1, p2, t1, t2, t3

\* Two threads in the process that paused, one thread in another process.
RaceHome == (t1 :> p1) @@ (t2 :> p1) @@ (t3 :> p2)
\* One process, which runs one CLI command after another.
CliHome == (t1 :> p1)
\* Two unusual things in one behaviour make every property but TypeOK vacuous,
\* and the resumption of an object all but TypeOK and SavedIsDurable, which are
\* then checked without crashes.
FewIrregularities ==
  /\ Cardinality(seen \ {"claim"}) <= 1
  /\ "object" \in seen => crashes = 0
ThreadSymmetry == Permutations({t1, t2})
=============================================================================
