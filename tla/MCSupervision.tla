--------------------------- MODULE MCSupervision ---------------------------
EXTENDS Supervision

Program(name, mode, policy, strategy) ==
  [name |-> name, mode |-> mode, policy |-> policy, strategy |-> strategy]

Running(spec, parent, kids) ==
  [Process(spec, parent, "running",
           IF spec.mode = "isolated" THEN "alive" ELSE "none")
     EXCEPT !.kids = kids]

Supervisor(strategy, kids) ==
  Running(Program(1, "in_process", "permanent", strategy), 0, kids)

\* A supervisor of a supervisor, and supervisors of two processes of which
\* one is transient.  What is spawned later adds siblings.
MCRoots ==
  {<<Supervisor("one_for_one", <<2>>),
     Running(Program(2, "in_process", "permanent", "one_for_one"), 1, <<3>>),
     Running(Program(3, "isolated", "permanent", "one_for_one"), 2, <<>>)>>,
   <<Supervisor("one_for_all", <<2, 3>>),
     Running(Program(2, "isolated", "permanent", "one_for_one"), 1, <<>>),
     Running(Program(3, "in_process", "transient", "one_for_one"), 1, <<>>)>>,
   <<Supervisor("rest_for_one", <<2, 3>>),
     Running(Program(2, "in_process", "transient", "one_for_one"), 1, <<>>),
     Running(Program(3, "in_process", "permanent", "one_for_one"), 1, <<>>)>>}

MCSpecs == {Program(5, "in_process", "temporary", "one_for_one"),
            Program(6, "isolated", "permanent", "one_for_one")}
=============================================================================
