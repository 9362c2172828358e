---------------------------- MODULE MCTaskStore ----------------------------
(* Small instances of TaskStore for TLC. *)
EXTENDS TaskStore, TLC

\* Tasks are 1, 2, ...; every task and every runner is in one lane unless the
\* instance says otherwise.
MCTaskLane == [t \in Tasks |-> "fast"]
MCRunnerLane == [r \in Runners |-> "fast"]
\* A channel's peer owns task 1 only; the CLI resolves any ask.
MCReach == [p \in Resolvers |-> IF p \in BusResolvers THEN {1} ELSE Tasks]

\* Without crashes, two resolvers that reach the same tasks are alike.
ResolverSymmetry == Permutations(Resolvers)
\* So are two runners of one lane.
RunnerSymmetry == Permutations(Runners)
=============================================================================
