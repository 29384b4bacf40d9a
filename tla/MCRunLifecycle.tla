---------------------------- MODULE MCRunLifecycle ----------------------------
(***************************************************************************)
(* RunLifecycle for TLC: processes and executions are interchangeable.     *)
(***************************************************************************)
EXTENDS RunLifecycle, TLC

AllCommands  == Commands
PruneCommands == {"up", "down", "prune"}
TestCommands == {"up", "test"}
RunCommand   == {"run"}
LiveCommands == {"run", "down", "test", "prune"}
NoScopes     == {}
DefaultScope == {"non-latest"}
EveryScope   == {"non-latest", "all"}

Symmetry == Permutations(Procs) \cup Permutations(Execs)
=============================================================================
