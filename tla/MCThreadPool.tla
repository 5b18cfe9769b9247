---------------------------- MODULE MCThreadPool ----------------------------
(***************************************************************************)
(* Instances of ThreadPool for TLC.                                        *)
(***************************************************************************)
EXTENDS ThreadPool, TLC

CONSTANTS c1, c2, t1, t2, t3

MCCallers == {c1, c2}
MCTasks == {t1, t2, t3}

MCTwoTasks == {t1, t2}

\* Anybody may call anything: the program's threads and the tasks.
MCAnybody == MCCallers \cup 1..PoolSize

Symmetry == Permutations(MCCallers) \cup Permutations(MCTasks)
=============================================================================
