---------------------------- MODULE MCTimerQueue ----------------------------
(***************************************************************************)
(* Instances of TimerQueue for TLC.                                        *)
(***************************************************************************)
EXTENDS TimerQueue, TLC

CONSTANTS c1, c2, s1, s2

MCCallers == {c1, c2}
MCSlots == {s1, s2}
MCAnybody == MCCallers \cup MCSlots

Symmetry == Permutations(MCCallers) \cup Permutations(MCSlots)
=============================================================================
