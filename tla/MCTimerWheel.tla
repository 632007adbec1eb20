---------------------------- MODULE MCTimerWheel ----------------------------
(* Small wheels for TLC: tv1 of 2 slots, tv2..tv5 of 3, a clock of 162 ticks. *)
EXTENDS TimerWheel, TLC

CONSTANTS n1, n2

OneNode == {n1}
TwoNodes == {n1, n2}

(* The first and the last offset of each vector: 0-1, 2-5, 6-17, 18-53,     *)
(* 54-80, and of the past, 81-161.                                          *)
EdgeOffsets == {0, 1, 2, 5, 6, 17, 18, 53, 54, Word \div 2 - 1, Word \div 2, Word - 1}
ShortRuns == {0, 2, Word - 1}

(* The next tick, a tick of a coarser vector, and one tick too late.        *)
FewOffsets == {0, 7, Word - 1}
OneTick == {0}

Symmetry == Permutations(TwoNodes)

(* The expiry of an unlinked node is never read.                            *)
View == <<timer_jiffies, [n \in Nodes |-> IF Pending(n) THEN expires[n] ELSE 0],
          state, loc, core, runVars>>
=============================================================================
