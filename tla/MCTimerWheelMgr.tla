--------------------------- MODULE MCTimerWheelMgr ---------------------------
(* Small instances of the reactor's timer manager for TLC.                  *)
EXTENDS TimerWheelMgr, TLC

CONSTANTS e1, e2

Timers == {e1, e2}
Symmetry == Permutations(Timers)

(* Forever, once and twice, in seconds of 3 milliseconds.                   *)
Seconds == {<<1, 0>>, <<1, 2>>, <<2, 1>>}

(* The instance is one of the theorem on the number of timeouts.            *)
ASSUME CoveredByTheorems == SecondsBeforeWrap

(* update_timer in the same second, in the next one, and two seconds later. *)
Updates == {0, 1, 2}
=============================================================================
