----------------------------- MODULE MCTimerMgr -----------------------------
(* Small instances of the timer manager for TLC.                            *)
EXTENDS TimerMgr

CONSTANTS e1, e2

OneEvent == {e1}
TwoEvents == {e1, e2}

(* Periods below, at and above the interval of 2; forever, once, twice.      *)
ManyPlans == {<<1, 0>>, <<1, 2>>, <<2, 1>>, <<3, 0>>, <<5, 2>>}
ForeverPlan == {<<3, 0>>}

(* The run that starts from stamp zero is an instance of the theorems on     *)
(* time.                                                                     *)
ASSUME CoveredByTheorems == InitStamp = 0 => BeforeWrap /\ ShortTick

(* Several ticks at once, a jump past the limit, and a step back, which is   *)
(* past the limit too when the clock is ahead of the stamp by a tick.        *)
AnyStep == {5, 12, Word - 7}
Forward == {1, 5}

(* What an event keeps once it was revoked is never read.                   *)
Fresh(f) == [e \in Events |-> IF revoked[e] /\ cb # e THEN 0 ELSE f[e]]
View == <<abstractVars, mgrVars, pc, cbVars, Fresh(period), Fresh(slap), Fresh(repeat),
          Fresh(calls), Fresh(base), Fresh(plan), running, started, alive, revoked>>
=============================================================================
