--------------------------- MODULE TimerMgrProofs ---------------------------
(***************************************************************************)
(* Proofs about TimerMgr and TimerWheelMgr, for any number of events and   *)
(* any clock.  That events and nodes agree (ArmedIffStarted) is inductive  *)
(* once it is known when a callback of the core runs (Phase); that a       *)
(* revoked event is not called back needs that a batch is broken by        *)
(* whatever revokes its event (Unrevoked).  The second part is about time, *)
(* as long as the clock has not wrapped (ClockLasts): callbacks are        *)
(* counted and timed by an invariant that also counts those of the batch   *)
(* under way (Made), and says what tick an event is armed for (Course).    *)
(*                                                                         *)
(* The invariants are shown of all that users of the manager may do        *)
(* (NextOf), of which TimerMgr's Next is one part and, as WheelMgrStep     *)
(* shows, what CTimerWheelMgr does is another; the last part follows ids   *)
(* through its map.                                                        *)
(***************************************************************************)
EXTENDS TimerWheelMgr, DivMod, TLAPS

(* itimer_evt_cb runs exactly while the core calls a node back, and nodes   *)
(* wait to be called back within itimer_mgr_run only.                       *)
Phase ==
  /\ pc \in {"catchup", "arm", "call", "user"} <=> cb # None
  /\ pc \in {"idle", "destroyed"} => firing = {}
  /\ pc = "user" => count > 0

(* An event that is in the manager, or in the middle of its batch, was not  *)
(* revoked; and one that is being called back was in the manager.           *)
Unrevoked ==
  /\ \A e \in Events : started[e] \/ running[e] => ~revoked[e]
  /\ pc \in {"catchup", "arm"} => started[cb]

IInv == MgrTypeOK /\ Phase /\ ArmedIffStarted /\ Unrevoked

-----------------------------------------------------------------------------
(* What the users of the manager may do to it, CTimerWheelMgr among them:   *)
(* start an event, also one that is not in use yet, with a plan of S;       *)
Start(e, p, r) ==
  /\ pc # "destroyed"
  /\ period' = [period EXCEPT ![e] = p]
  /\ repeat' = [repeat EXCEPT ![e] = r]
  /\ slap' = [slap EXCEPT ![e] = (current + p) % Word]
  /\ started' = [started EXCEPT ![e] = TRUE]
  /\ running' = [running EXCEPT ![e] = FALSE]
  /\ alive' = [alive EXCEPT ![e] = TRUE]
  /\ Arm(e, (jiffies + TicksUntil((current + p) % Word)) % Word)
  /\ calls' = [calls EXCEPT ![e] = 0]
  /\ base' = [base EXCEPT ![e] = current]
  /\ plan' = [plan EXCEPT ![e] = <<p, r>>]
  /\ revoked' = [revoked EXCEPT ![e] = FALSE]
  /\ UNCHANGED <<mgrVars, pc, cbVars>>

UserOf(S) ==
  /\ UserRuns
  /\ \E e \in Events :
       \/ EvtInit(e) \/ EvtDestroy(e) \/ EvtStop(e)
       \/ \E p \in S : Start(e, p[1], p[2])

(* run it with any stamp;                                                   *)
AnyRun == jiffies <= Horizon /\ \E m \in Jiffies : MgrRun(m)

(* or destroy it, together with its events or without.                      *)
Clears ==
  /\ pc = "idle"
  /\ pc' = "destroyed"
  /\ DisarmAll
  /\ alive' = [e \in Events |-> FALSE]
  /\ period' = [e \in Events |-> 0]
  /\ slap' = [e \in Events |-> 0]
  /\ repeat' = [e \in Events |-> 0]
  /\ running' = [e \in Events |-> FALSE]
  /\ started' = [e \in Events |-> FALSE]
  /\ revoked' = [e \in Events |-> TRUE]
  /\ UNCHANGED <<mgrVars, cbVars, calls, base, plan>>

Ends == MgrDestroy \/ Clears

NextOf(S) == UserOf(S) \/ AnyRun \/ Loop \/ Ends

(* All the plans there are, and those that the clock lasts for.             *)
Periods == Jiffies \X Int
Fit == {p \in Periods : Lasts(p[1])}

-----------------------------------------------------------------------------

(* Sums on the circle of the clock stay on it.                              *)
LEMMA Wraps ==
  ASSUME NEW a \in Int, NEW b \in Int
  PROVE  (a + b) % Word \in Jiffies
  BY WordAssumption, ModRange DEF Jiffies

(* The ticks that events are armed for are ticks of the clock.              *)
LEMMA TicksType ==
  ASSUME NEW s \in Jiffies, current \in Jiffies, jiffies \in Jiffies
  PROVE  (jiffies + TicksUntil(s)) % Word \in Jiffies
<1>1. (s - current + Interval - 1) % Word \in Int
  BY WordAssumption, IntervalAssumption, ModRange DEF Jiffies
<1>2. ((s - current + Interval - 1) % Word) \div Interval \in Int
  BY <1>1, IntervalAssumption, DivInt DEF Jiffies
<1>3. TicksUntil(s) \in Int
  BY <1>2, PlanAssumption DEF TicksUntil
<1>4. jiffies \in Int
  BY DEF Jiffies
<1> QED
  BY <1>3, <1>4, Wraps

LEMMA InitInv == Init => IInv
<1> SUFFICES ASSUME Init PROVE IInv
  OBVIOUS
<1> USE DEF Init, Events
<1>1. 0 \in Jiffies /\ InitStamp \in Jiffies
  BY WordAssumption, StampAssumption DEF Jiffies
<1>2. MgrTypeOK
  <2>1. AbstractTypeOK
    BY <1>1 DEF AbstractTypeOK
  <2>2. {current, millisec, jiffies, stamp} \subseteq Jiffies /\ count \in 0 .. MaxCount
    BY <1>1, CountAssumption
  <2>3. /\ period \in [Events -> Jiffies] /\ slap \in [Events -> Jiffies]
        /\ repeat \in [Events -> Int] /\ calls \in [Events -> Nat]
    BY <1>1
  <2>4. /\ running \in [Events -> BOOLEAN] /\ started \in [Events -> BOOLEAN]
        /\ alive \in [Events -> BOOLEAN] /\ revoked \in [Events -> BOOLEAN]
    OBVIOUS
  <2> QED
    BY <2>1, <2>2, <2>3, <2>4 DEF MgrTypeOK
<1>3. Phase
  BY DEF Phase
<1>4. ArmedIffStarted
  BY DEF ArmedIffStarted, Armed
<1>5. Unrevoked
  BY DEF Unrevoked
<1> QED
  BY <1>2, <1>3, <1>4, <1>5 DEF IInv

-----------------------------------------------------------------------------
(* The operations of the core keep its types.                               *)
LEMMA CoreType ==
  ASSUME AbstractTypeOK,
         \/ \E n \in Nodes : Disarm(n) \/ Fire(n) \/ \E e \in Jiffies : Arm(n, e)
         \/ DisarmAll \/ Tick \/ Return \/ UNCHANGED abstractVars
  PROVE  AbstractTypeOK'
<1> USE DEF AbstractTypeOK
<1>1. ASSUME NEW n \in Nodes, Disarm(n) PROVE AbstractTypeOK'
  BY <1>1 DEF Disarm
<1>2. ASSUME NEW n \in Nodes, Fire(n) PROVE AbstractTypeOK'
  BY <1>2 DEF Fire
<1>3. ASSUME NEW n \in Nodes, NEW e \in Jiffies, Arm(n, e) PROVE AbstractTypeOK'
  <2>1. (IF NotBefore(e, now) THEN e ELSE now) \in Jiffies
    OBVIOUS
  <2> QED
    BY <1>3, <2>1 DEF Arm
<1>4. CASE DisarmAll
  BY <1>4 DEF DisarmAll
<1>5. CASE Tick
  <2>1. now' \in Jiffies
    BY <1>5, WordAssumption, Wraps DEF Tick, Jiffies
  <2> QED
    BY <1>5, <2>1 DEF Tick
<1>6. CASE Return
  BY <1>6 DEF Return
<1>7. CASE UNCHANGED abstractVars
  BY <1>7 DEF abstractVars
<1> QED
  BY <1>1, <1>2, <1>3, <1>4, <1>5, <1>6, <1>7

(* The times of the manager stay on its clock.                              *)
LEMMA MgrType ==
  ASSUME MgrTypeOK, NextOf(Periods)
  PROVE  {current, millisec, jiffies, stamp}' \subseteq Jiffies
<1> USE DEF MgrTypeOK
<1>1. Jiffies \subseteq Int /\ 1 \in Int /\ Interval \in Int
  BY IntervalAssumption DEF Jiffies
<1>2. CASE UNCHANGED mgrVars
  BY <1>2 DEF mgrVars
<1>3. CASE Advance
  <2>1. /\ (jiffies + 1) % Word \in Jiffies
        /\ (current + Interval) % Word \in Jiffies
        /\ (millisec + Interval) % Word \in Jiffies
    BY <1>1, Wraps
  <2> QED
    BY <1>3, <2>1 DEF Advance
<1>4. CASE AnyRun
  <2>1. PICK m \in Jiffies : MgrRun(m)
    BY <1>4 DEF AnyRun
  <2> QED
    BY <2>1 DEF MgrRun
<1>5. CASE UserOf(Periods)
  <2>1. UNCHANGED mgrVars
    BY <1>5 DEF UserOf, EvtInit, EvtDestroy, Start, EvtStop
  <2> QED
    BY <1>2, <2>1
<1>6. CASE Loop /\ ~Advance
  <2>1. UNCHANGED mgrVars
    BY <1>6 DEF Loop, CoreTick, CbBegin, CatchUp, CaughtUp, ArmNext, CallUser, UserReturns,
       CbEnd, MgrRunEnds
  <2> QED
    BY <1>2, <2>1
<1>7. CASE Ends
  BY <1>2, <1>7 DEF Ends, MgrDestroy, Clears
<1> QED
  BY <1>3, <1>4, <1>5, <1>6, <1>7 DEF NextOf

(* The fields of events keep their types, and calls are counted up.         *)
LEMMA EvtType ==
  ASSUME MgrTypeOK, NextOf(Periods)
  PROVE  /\ period' \in [Events -> Jiffies] /\ slap' \in [Events -> Jiffies]
         /\ repeat' \in [Events -> Int] /\ calls' \in [Events -> Nat]
<1> USE DEF MgrTypeOK, Events
<1>1. Jiffies \subseteq Int /\ 0 \in Jiffies
  BY WordAssumption DEF Jiffies
<1>2. ASSUME NEW e \in Nodes, NEW p \in Periods, Start(e, p[1], p[2])
      PROVE  /\ period' \in [Events -> Jiffies] /\ slap' \in [Events -> Jiffies]
             /\ repeat' \in [Events -> Int] /\ calls' \in [Events -> Nat]
  <2>1. p[1] \in Jiffies /\ p[2] \in Int
    BY DEF Periods
  <2>2. (current + p[1]) % Word \in Jiffies
    BY <1>1, <2>1, Wraps
  <2> QED
    BY <1>2, <2>1, <2>2 DEF Start
<1>3. ASSUME NEW e \in Nodes, EvtInit(e) \/ EvtDestroy(e) \/ EvtStop(e)
      PROVE  /\ period' \in [Events -> Jiffies] /\ slap' \in [Events -> Jiffies]
             /\ repeat' \in [Events -> Int] /\ calls' \in [Events -> Nat]
  BY <1>1, <1>3 DEF EvtInit, EvtDestroy, EvtStop
<1>4. CASE CatchUp
  <2>1. ASSUME NEW e \in Nodes PROVE (slap[e] + period[e]) % Word \in Jiffies
    <3>1. slap[e] \in Int /\ period[e] \in Int
      BY <1>1
    <3> QED
      BY <3>1, Wraps
  <2>2. slap' \in [Nodes -> Jiffies]
    BY <1>4, <2>1 DEF CatchUp
  <2>3. repeat' \in [Nodes -> Int]
    <3>1. \A e \in Nodes : (IF repeat[e] > 1 THEN repeat[e] - 1 ELSE repeat[e]) \in Int
      OBVIOUS
    <3> QED
      BY <1>4, <3>1 DEF CatchUp
  <2> QED
    BY <1>4, <2>2, <2>3 DEF CatchUp, history
<1>5. CASE CallUser
  <2>1. calls' \in [Nodes -> Nat]
    <3>1. \A e \in Nodes : calls[e] + 1 \in Nat
      OBVIOUS
    <3> QED
      BY <1>5, <3>1 DEF CallUser
  <2> QED
    BY <1>5, <2>1 DEF CallUser, evtVars
<1>6. CASE UNCHANGED <<period, slap, repeat, calls>>
  BY <1>6
<1>7. CASE AnyRun \/ MgrDestroy
  BY <1>7 DEF AnyRun, MgrRun, MgrDestroy, evtVars, history
<1>9. CASE Clears
  BY <1>1, <1>9 DEF Clears
<1>8. CASE Loop /\ ~CatchUp /\ ~CallUser
  <2>1. UNCHANGED <<period, slap, repeat, calls>>
    BY <1>8 DEF Loop, CoreTick, CbBegin, CaughtUp, ArmNext, UserReturns, CbEnd, Advance,
       MgrRunEnds, evtVars, history
  <2> QED
    BY <1>6, <2>1
<1> QED
  BY <1>2, <1>3, <1>4, <1>5, <1>7, <1>8, <1>9 DEF NextOf, UserOf, Ends

LEMMA FlagType ==
  ASSUME MgrTypeOK, NextOf(Periods)
  PROVE  /\ running' \in [Events -> BOOLEAN] /\ started' \in [Events -> BOOLEAN]
         /\ alive' \in [Events -> BOOLEAN] /\ revoked' \in [Events -> BOOLEAN]
         /\ stop' \in BOOLEAN
<1> USE DEF MgrTypeOK, Events
<1>1. ASSUME NEW e \in Nodes,
             \/ EvtInit(e) \/ EvtDestroy(e) \/ EvtStop(e)
             \/ \E p \in Periods : Start(e, p[1], p[2])
      PROVE  /\ running' \in [Events -> BOOLEAN] /\ started' \in [Events -> BOOLEAN]
             /\ alive' \in [Events -> BOOLEAN] /\ revoked' \in [Events -> BOOLEAN]
             /\ stop' \in BOOLEAN
  BY <1>1 DEF EvtInit, EvtDestroy, EvtStop, Start, cbVars
<1>2. CASE AnyRun \/ Ends
  BY <1>2 DEF AnyRun, MgrRun, Ends, MgrDestroy, Clears, cbVars, evtVars, history
<1>3. CASE CatchUp
  BY <1>3 DEF CatchUp, LastRepeat, history
<1>4. CASE ArmNext
  BY <1>4 DEF ArmNext, cbVars, history
<1>5. CASE CbEnd
  BY <1>5 DEF CbEnd, cbVars, history
<1>6. CASE CallUser \/ (\E e \in Events : CbBegin(e))
  BY <1>6 DEF CallUser, CbBegin, cbVars, evtVars, history
<1>7. CASE Loop /\ ~CatchUp /\ ~ArmNext /\ ~CbEnd /\ ~CallUser /\ ~(\E e \in Events : CbBegin(e))
  BY <1>7 DEF Loop, CoreTick, CaughtUp, UserReturns, Advance, MgrRunEnds, cbVars, evtVars, history
<1> QED
  BY <1>1, <1>2, <1>3, <1>4, <1>5, <1>6, <1>7 DEF NextOf, UserOf

(* Every step of the manager is a step of the core, or none.                *)
LEMMA CoreStep ==
  ASSUME MgrTypeOK, Phase, NextOf(Periods)
  PROVE  AbstractTypeOK'
<1> USE DEF MgrTypeOK, Events
<1>1. ASSUME NEW e \in Nodes, NEW p \in Periods, Start(e, p[1], p[2])
      PROVE  AbstractTypeOK'
  <2>1. p[1] \in Int /\ current \in Int
    BY DEF Periods, Jiffies
  <2>2. (current + p[1]) % Word \in Jiffies
    BY <2>1, Wraps
  <2>3. (jiffies + TicksUntil((current + p[1]) % Word)) % Word \in Jiffies
    BY <2>2, TicksType
  <2> QED
    BY <1>1, <2>3, CoreType DEF Start
<1>2. ASSUME NEW e \in Nodes, EvtInit(e) \/ EvtDestroy(e) \/ EvtStop(e)
      PROVE  AbstractTypeOK'
  BY <1>2, CoreType DEF EvtInit, EvtDestroy, EvtStop
<1>3. CASE ArmNext
  <2>1. cb \in Nodes
    BY <1>3 DEF ArmNext, Phase, AbstractTypeOK
  <2>2. (jiffies + TicksUntil(slap[cb])) % Word \in Jiffies
    BY <2>1, TicksType
  <2> QED
    BY <1>3, <2>1, <2>2, CoreType DEF ArmNext
<1>4. CASE AnyRun \/ Ends
  BY <1>4, CoreType DEF AnyRun, MgrRun, Ends, MgrDestroy, Clears
<1>5. CASE Loop /\ ~ArmNext
  BY <1>5, CoreType DEF Loop, CoreTick, CbBegin, CatchUp, CaughtUp, CallUser, UserReturns, CbEnd,
     Advance, MgrRunEnds
<1> QED
  BY <1>1, <1>2, <1>3, <1>4, <1>5 DEF NextOf, UserOf

(* The phases of itimer_mgr_run and its callbacks.                          *)
LEMMA PhaseStep ==
  ASSUME MgrTypeOK, Phase, NextOf(Periods)
  PROVE  /\ Phase'
         /\ pc' \in {"idle", "run", "catchup", "arm", "call", "user", "destroyed"}
         /\ count' \in 0 .. MaxCount
<1> USE CountAssumption, NoneAssumption DEF MgrTypeOK, Phase, Events
<1>1. CASE UserOf(Periods)
  BY <1>1 DEF UserOf, UserRuns, EvtInit, EvtDestroy, EvtStop, Start, Disarm, Arm, abstractVars,
     cbVars
<1>2. CASE AnyRun \/ Ends
  BY <1>2 DEF AnyRun, MgrRun, Ends, MgrDestroy, Clears, DisarmAll, abstractVars, cbVars
<1>3. CASE CoreTick \/ Advance \/ MgrRunEnds
  BY <1>3 DEF CoreTick, Tick, Advance, MgrRunEnds, BetweenCallbacks, abstractVars, cbVars
<1>4. CASE (\E e \in Events : CbBegin(e)) \/ CbEnd
  BY <1>4 DEF CbBegin, Fire, CbEnd, Return, cbVars
<1>5. CASE CatchUp \/ CaughtUp
  BY <1>5 DEF CatchUp, CaughtUp, abstractVars, cbVars
<1>6. CASE ArmNext
  BY <1>6 DEF ArmNext, Disarm, Arm, cbVars
<1>7. CASE CallUser \/ UserReturns
  BY <1>7 DEF CallUser, UserReturns, BatchGoesOn, abstractVars, cbVars
<1> QED
  BY <1>1, <1>2, <1>3, <1>4, <1>5, <1>6, <1>7 DEF NextOf, Loop

-----------------------------------------------------------------------------
(* Nodes and events agree after each step.                                  *)
LEMMA ArmedStep ==
  ASSUME IInv, NextOf(Periods)
  PROVE  ArmedIffStarted'
<1> USE DEF IInv, MgrTypeOK, AbstractTypeOK, Phase, Unrevoked, ArmedIffStarted, Armed, Events
<1>1. Never \notin Jiffies
  BY DEF Never, Jiffies
<1>2. ASSUME NEW e \in Nodes, EvtInit(e) PROVE ArmedIffStarted'
  BY <1>2 DEF EvtInit, abstractVars
<1>3. ASSUME NEW e \in Nodes, EvtDestroy(e), UserRuns PROVE ArmedIffStarted'
  BY <1>3 DEF EvtDestroy, Disarm, UserRuns
<1>4. ASSUME NEW e \in Nodes, EvtStop(e), UserRuns PROVE ArmedIffStarted'
  BY <1>4 DEF EvtStop, Disarm, UserRuns, abstractVars
<1>5. ASSUME NEW e \in Nodes, NEW p \in Periods, Start(e, p[1], p[2]), UserRuns
      PROVE  ArmedIffStarted'
  <2>1. due' \in [Nodes -> Jiffies \cup {Never}] /\ due'[e] # Never
    <3>1. p[1] \in Int /\ current \in Int
      BY DEF Periods, Jiffies
    <3>2. (current + p[1]) % Word \in Jiffies
      BY <3>1, Wraps
    <3>3. (jiffies + TicksUntil((current + p[1]) % Word)) % Word \in Jiffies
      BY <3>2, TicksType
    <3> QED
      BY <1>1, <1>5, <3>3 DEF Start, Arm
  <2> QED
    BY <1>5, <2>1 DEF Start, Arm, UserRuns
<1>6. CASE AnyRun
  BY <1>6 DEF AnyRun, MgrRun, abstractVars, evtVars
<1>7. CASE Ends
  BY <1>7 DEF Ends, MgrDestroy, Clears, DisarmAll, evtVars
<1>8. CASE CoreTick
  <2>1. UNCHANGED <<alive, started, pc, cb>> /\ pc = "run"
    BY <1>8 DEF CoreTick, Tick, evtVars, BetweenCallbacks
  <2>2. ASSUME NEW e \in Nodes
        PROVE  (due'[e] # Never \/ e \in firing') <=> due[e] # Never \/ e \in firing
    <3>1. due'[e] = (IF due[e] = now THEN Never ELSE due[e]) /\ (e \in firing' <=> due[e] = now)
      BY <1>8 DEF CoreTick, Tick
    <3> QED
      BY <1>1, <1>8, <3>1 DEF CoreTick, BetweenCallbacks
  <2> QED
    BY <2>1, <2>2
<1>9. ASSUME NEW e \in Nodes, CbBegin(e) PROVE ArmedIffStarted'
  BY <1>9 DEF CbBegin, Fire, evtVars
<1>10. CASE CatchUp \/ CaughtUp
  BY <1>10 DEF CatchUp, CaughtUp, abstractVars, evtVars
<1>11. CASE ArmNext
  <2>1. cb \in Nodes
    BY <1>11 DEF ArmNext
  <2>2. (jiffies + TicksUntil(slap[cb])) % Word \in Jiffies
    BY <2>1, TicksType
  <2>3. CASE stop
    BY <1>11, <2>1, <2>3 DEF ArmNext, Disarm
  <2>4. CASE ~stop
    <3>1. due'[cb] # Never /\ \A e \in Nodes \ {cb} : due'[e] = due[e]
      BY <1>1, <1>11, <2>1, <2>2, <2>4 DEF ArmNext, Arm
    <3> QED
      BY <1>11, <2>1, <2>4, <3>1 DEF ArmNext, Arm
  <2> QED
    BY <2>3, <2>4
<1>12. CASE CallUser \/ UserReturns
  BY <1>12 DEF CallUser, UserReturns, abstractVars, evtVars
<1>13. CASE CbEnd
  BY <1>13 DEF CbEnd, Return
<1>14. CASE Advance \/ MgrRunEnds
  BY <1>14 DEF Advance, MgrRunEnds, abstractVars, evtVars, BetweenCallbacks
<1> QED
  BY <1>2, <1>3, <1>4, <1>5, <1>6, <1>7, <1>8, <1>9, <1>10, <1>11, <1>12, <1>13, <1>14
  DEF NextOf, UserOf, Loop

(* An event in the manager, or in the middle of its batch, is not revoked.  *)
LEMMA UnrevokedStep ==
  ASSUME IInv, NextOf(Periods)
  PROVE  Unrevoked'
<1> USE DEF IInv, MgrTypeOK, AbstractTypeOK, Phase, Unrevoked, Events
<1>1. ASSUME NEW e \in Nodes, UserRuns,
             \/ EvtInit(e) \/ EvtDestroy(e) \/ EvtStop(e)
             \/ \E p \in Periods : Start(e, p[1], p[2])
      PROVE  Unrevoked'
  BY <1>1 DEF EvtInit, EvtDestroy, EvtStop, Start, UserRuns
<1>2. CASE AnyRun \/ Ends
  BY <1>2 DEF AnyRun, MgrRun, Ends, MgrDestroy, Clears, evtVars, history
<1>3. ASSUME NEW e \in Nodes, CbBegin(e) PROVE Unrevoked'
  BY <1>3 DEF CbBegin, Fire, evtVars, history, ArmedIffStarted, Armed
<1>4. CASE CatchUp \/ CaughtUp
  BY <1>4 DEF CatchUp, CaughtUp, abstractVars, evtVars, history
<1>5. CASE ArmNext
  BY <1>5 DEF ArmNext, history
<1>6. CASE CbEnd
  BY <1>6 DEF CbEnd, history
<1>7. CASE CallUser \/ UserReturns
  BY <1>7 DEF CallUser, UserReturns, abstractVars, evtVars, history
<1>8. CASE CoreTick \/ Advance \/ MgrRunEnds
  BY <1>8 DEF CoreTick, Advance, MgrRunEnds, BetweenCallbacks, evtVars, history
<1> QED
  BY <1>1, <1>2, <1>3, <1>4, <1>5, <1>6, <1>7, <1>8 DEF NextOf, UserOf, Loop

(* A callback is of an event that was not revoked.                          *)
LEMMA QuietStep ==
  ASSUME IInv, NextOf(Periods)
  PROVE  \A e \in Events : calls'[e] > calls[e] => ~revoked[e]
<1> USE DEF IInv, MgrTypeOK, AbstractTypeOK, Phase, Unrevoked, Events
<1>1. ASSUME NEW e \in Nodes, NEW p \in Periods, Start(e, p[1], p[2])
      PROVE  \A d \in Events : ~(calls'[d] > calls[d])
  BY <1>1 DEF Start
<1>2. CASE CallUser
  <2>1. cb \in Nodes /\ running[cb]
    BY <1>2 DEF CallUser, BatchGoesOn
  <2> QED
    BY <1>2, <2>1 DEF CallUser
<1>3. CASE UNCHANGED calls
  BY <1>3
<1>4. ASSUME NEW e \in Nodes, EvtInit(e) \/ EvtDestroy(e) \/ EvtStop(e) PROVE UNCHANGED calls
  BY <1>4 DEF EvtInit, EvtDestroy, EvtStop
<1>5. CASE AnyRun \/ Ends
  BY <1>3, <1>5 DEF AnyRun, MgrRun, Ends, MgrDestroy, Clears, history
<1>6. CASE Loop /\ ~CallUser
  <2>1. UNCHANGED calls
    BY <1>6 DEF Loop, CoreTick, CbBegin, CatchUp, CaughtUp, ArmNext, UserReturns, CbEnd, Advance,
       MgrRunEnds, history
  <2> QED
    BY <1>3, <2>1
<1> QED
  BY <1>1, <1>2, <1>3, <1>4, <1>5, <1>6 DEF NextOf, UserOf

(* Every step preserves the invariant.                                      *)
LEMMA StepInv == IInv /\ [NextOf(Periods)]_vars => IInv'
<1>1. ASSUME IInv, NextOf(Periods) PROVE IInv'
  <2>1. MgrTypeOK'
    BY <1>1, CoreStep, MgrType, EvtType, FlagType, PhaseStep DEF IInv, MgrTypeOK
  <2> QED
    BY <1>1, <2>1, PhaseStep, ArmedStep, UnrevokedStep DEF IInv
<1>2. ASSUME IInv, UNCHANGED vars PROVE IInv'
  BY <1>2 DEF IInv, MgrTypeOK, AbstractTypeOK, Phase, ArmedIffStarted, Armed, Unrevoked, vars,
     abstractVars, mgrVars, cbVars, evtVars, history
<1> QED
  BY <1>1, <1>2

(* The users of the manager alone are among those.                          *)
LEMMA Covered ==
  ASSUME MgrTypeOK, NEW S, \A p \in Plans : p \in S
  PROVE  [Next]_vars => [NextOf(S)]_vars
<1>1. ASSUME NEW e \in Events, NEW p \in Plans, EvtStart(e, p[1], p[2])
      PROVE  Start(e, p[1], p[2])
  <2>1. alive' = [alive EXCEPT ![e] = TRUE]
    BY <1>1 DEF EvtStart, MgrTypeOK
  <2> QED
    BY <1>1, <2>1 DEF EvtStart, Start
<1>2. User => UserOf(S)
  BY <1>1 DEF User, UserOf
<1>3. Runs => AnyRun
  <2> SUFFICES ASSUME Runs PROVE AnyRun
    OBVIOUS
  <2>1. PICK s \in Steps : MgrRun((stamp + s) % Word) /\ jiffies <= Horizon
    BY DEF Runs
  <2>2. stamp \in Int /\ s \in Int
    BY StampAssumption DEF MgrTypeOK, Jiffies
  <2>3. (stamp + s) % Word \in Jiffies
    BY <2>2, Wraps
  <2> QED
    BY <2>1, <2>3 DEF AnyRun
<1> QED
  BY <1>2, <1>3 DEF Next, NextOf, Ends

(* So the manager alone keeps the invariants.                               *)
LEMMA PeriodsCovered == IInv /\ [Next]_vars => [NextOf(Periods)]_vars
  BY Covered, PlanAssumption DEF IInv, Periods

(* Of plans that the clock lasts for, too.                                  *)
LEMMA FitCovered ==
  ASSUME BeforeWrap
  PROVE  IInv /\ [Next]_vars => [NextOf(Fit)]_vars
<1>1. \A p \in Plans : p \in Fit
  BY PlanAssumption DEF BeforeWrap, Fit, Periods
<1> QED
  BY <1>1, Covered DEF IInv

(* Which are plans.                                                         *)
LEMMA FitIsAny == [NextOf(Fit)]_vars => [NextOf(Periods)]_vars
  BY DEF NextOf, UserOf, Fit

-----------------------------------------------------------------------------
(* The ticks of the core and of the manager: the core is ahead by one tick  *)
(* while it calls back, and until the manager has followed it.              *)
Clocks ==
  /\ now \in {jiffies, (jiffies + 1) % Word}
  /\ cb # None \/ firing # {} => now = (jiffies + 1) % Word
  /\ now # jiffies => StampReached /\ pc \notin {"idle", "destroyed"}

(* Whether the core is behind the manager tells which of the two it is.     *)
LEMMA Behind ==
  ASSUME NEW j \in Jiffies
  PROVE  NotBefore(j, j) /\ ~NotBefore(j, (j + 1) % Word)
<1> USE WordAssumption DEF Jiffies
<1>1. (j - j) % Word = 0
  BY ModSmall
<1>2. (j - ((j + 1) % Word)) % Word = Word - 1
  <2>1. CASE j = Word - 1
    <3>1. j + 1 = 1 * Word + 0
      BY <2>1
    <3>2. (j + 1) % Word = 0
      BY <3>1, DivModUnique
    <3> QED
      BY <2>1, <3>2, ModSmall
  <2>2. CASE j # Word - 1
    <3>1. (j + 1) % Word = j + 1
      BY <2>2, ModSmall
    <3>2. 0 - 1 = (0 - 1) * Word + (Word - 1) /\ 0 - 1 \in Int
      OBVIOUS
    <3>3. (0 - 1) % Word = Word - 1
      BY <3>2, DivModUnique
    <3>4. j - (j + 1) = 0 - 1
      OBVIOUS
    <3> QED
      BY <3>1, <3>3, <3>4
  <2> QED
    BY <2>1, <2>2
<1> QED
  BY <1>1, <1>2 DEF NotBefore

LEMMA ClocksStep == IInv /\ Clocks /\ [NextOf(Periods)]_vars => Clocks'
<1> SUFFICES ASSUME IInv, Clocks, [NextOf(Periods)]_vars PROVE Clocks'
  OBVIOUS
<1> USE DEF IInv, MgrTypeOK, AbstractTypeOK, Phase, Clocks, Events, StampReached
<1>1. CASE UserOf(Periods)
  BY <1>1 DEF UserOf, EvtInit, EvtDestroy, EvtStop, Start, Disarm, Arm, abstractVars, mgrVars
<1>2. CASE AnyRun
  BY <1>2 DEF AnyRun, MgrRun, abstractVars
<1>3. CASE Ends
  BY <1>3 DEF Ends, MgrDestroy, Clears, DisarmAll, mgrVars
<1>4. CASE CoreTick
  <2>1. now = jiffies
    BY <1>4, Behind DEF CoreTick, CoreBehind
  <2> QED
    BY <1>4, <2>1 DEF CoreTick, Tick, BetweenCallbacks, mgrVars
<1>5. CASE Advance
  <2>1. now = (jiffies + 1) % Word
    BY <1>5, Behind DEF Advance, CoreBehind
  <2> QED
    BY <1>5, <2>1 DEF Advance, BetweenCallbacks, abstractVars
<1>6. CASE MgrRunEnds
  BY <1>6 DEF MgrRunEnds, BetweenCallbacks, abstractVars, mgrVars
<1>7. CASE (\E e \in Events : CbBegin(e)) \/ CbEnd
  BY <1>7 DEF CbBegin, Fire, CbEnd, Return, mgrVars
<1>8. CASE CatchUp \/ CaughtUp \/ CallUser \/ UserReturns
  BY <1>8 DEF CatchUp, CaughtUp, CallUser, UserReturns, abstractVars, mgrVars
<1>9. CASE ArmNext
  BY <1>9 DEF ArmNext, Disarm, Arm, mgrVars
<1>10. CASE UNCHANGED vars
  BY <1>10 DEF vars, abstractVars, mgrVars
<1> QED
  BY <1>1, <1>2, <1>3, <1>4, <1>5, <1>6, <1>7, <1>8, <1>9, <1>10 DEF NextOf, Loop

-----------------------------------------------------------------------------
(* The variables of the manager and of its events keep their types.         *)
THEOREM MgrTypeCorrect == Spec => []MgrTypeOK
<1>1. IInv => MgrTypeOK
  BY DEF IInv
<1> QED
  BY <1>1, InitInv, StepInv, PeriodsCovered, PTL DEF Spec

(* An event has a node in the core exactly while evt->mgr is set: no event  *)
(* that was started is lost, none that was stopped is left armed, and       *)
(* itimer_evt_cb, which follows evt->mgr (line 324), never finds it NULL.   *)
THEOREM ArmedIffStartedTheorem == Spec => []ArmedIffStarted
<1>1. IInv => ArmedIffStarted
  BY DEF IInv
<1> QED
  BY <1>1, InitInv, StepInv, PeriodsCovered, PTL DEF Spec

(* No callback after a stop or a destroy, also of the same batch.           *)
THEOREM RevokedStaysQuietTheorem == Spec => RevokedStaysQuiet
<1>1. IInv /\ [Next]_vars => [\A e \in Events : calls'[e] > calls[e] => ~revoked[e]]_vars
  BY QuietStep, PeriodsCovered
<1> QED
  BY <1>1, InitInv, StepInv, PeriodsCovered, PTL DEF Spec, RevokedStaysQuiet

(* The manager and its core tell the same tick: no run loses or doubles one.*)
THEOREM InStepTheorem == Spec => []InStep
<1>1. Init => Clocks
  BY DEF Init, Clocks
<1>2. IInv /\ Clocks => InStep
  BY DEF Clocks, InStep
<1> QED
  BY <1>1, <1>2, InitInv, StepInv, PeriodsCovered, ClocksStep, PTL DEF Spec

-----------------------------------------------------------------------------
(* How far the stamp is ahead of the next tick.                             *)
Left == (stamp - millisec) % Word

(* `current' tells the time of tick `jiffies', and the run that is under    *)
(* way ends before MaxTick.                                                 *)
Times ==
  /\ current = InitStamp + jiffies * Interval
  /\ jiffies <= MaxTick
  /\ pc \notin {"idle", "destroyed"} /\ StampReached => jiffies + Left < MaxTick

(* The callbacks that the batch under way has yet to make: those counted,   *)
(* unless whatever revoked the event has broken the batch; the one the user *)
(* is in has been made.                                                     *)
Pending(e) ==
  IF e # cb THEN 0
  ELSE IF pc \in {"catchup", "arm"} \/ (pc = "call" /\ running[e]) THEN count
  ELSE IF pc = "user" /\ running[e] THEN count - 1 ELSE 0

(* The callbacks of an event since it was started, those of its batch       *)
(* included.                                                                *)
Made(e) == calls[e] + Pending(e)

(* The event stays in the manager: it is started, and itimer_evt_cb is not  *)
(* about to take it out after its last repetition.                          *)
Going(e) == started[e] /\ ~(e = cb /\ pc = "arm" /\ stop)

(* A batch is of the event being called back.                               *)
Batch == \A e \in Events : running[e] => e = cb /\ pc \in {"call", "user"} /\ alive[e]

(* The k-th callback is made no earlier than k periods after the start, and *)
(* the time of the next one is a whole number of periods after it.          *)
Book(e) ==
  /\ base[e] \in 0 .. current
  /\ Made(e) * plan[e][1] <= current - base[e]
  /\ started[e] => /\ plan[e] \in Fit /\ period[e] = plan[e][1]
                   /\ slap[e] = base[e] + Made(e) * plan[e][1] + plan[e][1]

(* That for every event.                                                    *)
Books ==
  /\ base \in [Events -> Nat] /\ plan \in [Events -> Fit \cup {<<0, 0>>}]
  /\ \A e \in Events : Book(e)

(* The callbacks made and the repetitions left make up those asked for; and *)
(* an event that repeats forever stays in the manager.                      *)
Left2Do(e) ==
  /\ ~revoked[e] /\ plan[e][2] > 0 =>
         IF Going(e) THEN Made(e) + repeat[e] = plan[e][2] /\ repeat[e] > 0
         ELSE Made(e) = plan[e][2]
  /\ ~revoked[e] /\ plan[e][2] <= 0 => Going(e) /\ repeat[e] <= 0

(* That for every event; and the loop over the periods that have passed     *)
(* ends with the last repetition.                                           *)
Repeats == (pc = "catchup" => ~stop) /\ \A e \in Events : Left2Do(e)

(* An event is armed for a tick that has not passed, that comes less than   *)
(* one tick after the time of its next callback, and at most its period,    *)
(* rounded up to ticks, from now.  The same follows of the time when the    *)
(* tick is processed, and of `current' while itimer_evt_cb catches up: each *)
(* turn of its loop adds one callback, and at least one millisecond to the  *)
(* time of the next, which is what bounds `count'.                          *)
Course(e) ==
  /\ due[e] # Never => /\ now <= due[e] /\ InitStamp + due[e] * Interval < slap[e] + Interval
                       /\ due[e] - now <= (period[e] + Interval - 1) \div Interval
  /\ e \in firing => current < slap[e] + Interval
  /\ cb = e /\ pc \in {"catchup", "arm"} => current + count < slap[e] + Interval
  /\ cb = e /\ pc = "arm" /\ ~stop => current < slap[e]

(* That for every event.                                                    *)
OnCourse == \A e \in Events : Course(e)

(* The inductive invariant.                                                 *)
MInv == IInv /\ Clocks /\ Times /\ Batch /\ Books /\ Repeats /\ OnCourse

-----------------------------------------------------------------------------
(* The constants, without the products that only some proofs need.          *)
LEMMA Widths ==
  ASSUME ClockLasts
  PROVE  /\ Word \in Nat \ {0} /\ Word >= 2
         /\ Interval \in Nat \ {0} /\ Interval < Word
         /\ InitStamp \in Nat /\ InitStamp < Word
         /\ Cap \in Nat \ {0}
         /\ Horizon \in Nat /\ Limit \in Nat
         /\ MaxTick \in Nat \ {0} /\ MaxTick = Horizon + Limit + 1
  BY WordAssumption, IntervalAssumption, StampAssumption, PlanAssumption
  DEF ClockLasts, MaxTick, Jiffies

(* The circle of the clock has a length.                                    *)
LEMMA WordIs == Word \in Nat \ {0}
  BY WordAssumption

(* Half of the circle of the clock.                                         *)
LEMMA HalfIs ==
  ASSUME ClockLasts
  PROVE  /\ (Word \div 2) \in Nat
         /\ 2 * (Word \div 2) >= Word - 1 /\ 2 * (Word \div 2) <= Word
<1> DEFINE h == Word \div 2
           o == Word % 2
<1>1. Word \in Nat /\ 2 \in Nat \ {0}
  BY Widths
<1>2. h \in Int /\ o \in 0 .. 1
  BY <1>1, DivInt, ModRange
<1>3. Word = h * 2 + o
  BY <1>1, DivMod
<1> HIDE DEF h, o
<1>4. h \in Nat /\ 2 * h >= Word - 1 /\ 2 * h <= Word
  BY <1>1, <1>2, <1>3
<1> QED
  BY <1>4 DEF h

(* The constants, with the products.                                        *)
LEMMA Constants ==
  ASSUME ClockLasts
  PROVE  /\ Word \in Nat /\ Word >= 2 /\ Interval \in Nat /\ Interval >= 1
         /\ InitStamp \in Nat /\ InitStamp < Word /\ MaxTick \in Nat /\ MaxTick >= 1
         /\ Horizon \in Nat /\ Limit \in Nat /\ MaxTick = Horizon + Limit + 1
         /\ 2 * Interval <= Word /\ MaxTick * Interval \in Nat
         /\ (MaxTick + 1) * Interval = MaxTick * Interval + Interval
         /\ Cap \in Nat /\ Cap >= 1
         /\ \A p \in Fit : p[1] \in Nat /\ p[1] >= 1 /\ p[2] \in Int
<1>1. /\ Word \in Nat /\ Word >= 2 /\ Interval \in Nat /\ Interval >= 1 /\ Cap \in Nat /\ Cap >= 1
      /\ InitStamp \in Nat /\ InitStamp < Word /\ MaxTick \in Nat /\ MaxTick >= 1
      /\ Horizon \in Nat /\ Limit \in Nat /\ MaxTick = Horizon + Limit + 1
  BY WordAssumption, IntervalAssumption, StampAssumption, PlanAssumption
  DEF ClockLasts, MaxTick, Jiffies
<1>2. /\ (MaxTick + 1) * Interval = MaxTick * Interval + Interval
      /\ MaxTick * Interval \in Nat
  BY <1>1
<1>3. 1 * Interval <= MaxTick * Interval
  BY <1>1, MulMono
<1>4. \A p \in Fit : p[1] \in Nat /\ p[1] >= 1 /\ p[2] \in Int
  BY DEF Fit, Periods, Lasts, Jiffies
<1>5. 2 * Interval <= Word
  BY <1>1, <1>2, <1>3 DEF ClockLasts
<1> QED
  BY <1>1, <1>2, <1>4, <1>5

(* The clock has room for another tick, and for a period.                   *)
LEMMA Room ==
  ASSUME ClockLasts, IInv, Times
  PROVE  /\ current + Interval <= Word
         /\ \A p \in Fit : current + Interval + p[1] <= Word
         /\ jiffies < MaxTick => jiffies + 1 < Word /\ current + Interval < Word
         /\ current = InitStamp + jiffies * Interval
         /\ current \in Nat /\ jiffies \in Nat /\ jiffies <= jiffies * Interval
         /\ jiffies * Interval \in Nat
<1>1. current \in Nat /\ jiffies \in Nat /\ jiffies <= MaxTick
  BY Constants DEF IInv, MgrTypeOK, Jiffies, Times
<1>2. /\ jiffies * Interval <= MaxTick * Interval /\ jiffies * Interval \in Nat
      /\ jiffies < MaxTick => (jiffies + 1) * Interval <= MaxTick * Interval
      /\ (jiffies + 1) * Interval = jiffies * Interval + Interval
      /\ 1 * jiffies <= Interval * jiffies /\ Interval * jiffies = jiffies * Interval
  BY <1>1, Constants, MulMono
<1> QED
  BY <1>1, <1>2, Constants DEF ClockLasts, Fit, Lasts, Times

(* The core is at the tick of the manager or one ahead, with no wrap.       *)
LEMMA NowIs ==
  ASSUME ClockLasts, IInv, Clocks, Times
  PROVE  /\ now \in {jiffies, jiffies + 1} /\ now \in Nat /\ now < Word
         /\ cb # None \/ firing # {} => now = jiffies + 1
         /\ now # jiffies => jiffies < MaxTick
<1>1. now \in Jiffies /\ jiffies \in Jiffies
  BY DEF IInv, MgrTypeOK, AbstractTypeOK
<1>2. now # jiffies => jiffies < MaxTick
  <2>1. Left \in Nat
    <3> DEFINE v == stamp - millisec
    <3>1. v \in Int
      BY DEF IInv, MgrTypeOK, Jiffies
    <3> HIDE DEF v
    <3>2. (v % Word) \in 0 .. Word - 1
      BY <3>1, WordIs, ModRange
    <3>3. (v % Word) \in Nat
      BY <3>2, WordIs
    <3> QED
      BY <3>3 DEF Left, v
  <2> QED
    BY <1>1, <2>1, Constants DEF Clocks, Times, Jiffies
<1>0. jiffies < MaxTick => jiffies + 1 < Word
  BY Room
<1>3. jiffies < MaxTick => (jiffies + 1) % Word = jiffies + 1
  BY <1>1, <1>0, Widths, ModSmall DEF Jiffies
<1>4. now = jiffies => ~(cb # None \/ firing # {})
  <2>1. (jiffies + 1) % Word # jiffies
    BY <1>1, Behind
  <2> QED
    BY <2>1 DEF Clocks
<1> QED
  BY <1>1, <1>2, <1>3, <1>4, Constants DEF Clocks, Jiffies

(* The run that was promised to end before MaxTick comes nearer to its end: *)
(* each tick takes Interval from the distance that is left.                 *)
LEMMA TimesStep ==
  ASSUME ClockLasts, MInv, NextOf(Fit)
  PROVE  Times'
<1> USE DEF MInv
<1>1. {current, millisec, jiffies, stamp} \subseteq Jiffies /\ Jiffies \subseteq Int
  BY DEF IInv, MgrTypeOK, Jiffies
<1>0. {current, millisec, jiffies, stamp} \subseteq Nat
  BY DEF IInv, MgrTypeOK, Jiffies
<1>a. stamp - millisec \in Int /\ Word \in Nat \ {0} /\ stamp \in Int /\ millisec \in Int
  BY <1>0, Widths
<1>2. Left \in 0 .. Word - 1
  BY <1>a, Widths, ModRange DEF Left
<1>3. StampReached <=> Left < Word \div 2
  BY DEF StampReached, NotBefore, Left
<1>4. Word \div 2 \in Nat /\ 2 * (Word \div 2) >= Word - 1 /\ 2 * (Word \div 2) <= Word
  BY HalfIs
<1>5. CASE AnyRun
  <2>1. PICK m \in Jiffies : MgrRun(m)
    BY <1>5 DEF AnyRun
  <2> DEFINE d == (m - millisec) % Word
  <2>2. m \in Jiffies
    OBVIOUS
  <2>3. d \in 0 .. Word - 1
    <3>0. m \in Int
      BY <1>1, <2>2
    <3>1. m - millisec \in Int
      BY <1>a, <3>0
    <3> DEFINE v == m - millisec
    <3>2. v \in Int
      BY <3>1
    <3> HIDE DEF v
    <3>3. (v % Word) \in 0 .. Word - 1
      BY <1>a, <3>2, ModRange
    <3> QED
      BY <3>3 DEF v
  <2>4. stamp' = m /\ jiffies' = jiffies /\ current' = current /\ pc' = "run" /\ jiffies <= Horizon
    BY <1>5, <2>1 DEF MgrRun, AnyRun
  <2>5. CASE millisec' = m
    <3>0. 0 \in 0 .. Word - 1
      BY <1>1, <2>2, Widths
    <3>1. (m - m) % Word = 0
      <4>1. 0 % Word = 0
        BY <3>0, <1>a, ModSmall
      <4>2. m \in Int
        BY <1>1, <2>2
      <4>3. m - m = 0
        BY <4>2
      <4> QED
        BY <4>1, <4>3
    <3> QED
      BY <1>1, <2>4, <2>5, <3>1, Constants DEF Times, Left, StampReached, NotBefore, Jiffies
  <2>6. CASE millisec' # m
    <3>1. millisec' = millisec /\ Signed(m - millisec) <= Limit
      <4>1. Signed(m - millisec) \in Int
        BY <2>3, Constants DEF Signed
      <4> QED
        BY <2>1, <2>6, <4>1, Constants DEF MgrRun
    <3>2. d < Word \div 2 => d <= Limit
      BY <3>1 DEF Signed
    <3>3. Left' = d /\ (StampReached' <=> d < Word \div 2)
      BY <2>4, <3>1 DEF Left, StampReached, NotBefore
    <3> HIDE DEF d
    <3> QED
      BY <1>1, <2>3, <2>4, <3>1, <3>2, <3>3, Constants DEF Times, Jiffies
  <2> QED
    BY <2>5, <2>6
<1>6. CASE Advance
  <2>1. jiffies < MaxTick /\ StampReached /\ pc = "run" /\ jiffies + Left < MaxTick
    BY <1>1, <1>2, <1>6, Constants DEF Advance, Times, BetweenCallbacks, Jiffies
  <2>2. jiffies + 1 < Word /\ current + Interval < Word
    BY <2>1, Room
  <2>3. jiffies' = jiffies + 1 /\ current' = current + Interval
    <3>1. jiffies + 1 \in 0 .. Word - 1 /\ current + Interval \in 0 .. Word - 1
      BY <1>0, <2>2, Widths
    <3>2. (jiffies + 1) % Word = jiffies + 1
      BY <1>a, <3>1, ModSmall
    <3>3. (current + Interval) % Word = current + Interval
      BY <1>a, <3>1, ModSmall
    <3> QED
      BY <1>6, <3>2, <3>3 DEF Advance
  <2>4. Left' = IF Left >= Interval THEN Left - Interval ELSE Left - Interval + Word
    <3>1. millisec' = (millisec + Interval) % Word /\ stamp' = stamp
      BY <1>6 DEF Advance
    <3>2. Interval \in 0 .. Word
      BY Widths
    <3> QED
      BY <1>a, <3>1, <3>2, NearerBy DEF Left
  <2>5. StampReached' <=> Left' < Word \div 2
    BY DEF StampReached, NotBefore, Left
  <2>6. (jiffies + 1) * Interval = jiffies * Interval + Interval /\ jiffies * Interval \in Int
    BY <1>0, Widths
  <2>7. current' = InitStamp + jiffies' * Interval
    BY <1>1, <2>3, <2>6, Constants DEF Times
  <2>8. StampReached' => jiffies' + Left' < MaxTick
    <3> DEFINE h == Word \div 2
               l == Left
    <3>1. h \in Nat /\ 2 * h >= Word - 1 /\ 2 * h <= Word /\ 2 * Interval <= Word
      BY <1>4, Constants
    <3>2. l \in 0 .. Word - 1 /\ l < h /\ jiffies + l < MaxTick
      BY <1>2, <1>3, <2>1
    <3>3. Left' = IF l >= Interval THEN l - Interval ELSE l - Interval + Word
      BY <2>4
    <3>4. StampReached' <=> Left' < h
      BY <2>5
    <3> HIDE DEF h, l
    <3> QED
      BY <1>0, <2>3, <3>1, <3>2, <3>3, <3>4, Widths
  <2>9. jiffies' <= MaxTick
    BY <1>0, <2>1, <2>3, Widths
  <2> QED
    BY <2>7, <2>8, <2>9 DEF Times
<1>7. CASE UNCHANGED mgrVars
           /\ (pc' \in {"idle", "destroyed"} \/ pc \notin {"idle", "destroyed"} \/ pc' = pc)
  BY <1>7 DEF Times, mgrVars, StampReached, Left
<1>8. CASE UserOf(Fit)
  BY <1>7, <1>8 DEF UserOf, EvtInit, EvtDestroy, EvtStop, Start
<1>9. CASE Ends
  BY <1>7, <1>9 DEF Ends, MgrDestroy, Clears
<1>10. CASE Loop /\ ~Advance
  BY <1>7, <1>10 DEF Loop, CoreTick, CbBegin, CatchUp, CaughtUp, ArmNext, CallUser, UserReturns,
     CbEnd, MgrRunEnds, BetweenCallbacks
<1> QED
  BY <1>5, <1>6, <1>8, <1>9, <1>10 DEF NextOf

(* The ticks until a time that is ahead: at least one, at most the period   *)
(* rounded up, and less than one tick too many.                             *)
LEMMA TicksAhead ==
  ASSUME ClockLasts, IInv, Times, NEW s \in Nat, NEW p \in Nat, current < s, s <= current + p,
         current + Interval + p <= Word
  PROVE  /\ TicksUntil(s) \in 1 .. Cap
         /\ TicksUntil(s) <= (p + Interval - 1) \div Interval
         /\ jiffies + TicksUntil(s) < Word
         /\ InitStamp + (jiffies + TicksUntil(s)) * Interval < s + Interval
<1> DEFINE x == s - current + Interval - 1
           y == p + Interval - 1
           t == x \div Interval
           u == y \div Interval
           k == TicksUntil(s)
<1>1. /\ current \in Nat /\ jiffies \in Nat /\ jiffies <= jiffies * Interval
      /\ current = InitStamp + jiffies * Interval /\ jiffies * Interval \in Nat
  BY Room
<1>2. x \in 0 .. Word - 1 /\ x >= Interval /\ x <= y /\ y \in Nat
  BY <1>1, Constants
<1>3. (x % Word) = x
  BY <1>2, Constants, ModSmall
<1>4. k = IF t >= Cap THEN Cap ELSE t
  BY <1>3 DEF TicksUntil
<1> HIDE DEF x, y
<1>5. t \in Int /\ u \in Int /\ t <= u
  BY <1>2, Constants, DivInt, DivMono
<1>a. x \in Int /\ Interval \in Nat \ {0}
  BY <1>2, Widths
<1>6. x = t * Interval + (x % Interval) /\ (x % Interval) \in 0 .. Interval - 1
  BY <1>a, DivMod, ModRange
<1> HIDE DEF t, u, k
<1>7. t >= 1
  <2> SUFFICES ASSUME t <= 0 PROVE FALSE
    BY <1>5
  <2>1. t * Interval <= 0 * Interval /\ t * Interval \in Int
    BY <1>5, Constants, MulMono
  <2> QED
    BY <1>2, <1>6, <2>1, Constants
<1>8. k \in 1 .. Cap /\ k <= t
  BY <1>4, <1>5, <1>7, Constants
<1>9. k * Interval <= t * Interval /\ k * Interval \in Int /\ t * Interval \in Int
  BY <1>5, <1>8, Constants, MulMono
<1>10. k * Interval <= x
  BY <1>2, <1>6, <1>9
<1>11. (jiffies + k) * Interval = jiffies * Interval + k * Interval
  BY <1>1, <1>8, Constants
<1>12. k <= k * Interval
  <2>1. 1 * k <= Interval * k /\ Interval * k = k * Interval
    BY <1>8, Constants, MulMono
  <2> QED
    BY <1>8, <2>1
<1>13. InitStamp + (jiffies + k) * Interval < s + Interval
  BY <1>1, <1>9, <1>10, <1>11, Constants DEF x
<1>14. jiffies + k < Word
  BY <1>1, <1>2, <1>8, <1>9, <1>10, <1>12, Constants DEF x
<1> QED
  BY <1>5, <1>8, <1>13, <1>14 DEF k, u, y

(* Arming an event for a time that is ahead puts it on course.              *)
LEMMA ArmAhead ==
  ASSUME ClockLasts, IInv, Clocks, Times, NEW e \in Nodes, NEW s \in Nat, NEW p \in Nat,
         current < s, s <= current + p, current + Interval + p <= Word,
         Arm(e, (jiffies + TicksUntil(s)) % Word)
  PROVE  /\ UNCHANGED <<now, cb>> /\ firing' = firing \ {e}
         /\ \A d \in Nodes : d # e => due'[d] = due[d]
         /\ now <= due'[e] /\ InitStamp + due'[e] * Interval < s + Interval
         /\ due'[e] - now <= (p + Interval - 1) \div Interval
<1> DEFINE k == TicksUntil(s)
           u == (p + Interval - 1) \div Interval
           x == jiffies + k
<1>1. k \in 1 .. Cap /\ k <= u /\ x < Word /\ InitStamp + x * Interval < s + Interval
  BY TicksAhead
<1>2. now \in {jiffies, jiffies + 1} /\ now \in Nat /\ now < Word /\ jiffies \in Nat
  BY NowIs, Room
<1>3. x \in 0 .. Word - 1 /\ x - now \in 0 .. Cap
  BY <1>1, <1>2, Widths
<1>4. x % Word = x
  BY <1>3, Widths, ModSmall
<1>5. NotBefore(x, now)
  <2>1. Cap < Word \div 2 /\ Word \div 2 \in Int /\ Word \div 2 <= Word
    BY HalfIs, Widths DEF ClockLasts
  <2>2. (x - now) % Word = x - now
    BY <1>3, <2>1, Widths, ModSmall
  <2> HIDE DEF x
  <2>3. x - now < Word \div 2
    BY <1>3, <2>1, Constants
  <2> QED
    BY <2>2, <2>3 DEF NotBefore
<1>6. due' = [due EXCEPT ![e] = x] /\ UNCHANGED <<now, cb>> /\ firing' = firing \ {e}
  BY <1>4, <1>5 DEF Arm
<1>7. due'[e] = x /\ \A d \in Nodes : d # e => due'[d] = due[d]
  BY <1>6 DEF IInv, MgrTypeOK, AbstractTypeOK
<1>8. u \in Int
  BY Constants, DivInt
<1> HIDE DEF u, k
<1>9. x - now <= u /\ now <= x
  BY <1>1, <1>2, <1>3, <1>8
<1> QED
  BY <1>1, <1>6, <1>7, <1>9 DEF u

(* Types of what the steps below speak of.                                  *)
LEMMA Types ==
  ASSUME MInv
  PROVE  /\ current \in Nat /\ current < Word /\ count \in Nat
         /\ \A e \in Nodes : /\ Pending(e) \in Nat /\ calls[e] \in Nat /\ Made(e) \in Nat
                             /\ period[e] \in Nat /\ slap[e] \in Nat /\ slap[e] < Word
                             /\ repeat[e] \in Int
                             /\ Pending(e) # 0 => e = cb
<1>1. current \in Nat /\ current < Word /\ count \in Nat
  BY WordAssumption, CountAssumption DEF MInv, IInv, MgrTypeOK, Jiffies
<1>2. ASSUME NEW e \in Nodes
      PROVE  /\ calls[e] \in Nat /\ period[e] \in Nat /\ slap[e] \in Nat /\ slap[e] < Word
             /\ repeat[e] \in Int
  BY WordAssumption DEF MInv, IInv, MgrTypeOK, Jiffies, Events
<1>3. ASSUME NEW e \in Nodes
      PROVE  Pending(e) \in Nat /\ (Pending(e) # 0 => e = cb)
  BY <1>1 DEF MInv, IInv, Phase, Pending
<1> QED
  BY <1>1, <1>2, <1>3 DEF Made

(* Batch is inductive.                                                      *)
LEMMA BatchStep == MInv /\ NextOf(Fit) => Batch'
<1> SUFFICES ASSUME MInv, NextOf(Fit) PROVE Batch'
  OBVIOUS
<1> USE DEF MInv, IInv, MgrTypeOK, AbstractTypeOK, Phase, Unrevoked, ArmedIffStarted, Batch, Events
<1>1. ASSUME NEW e \in Nodes, UserRuns,
             \/ EvtInit(e) \/ EvtDestroy(e) \/ EvtStop(e)
             \/ \E p \in Fit : Start(e, p[1], p[2])
      PROVE  Batch'
  BY <1>1 DEF EvtInit, EvtDestroy, EvtStop, Start, UserRuns, Disarm, Arm, abstractVars
<1>2. CASE AnyRun \/ Ends
  BY <1>2 DEF AnyRun, MgrRun, Ends, MgrDestroy, Clears, DisarmAll, evtVars, abstractVars
<1>3. ASSUME NEW e \in Nodes, CbBegin(e) PROVE Batch'
  BY <1>3 DEF CbBegin, Fire, evtVars
<1>4. CASE CatchUp \/ CaughtUp
  BY <1>4 DEF CatchUp, CaughtUp, abstractVars, evtVars
<1>5. CASE ArmNext
  BY <1>5 DEF ArmNext, Disarm, Arm
<1>6. CASE CbEnd
  BY <1>6 DEF CbEnd, Return
<1>7. CASE CallUser \/ UserReturns
  BY <1>7 DEF CallUser, UserReturns, abstractVars, evtVars
<1>8. CASE CoreTick \/ Advance \/ MgrRunEnds
  BY <1>8 DEF CoreTick, Tick, Advance, MgrRunEnds, BetweenCallbacks, evtVars, abstractVars
<1> QED
  BY <1>1, <1>2, <1>3, <1>4, <1>5, <1>6, <1>7, <1>8 DEF NextOf, UserOf, Loop

(* What a step may do to the books of an event: nothing, though a callback  *)
(* moves from those pending to those made;                                  *)
Steady(e) ==
  /\ Made(e)' = Made(e)
  /\ Going(e)' <=> Going(e)
  /\ started'[e] => started[e]
  /\ base'[e] = base[e] /\ plan'[e] = plan[e] /\ revoked'[e] = revoked[e]
  /\ slap'[e] = slap[e] /\ period'[e] = period[e] /\ repeat'[e] = repeat[e]

(* or revoke the event, which breaks its batch;                             *)
Ended(e) ==
  /\ Made(e)' \in Nat /\ Made(e)' <= Made(e)
  /\ revoked'[e] /\ ~started'[e]
  /\ base'[e] = base[e] /\ plan'[e] = plan[e]

(* or start it.                                                             *)
Begun(e) == UserRuns /\ \E p \in Fit : Start(e, p[1], p[2])

(* There is nothing else, but for the turn of the loop that counts a        *)
(* callback.                                                                *)
LEMMA MadeStep ==
  ASSUME MInv, NextOf(Fit), NEW e \in Nodes
  PROVE  Steady(e) \/ Ended(e) \/ Begun(e) \/ (CatchUp /\ e = cb)
<1> USE DEF Steady, Made, Pending, Going, Events
<1>0. /\ pc \in {"catchup", "arm", "call", "user"} <=> cb # None
      /\ pc = "user" => count > 0
      /\ running[e] => e = cb /\ pc \in {"call", "user"} /\ alive[e]
      /\ pc = "catchup" => ~stop
      /\ pc \in {"catchup", "arm"} => started[cb]
      /\ count \in Nat /\ calls[e] \in Nat /\ None \notin Nodes
      /\ cb \in Nodes \cup {None}
  BY Types, NoneAssumption DEF MInv, IInv, Phase, Unrevoked, Batch, Repeats, MgrTypeOK,
     AbstractTypeOK
<1>t. /\ started \in [Nodes -> BOOLEAN] /\ running \in [Nodes -> BOOLEAN]
      /\ revoked \in [Nodes -> BOOLEAN] /\ slap \in [Nodes -> Jiffies]
      /\ period \in [Nodes -> Jiffies] /\ repeat \in [Nodes -> Int] /\ calls \in [Nodes -> Nat]
      /\ base \in [Nodes -> Nat] /\ plan \in [Nodes -> Fit \cup {<<0, 0>>}]
  BY DEF MInv, IInv, MgrTypeOK, Books
<1>1. ASSUME NEW x \in Nodes, UserRuns, EvtInit(x) \/ EvtDestroy(x) \/ EvtStop(x)
      PROVE  Steady(e) \/ Ended(e)
  <2>1. CASE x # e
    BY <1>0, <1>t, <1>1, <2>1 DEF EvtInit, EvtDestroy, EvtStop, Disarm, abstractVars, cbVars
  <2>2. CASE x = e
    BY <1>0, <1>t, <1>1, <2>2 DEF Ended, UserRuns, EvtInit, EvtDestroy, EvtStop, Disarm,
       abstractVars,
       cbVars
  <2> QED
    BY <2>1, <2>2
<1>2. ASSUME NEW x \in Nodes, UserRuns, NEW p \in Fit, Start(x, p[1], p[2])
      PROVE  Steady(e) \/ Begun(e)
  <2>1. CASE x # e
    <3>1. cb' = cb
      BY <1>2 DEF Start, Arm
    <3> QED
      BY <1>0, <1>t, <1>2, <2>1, <3>1 DEF Start, cbVars
  <2>2. CASE x = e
    BY <1>2, <2>2 DEF Begun
  <2> QED
    BY <2>1, <2>2
<1>3. CASE AnyRun \/ MgrDestroy
  BY <1>0, <1>t, <1>3 DEF AnyRun, MgrRun, MgrDestroy, DisarmAll, cbVars, evtVars, history,
     abstractVars
<1>12. CASE Clears
  <2>1. /\ pc = "idle" /\ pc' = "destroyed" /\ cb' = cb /\ calls' = calls
        /\ base' = base /\ plan' = plan /\ revoked'[e] /\ ~started'[e]
    BY <1>12 DEF Clears, DisarmAll
  <2>2. e # cb
    <3>1. pc \notin {"catchup", "arm", "call", "user"}
      BY <2>1
    <3>2. cb = None
      BY <1>0, <3>1
    <3> QED
      BY <3>2, NoneAssumption
  <2>3. calls[e] \in Nat
    BY <1>0
  <2>4. Made(e) = calls[e] /\ Made(e)' = calls[e]
    BY <2>1, <2>2, <2>3
  <2> HIDE DEF Made
  <2>5. Ended(e)
    BY <2>1, <2>3, <2>4 DEF Ended
  <2> QED
    BY <2>5
<1>4. ASSUME NEW x \in Nodes, CbBegin(x) PROVE Steady(e)
  BY <1>0, <1>t, <1>4 DEF CbBegin, Fire, evtVars, history
<1>5. CASE CaughtUp
  BY <1>0, <1>t, <1>5 DEF CaughtUp, abstractVars, cbVars, evtVars, history
<1>6. CASE CatchUp /\ e # cb
  BY <1>0, <1>t, <1>6 DEF CatchUp, abstractVars, history
<1>7. CASE ArmNext
  BY <1>0, <1>t, <1>7 DEF ArmNext, Disarm, Arm, cbVars, history
<1>8. CASE CallUser
  BY <1>0, <1>t, <1>8 DEF CallUser, BatchGoesOn, abstractVars, cbVars, evtVars
<1>9. CASE UserReturns
  BY <1>0, <1>t, <1>9 DEF UserReturns, abstractVars, evtVars, history
<1>10. CASE CbEnd
  BY <1>0, <1>t, <1>10 DEF CbEnd, BatchGoesOn, Return, cbVars, history
<1>11. CASE CoreTick \/ Advance \/ MgrRunEnds
  BY <1>0, <1>t, <1>11 DEF CoreTick, Tick, Advance, MgrRunEnds, BetweenCallbacks, abstractVars,
     cbVars,
     evtVars, history
<1> QED
  BY <1>1, <1>2, <1>3, <1>4, <1>5, <1>6, <1>7, <1>8, <1>9, <1>10, <1>11, <1>12
  DEF NextOf, UserOf, Ends, Loop

(* A tick of the manager's clock, which does not wrap.                      *)
LEMMA AdvanceIs ==
  ASSUME ClockLasts, MInv, Advance
  PROVE  current' = current + Interval /\ current \in Nat
<1>1. jiffies < MaxTick
  <2>1. Left \in Nat /\ jiffies \in Nat
    <3> DEFINE v == stamp - millisec
    <3>1. v \in Int /\ jiffies \in Nat
      BY WordAssumption DEF MInv, IInv, MgrTypeOK, Jiffies
    <3> HIDE DEF v
    <3>2. (v % Word) \in 0 .. Word - 1
      BY <3>1, WordIs, ModRange
    <3>3. (v % Word) \in Nat
      BY <3>2, WordIs
    <3> QED
      BY <3>1, <3>3 DEF Left, v
  <2> QED
    BY <2>1, Widths DEF Advance, BetweenCallbacks, MInv, Times
<1>2. current + Interval \in 0 .. Word - 1 /\ current \in Nat /\ Interval \in Nat
  BY <1>1, Room, Widths DEF MInv
<1>3. (current + Interval) % Word = current + Interval
  BY <1>2, Widths, ModSmall
<1> QED
  BY <1>2, <1>3 DEF Advance

(* The time the events see only moves on.                                   *)
LEMMA CurrentGrows ==
  ASSUME ClockLasts, MInv, NextOf(Fit)
  PROVE  current' \in Nat /\ current <= current'
<1>1. CASE Advance
  BY <1>1, AdvanceIs, Widths
<1>2. CASE current' = current
  BY <1>2, Types
<1>3. CASE UserOf(Fit) \/ AnyRun \/ Ends
  BY <1>2, <1>3 DEF UserOf, EvtInit, EvtDestroy, EvtStop, Start, AnyRun, MgrRun, Ends,
     MgrDestroy, Clears, mgrVars
<1>4. CASE Loop /\ ~Advance
  BY <1>2, <1>4 DEF Loop, CoreTick, CbBegin, CatchUp, CaughtUp, ArmNext, CallUser, UserReturns,
     CbEnd, MgrRunEnds, mgrVars
<1> QED
  BY <1>1, <1>3, <1>4 DEF NextOf

(* One turn of the loop over the periods that have passed: neither the      *)
(* count nor the time of the next callback meets its bound.                 *)
LEMMA CatchUpIs ==
  ASSUME ClockLasts, MInv, CatchUp
  PROVE  /\ cb \in Nodes /\ count' = count + 1 /\ started[cb] /\ started' = started
         /\ \A e \in Nodes : e = cb => Made(e)' = Made(e) + 1
         /\ plan' = plan /\ base' = base /\ revoked' = revoked
         /\ slap' = [slap EXCEPT ![cb] = slap[cb] + period[cb]]
         /\ period' = period /\ current' = current /\ slap[cb] <= current
         /\ repeat' = [repeat EXCEPT ![cb] = IF @ > 1 THEN @ - 1 ELSE @]
         /\ stop' = (repeat[cb] = 1) /\ pc' = IF repeat[cb] = 1 THEN "arm" ELSE "catchup"
         /\ plan[cb] \in Fit /\ period[cb] = plan[cb][1] /\ UNCHANGED abstractVars
<1>1. cb \in Nodes /\ pc = "catchup" /\ started[cb]
  BY DEF CatchUp, MInv, IInv, Phase, Unrevoked, MgrTypeOK, AbstractTypeOK
<1>2. /\ current \in Nat /\ count \in Nat /\ period[cb] \in Nat /\ slap[cb] \in Nat
      /\ calls[cb] \in Nat
  BY <1>1, Types
<1>3. slap[cb] <= current
  BY <1>2 DEF CatchUp
<1>4. current + count < slap[cb] + Interval
  BY <1>1 DEF MInv, OnCourse, Course, Events
<1>5. count < MaxCount
  BY <1>2, <1>3, <1>4, Widths, CountAssumption DEF ClockLasts
<1>6. count' = count + 1
  BY <1>2, <1>5, CountAssumption DEF CatchUp
<1>7. plan[cb] \in Fit /\ period[cb] = plan[cb][1]
  BY <1>1 DEF MInv, Books, Book, Events
<1>8. slap[cb] + period[cb] \in 0 .. Word - 1
  <2>1. current + Interval + period[cb] <= Word
    BY <1>7, Room DEF MInv
  <2> QED
    BY <1>2, <1>3, <2>1, Widths
<1>9. (slap[cb] + period[cb]) % Word = slap[cb] + period[cb]
  BY <1>8, Widths, ModSmall
<1>10. \A e \in Nodes : e = cb => Made(e) = calls[e] + count /\ Made(e)' = calls[e] + count'
  BY <1>1 DEF CatchUp, Made, Pending, abstractVars, history
<1>11. /\ plan' = plan /\ base' = base /\ revoked' = revoked /\ started' = started
       /\ period' = period /\ current' = current /\ UNCHANGED abstractVars
       /\ stop' = (repeat[cb] = 1) /\ pc' = IF repeat[cb] = 1 THEN "arm" ELSE "catchup"
       /\ repeat' = [repeat EXCEPT ![cb] = IF @ > 1 THEN @ - 1 ELSE @]
  BY DEF CatchUp, LastRepeat, history, mgrVars
<1>12. slap' = [slap EXCEPT ![cb] = slap[cb] + period[cb]]
  BY <1>9 DEF CatchUp
<1> HIDE DEF CatchUp
<1>13. \A e \in Nodes : e = cb => Made(e)' = Made(e) + 1
  BY <1>2, <1>6, <1>10
<1> QED
  BY <1>1, <1>3, <1>6, <1>7, <1>11, <1>12, <1>13

(* Books is inductive.                                                      *)
LEMMA BooksStep ==
  ASSUME ClockLasts, MInv, NextOf(Fit)
  PROVE  Books'
<1>a. base' \in [Nodes -> Nat] /\ plan' \in [Nodes -> Fit \cup {<<0, 0>>}]
  <2> USE DEF MInv, Books, Events
  <2>1. ASSUME NEW e \in Nodes, NEW p \in Fit, Start(e, p[1], p[2])
        PROVE  base' \in [Nodes -> Nat] /\ plan' \in [Nodes -> Fit \cup {<<0, 0>>}]
    <3>1. p = <<p[1], p[2]>>
      BY DEF Fit, Periods
    <3>2. plan' = [plan EXCEPT ![e] = p] /\ base' = [base EXCEPT ![e] = current]
      BY <2>1, <3>1 DEF Start
    <3>3. current \in Nat
      BY Types
    <3> QED
      BY <3>2, <3>3
  <2>2. CASE UNCHANGED <<base, plan>>
    BY <2>2
  <2>3. ASSUME NEW e \in Nodes, EvtInit(e) \/ EvtDestroy(e) \/ EvtStop(e)
        PROVE UNCHANGED <<base, plan>>
    BY <2>3 DEF EvtInit, EvtDestroy, EvtStop
  <2>4. CASE AnyRun \/ Ends
    BY <2>2, <2>4 DEF AnyRun, MgrRun, Ends, MgrDestroy, Clears, history
  <2>5. CASE Loop
    BY <2>2, <2>5 DEF Loop, CoreTick, CbBegin, CatchUp, CaughtUp, ArmNext, CallUser, UserReturns,
       CbEnd, Advance, MgrRunEnds, history
  <2> QED
    BY <2>1, <2>2, <2>3, <2>4, <2>5 DEF NextOf, UserOf
<1> SUFFICES ASSUME NEW e \in Nodes PROVE Book(e)'
  BY <1>a DEF Books, Events
<1>1. Book(e) /\ Made(e) \in Nat /\ current \in Nat /\ calls[e] \in Nat
  BY Types DEF MInv, Books, Events
<1>2. current' \in Nat /\ current <= current'
  BY CurrentGrows
<1>3. plan[e][1] \in Nat
  BY Constants DEF MInv, Books, Events
<1>4. CASE Steady(e)
  <2>1. Made(e)' * plan'[e][1] = Made(e) * plan[e][1] /\ Made(e) * plan[e][1] \in Nat
    BY <1>1, <1>3, <1>4 DEF Steady
  <2> QED
    BY <1>1, <1>2, <1>4, <2>1 DEF Steady, Book
<1>5. CASE Ended(e)
  <2>1. /\ Made(e)' * plan[e][1] <= Made(e) * plan[e][1] /\ Made(e)' * plan[e][1] \in Nat
        /\ Made(e) * plan[e][1] \in Nat
    BY <1>1, <1>3, <1>5, MulMono DEF Ended
  <2> QED
    BY <1>1, <1>2, <1>5, <2>1 DEF Ended, Book
<1>6. CASE Begun(e)
  <2>1. PICK p \in Fit : Start(e, p[1], p[2])
    BY <1>6 DEF Begun
  <2>2. p[1] \in Nat /\ current + p[1] \in 0 .. Word - 1
    BY <1>1, Constants, Room DEF MInv
  <2>3. (current + p[1]) % Word = current + p[1]
    BY <2>2, Widths, ModSmall
  <2>4. p = <<p[1], p[2]>>
    BY DEF Fit, Periods
  <2>5. /\ base'[e] = current /\ plan'[e] = p /\ period'[e] = p[1] /\ slap'[e] = current + p[1]
        /\ calls'[e] = 0 /\ running'[e] = FALSE /\ current' = current /\ pc' = pc /\ cb' = cb
    <3>1. cb' = cb
      BY <2>1 DEF Start, Arm
    <3>2. /\ base \in [Nodes -> Nat] /\ plan \in [Nodes -> Fit \cup {<<0, 0>>}]
          /\ period \in [Nodes -> Jiffies] /\ slap \in [Nodes -> Jiffies]
          /\ calls \in [Nodes -> Nat] /\ running \in [Nodes -> BOOLEAN]
      BY DEF MInv, IInv, MgrTypeOK, Books, Events
    <3>3. plan' = [plan EXCEPT ![e] = p] /\ slap' = [slap EXCEPT ![e] = current + p[1]]
      BY <2>1, <2>3, <2>4 DEF Start
    <3> QED
      BY <2>1, <3>1, <3>2, <3>3 DEF Start, mgrVars
  <2>6. Made(e)' = 0
    BY <1>6, <2>5, NoneAssumption DEF Begun, UserRuns, Made, Pending
  <2>7. 0 * p[1] = 0
    BY <2>2
  <2> QED
    BY <1>1, <2>2, <2>5, <2>6, <2>7 DEF Book
<1>7. CASE CatchUp /\ e = cb
  <2>1. /\ Made(e)' = Made(e) + 1 /\ plan' = plan /\ base' = base /\ started[e]
        /\ slap'[e] = slap[e] + period[e] /\ period' = period /\ current' = current
        /\ slap[e] <= current
    <3>1. slap \in [Nodes -> Jiffies]
      BY DEF MInv, IInv, MgrTypeOK, Events
    <3>2. slap' = [slap EXCEPT ![e] = slap[e] + period[e]]
      BY <1>7, CatchUpIs
    <3>3. slap'[e] = slap[e] + period[e]
      BY <3>1, <3>2
    <3>4. /\ Made(e)' = Made(e) + 1 /\ plan' = plan /\ base' = base /\ started[e]
          /\ period' = period /\ current' = current /\ slap[e] <= current
      BY <1>7, CatchUpIs
    <3> QED
      BY <3>3, <3>4
  <2>2. (Made(e) + 1) * plan[e][1] = Made(e) * plan[e][1] + plan[e][1]
        /\ Made(e) * plan[e][1] \in Nat
    BY <1>1, <1>3
  <2>3. slap[e] = base[e] + Made(e) * plan[e][1] + plan[e][1] /\ period[e] = plan[e][1]
        /\ plan[e] \in Fit
        /\ base[e] \in Nat /\ base[e] <= current
    BY <1>1, <2>1 DEF Book
  <2> QED
    BY <1>1, <1>3, <2>1, <2>2, <2>3 DEF Book
<1> QED
  BY <1>4, <1>5, <1>6, <1>7, MadeStep

(* Repeats is inductive.                                                    *)
LEMMA RepeatsStep ==
  ASSUME ClockLasts, MInv, NextOf(Fit)
  PROVE  Repeats'
<1>1. (pc = "catchup" => ~stop)'
  <2>1. CASE CatchUp
    BY <2>1 DEF CatchUp
  <2>2. CASE UNCHANGED <<pc, stop>>
    BY <2>2 DEF MInv, Repeats
  <2>3. CASE UserOf(Fit) \/ AnyRun \/ Ends
    BY <2>2, <2>3 DEF UserOf, EvtInit, EvtDestroy, EvtStop, Start, AnyRun, MgrRun, Ends,
       MgrDestroy, Clears, cbVars
  <2>4. CASE Loop /\ ~CatchUp
    BY <2>4, <2>2 DEF Loop, CoreTick, CbBegin, CaughtUp, ArmNext, CallUser, UserReturns, CbEnd,
       Advance,
       MgrRunEnds, cbVars
  <2> QED
    BY <2>1, <2>3, <2>4 DEF NextOf
<1> SUFFICES ASSUME NEW e \in Nodes PROVE Left2Do(e)'
  BY <1>1 DEF Repeats, Events
<1>2. Left2Do(e) /\ Made(e) \in Nat /\ repeat[e] \in Int
  BY Types DEF MInv, Repeats, Events
<1>3. CASE Steady(e)
  BY <1>2, <1>3 DEF Steady, Left2Do
<1>4. CASE Ended(e)
  BY <1>4 DEF Ended, Left2Do
<1>5. CASE Begun(e)
  <2>1. PICK p \in Fit : Start(e, p[1], p[2])
    BY <1>5 DEF Begun
  <2>2. p = <<p[1], p[2]>> /\ p[2] \in Int
    BY DEF Fit, Periods
  <2>3. /\ plan'[e] = p /\ repeat'[e] = p[2] /\ started'[e]
        /\ calls'[e] = 0 /\ running'[e] = FALSE /\ pc' = pc /\ cb' = cb
    <3>1. plan' = [plan EXCEPT ![e] = p]
      BY <2>1, <2>2 DEF Start
    <3> QED
      <4>1. cb' = cb
        BY <2>1 DEF Start, Arm
      <4>2. /\ plan \in [Nodes -> Fit \cup {<<0, 0>>}] /\ repeat \in [Nodes -> Int]
            /\ calls \in [Nodes -> Nat] /\ running \in [Nodes -> BOOLEAN]
            /\ started \in [Nodes -> BOOLEAN]
        BY DEF MInv, IInv, MgrTypeOK, Books, Events
      <4> QED
        BY <2>1, <3>1, <4>1, <4>2 DEF Start
  <2>4. Made(e)' = 0 /\ Going(e)'
    BY <1>5, <2>3, NoneAssumption DEF Begun, UserRuns, Made, Pending, Going
  <2> QED
    BY <2>2, <2>3, <2>4 DEF Left2Do
<1>6. CASE CatchUp /\ e = cb
  <2>1. /\ Made(e)' = Made(e) + 1 /\ plan' = plan /\ started[e] /\ started'[e] /\ revoked' = revoked
        /\ repeat'[e] = IF repeat[e] > 1 THEN repeat[e] - 1 ELSE repeat[e]
        /\ stop' = (repeat[e] = 1) /\ pc' = IF repeat[e] = 1 THEN "arm" ELSE "catchup"
        /\ pc = "catchup" /\ cb' = cb
    <3>1. repeat \in [Nodes -> Int]
      BY DEF MInv, IInv, MgrTypeOK, Events
    <3>2. repeat' = [repeat EXCEPT ![e] = IF @ > 1 THEN @ - 1 ELSE @]
      BY <1>6, CatchUpIs
    <3>3. repeat'[e] = IF repeat[e] > 1 THEN repeat[e] - 1 ELSE repeat[e]
      BY <3>1, <3>2
    <3>4. /\ Made(e)' = Made(e) + 1 /\ plan' = plan /\ started[e] /\ revoked' = revoked
          /\ stop' = (repeat[e] = 1) /\ pc' = IF repeat[e] = 1 THEN "arm" ELSE "catchup"
          /\ started' = started /\ UNCHANGED abstractVars
      BY <1>6, CatchUpIs
    <3>5. pc = "catchup"
      BY <1>6 DEF CatchUp
    <3> QED
      BY <3>3, <3>4, <3>5 DEF abstractVars
  <2>2. Going(e)
    BY <2>1 DEF Going
  <2>3. Going(e)' <=> repeat[e] # 1
    BY <1>6, <2>1 DEF Going
  <2>4. plan[e][2] \in Int
    BY Constants DEF MInv, Books, Events
  <2>5. CASE revoked[e]
    BY <2>1, <2>5 DEF Left2Do
  <2>7. CASE ~revoked[e] /\ ~(plan[e][2] > 0)
    <3>1. repeat[e] <= 0
      BY <1>2, <2>4, <2>7 DEF Left2Do
    <3>2. repeat'[e] = repeat[e]
      BY <1>2, <2>1, <3>1
    <3>3. Going(e)'
      BY <1>2, <2>3, <3>1
    <3> QED
      BY <2>1, <2>4, <2>7, <3>1, <3>2, <3>3 DEF Left2Do
  <2>6. CASE ~revoked[e] /\ plan[e][2] > 0
    <3>1. Made(e) + repeat[e] = plan[e][2] /\ repeat[e] > 0
      BY <1>2, <2>2, <2>6 DEF Left2Do
    <3>2. CASE repeat[e] = 1
      <4>1. Made(e)' = plan'[e][2]
        BY <2>1, <3>1, <3>2
      <4> QED
        BY <2>1, <2>3, <2>4, <2>6, <3>2, <4>1 DEF Left2Do
    <3>3. CASE repeat[e] # 1
      <4>1. repeat[e] > 1
        BY <1>2, <3>1, <3>3
      <4>2. repeat'[e] = repeat[e] - 1
        BY <2>1, <4>1
      <4>3. Made(e)' + repeat'[e] = plan'[e][2] /\ repeat'[e] > 0
        BY <1>2, <2>1, <2>4, <3>1, <4>1, <4>2
      <4> QED
        BY <2>1, <2>3, <2>4, <2>6, <3>3, <4>3 DEF Left2Do
    <3> QED
      BY <3>2, <3>3
  <2> QED
    BY <2>5, <2>6, <2>7
<1> QED
  BY <1>3, <1>4, <1>5, <1>6, MadeStep

(* What was armed stays on course while the clocks stand still.             *)
LEMMA CourseStays ==
  ASSUME NEW e \in Nodes, Course(e), UNCHANGED <<now, current>>,
         cb' = e => pc' \notin {"catchup", "arm"},
         \/ due'[e] = Never /\ e \notin firing'
         \/ due'[e] = due[e] /\ slap'[e] = slap[e] /\ period'[e] = period[e]
            /\ firing' \subseteq firing
  PROVE  Course(e)'
  BY DEF Course

(* What is armed for a time that is ahead is on course.                     *)
LEMMA CourseArmed ==
  ASSUME ClockLasts, MInv, NEW e \in Nodes, NEW s \in Nat, NEW p \in Nat,
         current < s, s <= current + p, current + Interval + p <= Word,
         Arm(e, (jiffies + TicksUntil(s)) % Word),
         slap'[e] = s, period'[e] = p, pc' \notin {"catchup", "arm"}
  PROVE  Course(e)'
<1>1. /\ UNCHANGED <<now, cb>> /\ firing' = firing \ {e}
      /\ now <= due'[e] /\ InitStamp + due'[e] * Interval < s + Interval
      /\ due'[e] - now <= (p + Interval - 1) \div Interval
  BY ArmAhead DEF MInv
<1> QED
  BY <1>1 DEF Course

(* OnCourse is inductive.                                                   *)
LEMMA OnCourseStep ==
  ASSUME ClockLasts, MInv, NextOf(Fit)
  PROVE  OnCourse'
<1> SUFFICES ASSUME NEW e \in Nodes PROVE Course(e)'
  BY DEF OnCourse, Events
<1>0. Course(e) /\ None \notin Nodes
  BY NoneAssumption DEF MInv, OnCourse, Events
<1>t. /\ due \in [Nodes -> Jiffies \cup {Never}] /\ slap \in [Nodes -> Jiffies]
      /\ period \in [Nodes -> Jiffies] /\ firing \subseteq Nodes
  BY DEF MInv, IInv, MgrTypeOK, AbstractTypeOK, Events
<1>n. /\ current \in Nat /\ count \in Nat /\ slap[e] \in Nat /\ period[e] \in Nat
      /\ slap[e] < Word /\ due[e] \in Int
  BY <1>t, Types DEF Jiffies, Never
<1>1. ASSUME UserRuns, EvtInit(e) PROVE Course(e)'
  BY <1>0, <1>1, CourseStays DEF EvtInit, UserRuns, Armed, abstractVars, mgrVars
<1>2. ASSUME UserRuns, EvtDestroy(e) \/ (EvtStop(e) /\ started[e]) PROVE Course(e)'
  <2>1. Disarm(e) /\ UNCHANGED <<current, pc>>
    BY <1>2 DEF EvtDestroy, EvtStop, mgrVars
  <2>2. due'[e] = Never /\ e \notin firing' /\ UNCHANGED <<now, cb>>
    BY <1>t, <2>1 DEF Disarm
  <2> QED
    BY <1>0, <1>2, <2>1, <2>2, CourseStays DEF UserRuns
<1>3. ASSUME UserRuns, EvtStop(e), ~started[e] PROVE Course(e)'
  BY <1>0, <1>3, CourseStays DEF EvtStop, UserRuns, abstractVars, mgrVars
<1>4. ASSUME UserRuns, NEW p \in Fit, Start(e, p[1], p[2]) PROVE Course(e)'
  <2>1. p[1] \in Nat /\ p[1] >= 1 /\ current + Interval + p[1] <= Word
    BY Constants, Room DEF MInv
  <2>2. current + p[1] \in 0 .. Word - 1
    BY <1>n, <2>1, Widths
  <2>3. (current + p[1]) % Word = current + p[1]
    BY <2>2, Widths, ModSmall
  <2> DEFINE s == current + p[1]
  <2>4. s \in Nat /\ current < s /\ s <= current + p[1]
    BY <1>n, <2>1
  <2>5. Arm(e, (jiffies + TicksUntil(s)) % Word) /\ pc' = pc
    BY <1>4, <2>3 DEF Start
  <2>6. slap'[e] = s /\ period'[e] = p[1]
    BY <1>4, <1>t, <2>3 DEF Start
  <2>7. pc' \notin {"catchup", "arm"}
    BY <1>4, <2>5 DEF UserRuns
  <2> HIDE DEF s
  <2> QED
    BY <2>1, <2>4, <2>5, <2>6, <2>7, CourseArmed
<1>5. ASSUME UserRuns, NEW x \in Nodes, x # e,
             \/ EvtInit(x) \/ EvtDestroy(x) \/ EvtStop(x)
             \/ \E p \in Fit : Start(x, p[1], p[2])
      PROVE  Course(e)'
  <2>1. /\ UNCHANGED <<now, current, cb, pc>> /\ due'[e] = due[e] /\ firing' \subseteq firing
        /\ slap'[e] = slap[e] /\ period'[e] = period[e]
    <3>1. CASE EvtInit(x)
      BY <1>5, <1>t, <3>1 DEF EvtInit, abstractVars, mgrVars
    <3>2. CASE EvtDestroy(x) \/ EvtStop(x)
      BY <1>5, <1>t, <3>2 DEF EvtDestroy, EvtStop, Disarm, abstractVars, mgrVars
    <3>3. ASSUME NEW p \in Fit, Start(x, p[1], p[2])
          PROVE  /\ UNCHANGED <<now, current, cb, pc>> /\ due'[e] = due[e]
                    /\ firing' \subseteq firing
                 /\ slap'[e] = slap[e] /\ period'[e] = period[e]
      <4>1. UNCHANGED <<now, cb>> /\ due'[e] = due[e] /\ firing' \subseteq firing
        BY <1>5, <1>t, <3>3 DEF Start, Arm
      <4> QED
        BY <1>5, <1>t, <3>3, <4>1 DEF Start, mgrVars
    <3> QED
      BY <1>5, <3>1, <3>2, <3>3
  <2> QED
    BY <1>0, <1>5, <2>1, CourseStays DEF UserRuns
<1>6. CASE UserOf(Fit)
  BY <1>1, <1>2, <1>3, <1>4, <1>5, <1>6 DEF UserOf, Events
<1>7. CASE AnyRun
  BY <1>0, <1>7, CourseStays DEF AnyRun, MgrRun, abstractVars, evtVars
<1>8. CASE Ends
  <2>1. firing = {}
    BY <1>8 DEF Ends, MgrDestroy, Clears, MInv, IInv, Phase
  <2> QED
    BY <1>0, <1>8, <2>1, CourseStays DEF Ends, MgrDestroy, Clears, DisarmAll, mgrVars
<1>9. CASE CoreTick
  <2>1. jiffies < MaxTick /\ jiffies \in Nat
    <3>1. Left \in Nat /\ jiffies \in Nat
      <4> DEFINE v == stamp - millisec
      <4>1. v \in Int /\ jiffies \in Nat
        BY WordAssumption DEF MInv, IInv, MgrTypeOK, Jiffies
      <4> HIDE DEF v
      <4>2. (v % Word) \in 0 .. Word - 1
        BY <4>1, WordIs, ModRange
      <4>3. (v % Word) \in Nat
        BY <4>2, WordIs
      <4> QED
        BY <4>1, <4>3 DEF Left, v
    <3> QED
      BY <1>9, <3>1, Widths DEF CoreTick, BetweenCallbacks, MInv, Times
  <2>2. jiffies + 1 \in 0 .. Word - 1
    BY <2>1, Room, WordIs DEF MInv
  <2>3. (jiffies + 1) % Word = jiffies + 1
    BY <2>2, WordIs, ModSmall
  <2>4. now = jiffies
    <3>1. jiffies \in Jiffies
      BY DEF MInv, IInv, MgrTypeOK
    <3>2. ~NotBefore(jiffies, jiffies + 1)
      BY <2>3, <3>1, Behind
    <3> QED
      BY <1>9, <3>2, NowIs DEF CoreTick, CoreBehind, MInv
  <2>5. /\ now' = jiffies + 1 /\ current' = current /\ slap' = slap /\ period' = period
        /\ pc' = pc /\ pc = "run"
        /\ firing' = {n \in Nodes : due[n] = now}
        /\ due'[e] = IF due[e] = now THEN Never ELSE due[e]
    BY <1>9, <2>3, <2>4 DEF CoreTick, Tick, BetweenCallbacks, mgrVars, evtVars
  <2>6. current = InitStamp + jiffies * Interval
    BY DEF MInv, Times
  <2>7. e \in firing' => current < slap[e] + Interval
    <3> SUFFICES ASSUME due[e] = now PROVE current < slap[e] + Interval
      BY <2>5
    <3>1. due[e] # Never
      BY <2>1, <2>4 DEF Never
    <3> QED
      BY <1>0, <2>4, <2>6, <3>1 DEF Course
  <2> DEFINE u == (period[e] + Interval - 1) \div Interval
             w == InitStamp + due[e] * Interval
  <2>8. u \in Int
    BY <1>n, Widths, DivInt
  <2>9. due'[e] # Never => /\ due'[e] = due[e] /\ now <= due[e] /\ due[e] # now
                           /\ w < slap[e] + Interval /\ due[e] - now <= u
    BY <1>0, <2>5 DEF Course
  <2> HIDE DEF u, w
  <2>10. due'[e] # Never => /\ due'[e] = due[e] /\ now' <= due'[e]
                            /\ w < slap[e] + Interval /\ due'[e] - now' <= u
    BY <1>n, <2>1, <2>4, <2>5, <2>8, <2>9
  <2> QED
    BY <2>5, <2>7, <2>10 DEF Course, u, w
<1>10. ASSUME NEW x \in Nodes, CbBegin(x) PROVE Course(e)'
  <2>1. CASE x # e
    BY <1>0, <1>10, <2>1, CourseStays DEF CbBegin, Fire, mgrVars, evtVars
  <2>2. CASE x = e
    <3>1. current + 0 < slap[e] + Interval
      BY <1>0, <1>10, <1>n, <2>2 DEF CbBegin, Fire, Course
    <3> QED
      BY <1>0, <1>10, <1>n, <2>2, <3>1 DEF CbBegin, Fire, Course, mgrVars, evtVars
  <2> QED
    BY <2>1, <2>2
<1>11. CASE CatchUp /\ e = cb
  <2>1. /\ slap' = [slap EXCEPT ![e] = slap[e] + period[e]] /\ period' = period
        /\ current' = current /\ count' = count + 1 /\ UNCHANGED abstractVars
        /\ stop' = (repeat[e] = 1) /\ pc' = IF repeat[e] = 1 THEN "arm" ELSE "catchup"
        /\ plan[e] \in Fit /\ period[e] = plan[e][1]
    BY <1>11, CatchUpIs
  <2>2. slap'[e] = slap[e] + period[e] /\ period[e] >= 1
    BY <1>t, <2>1, Constants
  <2>3. current + count < slap[e] + Interval
    BY <1>0, <1>11 DEF Course, CatchUp
  <2> DEFINE w == InitStamp + due[e] * Interval
  <2>4. w \in Int
    BY <1>n, Widths
  <2>5. due[e] # Never => w < slap[e] + Interval
    BY <1>0 DEF Course
  <2> HIDE DEF w
  <2>6. due[e] # Never => w < slap'[e] + Interval
    BY <1>n, <2>2, <2>4, <2>5, Widths
  <2>7. e \in firing => current < slap'[e] + Interval
    BY <1>0, <1>n, <2>2, Widths DEF Course
  <2>8. current + count' < slap'[e] + Interval
    BY <1>n, <2>1, <2>2, <2>3, Widths
  <2>9. due' = due /\ now' = now /\ firing' = firing /\ cb' = cb
    BY <2>1 DEF abstractVars
  <2> QED
    BY <1>0, <2>1, <2>6, <2>7, <2>8, <2>9 DEF Course, w
<1>12. CASE CatchUp /\ e # cb
  BY <1>0, <1>12, <1>t, CourseStays DEF CatchUp, abstractVars, mgrVars
<1>13. CASE CaughtUp
  BY <1>0, <1>13 DEF CaughtUp, Course, abstractVars, mgrVars, cbVars, evtVars
<1>14. CASE ArmNext /\ e = cb /\ ~stop
  <2>1. Arm(e, (jiffies + TicksUntil(slap[e])) % Word) /\ pc' = "call" /\ UNCHANGED <<slap, period>>
    BY <1>14 DEF ArmNext
  <2>2. current < slap[e]
    BY <1>0, <1>14 DEF ArmNext, Course
  <2>3. started[e] /\ Book(e)
    BY <1>14 DEF ArmNext, MInv, IInv, Unrevoked, Books, Events
  <2>4. /\ plan[e] \in Fit /\ period[e] = plan[e][1]
        /\ slap[e] = base[e] + Made(e) * plan[e][1] + plan[e][1]
        /\ Made(e) * plan[e][1] <= current - base[e] /\ base[e] \in 0 .. current
    BY <2>3 DEF Book
  <2>5. slap[e] <= current + period[e]
    <3>1. Made(e) * plan[e][1] \in Nat
      BY <2>4, Types, Constants
    <3> QED
      BY <1>n, <2>4, <3>1
  <2>6. current + Interval + period[e] <= Word
    BY <2>4, Room DEF MInv
  <2> QED
    BY <1>n, <2>1, <2>2, <2>5, <2>6, CourseArmed
<1>15. CASE ArmNext /\ ~(e = cb /\ ~stop)
  <2>1. /\ UNCHANGED <<now, cb, current, slap, period>> /\ pc' = "call"
    BY <1>15 DEF ArmNext, Arm, Disarm, mgrVars
  <2>2. \/ due'[e] = Never /\ e \notin firing'
        \/ due'[e] = due[e] /\ firing' \subseteq firing
    BY <1>15, <1>t DEF ArmNext, Arm, Disarm
  <2> QED
    BY <1>0, <2>1, <2>2, CourseStays
<1>16. CASE CallUser \/ UserReturns \/ CbEnd \/ MgrRunEnds
  BY <1>0, <1>16, CourseStays DEF CallUser, UserReturns, CbEnd, MgrRunEnds, Return, abstractVars,
     mgrVars, evtVars
<1>17. CASE Advance
  BY <1>0, <1>17 DEF Advance, BetweenCallbacks, Course, abstractVars, evtVars
<1> QED
  BY <1>6, <1>7, <1>8, <1>9, <1>10, <1>11, <1>12, <1>13, <1>14, <1>15, <1>16, <1>17
  DEF NextOf, Loop, Events

-----------------------------------------------------------------------------
(* The invariant holds of a manager just initialised.                       *)
LEMMA MInitInv == ASSUME ClockLasts PROVE Init => MInv
<1> SUFFICES ASSUME Init PROVE MInv
  OBVIOUS
<1> USE DEF Events
<1>1. IInv /\ Clocks
  BY InitInv DEF Init, Clocks
<1>2. Times
  BY Widths DEF Init, Times
<1>3. Batch
  BY DEF Init, Batch
<1>4. ASSUME NEW e \in Nodes PROVE Made(e) = 0
  <2>1. e # cb
    BY NoneAssumption DEF Init
  <2>2. Pending(e) = 0 /\ calls[e] = 0
    BY <2>1 DEF Init, Pending
  <2> QED
    BY <2>2 DEF Made
<1>5. Books
  <2>1. base \in [Events -> Nat] /\ plan \in [Events -> Fit \cup {<<0, 0>>}]
    BY DEF Init
  <2>2. ASSUME NEW e \in Nodes PROVE Book(e)
    BY <1>4, Widths DEF Init, Book
  <2> QED
    BY <2>1, <2>2 DEF Books
<1>6. Repeats
  BY DEF Init, Repeats, Left2Do
<1>7. OnCourse
  BY NoneAssumption DEF Init, OnCourse, Course
<1> QED
  BY <1>1, <1>2, <1>3, <1>5, <1>6, <1>7 DEF MInv

(* Every step preserves it.                                                 *)
LEMMA MStepInv == ASSUME ClockLasts PROVE MInv /\ [NextOf(Fit)]_vars => MInv'
<1>1. ASSUME MInv, NextOf(Fit) PROVE MInv'
  BY <1>1, FitIsAny, StepInv, ClocksStep, TimesStep, BatchStep, BooksStep, RepeatsStep,
     OnCourseStep DEF MInv
<1>2. ASSUME MInv, UNCHANGED vars PROVE MInv'
  <2>1. IInv' /\ Clocks'
    BY <1>2, StepInv, ClocksStep DEF MInv
  <2>2. Times' /\ Batch' /\ Repeats'
    BY <1>2 DEF MInv, vars, abstractVars, mgrVars, cbVars, evtVars, history, Times, Batch,
       Repeats, Left2Do, Going, Made, Pending, StampReached, Left
  <2>3. Books'
    BY <1>2 DEF MInv, vars, abstractVars, mgrVars, cbVars, evtVars, history, Books, Book, Made,
       Pending
  <2>4. OnCourse'
    BY <1>2 DEF MInv, vars, abstractVars, mgrVars, cbVars, evtVars, history, OnCourse, Course
  <2> QED
    BY <2>1, <2>2, <2>3, <2>4 DEF MInv
<1> QED
  BY <1>1, <1>2

(* Outside of itimer_mgr_run no callback is pending.                        *)
LEMMA IdleMade ==
  ASSUME MInv, pc = "idle", NEW e \in Nodes
  PROVE  Made(e) = calls[e] /\ calls[e] \in Nat /\ (Going(e) <=> started[e])
  BY Types, NoneAssumption DEF MInv, IInv, Phase, Made, Pending, Going

(* The invariant says that no callback is early,                            *)
LEMMA EarlyInv == ASSUME ClockLasts PROVE MInv => NeverEarly
<1> SUFFICES ASSUME MInv, NEW e \in Nodes PROVE calls[e] * plan[e][1] <= current - base[e]
  BY DEF NeverEarly, Events
<1>1. calls[e] \in Nat /\ calls[e] <= Made(e) /\ Made(e) \in Nat
  BY Types DEF Made
<1>2. Made(e) * plan[e][1] <= current - base[e] /\ plan[e][1] \in Nat
      /\ base[e] \in Nat /\ current \in Nat
  BY Constants, Types DEF MInv, Books, Book, Events
<1>3. calls[e] * plan[e][1] <= Made(e) * plan[e][1]
  BY <1>1, <1>2, MulMono
<1>4. calls[e] * plan[e][1] \in Int /\ Made(e) * plan[e][1] \in Int
  BY <1>1, <1>2
<1> QED
  BY <1>2, <1>3, <1>4

(* that none is missing,                                                    *)
LEMMA MissedInv == ASSUME ClockLasts PROVE MInv => NoneMissed
<1> SUFFICES ASSUME MInv, pc = "idle", NEW e \in Nodes, started[e]
             PROVE  /\ slap[e] = base[e] + (calls[e] + 1) * plan[e][1]
                    /\ slap[e] > current - Interval
  BY DEF NoneMissed, Events
<1>1. Made(e) = calls[e] /\ calls[e] \in Nat
  BY IdleMade
<1>2. /\ slap[e] = base[e] + Made(e) * plan[e][1] + plan[e][1] /\ plan[e] \in Fit
      /\ base[e] \in Nat /\ current \in Nat /\ slap[e] \in Nat
  BY Types DEF MInv, Books, Book, Events
<1>3. plan[e][1] \in Nat
  BY <1>2, Constants
<1>4. slap[e] = base[e] + (calls[e] + 1) * plan[e][1]
  <2>1. (calls[e] + 1) * plan[e][1] = calls[e] * plan[e][1] + plan[e][1]
        /\ calls[e] * plan[e][1] \in Nat
    BY <1>1, <1>3
  <2> QED
    BY <1>1, <1>2, <1>3, <2>1
<1>5. due[e] # Never /\ due[e] \in Nat
  BY WordIs DEF MInv, IInv, Phase, ArmedIffStarted, Armed, MgrTypeOK, AbstractTypeOK, Jiffies,
     Never,
     Events
<1>6. jiffies <= due[e] /\ jiffies \in Nat /\ InitStamp + due[e] * Interval < slap[e] + Interval
  BY <1>5, NowIs, Room DEF MInv, OnCourse, Course, Events
<1>7. jiffies * Interval <= due[e] * Interval /\ jiffies * Interval \in Nat
      /\ due[e] * Interval \in Nat
  BY <1>5, <1>6, Widths, MulMono
<1>8. current = InitStamp + jiffies * Interval
  BY DEF MInv, Times
<1>9. slap[e] > current - Interval
  BY <1>2, <1>6, <1>7, <1>8, Widths
<1> QED
  BY <1>4, <1>9

(* that an event is repeated as often as it was asked,                      *)
LEMMA RepeatsInv == ASSUME ClockLasts PROVE MInv => RepeatsExactly
<1> SUFFICES ASSUME MInv, NEW e \in Nodes, ~revoked[e], plan[e][2] > 0
             PROVE  /\ calls[e] <= plan[e][2]
                    /\ pc = "idle" => (started[e] <=> calls[e] < plan[e][2])
  BY DEF RepeatsExactly, Events
<1>1. /\ calls[e] \in Nat /\ calls[e] <= Made(e) /\ Made(e) \in Nat /\ repeat[e] \in Int
      /\ plan[e][2] \in Int
  BY Types, Constants DEF Made, MInv, Books, Events
<1>2. IF Going(e) THEN Made(e) + repeat[e] = plan[e][2] /\ repeat[e] > 0 ELSE Made(e) = plan[e][2]
  BY DEF MInv, Repeats, Left2Do, Events
<1>3. pc = "idle" => Made(e) = calls[e] /\ (Going(e) <=> started[e])
  BY IdleMade
<1> QED
  BY <1>1, <1>2, <1>3

(* and that an event that goes on is armed within its period.               *)
LEMMA InfiniteInv == ASSUME ClockLasts PROVE MInv => InfiniteRepeats
<1> SUFFICES ASSUME MInv, pc = "idle", NEW e \in Nodes, started[e]
             PROVE  (due[e] - now) % Word <= (period[e] + Interval - 1) \div Interval
  BY DEF InfiniteRepeats, Events
<1>1. due[e] # Never /\ due[e] \in 0 .. Word - 1 /\ now \in 0 .. Word - 1
  BY DEF MInv, IInv, Phase, ArmedIffStarted, Armed, MgrTypeOK, AbstractTypeOK, Jiffies, Never,
     Events
<1>2. now <= due[e] /\ due[e] - now <= (period[e] + Interval - 1) \div Interval
  BY <1>1 DEF MInv, OnCourse, Course, Events
<1> DEFINE d == due[e] - now
<1>3. d \in 0 .. Word - 1
  BY <1>1, <1>2, WordIs
<1> HIDE DEF d
<1>4. (d % Word) = d
  BY <1>3, WordIs, ModSmall
<1> QED
  BY <1>2, <1>4 DEF d

(* The manager alone keeps it.                                              *)
LEMMA MgrInv == ASSUME BeforeWrap PROVE Spec => []MInv
<1>1. Init => MInv
  BY MInitInv DEF BeforeWrap
<1>2. MInv /\ [Next]_vars => MInv'
  BY FitCovered, MStepInv DEF BeforeWrap, MInv
<1> QED
  BY <1>1, <1>2, PTL DEF Spec

(* The k-th callback of an event comes no earlier than k periods after its  *)
(* start (itimer_evt_cb counts a period only once it has passed).           *)
THEOREM NeverEarlyTheorem == ASSUME BeforeWrap PROVE Spec => []NeverEarly
  BY MgrInv, EarlyInv, PTL DEF BeforeWrap

(* When itimer_mgr_run has returned no callback is missing, and the next    *)
(* one is due a whole number of periods after the start: nothing drifts.    *)
THEOREM NoneMissedTheorem == ASSUME BeforeWrap PROVE Spec => []NoneMissed
  BY MgrInv, MissedInv, PTL DEF BeforeWrap

(* An event started with repeat = n > 0 and never revoked is called back n  *)
(* times, and is in the manager until then.                                 *)
THEOREM RepeatsExactlyTheorem == ASSUME BeforeWrap PROVE Spec => []RepeatsExactly
  BY MgrInv, RepeatsInv, PTL DEF BeforeWrap

(* An event that repeats forever is armed within its period, rounded up to  *)
(* ticks.                                                                   *)
THEOREM InfiniteRepeatsTheorem == ASSUME BeforeWrap PROVE Spec => []InfiniteRepeats
  BY MgrInv, InfiniteInv, PTL DEF BeforeWrap

-----------------------------------------------------------------------------
(* A stamp that is given is less than half the circle ahead of the time     *)
(* that the events see.                                                     *)
StampNear == rewound' \/ Signed(stamp - current) + ((stamp' - stamp) % Word) < Word \div 2

(* How far the stamp is ahead of the earliest that it can be: one tick      *)
(* before the time that the events see.                                     *)
Lead == (stamp - current + Interval) % Word

(* The next tick is not before that time, and not more than a tick after    *)
(* the stamp.                                                               *)
NextTickNear ==
  ~rewound => /\ (millisec - current) % Word <= Lead
              /\ Lead < (Word \div 2) + Interval

(* The constants that this part needs.                                      *)
LEMMA Shorts ==
  ASSUME ShortTick
  PROVE  /\ Word \in Nat \ {0} /\ (Word \div 2) \in Nat /\ 2 * (Word \div 2) <= Word
         /\ Interval \in Nat \ {0} /\ 2 * Interval <= Word \div 2
         /\ Limit \in Int /\ Interval <= Limit /\ InitStamp = 0
<1> DEFINE h == Word \div 2
           o == Word % 2
<1>1. Word \in Nat \ {0} /\ 2 \in Nat \ {0}
  BY WordAssumption
<1>2. h \in Int /\ o \in 0 .. 1 /\ Word = h * 2 + o
  BY <1>1, DivInt, ModRange, DivMod
<1>3. Interval \in Nat \ {0}
  BY IntervalAssumption DEF Jiffies
<1>4. 2 * Interval <= h /\ Limit \in Int /\ Interval <= Limit /\ InitStamp = 0
  BY DEF ShortTick
<1> HIDE DEF h, o
<1>5. h \in Nat /\ 2 * h <= Word
  BY <1>1, <1>2, <1>3, <1>4
<1> QED
  BY <1>1, <1>3, <1>4, <1>5 DEF h

(* The signed difference of two times is the one that fits half the circle. *)
LEMMA SignedIs ==
  ASSUME ShortTick, NEW x \in Int, NEW r \in Int, r < Word \div 2, -(Word \div 2) <= r,
         x % Word = r % Word
  PROVE  Signed(x) = r /\ (x % Word < Word \div 2 <=> r >= 0)
<1>1. CASE r >= 0
  <2>1. r \in 0 .. Word - 1
    BY <1>1, Shorts
  <2>2. x % Word = r
    BY <2>1, Shorts, ModSmall
  <2> QED
    BY <1>1, <2>2, Shorts DEF Signed
<1>2. CASE r < 0
  <2>1. -r \in 1 .. Word
    BY <1>2, Shorts
  <2>2. x % Word = r + Word
    BY <2>1, ModNegative, Shorts
  <2>3. ~(r + Word < Word \div 2)
    BY <1>2, Shorts
  <2> QED
    BY <1>2, <2>2, <2>3, Shorts DEF Signed
<1> QED
  BY <1>1, <1>2

(* Differences on the circle of the clock.                                  *)
LEMMA Less ==
  ASSUME NEW a \in Int, NEW b \in Int, Word \in Nat \ {0}
  PROVE  /\ (a - b) % Word = ((a % Word) - b) % Word
         /\ (a - b) % Word = ((a % Word) - (b % Word)) % Word
<1>1. -b \in Int /\ a % Word \in Int /\ a - b = a + (-b) /\ (a % Word) - b = (a % Word) + (-b)
  BY ModRange
<1>2. (a + (-b)) % Word = ((a % Word) + (-b)) % Word
  BY <1>1, ModPlus
<1>3. ((a % Word) - b) % Word = ((a % Word) - (b % Word)) % Word
  BY <1>1, ModPlus
<1> QED
  BY <1>1, <1>2, <1>3

(* NextTickNear is inductive for as long as stamps are near.                *)
LEMMA NextTickNearStep ==
  ASSUME ShortTick
  PROVE  IInv /\ NextTickNear /\ [NextOf(Periods)]_vars /\ [StampNear]_vars => NextTickNear'
<1> SUFFICES ASSUME IInv, NextTickNear, [NextOf(Periods)]_vars, [StampNear]_vars
             PROVE  NextTickNear'
  OBVIOUS
<1> DEFINE h == Word \div 2
           m == (millisec - current) % Word
           f == Lead
<1>1. {current, millisec, stamp} \subseteq Int
  BY DEF IInv, MgrTypeOK, Jiffies
<1>2. m \in 0 .. Word - 1 /\ f \in 0 .. Word - 1
  <2>1. millisec - current \in Int /\ stamp - current + Interval \in Int
    BY <1>1, Shorts
  <2> QED
    BY <2>1, Shorts, ModRange DEF Lead
<1>3. (stamp - current) % Word = (f - Interval) % Word
  <2>1. /\ stamp - current + Interval \in Int
        /\ stamp - current = (stamp - current + Interval) - Interval
    BY <1>1, Shorts
  <2>2. ((stamp - current + Interval) - Interval) % Word = (f - Interval) % Word
    BY <2>1, Shorts, Less DEF Lead
  <2> QED
    BY <2>1, <2>2
<1>4. ~rewound => /\ m <= f /\ f < h + Interval
                  /\ Signed(stamp - current) = f - Interval
                  /\ (NotBefore(stamp, millisec) <=> f - Interval - m >= 0)
  <2> SUFFICES ASSUME ~rewound
               PROVE  /\ m <= f /\ f < h + Interval
                      /\ Signed(stamp - current) = f - Interval
                      /\ (NotBefore(stamp, millisec) <=> f - Interval - m >= 0)
    OBVIOUS
  <2>1. m <= f /\ f < h + Interval
    BY DEF NextTickNear
  <2>2. (stamp - millisec) % Word = (f - Interval - m) % Word
    <3>1. stamp - millisec = (stamp - current) - (millisec - current)
      BY <1>1
    <3>2. (stamp - millisec) % Word = (((stamp - current) % Word) - m) % Word
      BY <1>1, <3>1, Shorts, Less
    <3>3. (f - Interval - m) % Word = (((f - Interval) % Word) - m) % Word
      BY <1>2, Shorts, Less
    <3> QED
      BY <1>3, <3>2, <3>3
  <2>3. /\ f - Interval \in Int /\ f - Interval < h /\ -h <= f - Interval
        /\ f - Interval - m \in Int /\ f - Interval - m < h /\ -h <= f - Interval - m
    BY <1>2, <2>1, Shorts
  <2> HIDE DEF m, f
  <2>4. Signed(stamp - current) = f - Interval
    BY <1>1, <1>3, <2>3, SignedIs
  <2>5. (stamp - millisec) % Word < h <=> f - Interval - m >= 0
    BY <1>1, <2>2, <2>3, SignedIs
  <2> QED
    BY <2>1, <2>4, <2>5 DEF NotBefore
<1>5. CASE UNCHANGED <<current, millisec, stamp, rewound>>
  BY <1>5 DEF NextTickNear, Lead
<1>6. CASE AnyRun
  <2> SUFFICES ASSUME ~rewound' PROVE NextTickNear'
    BY DEF NextTickNear
  <2> DEFINE d == (stamp' - stamp) % Word
             s == f - Interval + d
  <2>1. PICK x \in Jiffies : MgrRun(x)
    BY <1>6 DEF AnyRun
  <2>2. /\ stamp' \in Int /\ current' = current /\ ~rewound
        /\ \/ millisec' = millisec
           \/ /\ millisec' = stamp'
              /\ Signed(stamp' - millisec) > Limit \/ Signed(stamp' - millisec) < -Limit
    <3>1. rewound' = (rewound \/ ~NotBefore(x, stamp))
      BY <2>1 DEF MgrRun
    <3>2. ~rewound
      BY <3>1, Zenon
    <3>3. stamp' = x /\ x \in Int
      BY <2>1 DEF MgrRun, Jiffies
    <3>4. current' = current
      BY <2>1 DEF MgrRun
    <3>5. millisec' = LET diff == Signed(x - millisec)
                      IN IF diff > Limit \/ diff < -Limit THEN x ELSE millisec
      BY <2>1 DEF MgrRun
    <3> HIDE DEF d, s, m, f, h
    <3> QED
      BY <3>2, <3>3, <3>4, <3>5
  <2>3. d \in 0 .. Word - 1
    <3>1. stamp' - stamp \in Int
      BY <1>1, <2>2
    <3> QED
      BY <3>1, Shorts, ModRange
  <2>4. m <= f /\ Signed(stamp - current) = f - Interval
    BY <1>4, <2>2
  <2>5. s \in Int /\ s < h
    <3>1. stamp' # stamp \/ rewound' # rewound \/ pc' # pc
      BY <2>1 DEF MgrRun
    <3>2. StampNear
      BY <3>1 DEF vars, mgrVars
    <3> HIDE DEF d, f
    <3>3. f - Interval + d < h
      BY <2>4, <3>2 DEF StampNear, d
    <3> QED
      BY <1>2, <2>3, <3>3, Shorts
  <2>6. (stamp' - current) % Word = s % Word
    <3>1. /\ stamp' - current = (stamp - current) + (stamp' - stamp)
          /\ stamp - current \in Int /\ stamp' - stamp \in Int
      BY <1>1, <2>2
    <3>2. (stamp' - current) % Word = ((stamp - current) + d) % Word
      BY <3>1, Shorts, ModPlus
    <3>3. (stamp - current) % Word = (f - Interval) % Word
      BY <1>3
    <3>4. f - Interval \in Int /\ d \in Int
      BY <1>2, <2>3, Shorts
    <3> HIDE DEF d, f
    <3>5. ((stamp - current) + d) % Word = (((stamp - current) % Word) + d) % Word
      BY <3>1, <3>4, Shorts, ModPlus
    <3>6. ((f - Interval) + d) % Word = (((f - Interval) % Word) + d) % Word
      BY <3>4, Shorts, ModPlus
    <3> QED
      BY <3>2, <3>3, <3>5, <3>6
  <2>7. Lead' = s + Interval
    <3>1. Lead' = (s + Interval) % Word
      <4>1. stamp' - current \in Int /\ Interval \in Int /\ s \in Int
        BY <1>1, <2>2, <2>5, Shorts
      <4>2. ((stamp' - current) + Interval) % Word = (((stamp' - current) % Word) + Interval) % Word
        BY <4>1, Shorts, ModPlus
      <4>3. (s + Interval) % Word = ((s % Word) + Interval) % Word
        BY <4>1, Shorts, ModPlus
      <4> QED
        BY <2>2, <2>6, <4>2, <4>3 DEF Lead
    <3>2. s + Interval \in 0 .. Word - 1
      BY <1>2, <2>3, <2>5, Shorts
    <3> QED
      BY <3>1, <3>2, Shorts, ModSmall
  <2>8. Signed(stamp' - millisec) = s - m
    <3>1. (stamp' - millisec) % Word = (s - m) % Word
      <4>1. /\ stamp' - millisec = (stamp' - current) - (millisec - current)
            /\ stamp' - current \in Int /\ millisec - current \in Int
        BY <1>1, <2>2
      <4>2. (stamp' - millisec) % Word = (((stamp' - current) % Word) - m) % Word
        BY <4>1, Shorts, Less
      <4>3. (s - m) % Word = ((s % Word) - m) % Word
        BY <1>2, <2>5, Shorts, Less
      <4> QED
        BY <2>6, <4>2, <4>3
    <3>2. s - m \in Int /\ s - m < h /\ -h <= s - m
      BY <1>2, <2>3, <2>4, <2>5, Shorts
    <3> HIDE DEF s, m
    <3> QED
      BY <1>1, <2>2, <3>1, <3>2, SignedIs
  <2>9. (millisec' - current') % Word <= s + Interval
    <3> HIDE DEF s, m, f
    <3>1. CASE millisec' = millisec
      BY <1>2, <2>2, <2>3, <2>4, <2>5, <3>1, Shorts DEF s, m
    <3>2. CASE millisec' = stamp' /\ millisec' # millisec
      <4>1. s - m > Limit \/ s - m < -Limit
        BY <2>2, <2>8, <3>2 DEF s, m, f
      <4>2. s - m >= -Interval
        BY <1>2, <2>3, <2>4, Shorts DEF s
      <4>3. s \in 0 .. Word - 1
        BY <1>2, <2>5, <4>1, <4>2, Shorts
      <4>4. s % Word = s
        BY <4>3, Shorts, ModSmall
      <4> QED
        BY <2>2, <2>6, <3>2, <4>3, <4>4, Shorts
    <3> QED
      BY <2>2, <3>1, <3>2
  <2> HIDE DEF s
  <2> QED
    BY <2>5, <2>7, <2>9, Shorts DEF NextTickNear
<1>7. CASE Advance
  <2> SUFFICES ASSUME ~rewound' PROVE NextTickNear'
    BY DEF NextTickNear
  <2>1. /\ stamp' = stamp /\ ~rewound /\ NotBefore(stamp, millisec)
        /\ current' = (current + Interval) % Word
        /\ millisec' = (millisec + Interval) % Word
    BY <1>7 DEF Advance, StampReached
  <2>2. m <= f - Interval /\ f < h + Interval
    <3> HIDE DEF m, f, h
    <3> QED
      BY <1>2, <1>4, <2>1, Shorts
  <2>3. Lead' = f - Interval
    <3>1. /\ stamp + Interval \in Int /\ current + Interval \in Int
          /\ (stamp + Interval) - (current + Interval) = stamp - current
          /\ stamp - current' + Interval = (stamp + Interval) - current'
      <4>1. (current + Interval) % Word \in Int
        BY <1>1, Shorts, Wraps DEF Jiffies
      <4> QED
        BY <1>1, <2>1, <4>1, Shorts
    <3>2. Lead' = ((stamp + Interval) - (current + Interval)) % Word
      BY <2>1, <3>1, Shorts, ModPlus DEF Lead
    <3>3. Lead' = (f - Interval) % Word
      BY <1>3, <2>1, <3>1, <3>2
    <3>4. f - Interval \in 0 .. Word - 1
      BY <1>2, <2>2, Shorts
    <3> QED
      BY <3>3, <3>4, Shorts, ModSmall
  <2>4. (millisec' - current') % Word = m
    <3>1. /\ millisec + Interval \in Int /\ current + Interval \in Int
          /\ (millisec + Interval) - (current + Interval) = millisec - current
      BY <1>1, Shorts
    <3> QED
      BY <2>1, <3>1, Shorts, Less
  <2> QED
    BY <1>2, <2>1, <2>2, <2>3, <2>4, Shorts DEF NextTickNear
<1>8. CASE UserOf(Periods) \/ Ends \/ UNCHANGED vars
  BY <1>5, <1>8 DEF UserOf, EvtInit, EvtDestroy, EvtStop, Start, Ends, MgrDestroy, Clears, vars,
     mgrVars
<1>9. CASE Loop /\ ~Advance
  BY <1>5, <1>9 DEF Loop, CoreTick, CbBegin, CatchUp, CaughtUp, ArmNext, CallUser, UserReturns,
     CbEnd, MgrRunEnds, mgrVars
<1> QED
  BY <1>6, <1>7, <1>8, <1>9 DEF NextOf

(* Stamp zero is the one that itimer_mgr_init takes every stamp for.        *)
LEMMA NextTickNearInit == ASSUME ShortTick PROVE Init => NextTickNear
<1> SUFFICES ASSUME Init PROVE NextTickNear
  OBVIOUS
<1>1. millisec - current = 0 /\ stamp - current + Interval = Interval
  BY Shorts DEF Init
<1>2. 0 % Word = 0 /\ Interval % Word = Interval
  BY Shorts, ModSmall
<1> QED
  BY <1>1, <1>2, Shorts DEF NextTickNear, Lead

(* It puts the time that the events see at most a tick after the stamp.     *)
LEMMA NotAheadInv == ASSUME ShortTick PROVE IInv /\ NextTickNear => ClockNotAhead
<1> SUFFICES ASSUME IInv, NextTickNear, ~rewound
             PROVE  Signed(current - stamp) <= Interval
  BY DEF ClockNotAhead
<1> DEFINE v == stamp - current + Interval
<1>1. current \in Int /\ stamp \in Int
  BY DEF IInv, MgrTypeOK, Jiffies
<1>2. v \in Int /\ current - stamp = Interval - v
  BY <1>1, Shorts
<1>3. Lead \in Nat /\ Lead < (Word \div 2) + Interval
  <2>1. Word \in Nat \ {0}
    BY Shorts
  <2>2. v % Word \in 0 .. Word - 1
    BY <1>2, <2>1, ModRange
  <2> QED
    BY <2>1, <2>2 DEF NextTickNear, Lead
<1>4. (current - stamp) % Word = (Interval - Lead) % Word
  BY <1>2, Shorts, ModPlus DEF Lead
<1>5. /\ Interval - Lead \in Int /\ Interval - Lead < Word \div 2
      /\ -(Word \div 2) <= Interval - Lead /\ Interval - Lead <= Interval
  BY <1>3, Shorts
<1> QED
  BY <1>1, <1>4, <1>5, SignedIs

(* If no stamp steps back or half the circle ahead, the time that events    *)
(* see is not more than a tick after the stamp, whatever jumps there are.   *)
THEOREM ClockNotAheadTheorem ==
  ASSUME ShortTick
  PROVE  Spec /\ [][StampNear]_vars => []ClockNotAhead
<1>1. IInv /\ NextTickNear /\ [Next]_vars /\ [StampNear]_vars => NextTickNear'
  BY PeriodsCovered, NextTickNearStep
<1> QED
  BY <1>1, InitInv, StepInv, PeriodsCovered, NextTickNearInit, NotAheadInv, PTL DEF Spec

-----------------------------------------------------------------------------
(* Between ticks, what was called back was due a tick ago: the clock of the *)
(* events moves on after the callbacks of a tick.                           *)
Settled ==
  \A e \in Events : now = jiffies /\ Made(e) > 0 =>
    Made(e) * plan[e][1] <= current - Interval - base[e]

(* Settled is inductive: callbacks are counted while the core is ahead.     *)
LEMMA SettledStep ==
  ASSUME ClockLasts, MInv, Settled, NextOf(Fit)
  PROVE  Settled'
<1> SUFFICES ASSUME NEW e \in Nodes, now' = jiffies', Made(e)' > 0
             PROVE  Made(e)' * plan'[e][1] <= current' - Interval - base'[e]
  BY DEF Settled, Events
<1>1. /\ Made(e) \in Nat /\ current \in Nat /\ plan[e][1] \in Nat /\ base[e] \in Nat
      /\ Made(e) * plan[e][1] <= current - base[e] /\ Made(e) * plan[e][1] \in Nat
  <2>1. Made(e) \in Nat /\ current \in Nat /\ plan[e][1] \in Nat /\ base[e] \in Nat
    BY Types, Constants DEF MInv, Books, Events
  <2>2. Made(e) * plan[e][1] <= current - base[e]
    BY DEF MInv, Books, Book, Events
  <2> QED
    BY <2>1, <2>2
<1>2. CASE Advance
  <2>1. current' = current + Interval
    BY <1>2, AdvanceIs
  <2>2. Made(e)' = Made(e) /\ plan' = plan /\ base' = base
    BY <1>2 DEF Advance, Made, Pending, abstractVars, cbVars, evtVars, history
  <2> QED
    BY <1>1, <2>1, <2>2, Widths
<1>3. CASE ~Advance
  <2>1. ~CoreTick
    <3> SUFFICES ASSUME CoreTick PROVE FALSE
      OBVIOUS
    <3>1. jiffies \in Jiffies
      BY DEF MInv, IInv, MgrTypeOK
    <3>2. now # (jiffies + 1) % Word
      BY <3>1, Behind DEF CoreTick, CoreBehind
    <3>3. now = jiffies
      BY <3>2 DEF MInv, Clocks
    <3>4. now' = (jiffies + 1) % Word /\ jiffies' = jiffies
      BY <3>3 DEF CoreTick, Tick, mgrVars
    <3>5. (jiffies + 1) % Word # jiffies
      BY <3>1, Behind
    <3> QED
      BY <3>4, <3>5
  <2>2. UNCHANGED <<now, jiffies, current>>
    <3>1. CASE UserOf(Fit)
      BY <3>1 DEF UserOf, EvtInit, EvtDestroy, EvtStop, Start, Disarm, Arm, abstractVars, mgrVars
    <3>2. CASE AnyRun \/ Ends
      BY <3>2 DEF AnyRun, MgrRun, Ends, MgrDestroy, Clears, DisarmAll, abstractVars, mgrVars
    <3>3. CASE Loop
      BY <1>3, <2>1, <3>3 DEF Loop, CbBegin, Fire, CatchUp, CaughtUp, ArmNext, Arm, Disarm,
         CallUser, UserReturns, CbEnd, Return, MgrRunEnds, abstractVars, mgrVars
    <3> QED
      BY <3>1, <3>2, <3>3 DEF NextOf
  <2>3. now = jiffies
    BY <2>2
  <2>4. cb = None
    <3>1. jiffies \in Nat
      BY DEF MInv, IInv, MgrTypeOK, Jiffies
    <3> QED
      BY <2>3, <3>1, NowIs DEF MInv
  <2>5. Made(e) > 0 => Made(e) * plan[e][1] <= current - Interval - base[e]
    BY <2>3 DEF Settled, Events
  <2>6. CASE Steady(e)
    BY <2>2, <2>5, <2>6 DEF Steady
  <2>7. CASE Ended(e)
    <3>1. Made(e)' \in Nat /\ Made(e)' <= Made(e) /\ plan'[e] = plan[e] /\ base'[e] = base[e]
      BY <2>7 DEF Ended
    <3>2. Made(e)' * plan[e][1] <= Made(e) * plan[e][1] /\ Made(e)' * plan[e][1] \in Nat
      BY <1>1, <3>1, MulMono
    <3> QED
      BY <1>1, <2>2, <2>5, <3>1, <3>2, Widths
  <2>8. CASE Begun(e)
    <3>1. calls'[e] = 0 /\ cb' = cb /\ e # cb
      BY <2>4, <2>8, NoneAssumption DEF Begun, Start, Arm, MInv, IInv, MgrTypeOK, Events
    <3>2. Made(e)' = 0
      BY <3>1 DEF Made, Pending
    <3> QED
      BY <3>2
  <2> QED
    BY <2>4, <2>6, <2>7, <2>8, MadeStep, NoneAssumption
<1> QED
  BY <1>2, <1>3

-----------------------------------------------------------------------------
(* CTimerWheelMgr: ids name events, and no two the same one.                *)
MapOK ==
  /\ timer_evt_map \in Seq(Events)
  /\ deleted \subseteq Ids
  /\ \A i, j \in Ids : timer_evt_map[i] = timer_evt_map[j] => i = j

(* The event of a deleted id is revoked, and is not started again.          *)
DeletedRevoked == \A id \in deleted : revoked[timer_evt_map[id]]

(* So is an event that is not in use.                                       *)
DeadRevoked == \A e \in Events : ~alive[e] => revoked[e]

WInv == IInv /\ MapOK /\ DeadRevoked /\ DeletedRevoked

(* Plans of S, in seconds, are plans in milliseconds.                       *)
Scaled(S) == \A p \in Plans : <<p[1] * Second, p[2]>> \in S

(* What CTimerWheelMgr does is among what users of the manager do.          *)
LEMMA WheelMgrStep ==
  ASSUME IInv, MapOK, WheelMgrNext, NEW S, Scaled(S)
  PROVE  NextOf(S) \/ UNCHANGED vars
<1>1. ASSUME Handler PROVE NextOf(S) \/ UNCHANGED vars
  <2>1. UserRuns
    BY <1>1 DEF Handler, UserRuns
  <2>2. ASSUME NEW e \in Events, NEW p \in Plans, AddTimer(e, p[1], p[2]) PROVE NextOf(S)
    <3> DEFINE q == <<p[1] * Second, p[2]>>
    <3>1. q \in S /\ q[1] = p[1] * Second /\ q[2] = p[2]
      BY DEF Scaled
    <3>2. pc # "destroyed"
      BY <1>1 DEF Handler
    <3>3. Start(e, p[1] * Second, p[2])
      BY <2>2, <3>2 DEF AddTimer, Start
    <3> HIDE DEF q
    <3>4. Start(e, q[1], q[2])
      BY <3>1, <3>3
    <3> QED
      BY <2>1, <3>1, <3>4 DEF NextOf, UserOf
  <2>3. ASSUME NEW id \in Ids, DelTimer(id) PROVE NextOf(S) \/ UNCHANGED vars
    <3>1. timer_evt_map[id] \in Events
      BY DEF MapOK, Ids
    <3> QED
      BY <2>1, <2>3, <3>1 DEF DelTimer, NextOf, UserOf
  <2> QED
    BY <1>1, <2>2, <2>3 DEF Handler
<1>2. ASSUME Destroy PROVE NextOf(S)
  <2>1. firing' = firing
    BY <1>2 DEF Destroy, IInv, Phase
  <2>2. Clears
    BY <1>2, <2>1 DEF Destroy, Clears, DisarmAll, Events
  <2> QED
    BY <2>2 DEF NextOf, Ends
<1>3. ASSUME NEW t \in Steps, UpdateTimer(t) PROVE NextOf(S)
  <2>1. stamp + t * Second \in Int
    BY StampAssumption, SecondAssumption DEF IInv, MgrTypeOK, Jiffies
  <2> DEFINE m == stamp + t * Second
  <2>2. m \in Int
    BY <2>1
  <2>3. MgrRun(m % Word) /\ jiffies <= Horizon
    BY <1>3 DEF UpdateTimer
  <2> HIDE DEF m
  <2>4. (m % Word) \in Jiffies
    BY <2>2, WordAssumption, ModRange DEF Jiffies
  <2> QED
    BY <2>3, <2>4 DEF NextOf, AnyRun
<1>4. ASSUME UpdateLoop PROVE NextOf(S)
  BY <1>4 DEF UpdateLoop, NextOf
<1> QED
  BY <1>1, <1>2, <1>3, <1>4 DEF WheelMgrNext

(* Milliseconds that do not overflow are periods.                           *)
LEMMA AllScaled == Scaled(Periods)
  BY SecondAssumption, PlanAssumption DEF Scaled, Periods

(* MapOK is inductive: only add_timer adds an id, for an event of its own.  *)
LEMMA MapStep ==
  ASSUME MapOK, WheelMgrNext
  PROVE  MapOK'
<1>1. ASSUME NEW e \in Events, NEW p \in Plans, AddTimer(e, p[1], p[2]) PROVE MapOK'
  <2>1. timer_evt_map' = Append(timer_evt_map, e) /\ deleted' = deleted /\ e \notin Added
    BY <1>1 DEF AddTimer
  <2>2. \A i \in Ids : timer_evt_map[i] # e
    BY <2>1 DEF Added, Range, Ids, MapOK
  <2>3. /\ timer_evt_map' \in Seq(Events) /\ Len(timer_evt_map') = Len(timer_evt_map) + 1
        /\ timer_evt_map'[Len(timer_evt_map) + 1] = e
        /\ \A i \in Ids : timer_evt_map'[i] = timer_evt_map[i]
        /\ Len(timer_evt_map) \in Nat
    BY <2>1 DEF MapOK, Ids
  <2> QED
    BY <2>1, <2>2, <2>3 DEF MapOK, Ids
<1>2. ASSUME NEW id \in Ids, DelTimer(id) PROVE MapOK'
  BY <1>2 DEF DelTimer, MapOK, Ids
<1>3. CASE UNCHANGED <<timer_evt_map, deleted>>
  BY <1>3 DEF MapOK, Ids
<1>4. CASE Destroy \/ UpdateLoop \/ \E t \in Steps : UpdateTimer(t)
  BY <1>3, <1>4 DEF Destroy, UpdateLoop, UpdateTimer
<1> QED
  BY <1>1, <1>2, <1>4 DEF WheelMgrNext, Handler

(* DeadRevoked is inductive.                                                *)
LEMMA DeadStep ==
  ASSUME IInv, DeadRevoked, NextOf(Periods) \/ UNCHANGED vars
  PROVE  DeadRevoked'
<1> USE DEF DeadRevoked, IInv, MgrTypeOK
<1>1. CASE UserOf(Periods)
  BY <1>1 DEF UserOf, EvtInit, EvtDestroy, EvtStop, Start
<1>2. CASE UNCHANGED <<alive, revoked>>
  BY <1>2
<1>3. CASE Clears
  BY <1>3 DEF Clears
<1>4. CASE AnyRun \/ MgrDestroy \/ UNCHANGED vars
  BY <1>2, <1>4 DEF AnyRun, MgrRun, MgrDestroy, vars, evtVars, history
<1>5. CASE Loop
  <2>1. UNCHANGED <<alive, revoked>>
    BY <1>5 DEF Loop, CoreTick, CbBegin, CatchUp, CaughtUp, ArmNext, CallUser, UserReturns, CbEnd,
       Advance, MgrRunEnds, evtVars, history
  <2> QED
    BY <1>2, <2>1
<1> QED
  BY <1>1, <1>3, <1>4, <1>5 DEF NextOf, Ends

(* What a step may do to the event of an id that was there before: nobody   *)
(* starts it again.                                                         *)
LEMMA IdKept ==
  ASSUME IInv, MapOK, WheelMgrNext, NEW id \in Ids
  PROVE  /\ id \in Ids' /\ timer_evt_map'[id] = timer_evt_map[id] /\ timer_evt_map[id] \in Events
         /\ \A e \in Events, p \in Plans : AddTimer(e, p[1], p[2]) => e # timer_evt_map[id]
         /\ revoked[timer_evt_map[id]] => revoked'[timer_evt_map[id]]
<1> DEFINE d == timer_evt_map[id]
<1>1. d \in Events /\ d \in Added
  BY DEF MapOK, Ids, Added, Range
<1>t. revoked \in [Events -> BOOLEAN]
  BY DEF IInv, MgrTypeOK
<1>2. ASSUME NEW e \in Events, NEW p \in Plans, AddTimer(e, p[1], p[2]) PROVE e # d
  <2>1. e \notin Added
    BY <1>2 DEF AddTimer
  <2> HIDE DEF d
  <2> QED
    BY <1>1, <2>1
<1>3. CASE UNCHANGED timer_evt_map /\ (revoked[d] => revoked'[d])
  BY <1>1, <1>2, <1>3 DEF Ids
<1>4. CASE Handler
  <2>1. ASSUME NEW e \in Events, NEW p \in Plans, AddTimer(e, p[1], p[2])
        PROVE  /\ id \in Ids' /\ timer_evt_map'[id] = d
               /\ revoked[d] => revoked'[d]
    <3>1. e # d
      BY <1>2, <2>1
    <3>2. timer_evt_map' = Append(timer_evt_map, e)
          /\ revoked' = [revoked EXCEPT ![e] = FALSE]
      BY <2>1 DEF AddTimer
    <3>3. revoked'[d] = revoked[d]
      BY <1>1, <1>t, <3>1, <3>2
    <3>4. id \in Ids' /\ timer_evt_map'[id] = d
      BY <3>2 DEF MapOK, Ids
    <3> QED
      BY <3>3, <3>4
  <2>2. ASSUME NEW i \in Ids, DelTimer(i)
        PROVE  /\ UNCHANGED timer_evt_map
               /\ revoked[d] => revoked'[d]
    BY <1>1, <1>t, <2>2 DEF DelTimer, EvtDestroy, vars, history
  <2> QED
    BY <1>1, <1>2, <1>4, <2>1, <2>2 DEF Handler, Ids
<1>5. CASE Destroy
  BY <1>1, <1>2, <1>3, <1>5 DEF Destroy
<1>6. CASE UpdateLoop \/ \E t \in Steps : UpdateTimer(t)
  <2>1. UNCHANGED <<timer_evt_map, revoked>>
    BY <1>6 DEF UpdateLoop, UpdateTimer, MgrRun, Loop, CoreTick, CbBegin, CatchUp, CaughtUp,
       ArmNext, CallUser, UserReturns, CbEnd, Advance, MgrRunEnds, history
  <2> QED
    BY <1>1, <1>2, <1>3, <2>1
<1> QED
  BY <1>4, <1>5, <1>6 DEF WheelMgrNext

(* WInv is inductive.                                                       *)
LEMMA WInitInv == WheelMgrInit => WInv
<1> SUFFICES ASSUME WheelMgrInit PROVE WInv
  OBVIOUS
<1>1. IInv
  BY InitInv DEF WheelMgrInit
<1>2. MapOK /\ DeadRevoked /\ DeletedRevoked
  BY DEF WheelMgrInit, Init, MapOK, DeadRevoked, DeletedRevoked, Ids
<1> QED
  BY <1>1, <1>2 DEF WInv

(* And every step keeps it.                                                 *)
LEMMA WStepInv == WInv /\ [WheelMgrNext]_wheelMgrVars => WInv'
<1>1. ASSUME WInv, WheelMgrNext PROVE WInv'
  <2>1. IInv' /\ MapOK' /\ DeadRevoked'
    BY <1>1, WheelMgrStep, AllScaled, StepInv, MapStep, DeadStep DEF WInv
  <2>2. ASSUME NEW id \in deleted' PROVE (revoked[timer_evt_map[id]])'
    <3>1. CASE id \in deleted
      BY <1>1, <3>1, IdKept DEF WInv, MapOK, DeletedRevoked
    <3>2. CASE id \notin deleted
      <4>1. deleted' # deleted
        BY <2>2, <3>2
      <4>2. PICK i \in Ids : DelTimer(i)
        BY <1>1, <4>1 DEF WheelMgrNext, Handler, AddTimer, Destroy, UpdateTimer, UpdateLoop
      <4>3. i = id /\ timer_evt_map' = timer_evt_map
        BY <2>2, <3>2, <4>2 DEF DelTimer
      <4>4. timer_evt_map[i] \in Events
        BY <1>1 DEF WInv, MapOK, Ids
      <4>5. revoked'[timer_evt_map[i]]
        <5>1. CASE alive[timer_evt_map[i]]
          BY <1>1, <4>2, <4>4, <5>1 DEF DelTimer, EvtDestroy, WInv, IInv, MgrTypeOK
        <5>2. CASE ~alive[timer_evt_map[i]]
          BY <1>1, <4>2, <4>4, <5>2 DEF DelTimer, vars, history, WInv, DeadRevoked
        <5> QED
          BY <5>1, <5>2
      <4> QED
        BY <4>3, <4>5
    <3> QED
      BY <3>1, <3>2
  <2> QED
    BY <2>1, <2>2 DEF WInv, DeletedRevoked
<1>2. ASSUME WInv, UNCHANGED wheelMgrVars PROVE WInv'
  <2>1. IInv'
    BY <1>2, StepInv DEF WInv, wheelMgrVars
  <2>2. MapOK' /\ DeadRevoked' /\ DeletedRevoked'
    BY <1>2 DEF WInv, MapOK, DeadRevoked, DeletedRevoked, Ids, wheelMgrVars, vars, evtVars, history
  <2> QED
    BY <2>1, <2>2 DEF WInv
<1> QED
  BY <1>1, <1>2

(* del_timer keeps its word: no handle_timeout of a deleted id, though      *)
(* del_timer was called from a handle_timeout of the same tick.             *)
THEOREM DeletedStaysQuietTheorem == WheelMgrSpec => DeletedStaysQuiet
<1> DEFINE Quiet == \A id \in deleted : calls'[timer_evt_map[id]] = calls[timer_evt_map[id]]
<1>1. ASSUME WInv, WheelMgrNext PROVE Quiet
  <2> SUFFICES ASSUME NEW id \in deleted
               PROVE  calls'[timer_evt_map[id]] = calls[timer_evt_map[id]]
    OBVIOUS
  <2> DEFINE d == timer_evt_map[id]
  <2>1. id \in Ids /\ d \in Events /\ revoked[d]
    BY <1>1 DEF WInv, MapOK, DeletedRevoked, Ids
  <2>2. calls \in [Events -> Nat]
    BY <1>1 DEF WInv, IInv, MgrTypeOK
  <2>3. CASE UNCHANGED calls
    BY <2>3
  <2>4. ASSUME NEW e \in Events, NEW p \in Plans, AddTimer(e, p[1], p[2]) PROVE calls'[d] = calls[d]
    <3>1. e # d
      BY <1>1, <2>1, <2>4, IdKept DEF WInv
    <3>2. calls' = [calls EXCEPT ![e] = 0]
      BY <2>4 DEF AddTimer
    <3> QED
      BY <2>1, <2>2, <3>1, <3>2
  <2>5. ASSUME NEW i \in Ids, DelTimer(i) PROVE UNCHANGED calls
    BY <2>5 DEF DelTimer, EvtDestroy, vars, history
  <2>6. CASE UpdateLoop
    <3>1. CASE CallUser
      <4>1. running[cb]
        BY <3>1 DEF CallUser, BatchGoesOn
      <4>2. cb \in Events
        BY <1>1, <3>1, NoneAssumption
        DEF CallUser, WInv, IInv, Phase, MgrTypeOK, AbstractTypeOK, Events
      <4>3. d # cb
        BY <1>1, <2>1, <4>1, <4>2 DEF WInv, IInv, Unrevoked
      <4>4. calls' = [calls EXCEPT ![cb] = @ + 1]
        BY <3>1 DEF CallUser
      <4> QED
        BY <2>1, <2>2, <4>3, <4>4
    <3>2. CASE Loop /\ ~CallUser
      <4>1. UNCHANGED calls
        BY <3>2 DEF Loop, CoreTick, CbBegin, CatchUp, CaughtUp, ArmNext, UserReturns, CbEnd,
           Advance, MgrRunEnds, history
      <4> QED
        BY <2>3, <4>1
    <3> QED
      BY <2>6, <3>1, <3>2 DEF UpdateLoop
  <2>7. CASE Destroy \/ \E t \in Steps : UpdateTimer(t)
    <3>1. UNCHANGED calls
      BY <2>7 DEF Destroy, UpdateTimer, MgrRun, history
    <3> QED
      BY <2>3, <3>1
  <2> QED
    BY <1>1, <2>3, <2>4, <2>5, <2>6, <2>7 DEF WheelMgrNext, Handler
<1>2. WInv /\ [WheelMgrNext]_wheelMgrVars => [Quiet]_wheelMgrVars
  BY <1>1
<1> QED
  BY <1>2, WInitInv, WStepInv, PTL DEF WheelMgrSpec, DeletedStaysQuiet

-----------------------------------------------------------------------------
(* A timer that was not deleted was not revoked, and has the plan it was    *)
(* added with.                                                              *)
Kept ==
  pc # "destroyed" => \A id \in Ids \ deleted :
    ~revoked[timer_evt_map[id]] /\ Lasts(plan[timer_evt_map[id]][1])

TInv == MInv /\ Settled /\ WInv /\ Kept

(* Milliseconds that the clock lasts for.                                   *)
LEMMA FitScaled == ASSUME SecondsBeforeWrap PROVE Scaled(Fit) /\ ClockLasts
  BY AllScaled DEF SecondsBeforeWrap, Scaled, Fit

(* Kept is inductive: an event has one id, so nothing but its own           *)
(* del_timer revokes it.                                                    *)
LEMMA KeptStep ==
  ASSUME SecondsBeforeWrap, TInv, WheelMgrNext
  PROVE  Kept'
<1> USE DEF TInv, WInv
<1> SUFFICES ASSUME pc' # "destroyed", NEW id \in Ids', id \notin deleted'
             PROVE  (~revoked[timer_evt_map[id]] /\ Lasts(plan[timer_evt_map[id]][1]))'
  BY DEF Kept
<1>t. /\ revoked \in [Events -> BOOLEAN] /\ plan \in [Events -> Fit \cup {<<0, 0>>}]
      /\ timer_evt_map \in Seq(Events)
  BY DEF IInv, MgrTypeOK, MInv, Books, MapOK
<1>1. pc # "destroyed"
  BY DEF WheelMgrNext, Handler, Destroy, UpdateTimer, UpdateLoop, MgrRun, Loop, CoreTick,
     CbBegin, BetweenCallbacks, CatchUp, CaughtUp, ArmNext, CallUser, UserReturns, CbEnd, Advance,
     MgrRunEnds
<1>2. ASSUME NEW e \in Events, NEW p \in Plans, AddTimer(e, p[1], p[2])
      PROVE  (~revoked[timer_evt_map[id]] /\ Lasts(plan[timer_evt_map[id]][1]))'
  <2>1. /\ timer_evt_map' = Append(timer_evt_map, e) /\ deleted' = deleted
        /\ revoked' = [revoked EXCEPT ![e] = FALSE]
        /\ plan' = [plan EXCEPT ![e] = <<p[1] * Second, p[2]>>]
    BY <1>2 DEF AddTimer
  <2>2. CASE id \in Ids
    <3>1. timer_evt_map'[id] = timer_evt_map[id] /\ timer_evt_map[id] \in Events
          /\ e # timer_evt_map[id]
      BY <1>2, <2>2, IdKept
    <3>2. revoked'[timer_evt_map[id]] = revoked[timer_evt_map[id]]
          /\ plan'[timer_evt_map[id]] = plan[timer_evt_map[id]]
      BY <1>t, <2>1, <3>1
    <3>3. ~revoked[timer_evt_map[id]] /\ Lasts(plan[timer_evt_map[id]][1])
      BY <1>1, <2>1, <2>2 DEF Kept
    <3> QED
      BY <3>1, <3>2, <3>3 DEF Lasts
  <2>3. CASE id \notin Ids
    <3>1. timer_evt_map'[id] = e
      BY <1>t, <2>1, <2>3 DEF Ids
    <3>2. ~revoked'[e] /\ plan'[e][1] = p[1] * Second
      BY <1>t, <2>1
    <3>3. Lasts(p[1] * Second)
      BY DEF SecondsBeforeWrap
    <3> QED
      BY <3>1, <3>2, <3>3 DEF Lasts
  <2> QED
    BY <2>2, <2>3
<1>3. ASSUME NEW i \in Ids, DelTimer(i)
      PROVE  (~revoked[timer_evt_map[id]] /\ Lasts(plan[timer_evt_map[id]][1]))'
  <2>1. timer_evt_map' = timer_evt_map /\ id \in Ids /\ id \notin deleted /\ id # i
    BY <1>3 DEF DelTimer, Ids
  <2>2. /\ timer_evt_map[id] \in Events /\ timer_evt_map[i] \in Events
        /\ timer_evt_map[id] # timer_evt_map[i]
    BY <1>3, <1>t, <2>1 DEF MapOK, Ids
  <2>3. revoked'[timer_evt_map[id]] = revoked[timer_evt_map[id]] /\ plan' = plan
    BY <1>3, <1>t, <2>2 DEF DelTimer, EvtDestroy, vars, history
  <2>4. ~revoked[timer_evt_map[id]] /\ Lasts(plan[timer_evt_map[id]][1])
    BY <1>1, <2>1 DEF Kept
  <2> QED
    BY <2>1, <2>3, <2>4 DEF Lasts
<1>4. CASE UpdateLoop \/ \E t \in Steps : UpdateTimer(t)
  <2>1. UNCHANGED <<timer_evt_map, deleted, revoked, plan>>
    BY <1>4 DEF UpdateLoop, UpdateTimer, MgrRun, Loop, CoreTick, CbBegin, CatchUp, CaughtUp,
       ArmNext, CallUser, UserReturns, CbEnd, Advance, MgrRunEnds, history
  <2>2. ~revoked[timer_evt_map[id]] /\ Lasts(plan[timer_evt_map[id]][1])
    BY <1>1, <2>1 DEF Kept, Ids
  <2> QED
    BY <2>1, <2>2 DEF Lasts
<1>5. CASE Destroy
  BY <1>5 DEF Destroy
<1> QED
  BY <1>2, <1>3, <1>4, <1>5 DEF WheelMgrNext, Handler

(* The invariant of the timers is inductive.                                *)
LEMMA TInitInv == ASSUME SecondsBeforeWrap PROVE WheelMgrInit => TInv
<1> SUFFICES ASSUME WheelMgrInit PROVE TInv
  OBVIOUS
<1>1. MInv /\ WInv
  BY FitScaled, MInitInv, WInitInv DEF WheelMgrInit
<1>2. Settled
  BY NoneAssumption DEF WheelMgrInit, Init, Settled, Made, Pending, Events
<1>3. Kept
  BY DEF WheelMgrInit, Kept, Ids
<1> QED
  BY <1>1, <1>2, <1>3 DEF TInv

(* And every step keeps it.                                                 *)
LEMMA TStepInv ==
  ASSUME SecondsBeforeWrap
  PROVE  TInv /\ [WheelMgrNext]_wheelMgrVars => TInv'
<1>1. ClockLasts /\ Scaled(Fit)
  BY FitScaled
<1>2. ASSUME TInv, UNCHANGED vars PROVE Settled'
  BY <1>2 DEF TInv, Settled, Made, Pending, vars, abstractVars, mgrVars, cbVars, evtVars, history
<1>3. ASSUME TInv, WheelMgrNext PROVE TInv'
  <2>1. NextOf(Fit) \/ UNCHANGED vars
    BY <1>1, <1>3, WheelMgrStep DEF TInv, WInv
  <2>2. MInv'
    BY <1>1, <1>3, <2>1, MStepInv DEF TInv
  <2>3. Settled'
    BY <1>1, <1>2, <1>3, <2>1, SettledStep DEF TInv
  <2> QED
    BY <1>3, <2>2, <2>3, WStepInv, KeptStep DEF TInv
<1>4. ASSUME TInv, UNCHANGED wheelMgrVars PROVE TInv'
  <2>1. UNCHANGED vars
    BY <1>4 DEF wheelMgrVars
  <2>2. MInv' /\ Settled' /\ WInv'
    BY <1>1, <1>2, <1>4, <2>1, MStepInv, WStepInv DEF TInv
  <2>3. Kept'
    BY <1>4 DEF TInv, Kept, Lasts, Ids, wheelMgrVars, vars, history
  <2> QED
    BY <2>2, <2>3 DEF TInv
<1> QED
  BY <1>3, <1>4

(* A quotient lies between the multiples it lies between.                   *)
LEMMA Quotient ==
  ASSUME NEW a \in Nat, NEW b \in Nat \ {0}, NEW q \in Nat
  PROVE  /\ q * b <= a => q <= a \div b
         /\ a < q * b + b => a \div b <= q
<1> DEFINE d == a \div b
           r == a % b
<1>1. d \in Int /\ r \in 0 .. b - 1 /\ a = d * b + r
  BY DivInt, ModRange, DivMod
<1> HIDE DEF d, r
<1>2. ASSUME q * b <= a, d < q PROVE FALSE
  <2>1. d * b + b <= q * b
    BY <1>1, <1>2, Gap
  <2> QED
    BY <1>1, <1>2, <2>1
<1>3. ASSUME a < q * b + b, q < d PROVE FALSE
  <2>1. q * b + b <= d * b
    BY <1>1, <1>3, Gap
  <2> QED
    BY <1>1, <1>3, <2>1
<1>4. (q * b <= a => q <= d) /\ (a < q * b + b => d <= q)
  BY <1>1, <1>2, <1>3
<1> QED
  BY <1>4 DEF d

(* The invariant says that the timeouts of a timer are as many as the       *)
(* periods covered, up to its repetitions.                                  *)
LEMMA ExactInv == ASSUME SecondsBeforeWrap PROVE TInv => TimeoutsExact
<1> SUFFICES ASSUME TInv, pc = "idle", NEW id \in Ids \ deleted
             PROVE  LET e == timer_evt_map[id]
                        covered == current - Interval - base[e]
                        periods == IF covered < 0 THEN 0 ELSE covered \div plan[e][1]
                    IN calls[e] = IF plan[e][2] > 0 /\ periods > plan[e][2] THEN plan[e][2]
                                  ELSE periods
  BY DEF TimeoutsExact
<1> USE DEF TInv
<1> DEFINE e == timer_evt_map[id]
           c == calls[e]
           l == plan[e][1]
           n == plan[e][2]
           m == c * l
           v == current - Interval - base[e]
           d == v \div l
           periods == IF v < 0 THEN 0 ELSE d
<1>0. ClockLasts
  BY FitScaled
<1>1. e \in Nodes /\ ~revoked[e]
  BY DEF WInv, MapOK, Ids, Kept, Events
<1>2. Made(e) = c /\ c \in Nat /\ (Going(e) <=> started[e])
  BY <1>1, IdleMade
<1>3. l \in Nat \ {0} /\ n \in Int
  <2>1. plan[e] \in Fit \cup {<<0, 0>>}
    BY <1>1 DEF MInv, Books, Events
  <2>2. l > 0
    BY DEF Kept, Lasts
  <2> QED
    BY <1>0, <2>1, <2>2, Constants
<1>4. base[e] \in Nat /\ current \in Nat /\ Interval \in Nat /\ v \in Int
  BY <1>0, <1>1, Types, Widths DEF MInv, Books, Events
<1>5. c > 0 => m <= v
  <2>1. now = jiffies
    BY DEF MInv, Clocks
  <2> QED
    BY <1>1, <1>2, <2>1 DEF Settled, Events
<1>6. started[e] => v < m + l
  <2> SUFFICES ASSUME started[e] PROVE v < m + l
    OBVIOUS
  <2>1. slap[e] = base[e] + m + l
    BY <1>1, <1>2 DEF MInv, Books, Book, Events
  <2>2. slap[e] > current - Interval
    BY <1>0, <1>1, MissedInv DEF NoneMissed, Events
  <2>3. m \in Nat
    BY <1>2, <1>3
  <2> QED
    BY <1>3, <1>4, <2>1, <2>2, <2>3
<1>7. /\ n > 0 => c <= n /\ (started[e] <=> c < n)
      /\ n <= 0 => started[e]
  BY <1>0, <1>1, <1>2, <1>3, RepeatsInv
  DEF RepeatsExactly, MInv, Repeats, Left2Do, Events
<1>8. v >= 0 => d \in Int /\ (m <= v => c <= d) /\ (v < m + l => d <= c)
  BY <1>2, <1>3, <1>4, Quotient, DivInt
<1>9. c = 0 => m = 0
  BY <1>3
<1>10. m \in Nat
  BY <1>2, <1>3
<1> HIDE DEF c, l, n, m, v, d
<1>11. c <= periods /\ periods \in Int
  BY <1>2, <1>4, <1>5, <1>8, <1>9, <1>10
<1>12. started[e] => periods <= c
  BY <1>2, <1>4, <1>6, <1>8, <1>10
<1>13. c = IF n > 0 /\ periods > n THEN n ELSE periods
  BY <1>2, <1>3, <1>7, <1>11, <1>12
<1> QED
  BY <1>13 DEF c, l, n, v, d

(* handle_timeout is called exactly once for each period that has passed,   *)
(* up to the repetitions asked for: late updates make up for what they      *)
(* missed, and nothing is told twice.                                       *)
THEOREM TimeoutsExactTheorem == ASSUME SecondsBeforeWrap PROVE WheelMgrSpec => []TimeoutsExact
  BY TInitInv, TStepInv, ExactInv, PTL DEF WheelMgrSpec
=============================================================================
