---------------------------- MODULE TimerWheelMgr ----------------------------
(***************************************************************************)
(* CTimerWheelMgr of src/timer_wheel/timer_wheel_mgr.cpp, the reactor's    *)
(* timer manager: handlers ask for timers in seconds and get ids, which    *)
(* name the events of an itimer_mgr with an interval of one millisecond.   *)
(* Every add_timer allocates an event that is never freed, so an element   *)
(* of Events is used once, and how many there are bounds the timers of a   *)
(* run.  What add_timer, del_timer and the destructor call is in TimerMgr. *)
(***************************************************************************)
EXTENDS TimerMgr, Sequences, Functions

CONSTANT Second \* milliseconds in a second: 1000 in the code

(* Plans are in seconds here.  `period*1000' is one of C's int, which must  *)
(* not overflow.                                                            *)
ASSUME SecondAssumption ==
  Second \in Nat \ {0} /\ \A p \in Plans : p[1] * Second \in Jiffies

(* What TimerMgrProofs assumes for its theorem on the number of timeouts.   *)
SecondsBeforeWrap == ClockLasts /\ \A p \in Plans : Lasts(p[1] * Second)

VARIABLES
  timer_evt_map, \* m_timer_evt_map: the event of each id; m_last_timer_id is its length
  deleted,       \* history: the ids given to del_timer
  asserted       \* an assertion of the itimer functions has failed: the program has ended

wheelMgrVars == <<vars, timer_evt_map, deleted, asserted>>

Ids == 1 .. Len(timer_evt_map)
Added == Range(timer_evt_map)

WheelMgrInit ==
  /\ Init
  /\ timer_evt_map = <<>>
  /\ deleted = {}
  /\ asserted = FALSE

(* Mutant: seconds taken for milliseconds.                                   *)
AddTimerUnscaled(e, p, r) ==
  LET end == (current + p) % Word
  IN /\ e \notin Added
     /\ Arm(e, (jiffies + TicksUntil(end)) % Word)
     /\ alive' = [alive EXCEPT ![e] = TRUE]
     /\ period' = [period EXCEPT ![e] = p]
     /\ slap' = [slap EXCEPT ![e] = end]
     /\ repeat' = [repeat EXCEPT ![e] = r]
     /\ running' = [running EXCEPT ![e] = FALSE]
     /\ started' = [started EXCEPT ![e] = TRUE]
     /\ calls' = [calls EXCEPT ![e] = 0]
     /\ base' = [base EXCEPT ![e] = current]
     /\ plan' = [plan EXCEPT ![e] = <<p * Second, r>>]
     /\ revoked' = [revoked EXCEPT ![e] = FALSE]
     /\ timer_evt_map' = Append(timer_evt_map, e)
     /\ UNCHANGED <<mgrVars, pc, cbVars, deleted, asserted>>

(* add_timer(handler, p, r): itimer_evt_init and itimer_evt_start of a new  *)
(* event, and a new id for it.                                              *)
AddTimer(e, p, r) ==
  LET ms == p * Second
      end == (current + ms) % Word
  IN /\ e \notin Added
     /\ Arm(e, (jiffies + TicksUntil(end)) % Word)
     /\ alive' = [alive EXCEPT ![e] = TRUE]
     /\ period' = [period EXCEPT ![e] = ms]
     /\ slap' = [slap EXCEPT ![e] = end]
     /\ repeat' = [repeat EXCEPT ![e] = r]
     /\ running' = [running EXCEPT ![e] = FALSE]
     /\ started' = [started EXCEPT ![e] = TRUE]
     /\ calls' = [calls EXCEPT ![e] = 0]
     /\ base' = [base EXCEPT ![e] = current]
     /\ plan' = [plan EXCEPT ![e] = <<ms, r>>]
     /\ revoked' = [revoked EXCEPT ![e] = FALSE]
     /\ timer_evt_map' = Append(timer_evt_map, e)
     /\ UNCHANGED <<mgrVars, pc, cbVars, deleted, asserted>>

(* Mutant: the event is forgotten, but not stopped.                         *)
DelTimerForgets(id) ==
  /\ deleted' = deleted \cup {id}
  /\ UNCHANGED <<vars, timer_evt_map, asserted>>

(* del_timer(id), of an id that add_timer returned: itimer_evt_stop and     *)
(* itimer_evt_destroy.  The id stays in the map, so that deleting it again  *)
(* destroys a destroyed event, which itimer_node_destroy asserts against.   *)
(* Of any other id del_timer returns -1 and changes nothing.                *)
DelTimer(id) ==
  /\ deleted' = deleted \cup {id}
  /\ IF alive[timer_evt_map[id]]
     THEN EvtDestroy(timer_evt_map[id]) /\ UNCHANGED asserted
     ELSE asserted' = TRUE /\ UNCHANGED vars
  /\ UNCHANGED timer_evt_map

(* ~CTimerWheelMgr: itimer_mgr_destroy, then itimer_evt_destroy of every    *)
(* event of the map, those that del_timer has destroyed included.           *)
Destroy ==
  /\ ~asserted
  /\ pc = "idle"
  /\ pc' = "destroyed"
  /\ due' = [e \in Events |-> Never]
  /\ firing' = firing \ Added
  /\ alive' = [e \in Events |-> FALSE]
  /\ period' = [e \in Events |-> 0]
  /\ slap' = [e \in Events |-> 0]
  /\ repeat' = [e \in Events |-> 0]
  /\ running' = [e \in Events |-> FALSE]
  /\ started' = [e \in Events |-> FALSE]
  /\ revoked' = [e \in Events |-> TRUE]
  /\ asserted' = \E e \in Added : ~alive[e]
  /\ UNCHANGED <<now, cb, mgrVars, cbVars, calls, base, plan, timer_evt_map, deleted>>

(* update_timer, s seconds after the last one.                              *)
UpdateTimer(s) ==
  /\ ~asserted
  /\ jiffies <= Horizon
  /\ MgrRun((stamp + s * Second) % Word)
  /\ UNCHANGED <<timer_evt_map, deleted, asserted>>

(* Handlers call add_timer and del_timer, outside of update_timer and from  *)
(* handle_timeout.                                                          *)
Handler ==
  /\ ~asserted
  /\ pc \in {"idle", "user"}
  /\ \/ \E e \in Events, p \in Plans : AddTimer(e, p[1], p[2])
     \/ \E id \in Ids : DelTimer(id)

UpdateLoop == ~asserted /\ Loop /\ UNCHANGED <<timer_evt_map, deleted, asserted>>

WheelMgrNext == Handler \/ Destroy \/ UpdateLoop \/ \E s \in Steps : UpdateTimer(s)

WheelMgrSpec == WheelMgrInit /\ [][WheelMgrNext]_wheelMgrVars

-----------------------------------------------------------------------------
(* del_timer keeps its word: after it no handle_timeout of that id, though  *)
(* it was called from a handle_timeout, of the same id or of another that   *)
(* is due in the same tick.                                                 *)
DeletedStaysQuiet ==
  [][\A id \in deleted : calls'[timer_evt_map[id]] = calls[timer_evt_map[id]]]_wheelMgrVars

(* handle_timeout has been called exactly once for each period of a timer   *)
(* that the manager's clock has covered, up to its repetitions: seconds are *)
(* seconds, late updates catch up, and the tick that the clock shows next   *)
(* is still to come.                                                        *)
TimeoutsExact ==
  pc = "idle" => \A id \in Ids \ deleted :
    LET e == timer_evt_map[id]
        covered == current - Interval - base[e]
        periods == IF covered < 0 THEN 0 ELSE covered \div plan[e][1]
    IN calls[e] = IF plan[e][2] > 0 /\ periods > plan[e][2] THEN plan[e][2] ELSE periods

(* No assertion fails (itimer.c:107): an event is destroyed once.           *)
NeverAsserts == ~asserted
=============================================================================
