------------------------------ MODULE TimerMgr ------------------------------
(***************************************************************************)
(* The timer manager of src/timer_wheel/itimer.c: it turns time stamps in  *)
(* milliseconds into ticks of a timer core, and one-shot timer nodes into  *)
(* periodic events.  The core is the one of TimerSet, whose nodes are the  *)
(* events; TimerWheel shows that the wheel of the code implements it.      *)
(*                                                                         *)
(* itimer_evt_cb runs step by step: it catches up with the periods that    *)
(* have passed, arms the next one, then calls the user back once for each, *)
(* and the user may start, stop, destroy or init any event from there.     *)
(***************************************************************************)
EXTENDS TimerSet

CONSTANTS
  InitStamp, \* the time stamp given to itimer_mgr_init
  Interval,  \* milliseconds in a tick
  Limit,     \* ITIMER_MGR_LIMIT + 64 * Interval: a larger jump of the stamp is not followed
  Cap,       \* 0x70000000: the farthest tick the core is asked for
  Plans,     \* the <<period, repeat>> that users start events with
  Steps,     \* how far a time stamp may be from the last one
  Horizon,   \* bound of the models: no call of itimer_mgr_run past this tick
  MaxCount   \* bound of the models: where the count of a batch saturates

ASSUME IntervalAssumption == Interval \in Jiffies \ {0}
ASSUME StampAssumption == InitStamp \in Jiffies /\ Steps \subseteq Int
ASSUME PlanAssumption == Cap \in Nat /\ Plans \subseteq Jiffies \X Int
ASSUME CountAssumption == MaxCount \in Nat \ {0}

(* The tick the manager comes to at most: itimer_mgr_run is called up to    *)
(* Horizon, and follows a stamp that is Limit ahead.                        *)
MaxTick == Horizon + Limit + 1

(* What TimerMgrProofs assumes of the constants for its theorems on time:   *)
(* until MaxTick neither the clock nor a due time wraps, every event has a  *)
(* period, no tick that is asked for lies half the circle ahead, and the    *)
(* count of a batch does not reach the bound of the models.  Run mgr_wrap   *)
(* shows what happens past the wrap.                                        *)
ClockLasts ==
  /\ Horizon \in Nat /\ Limit \in Nat
  /\ InitStamp + (MaxTick + 1) * Interval <= Word
  /\ Cap > 0 /\ Cap < Word \div 2
  /\ MaxCount >= Interval
Lasts(p) == p > 0 /\ InitStamp + (MaxTick + 1) * Interval + p <= Word

BeforeWrap == ClockLasts /\ \A p \in Plans : Lasts(p[1])

(* And for the one on stamps: itimer_mgr_init was given zero, and a tick is *)
(* short against the limit, which is 64 of them and 300 seconds, and        *)
(* against the circle.                                                      *)
ShortTick == InitStamp = 0 /\ Limit \in Int /\ Interval <= Limit /\ 2 * Interval <= Word \div 2

VARIABLES
  current,  \* mgr: the time the events see
  millisec, \* mgr: the stamp of the next tick
  jiffies,  \* mgr: the next tick
  stamp,    \* the argument of the last itimer_mgr_run, the one of init before
  pc,       \* where the manager is: "idle", "run", "destroyed", and in itimer_evt_cb
            \* "catchup", "arm", "call", or "user" in the user's callback
  count,    \* itimer_evt_cb: callbacks still to make
  stop,     \* itimer_evt_cb: was this the last repetition?
  period, slap, repeat, running, \* evt: fields
  started,  \* evt->mgr is set
  alive,    \* evt is initialised, and not destroyed
  calls,    \* history: callbacks since the event was last started
  base,     \* history: `current' when the event was last started
  plan,     \* history: what the event was last started with
  revoked,  \* history: the user has stopped or destroyed it since
  rewound   \* history: a stamp was before the one before it

mgrVars == <<current, millisec, jiffies, stamp, rewound>>
cbVars == <<count, stop>>
evtVars == <<period, slap, repeat, running, started, alive>>
history == <<calls, base, plan, revoked>>
vars == <<abstractVars, mgrVars, pc, cbVars, evtVars, history>>

Events == Nodes
Signed(x) == IF x % Word < Word \div 2 THEN x % Word ELSE (x % Word) - Word
Armed(e) == due[e] # Never \/ e \in firing

-----------------------------------------------------------------------------
(* itimer_mgr_init: `millisec' starts from zero, whatever the stamp is.     *)
Init ==
  /\ now = 0
  /\ due = [e \in Events |-> Never]
  /\ firing = {}
  /\ cb = None
  /\ current = InitStamp
  /\ millisec = 0
  /\ jiffies = 0
  /\ stamp = InitStamp
  /\ rewound = FALSE
  /\ pc = "idle"
  /\ count = 0
  /\ stop = FALSE
  /\ period = [e \in Events |-> 0]
  /\ slap = [e \in Events |-> 0]
  /\ repeat = [e \in Events |-> 0]
  /\ running = [e \in Events |-> FALSE]
  /\ started = [e \in Events |-> FALSE]
  /\ alive = [e \in Events |-> FALSE]
  /\ calls = [e \in Events |-> 0]
  /\ base = [e \in Events |-> 0]
  /\ plan = [e \in Events |-> <<0, 0>>]
  /\ revoked = [e \in Events |-> TRUE]

-----------------------------------------------------------------------------
(* The operations on events.  The user calls them outside of itimer_mgr_run *)
(* and from callbacks, and may stop and destroy the events of a manager     *)
(* after the manager.                                                       *)
UserRuns == pc \in {"idle", "user", "destroyed"}

(* Mutant: milliseconds taken for ticks.                                    *)
TicksUntilUndivided(s) ==
  LET ticks == (s - current) % Word IN IF ticks >= Cap THEN Cap ELSE ticks

(* Ticks until `current' reaches s: the division rounds up, the subtraction *)
(* wraps.                                                                   *)
TicksUntil(s) ==
  LET ticks == ((s - current + Interval - 1) % Word) \div Interval
  IN IF ticks >= Cap THEN Cap ELSE ticks

(* itimer_evt_init, of an event that is not armed.                          *)
EvtInit(e) ==
  /\ ~Armed(e)
  /\ alive' = [alive EXCEPT ![e] = TRUE]
  /\ period' = [period EXCEPT ![e] = 0]
  /\ slap' = [slap EXCEPT ![e] = 0]
  /\ repeat' = [repeat EXCEPT ![e] = 0]
  /\ running' = [running EXCEPT ![e] = FALSE]
  /\ started' = [started EXCEPT ![e] = FALSE]
  /\ revoked' = [revoked EXCEPT ![e] = TRUE]
  /\ UNCHANGED <<abstractVars, mgrVars, pc, cbVars, calls, base, plan>>

(* itimer_evt_destroy                                                       *)
EvtDestroy(e) ==
  /\ alive[e]
  /\ Disarm(e)
  /\ alive' = [alive EXCEPT ![e] = FALSE]
  /\ period' = [period EXCEPT ![e] = 0]
  /\ slap' = [slap EXCEPT ![e] = 0]
  /\ repeat' = [repeat EXCEPT ![e] = 0]
  /\ running' = [running EXCEPT ![e] = FALSE]
  /\ started' = [started EXCEPT ![e] = FALSE]
  /\ revoked' = [revoked EXCEPT ![e] = TRUE]
  /\ UNCHANGED <<mgrVars, pc, cbVars, calls, base, plan>>

(* Mutant: only stopping an event that is in the manager breaks its batch.  *)
EvtStartKeepsRunning(e, p, r) ==
  /\ alive[e]
  /\ pc # "destroyed"
  /\ period' = [period EXCEPT ![e] = p]
  /\ repeat' = [repeat EXCEPT ![e] = r]
  /\ slap' = [slap EXCEPT ![e] = (current + p) % Word]
  /\ started' = [started EXCEPT ![e] = TRUE]
  /\ running' = [running EXCEPT ![e] = @ /\ ~started[e]]
  /\ Arm(e, (jiffies + TicksUntil((current + p) % Word)) % Word)
  /\ calls' = [calls EXCEPT ![e] = 0]
  /\ base' = [base EXCEPT ![e] = current]
  /\ plan' = [plan EXCEPT ![e] = <<p, r>>]
  /\ revoked' = [revoked EXCEPT ![e] = FALSE]
  /\ UNCHANGED <<mgrVars, pc, cbVars, alive>>

(* itimer_evt_start: a started event is stopped first, which arming it      *)
(* again subsumes.                                                          *)
EvtStart(e, p, r) ==
  /\ alive[e]
  /\ pc # "destroyed"
  /\ period' = [period EXCEPT ![e] = p]
  /\ repeat' = [repeat EXCEPT ![e] = r]
  /\ slap' = [slap EXCEPT ![e] = (current + p) % Word]
  /\ started' = [started EXCEPT ![e] = TRUE]
  /\ running' = [running EXCEPT ![e] = FALSE]
  /\ Arm(e, (jiffies + TicksUntil((current + p) % Word)) % Word)
  /\ calls' = [calls EXCEPT ![e] = 0]
  /\ base' = [base EXCEPT ![e] = current]
  /\ plan' = [plan EXCEPT ![e] = <<p, r>>]
  /\ revoked' = [revoked EXCEPT ![e] = FALSE]
  /\ UNCHANGED <<mgrVars, pc, cbVars, alive>>

(* Mutant: the node stays in the core.                                      *)
EvtStopLeavesNode(e) ==
  /\ alive[e]
  /\ started' = [started EXCEPT ![e] = FALSE]
  /\ running' = [running EXCEPT ![e] = FALSE]
  /\ revoked' = [revoked EXCEPT ![e] = TRUE]
  /\ UNCHANGED <<abstractVars, mgrVars, pc, cbVars, period, slap, repeat, alive, calls,
                 base, plan>>

(* itimer_evt_stop: it also breaks the batch of callbacks it is called from, *)
(* though the event may have been taken out of the manager already.         *)
EvtStop(e) ==
  /\ alive[e]
  /\ IF started[e] THEN Disarm(e) ELSE UNCHANGED abstractVars
  /\ started' = [started EXCEPT ![e] = FALSE]
  /\ running' = [running EXCEPT ![e] = FALSE]
  /\ revoked' = [revoked EXCEPT ![e] = TRUE]
  /\ UNCHANGED <<mgrVars, pc, cbVars, period, slap, repeat, alive, calls, base, plan>>

User ==
  /\ UserRuns
  /\ \E e \in Events :
       \/ EvtInit(e) \/ EvtDestroy(e) \/ EvtStop(e)
       \/ \E p \in Plans : EvtStart(e, p[1], p[2])

-----------------------------------------------------------------------------
(* itimer_mgr_run(m), up to its loop.  A jump of the stamp by more than the *)
(* limit, either way, is not caught up with.                                *)
MgrRun(m) ==
  /\ pc = "idle"
  /\ pc' = "run"
  /\ stamp' = m
  /\ rewound' = (rewound \/ ~NotBefore(m, stamp))
  /\ millisec' = LET diff == Signed(m - millisec)
                 IN IF diff > Limit \/ diff < -Limit THEN m ELSE millisec
  /\ UNCHANGED <<abstractVars, current, jiffies, cbVars, evtVars, history>>

BetweenCallbacks == pc = "run" /\ cb = None /\ firing = {}
(* Mutant: one turn too many.                                               *)
StampReachedEarly == NotBefore(stamp + Interval, millisec)
StampReached == NotBefore(stamp, millisec)
CoreBehind == NotBefore(jiffies, now)

(* itimer_core_run(jiffies) has a tick to process: it takes its nodes.      *)
CoreTick ==
  /\ BetweenCallbacks
  /\ StampReached
  /\ CoreBehind
  /\ Tick
  /\ UNCHANGED <<mgrVars, pc, cbVars, evtVars, history>>

(* It calls a node back: itimer_evt_cb begins.                              *)
CbBegin(e) ==
  /\ pc = "run"
  /\ Fire(e)
  /\ pc' = "catchup"
  /\ count' = 0
  /\ stop' = FALSE
  /\ UNCHANGED <<mgrVars, evtVars, history>>

(* Mutants: the repetitions left are tested after they were counted down;   *)
(* one period at most is caught up with; the next period is not computed.   *)
LastRepeatCountedDown(e) == repeat[e] \in {1, 2}
LastRepeat(e) == repeat[e] = 1

CatchUpOnce ==
  /\ pc = "catchup"
  /\ current >= slap[cb]
  /\ count' = IF count = MaxCount THEN MaxCount ELSE count + 1
  /\ slap' = [slap EXCEPT ![cb] = (@ + period[cb]) % Word]
  /\ stop' = LastRepeat(cb)
  /\ repeat' = [repeat EXCEPT ![cb] = IF @ > 1 THEN @ - 1 ELSE @]
  /\ pc' = "arm"
  /\ UNCHANGED <<abstractVars, mgrVars, period, running, started, alive, history>>

CatchUpInPlace ==
  /\ pc = "catchup"
  /\ current >= slap[cb]
  /\ count' = IF count = MaxCount THEN MaxCount ELSE count + 1
  /\ stop' = LastRepeat(cb)
  /\ repeat' = [repeat EXCEPT ![cb] = IF @ > 1 THEN @ - 1 ELSE @]
  /\ pc' = IF LastRepeat(cb) THEN "arm" ELSE "catchup"
  /\ UNCHANGED <<abstractVars, mgrVars, period, slap, running, started, alive, history>>

(* One turn of the loop of itimer_evt_cb over the periods that have passed. *)
CatchUp ==
  /\ pc = "catchup"
  /\ current >= slap[cb]
  /\ count' = IF count = MaxCount THEN MaxCount ELSE count + 1
  /\ slap' = [slap EXCEPT ![cb] = (@ + period[cb]) % Word]
  /\ stop' = LastRepeat(cb)
  /\ repeat' = [repeat EXCEPT ![cb] = IF @ > 1 THEN @ - 1 ELSE @]
  /\ pc' = IF LastRepeat(cb) THEN "arm" ELSE "catchup"
  /\ UNCHANGED <<abstractVars, mgrVars, period, running, started, alive, history>>

CaughtUp ==
  /\ pc = "catchup"
  /\ current < slap[cb]
  /\ pc' = "arm"
  /\ UNCHANGED <<abstractVars, mgrVars, cbVars, evtVars, history>>

(* The next tick of the event is armed, or the event leaves the manager     *)
(* after its last repetition; the batch of callbacks begins.                *)
ArmNext ==
  /\ pc = "arm"
  /\ IF stop THEN Disarm(cb) ELSE Arm(cb, (jiffies + TicksUntil(slap[cb])) % Word)
  /\ started' = [started EXCEPT ![cb] = ~stop]
  /\ running' = [running EXCEPT ![cb] = TRUE]
  /\ pc' = "call"
  /\ UNCHANGED <<mgrVars, cbVars, period, slap, repeat, alive, history>>

(* One callback of the batch, unless the one before revoked it.             *)
(* Mutant: the flag is not tested.                                          *)
BatchGoesOnRevoked == count > 0 /\ alive[cb]
BatchGoesOn == count > 0 /\ running[cb] /\ alive[cb]

CallUser ==
  /\ pc = "call"
  /\ BatchGoesOn
  /\ pc' = "user"
  /\ calls' = [calls EXCEPT ![cb] = @ + 1]
  /\ UNCHANGED <<abstractVars, mgrVars, cbVars, evtVars, base, plan, revoked>>

UserReturns ==
  /\ pc = "user"
  /\ pc' = "call"
  /\ count' = count - 1
  /\ UNCHANGED <<abstractVars, mgrVars, stop, evtVars, history>>

CbEnd ==
  /\ pc = "call"
  /\ ~BatchGoesOn
  /\ running' = [running EXCEPT ![cb] = FALSE]
  /\ Return
  /\ pc' = "run"
  /\ UNCHANGED <<mgrVars, cbVars, period, slap, repeat, started, alive, history>>

(* The core is up to date: the clocks of the manager move on by one tick.   *)
Advance ==
  /\ BetweenCallbacks
  /\ StampReached
  /\ ~CoreBehind
  /\ jiffies' = (jiffies + 1) % Word
  /\ current' = (current + Interval) % Word
  /\ millisec' = (millisec + Interval) % Word
  /\ UNCHANGED <<abstractVars, stamp, rewound, pc, cbVars, evtVars, history>>

MgrRunEnds ==
  /\ BetweenCallbacks
  /\ ~StampReached
  /\ pc' = "idle"
  /\ UNCHANGED <<abstractVars, mgrVars, cbVars, evtVars, history>>

Loop ==
  \/ CoreTick \/ (\E e \in Events : CbBegin(e)) \/ CatchUp \/ CaughtUp \/ ArmNext
  \/ CallUser \/ UserReturns \/ CbEnd \/ Advance \/ MgrRunEnds

(* itimer_mgr_destroy: the nodes leave the core, the events learn nothing.  *)
MgrDestroy ==
  /\ pc = "idle"
  /\ pc' = "destroyed"
  /\ DisarmAll
  /\ UNCHANGED <<mgrVars, cbVars, evtVars, history>>

Runs == jiffies <= Horizon /\ \E s \in Steps : MgrRun((stamp + s) % Word)

Next == User \/ Runs \/ Loop \/ MgrDestroy

Spec == Init /\ [][Next]_vars

(* itimer_mgr_run is sequential code, and the user's callbacks return.      *)
FairSpec == Spec /\ WF_vars(Loop)

-----------------------------------------------------------------------------
MgrTypeOK ==
  /\ AbstractTypeOK
  /\ {current, millisec, jiffies, stamp} \subseteq Jiffies
  /\ pc \in {"idle", "run", "catchup", "arm", "call", "user", "destroyed"}
  /\ count \in 0 .. MaxCount /\ stop \in BOOLEAN
  /\ period \in [Events -> Jiffies] /\ slap \in [Events -> Jiffies]
  /\ repeat \in [Events -> Int]
  /\ running \in [Events -> BOOLEAN]
  /\ started \in [Events -> BOOLEAN]
  /\ alive \in [Events -> BOOLEAN]
  /\ revoked \in [Events -> BOOLEAN]
  /\ calls \in [Events -> Nat]

(* The manager and the core tell the same tick: outside of itimer_mgr_run   *)
(* both wait for it, and inside the core is at most that tick ahead.        *)
InStep ==
  /\ pc = "idle" => now = jiffies
  /\ now \in {jiffies, (jiffies + 1) % Word}
  /\ cb # None => now = (jiffies + 1) % Word

(* An event has a node in the core exactly while evt->mgr is set, which     *)
(* itimer_evt_cb follows (line 324): no event that was started is lost, and *)
(* no event that was stopped or destroyed is left armed.                    *)
ArmedIffStarted ==
  \A e \in Events :
    /\ Armed(e) => alive[e] /\ started[e]
    /\ started[e] => alive[e]
    /\ started[e] /\ pc # "destroyed" =>
         Armed(e) \/ (cb = e /\ pc \in {"catchup", "arm"})

(* The k-th callback of an event comes no earlier than k periods after its  *)
(* start, on the manager's clock: also when a batch is broken by a restart, *)
(* whose callbacks count from the restart.                                  *)
NeverEarly ==
  \A e \in Events : calls[e] * plan[e][1] <= current - base[e]

(* When itimer_mgr_run has returned no callback of a started event is       *)
(* missing, however many periods one tick covered, and periods do not       *)
(* drift: the next one is due a whole number of periods after the start.    *)
NoneMissed ==
  pc = "idle" => \A e \in Events : started[e] =>
    /\ slap[e] = base[e] + (calls[e] + 1) * plan[e][1]
    /\ slap[e] > current - Interval

(* An event started with repeat = n > 0 and never stopped is called back n  *)
(* times in all: it is in the manager until the last one, and not after.    *)
RepeatsExactly ==
  \A e \in Events : ~revoked[e] /\ plan[e][2] > 0 =>
    /\ calls[e] <= plan[e][2]
    /\ pc = "idle" => (started[e] <=> calls[e] < plan[e][2])

(* No callback after a stop or a destroy, though it came from within the    *)
(* batch of callbacks that is under way, or from another event's callback   *)
(* in the same tick.                                                        *)
RevokedStaysQuiet ==
  [][\A e \in Events : calls'[e] > calls[e] => ~revoked[e]]_vars

(* An event that repeats forever (itimer.h:322) is armed within its period, *)
(* rounded up to ticks, whenever itimer_mgr_run has returned.               *)
InfiniteRepeats ==
  pc = "idle" => \A e \in Events : started[e] /\ plan[e][2] <= 0 =>
    (due[e] - now) % Word <= (period[e] + Interval - 1) \div Interval

(* The time the events see is not more than a tick ahead of the stamp the   *)
(* manager was last given, unless the stamps have gone back: if it was      *)
(* initialised with stamp zero, which itimer_mgr_init takes every stamp for *)
(* (line 286).                                                              *)
ClockNotAhead == pc = "idle" /\ ~rewound => Signed(current - stamp) <= Interval

(* itimer_mgr_run returns: catching up with missed periods ends, and so     *)
(* does the batch of callbacks, whatever they start and stop.               *)
MgrRunReturns == pc = "run" ~> pc = "idle"
=============================================================================
