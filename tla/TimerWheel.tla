----------------------------- MODULE TimerWheel -----------------------------
(***************************************************************************)
(* The hierarchical timer wheel of src/timer_wheel/itimer.c: five vectors  *)
(* of lists of nodes, tv1 with RSize slots and tv2..tv5 with NSize, the    *)
(* cascade from a coarse vector to finer ones, and the update loop that    *)
(* calls nodes back.  A node is in at most one list, so the lists are      *)
(* `loc', the list each node is linked in; the order of a list, which the  *)
(* code promises nothing about, is left open.  The code has RSize = 2^8,   *)
(* NSize = 2^6 and shifts and masks; here the sizes are parameters and the *)
(* shifts are divisions.  In both the word is exactly as wide as the five  *)
(* vectors: 2^(8+4*6) = 2^32.                                              *)
(***************************************************************************)
EXTENDS Integers

CONSTANTS Nodes,      \* the timer nodes
          RSize,      \* ITVR_SIZE, slots of tv1
          NSize,      \* ITVN_SIZE, slots of tv2..tv5
          AddOffsets, \* the expires - timer_jiffies that callers ask for
          RunOffsets  \* the jiffies - timer_jiffies that callers run to

Word == RSize * NSize * NSize * NSize * NSize
Jiffies == 0 .. Word - 1

(* Three slots are what it takes for tv5 to be reachable below the sign bit. *)
ASSUME SizeAssumption == RSize \in Nat \ {0} /\ NSize \in Nat \ {0, 1, 2}
ASSUME OffsetAssumption == AddOffsets \subseteq Jiffies /\ RunOffsets \subseteq Jiffies

None == "none"  \* no callback is running
ASSUME NoneAssumption == None \notin Nodes

VARIABLES timer_jiffies, \* core: the next tick to process
          expires,       \* node: the tick asked for
          state,         \* node: "OK", or "BAD" before init and after destroy
          loc,           \* node->head: the list it is linked in
          core,          \* node->core: is it set (not NULL)?
          pc,            \* "idle", or "update" inside itimer_core_run
          target,        \* the argument of that itimer_core_run
          cb             \* the node whose callback is running, or None

nodeVars == <<expires, state, loc, core>>
runVars == <<pc, target, cb>>
vars == <<timer_jiffies, nodeVars, runVars>>

-----------------------------------------------------------------------------
(* Lists: a slot of a vector, the local list `queued' of the update loop, or *)
(* none, when node->head points to itself.                                   *)
Levels == 1 .. 5
Size(k) == IF k = 1 THEN RSize ELSE NSize
Slots == {s \in Levels \X (0 .. RSize + NSize) : s[2] < Size(s[1])}
Queued == <<0, 0>>
Out == <<0, 1>>
Places == Slots \cup {Queued, Out}

(* Ticks per slot of a vector: 1 << (ITVR_BITS + (k-2) * ITVN_BITS).        *)
Unit(k) == IF k = 1 THEN 1
           ELSE IF k = 2 THEN RSize
           ELSE IF k = 3 THEN RSize * NSize
           ELSE IF k = 4 THEN RSize * NSize * NSize
           ELSE RSize * NSize * NSize * NSize

SlotOf(k, j) == <<k, (j \div Unit(k)) % Size(k)>>

(* (int32)(a - b) >= 0                                                      *)
NotBefore(a, b) == (a - b) % Word < Word \div 2

(* The finest vector that reaches idx ticks ahead.                          *)
LevelOf(idx) == IF idx < Unit(2) THEN 1
                ELSE IF idx < Unit(3) THEN 2
                ELSE IF idx < Unit(4) THEN 3
                ELSE IF idx < Unit(5) THEN 4
                ELSE 5

(* Mutants: <= for < in the first test; no test of the sign; what is late   *)
(* goes straight to the list being called back.                             *)
PlaceFarInRoot(e, j) ==
  LET idx == (e - j) % Word
  IN IF idx >= Unit(5) /\ ~NotBefore(e, j) THEN SlotOf(1, j)
     ELSE SlotOf(IF idx <= Unit(2) THEN 1 ELSE LevelOf(idx), e)
PlaceLateAnywhere(e, j) == SlotOf(LevelOf((e - j) % Word), e)
PlaceLateAtOnce(e, j) ==
  IF NotBefore(e, j) THEN SlotOf(LevelOf((e - j) % Word), e) ELSE Queued

(* itimer_internal_add: the list for a node that expires at e, at tick j.   *)
(* A tick of the past, which no vector but tv5 would hold, is the next one. *)
Place(e, j) ==
  LET idx == (e - j) % Word
  IN IF idx >= Unit(5) /\ ~NotBefore(e, j) THEN SlotOf(1, j) ELSE SlotOf(LevelOf(idx), e)

(* Mutant: tv5 is forgotten.                                                *)
CascadedButTv5(j) ==
  {SlotOf(k, j) : k \in {l \in 2 .. 4 : \A m \in 1 .. l - 1 : SlotOf(m, j) = <<m, 0>>}}

(* The slots that the update of tick j cascades: tv2's when tick j begins a *)
(* round of tv1, tv3's when it also begins a round of tv2, and so on.       *)
Cascaded(j) ==
  {SlotOf(k, j) : k \in {l \in 2 .. 5 : \A m \in 1 .. l - 1 : SlotOf(m, j) = <<m, 0>>}}

(* Cascading a node puts it where adding it now would.                      *)
AfterCascade(n) ==
  IF loc[n] \in Cascaded(timer_jiffies) THEN Place(expires[n], timer_jiffies) ELSE loc[n]

Pending(n) == loc[n] # Out
InWheel(n) == loc[n] \in Slots

-----------------------------------------------------------------------------
Init ==
  /\ timer_jiffies \in Jiffies
  /\ expires = [n \in Nodes |-> 0]
  /\ state = [n \in Nodes |-> "BAD"]
  /\ loc = [n \in Nodes |-> Out]
  /\ core = [n \in Nodes |-> FALSE]
  /\ pc = "idle"
  /\ target = 0
  /\ cb = None

(* Callers run between updates, and inside the callbacks of an update.      *)
CallerRuns == pc = "idle" \/ cb # None

(* itimer_node_init, of a node that is in no list: new, destroyed or idle.  *)
NodeInit(n) ==
  /\ CallerRuns
  /\ ~Pending(n)
  /\ expires' = [expires EXCEPT ![n] = 0]
  /\ state' = [state EXCEPT ![n] = "OK"]
  /\ loc' = [loc EXCEPT ![n] = Out]
  /\ core' = [core EXCEPT ![n] = FALSE]
  /\ UNCHANGED <<timer_jiffies, runVars>>

(* Mutant: the node is not unlinked.                                        *)
NodeDestroyLinked(n) ==
  /\ CallerRuns
  /\ state[n] = "OK"
  /\ expires' = [expires EXCEPT ![n] = 0]
  /\ state' = [state EXCEPT ![n] = "BAD"]
  /\ UNCHANGED <<timer_jiffies, loc, core, runVars>>

(* itimer_node_destroy                                                      *)
NodeDestroy(n) ==
  /\ CallerRuns
  /\ state[n] = "OK"
  /\ expires' = [expires EXCEPT ![n] = 0]
  /\ state' = [state EXCEPT ![n] = "BAD"]
  /\ loc' = [loc EXCEPT ![n] = Out]
  /\ core' = [core EXCEPT ![n] = FALSE]
  /\ UNCHANGED <<timer_jiffies, runVars>>

(* itimer_node_add: unlink the node if it is pending, link it where it      *)
(* belongs.  itimer_node_mod is itimer_node_del then itimer_node_add, and   *)
(* has the same effect.                                                     *)
NodeAdd(n, e) ==
  /\ CallerRuns
  /\ state[n] = "OK"
  /\ expires' = [expires EXCEPT ![n] = e]
  /\ loc' = [loc EXCEPT ![n] = Place(e, timer_jiffies)]
  /\ core' = [core EXCEPT ![n] = TRUE]
  /\ UNCHANGED <<timer_jiffies, state, runVars>>

(* itimer_node_del                                                          *)
NodeDel(n) ==
  /\ CallerRuns
  /\ state[n] = "OK"
  /\ Pending(n)
  /\ loc' = [loc EXCEPT ![n] = Out]
  /\ core' = [core EXCEPT ![n] = FALSE]
  /\ UNCHANGED <<timer_jiffies, expires, state, runVars>>

(* itimer_core_destroy: unlinks what is in the vectors, not the local list  *)
(* of an update that called back the destroyer.                             *)
CoreDestroy ==
  /\ CallerRuns
  /\ \E n \in Nodes : InWheel(n)
  /\ loc' = [n \in Nodes |-> IF InWheel(n) THEN Out ELSE loc[n]]
  /\ core' = [n \in Nodes |-> core[n] /\ ~InWheel(n)]
  /\ UNCHANGED <<timer_jiffies, expires, state, runVars>>

(* itimer_core_run is called                                                *)
Run(j) ==
  /\ pc = "idle"
  /\ pc' = "update"
  /\ target' = j
  /\ UNCHANGED <<timer_jiffies, nodeVars, cb>>

QueueEmpty == \A n \in Nodes : loc[n] # Queued

(* One turn of the loop of itimer_internal_update, up to the callbacks.     *)
Update ==
  /\ pc = "update"
  /\ cb = None
  /\ QueueEmpty
  /\ NotBefore(target, timer_jiffies)
  /\ loc' = [n \in Nodes |-> IF AfterCascade(n) = SlotOf(1, timer_jiffies)
                             THEN Queued ELSE AfterCascade(n)]
  /\ timer_jiffies' = (timer_jiffies + 1) % Word
  /\ UNCHANGED <<expires, state, core, runVars>>

(* A node is taken from `queued' and called back.  (A destroyed node has no *)
(* callback to call.)                                                       *)
Fire(n) ==
  /\ pc = "update"
  /\ cb = None
  /\ loc[n] = Queued
  /\ loc' = [loc EXCEPT ![n] = Out]
  /\ core' = [core EXCEPT ![n] = FALSE]
  /\ cb' = IF state[n] = "OK" THEN n ELSE None
  /\ UNCHANGED <<timer_jiffies, expires, state, pc, target>>

(* The callback returns.                                                    *)
Return ==
  /\ cb # None
  /\ cb' = None
  /\ UNCHANGED <<timer_jiffies, nodeVars, pc, target>>

(* The loop of itimer_internal_update ends.                                 *)
Done ==
  /\ pc = "update"
  /\ cb = None
  /\ QueueEmpty
  /\ ~NotBefore(target, timer_jiffies)
  /\ pc' = "idle"
  /\ target' = 0
  /\ UNCHANGED <<timer_jiffies, nodeVars, cb>>

Caller ==
  \/ \E n \in Nodes : NodeInit(n) \/ NodeDestroy(n) \/ NodeDel(n)
  \/ \E n \in Nodes, o \in AddOffsets : NodeAdd(n, (timer_jiffies + o) % Word)
  \/ CoreDestroy

Loop == Update \/ (\E n \in Nodes : Fire(n)) \/ Return \/ Done

Next == Caller \/ (\E o \in RunOffsets : Run((timer_jiffies + o) % Word)) \/ Loop

Spec == Init /\ [][Next]_vars

(* The update loop is plain sequential code: it runs on as long as the      *)
(* callbacks return.                                                        *)
FairSpec == Spec /\ WF_vars(Loop)

-----------------------------------------------------------------------------
TypeOK ==
  /\ timer_jiffies \in Jiffies
  /\ expires \in [Nodes -> Jiffies]
  /\ state \in [Nodes -> {"OK", "BAD"}]
  /\ loc \in [Nodes -> Places]
  /\ core \in [Nodes -> BOOLEAN]
  /\ pc \in {"idle", "update"}
  /\ target \in Jiffies
  /\ cb \in Nodes \cup {None}

(* A node is linked exactly when it knows its core: the cascade may follow  *)
(* node->core (line 223) and itimer_node_del may assert it (line 153); and a *)
(* node is taken out of every list before it is declared dead.              *)
LinkedHasCore ==
  \A n \in Nodes : /\ Pending(n) <=> core[n]
                   /\ Pending(n) => state[n] = "OK"

(* Nodes wait in the update's local list only while that update calls its   *)
(* nodes back: none is left there when it returns.                          *)
QueuedOnlyInUpdate == pc = "idle" => QueueEmpty /\ cb = None

(* Where a node that expires at e may be when tick j comes next: in a slot  *)
(* numbered by e of a vector k that has still to reach it, so that the      *)
(* cascade, or tick e itself, finds it in the right slot and not a round    *)
(* earlier or later.  Wait counts from the start of the slot of tick j - 1. *)
Wait(k, e, j) == ((j - 1) % Unit(k)) + ((e - j) % Word) + 1

OnCourse(place, e, j) ==
  IF NotBefore(e, j)
  THEN \E k \in Levels : /\ place = SlotOf(k, e)
                         /\ Unit(k) <= Wait(k, e, j)
                         /\ Wait(k, e, j) < Unit(k) * (Size(k) + 1)
  ELSE place = SlotOf(1, j)

(* Every node of the wheel is on course: the inductive invariant behind the *)
(* properties below.                                                        *)
InReach == \A n \in Nodes : InWheel(n) => OnCourse(loc[n], expires[n], timer_jiffies)

(* No node is left behind: a node in the wheel is due now or later, or is a *)
(* late arrival that waits in the slot of the next tick.                    *)
NoneLeftBehind ==
  \A n \in Nodes : InWheel(n) =>
    \/ NotBefore(expires[n], timer_jiffies)
    \/ loc[n] = SlotOf(1, timer_jiffies)

(* The update of a tick takes a node out of the wheel only at the tick it   *)
(* asked for, or at once when it asked too late; whatever the callbacks do, *)
(* and across every cascade and the wrap of the clock.                      *)
OnTime ==
  [][\A n \in Nodes : InWheel(n) /\ loc'[n] = Queued =>
       expires[n] = timer_jiffies \/ ~NotBefore(expires[n], timer_jiffies)]_vars

(* The tick a node of the wheel will be called back at.                     *)
dueOf == [n \in Nodes |->
            IF ~InWheel(n) THEN -1
            ELSE IF NotBefore(expires[n], timer_jiffies) THEN expires[n] ELSE timer_jiffies]

Abstract == INSTANCE TimerSet
  WITH now <- timer_jiffies, due <- dueOf, firing <- {n \in Nodes : loc[n] = Queued}

(* The wheel implements the set of armed timers: every node is called back  *)
(* in the update of the very tick it is due at, unless it was deleted,      *)
(* destroyed or moved before, be it by an earlier callback of that tick.    *)
ImplementsTimerSet == Abstract!AbstractSpec

(* itimer_core_run returns: callbacks that re-arm their own or other nodes, *)
(* even for ticks already past, cannot keep the loop going.                 *)
RunReturns == pc = "update" ~> pc = "idle"
=============================================================================
