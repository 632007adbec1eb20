------------------------------ MODULE TimerSet ------------------------------
(***************************************************************************)
(* What a timer core promises, with no wheel: the set of armed timers, the *)
(* tick each one is due at, and a clock that advances tick by tick.  It is *)
(* the abstract specification of src/timer_wheel/itimer.c (module          *)
(* TimerWheel implements it), and the timer core that module TimerMgr      *)
(* builds the timer manager on.                                            *)
(***************************************************************************)
EXTENDS Integers

CONSTANTS Nodes, \* the timer nodes
          Word   \* the clock counts modulo Word: 2^32 in the code

ASSUME WordAssumption == Word \in Nat \ {0, 1}

None == "none"   \* no callback is running
Never == -1      \* the due tick of a timer that is not armed

ASSUME NoneAssumption == None \notin Nodes

Jiffies == 0 .. Word - 1

VARIABLES now,    \* the next tick to be processed
          due,    \* the tick each node is due at, or Never
          firing, \* the nodes of the tick being processed, yet to be called back
          cb      \* the node whose callback is running, or None

abstractVars == <<now, due, firing, cb>>

AbstractTypeOK ==
  /\ now \in Jiffies
  /\ due \in [Nodes -> Jiffies \cup {Never}]
  /\ firing \subseteq Nodes
  /\ cb \in Nodes \cup {None}

(* (int32)(e - j) >= 0: e is not before j on the circle of Word ticks.      *)
NotBefore(e, j) == (e - j) % Word < Word \div 2

AbstractInit ==
  /\ now \in Jiffies
  /\ due = [n \in Nodes |-> Never]
  /\ firing = {}
  /\ cb = None

(* Arm or re-arm a node.  A tick of the past means the next tick.           *)
Arm(n, e) ==
  /\ due' = [due EXCEPT ![n] = IF NotBefore(e, now) THEN e ELSE now]
  /\ firing' = firing \ {n}
  /\ UNCHANGED <<now, cb>>

(* Disarm a node, which may already be among those of the current tick.     *)
Disarm(n) ==
  /\ due' = [due EXCEPT ![n] = Never]
  /\ firing' = firing \ {n}
  /\ UNCHANGED <<now, cb>>

(* Empty the core.  Nodes already taken for the current tick are not in it. *)
DisarmAll ==
  /\ due' = [n \in Nodes |-> Never]
  /\ UNCHANGED <<now, firing, cb>>

(* Process tick `now': take exactly the nodes that are due at it.           *)
Tick ==
  /\ firing = {}
  /\ cb = None
  /\ firing' = {n \in Nodes : due[n] = now}
  /\ due' = [n \in Nodes |-> IF due[n] = now THEN Never ELSE due[n]]
  /\ now' = (now + 1) % Word
  /\ UNCHANGED cb

Fire(n) ==
  /\ cb = None
  /\ n \in firing
  /\ firing' = firing \ {n}
  /\ cb' = n
  /\ UNCHANGED <<now, due>>

Return ==
  /\ cb # None
  /\ cb' = None
  /\ UNCHANGED <<now, due, firing>>

AbstractNext ==
  \/ \E n \in Nodes : Disarm(n) \/ Fire(n) \/ \E e \in Jiffies : Arm(n, e)
  \/ DisarmAll \/ Tick \/ Return

AbstractSpec == AbstractInit /\ [][AbstractNext]_abstractVars
=============================================================================
