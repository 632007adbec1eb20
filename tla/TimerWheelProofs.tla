-------------------------- MODULE TimerWheelProofs --------------------------
(***************************************************************************)
(* Proofs about the timer core, for wheels of any size: its structure      *)
(* (types, links and the local list of the update); time (InReach is       *)
(* inductive: every node is called back at its tick); and that the wheel   *)
(* implements the set of armed timers.                                     *)
(***************************************************************************)
EXTENDS TimerWheel, DivMod

(* The clock has at least one tick.                                         *)
LEMMA WordNat == Word \in Nat \ {0}
  BY SizeAssumption DEF Word

(* A slot of a vector has at least one tick.                                *)
LEMMA UnitNat == \A k \in Levels : Unit(k) \in Nat \ {0}
  BY SizeAssumption DEF Unit, Levels

(* A vector has at least one slot, and the slots are within Slots.          *)
LEMMA SizeNat == \A k \in Levels : Size(k) \in Nat \ {0} /\ Size(k) <= RSize + NSize
  BY SizeAssumption DEF Size

(* A tick has a slot in each vector: the mask keeps within it.              *)
LEMMA SlotOfSlot ==
  ASSUME NEW k \in Levels, NEW j \in Jiffies
  PROVE  SlotOf(k, j) \in Slots
<1> DEFINE q == j \div Unit(k)
<1> j \in Int
  BY WordNat DEF Jiffies
<1>1. q \in Int
  BY UnitNat, DivInt
<1> HIDE DEF q
<1>2. q % Size(k) \in 0 .. Size(k) - 1
  BY <1>1, SizeNat, ModRange
<1>3. SlotOf(k, j) = <<k, q % Size(k)>>
  BY DEF SlotOf, q
<1> QED
  BY <1>2, <1>3, SizeNat, SizeAssumption DEF Slots

(* itimer_internal_add links a node in a slot of the wheel.                 *)
LEMMA PlaceSlot ==
  ASSUME NEW e \in Jiffies, NEW j \in Jiffies
  PROVE  Place(e, j) \in Slots
<1> DEFINE idx == (e - j) % Word
<1>1. LevelOf(idx) \in Levels
  BY DEF LevelOf, Levels
<1>2. 1 \in Levels
  BY DEF Levels
<1> QED
  BY <1>1, <1>2, SlotOfSlot DEF Place

(* A slot is not the local list of an update, nor is it no list.            *)
LEMMA SlotsAreNotLocal == Queued \notin Slots /\ Out \notin Slots /\ Queued # Out
  BY DEF Slots, Levels, Queued, Out

(* What wraps is on the clock.                                              *)
LEMMA WrapJiffies ==
  ASSUME NEW a \in Int
  PROVE  a % Word \in Jiffies
  BY WordNat, ModRange DEF Jiffies

(* The clock has a tick 0.                                                  *)
LEMMA ZeroJiffies == 0 \in Jiffies
  BY WordNat DEF Jiffies

-----------------------------------------------------------------------------
(* Structure: what does not depend on where in the wheel a node is.         *)
Structure == TypeOK /\ LinkedHasCore /\ QueuedOnlyInUpdate

(* The structure holds of an initialised core.                              *)
LEMMA StructureInit == Init => Structure
  BY ZeroJiffies DEF Init, Structure, TypeOK, LinkedHasCore, QueuedOnlyInUpdate, QueueEmpty,
     Pending, Places, Queued, Out

(* Every operation, and every turn of the update loop, keeps the structure. *)
LEMMA StructureStep == Structure /\ [Next]_vars => Structure'
<1> SUFFICES ASSUME Structure, [Next]_vars
             PROVE  Structure'
  OBVIOUS
<1>0. \A o \in Jiffies : (timer_jiffies + o) % Word \in Jiffies
  BY WordNat, WrapJiffies DEF Jiffies, Structure, TypeOK
<1> USE DEF Structure, TypeOK, LinkedHasCore, QueuedOnlyInUpdate, QueueEmpty, Pending,
            nodeVars, runVars
<1>1. ASSUME NEW n \in Nodes, NodeInit(n)
      PROVE  Structure'
  BY <1>1, ZeroJiffies DEF NodeInit, Places
<1>2. ASSUME NEW n \in Nodes, NodeDestroy(n)
      PROVE  Structure'
  BY <1>2, ZeroJiffies, SlotsAreNotLocal DEF NodeDestroy, Places
<1>3. ASSUME NEW n \in Nodes, NEW e \in Jiffies, NodeAdd(n, e)
      PROVE  Structure'
  BY <1>3, PlaceSlot, SlotsAreNotLocal DEF NodeAdd, Places
<1>4. ASSUME NEW n \in Nodes, NodeDel(n)
      PROVE  Structure'
  BY <1>4, SlotsAreNotLocal DEF NodeDel, Places
<1>5. ASSUME CoreDestroy
      PROVE  Structure'
  BY <1>5, SlotsAreNotLocal DEF CoreDestroy, Places, InWheel
<1>6. ASSUME NEW j \in Jiffies, Run(j)
      PROVE  Structure'
  BY <1>6 DEF Run
<1>7. ASSUME Update
      PROVE  Structure'
  <2>1. \A n \in Nodes : AfterCascade(n) \in Places
    BY PlaceSlot DEF AfterCascade, Places
  <2>2. \A n \in Nodes : AfterCascade(n) = Out <=> loc[n] = Out
    <3> SUFFICES ASSUME NEW n \in Nodes, loc[n] \in Cascaded(timer_jiffies)
                 PROVE  loc[n] # Out /\ Place(expires[n], timer_jiffies) # Out
      BY DEF AfterCascade
    <3>1. Cascaded(timer_jiffies) \subseteq Slots
      <4> SUFFICES ASSUME NEW k \in 2 .. 5
                   PROVE  SlotOf(k, timer_jiffies) \in Slots
        BY DEF Cascaded
      <4>1. k \in Levels
        BY DEF Levels
      <4> QED
        BY <4>1, SlotOfSlot
    <3>2. Place(expires[n], timer_jiffies) \in Slots
      BY PlaceSlot
    <3> QED
      BY <3>1, <3>2, SlotsAreNotLocal
  <2>3. (timer_jiffies + 1) % Word \in Jiffies
    <3>1. timer_jiffies + 1 \in Int
      BY WordNat DEF Jiffies
    <3> QED
      BY <3>1, WrapJiffies
  <2>4. pc = "update" /\ pc' = "update"
    BY <1>7 DEF Update
  <2>5. \A n \in Nodes : loc'[n] \in Places /\ (loc'[n] = Out <=> loc[n] = Out)
    <3>1. 1 \in Levels
      BY DEF Levels
    <3>2. SlotOf(1, timer_jiffies) \in Slots
      BY <3>1, SlotOfSlot
    <3>3. \A n \in Nodes : loc'[n] = IF AfterCascade(n) = SlotOf(1, timer_jiffies)
                                     THEN Queued ELSE AfterCascade(n)
      BY <1>7 DEF Update
    <3> QED
      BY <2>1, <2>2, <3>2, <3>3, SlotsAreNotLocal DEF Places
  <2>6. loc' \in [Nodes -> Places]
    BY <1>7, <2>5 DEF Update
  <2>7. TypeOK'
    BY <1>7, <2>3, <2>6 DEF Update
  <2> QED
    BY <1>7, <2>4, <2>5, <2>7 DEF Update
<1>8. ASSUME NEW n \in Nodes, Fire(n)
      PROVE  Structure'
  BY <1>8, SlotsAreNotLocal DEF Fire, Places
<1>9. ASSUME Return
      PROVE  Structure'
  BY <1>9 DEF Return
<1>10. ASSUME Done
       PROVE  Structure'
  BY <1>10, ZeroJiffies DEF Done
<1>11. CASE UNCHANGED vars
  BY <1>11 DEF vars
<1> HIDE DEF Structure, TypeOK, LinkedHasCore, QueuedOnlyInUpdate, QueueEmpty, Pending,
             nodeVars, runVars
<1> QED
  BY <1>1, <1>2, <1>3, <1>4, <1>5, <1>6, <1>7, <1>8, <1>9, <1>10, <1>11, <1>0,
     OffsetAssumption DEF Next, Caller, Loop

(* The structure of the core, for wheels of any size: a node is linked      *)
(* exactly when it knows its core and only while it is alive, and the local *)
(* list of itimer_internal_update is empty outside of it.                   *)
THEOREM StructureTheorem == Spec => []Structure
<1> QED
  BY StructureInit, StructureStep, PTL DEF Spec

(* The variables keep their types.                                          *)
THEOREM TypeCorrect == Spec => []TypeOK
<1>1. Structure => TypeOK
  BY DEF Structure
<1> QED
  BY <1>1, StructureTheorem, PTL

(* node->core is set whenever the cascade follows it, or itimer_node_del    *)
(* asserts it.                                                              *)
THEOREM LinkedHasCoreTheorem == Spec => []LinkedHasCore
<1>1. Structure => LinkedHasCore
  BY DEF Structure
<1> QED
  BY <1>1, StructureTheorem, PTL

(* No node is left in the local list when itimer_core_run returns.          *)
THEOREM QueuedOnlyInUpdateTheorem == Spec => []QueuedOnlyInUpdate
<1>1. Structure => QueuedOnlyInUpdate
  BY DEF Structure
<1> QED
  BY <1>1, StructureTheorem, PTL

-----------------------------------------------------------------------------
(* The vectors: each has a slot for a round of the one before, and the      *)
(* clock has a whole number of rounds of each.                              *)
LEMMA UnitStep ==
  /\ Unit(1) = 1
  /\ \A k \in 1 .. 4 : Unit(k + 1) = Unit(k) * Size(k)
<1>1. Unit(1) = 1
  BY DEF Unit
<1>2. Unit(2) = Unit(1) * Size(1) /\ Unit(3) = Unit(2) * Size(2)
  BY SizeAssumption DEF Unit, Size
<1>3. Unit(4) = Unit(3) * Size(3) /\ Unit(5) = Unit(4) * Size(4)
  BY SizeAssumption DEF Unit, Size
<1> QED
  BY <1>1, <1>2, <1>3

(* The clock has a whole number of rounds of each vector.                   *)
LEMMA WordRounds ==
  \A k \in Levels : \E m \in Nat \ {0} : Word = Unit(k) * Size(k) * m
<1> DEFINE p1 == NSize
           p2 == NSize * NSize
           p3 == NSize * NSize * NSize
           p4 == NSize * NSize * NSize * NSize
<1>1. /\ p1 \in Nat \ {0} /\ p2 \in Nat \ {0}
      /\ p3 \in Nat \ {0} /\ p4 \in Nat \ {0}
  BY SizeAssumption
<1>2. Word = Unit(1) * Size(1) * p4
  BY SizeAssumption DEF Word, Unit, Size
<1>3. Word = Unit(2) * Size(2) * p3
  BY SizeAssumption DEF Word, Unit, Size
<1>4. Word = Unit(3) * Size(3) * p2
  BY SizeAssumption DEF Word, Unit, Size
<1>5. Word = Unit(4) * Size(4) * p1
  BY SizeAssumption DEF Word, Unit, Size
<1>6. Word = Unit(5) * Size(5) * 1
  BY SizeAssumption DEF Word, Unit, Size
<1> HIDE DEF p1, p2, p3, p4
<1> QED
  BY <1>1, <1>2, <1>3, <1>4, <1>5, <1>6 DEF Levels

(* The half of the clock that is ahead ends within tv5, and tv5 is needed   *)
(* for it.                                                                  *)
LEMMA HalfWord == Unit(5) <= Word \div 2 /\ Word \div 2 <= Unit(5) * Size(5)
<1>1. Unit(5) \in Nat \ {0} /\ NSize \in Nat /\ NSize >= 3
  BY UnitNat, SizeAssumption DEF Levels
<1>2. Word = Unit(5) * NSize /\ Size(5) = NSize
  BY SizeAssumption DEF Word, Unit, Size
<1>3. Word \in Nat /\ Unit(5) * 3 <= Word
  BY <1>1, <1>2
<1>4. Word \div 2 \in Int /\ Word \div 2 <= Word /\ Unit(5) <= Word \div 2
  BY <1>1, <1>3
<1> QED
  BY <1>2, <1>4

(* Slots of different vectors are different.                                *)
LEMMA SameVector ==
  ASSUME NEW k, NEW l, NEW i, NEW j, SlotOf(k, i) = SlotOf(l, j)
  PROVE  k = l
  BY DEF SlotOf

(* The slots that the update of tick j cascades are those of the vectors of *)
(* which tick j starts a slot.                                              *)
LEMMA CascadedSlot ==
  ASSUME NEW k \in Levels, NEW e, NEW j \in Jiffies
  PROVE  SlotOf(k, e) \in Cascaded(j) <=>
           k # 1 /\ j % Unit(k) = 0 /\ SlotOf(k, e) = SlotOf(k, j)
<1>0. j \in Int
  BY WordNat DEF Jiffies
<1> DEFINE First(m) == SlotOf(m, j) = <<m, 0>>
<1>1. \A m \in 1 .. 4 : j % Unit(m + 1) = 0 <=> j % Unit(m) = 0 /\ First(m)
  <2> SUFFICES ASSUME NEW m \in 1 .. 4
               PROVE  j % Unit(m + 1) = 0 <=> j % Unit(m) = 0 /\ First(m)
    OBVIOUS
  <2>1. Unit(m + 1) = Unit(m) * Size(m)
    BY UnitStep
  <2>2. Unit(m) \in Nat \ {0} /\ Size(m) \in Nat \ {0}
    BY UnitNat, SizeNat DEF Levels
  <2>3. First(m) <=> (j \div Unit(m)) % Size(m) = 0
    BY DEF SlotOf
  <2> QED
    BY <1>0, <2>1, <2>2, <2>3, RoundStart
<1>2. j % Unit(1) = 0
  BY <1>0, UnitStep
<1> HIDE DEF First
<1>3. \A l \in 2 .. 5 : (\A m \in 1 .. l - 1 : First(m)) <=> j % Unit(l) = 0
  <2>1. j % Unit(2) = 0 <=> First(1)
    BY <1>1, <1>2
  <2>2. j % Unit(3) = 0 <=> First(1) /\ First(2)
    BY <1>1, <2>1
  <2>3. j % Unit(4) = 0 <=> First(1) /\ First(2) /\ First(3)
    BY <1>1, <2>2
  <2>4. j % Unit(5) = 0 <=> First(1) /\ First(2) /\ First(3) /\ First(4)
    BY <1>1, <2>3
  <2> QED
    BY <2>1, <2>2, <2>3, <2>4
<1>4. Cascaded(j) = {SlotOf(l, j) : l \in {m \in 2 .. 5 : j % Unit(m) = 0}}
  BY <1>3 DEF Cascaded, First
<1>5. \A l : SlotOf(k, e) = SlotOf(l, j) => k = l
  BY SameVector
<1> QED
  BY <1>4, <1>5 DEF Levels

-----------------------------------------------------------------------------
(* Adding a node puts it on course.                                         *)
LEMMA PlaceOnCourse ==
  ASSUME NEW e \in Jiffies, NEW j \in Jiffies
  PROVE  /\ ~NotBefore(e, j) => Place(e, j) = SlotOf(1, j)
         /\ NotBefore(e, j) => \E k \in Levels :
              /\ Place(e, j) = SlotOf(k, e)
              /\ k # 1 => Unit(k) <= (e - j) % Word
              /\ (e - j) % Word < Unit(k) * Size(k)
<1> DEFINE a == (e - j) % Word
<1>1. a \in Nat /\ a < Word
  BY WordNat, ModRange DEF Jiffies
<1>2. ~NotBefore(e, j) <=> a >= Word \div 2
  BY <1>1, WordNat DEF NotBefore
<1>3. Place(e, j) = IF a >= Unit(5) /\ ~NotBefore(e, j) THEN SlotOf(1, j)
                    ELSE SlotOf(LevelOf(a), e)
  BY DEF Place
<1>u. \A k \in Levels : Unit(k) \in Nat /\ Unit(k) * Size(k) \in Nat
  BY UnitNat, SizeNat
<1>h. Word \div 2 \in Nat
  BY WordNat
<1> HIDE DEF a
<1>4. CASE ~NotBefore(e, j)
  BY <1>1, <1>2, <1>3, <1>4, <1>u, <1>h, HalfWord DEF Levels
<1>5. CASE NotBefore(e, j)
  <2> DEFINE k == LevelOf(a)
  <2>1. k \in Levels
    BY DEF LevelOf, Levels
  <2>2. k # 1 => Unit(k) <= a
    BY <1>1, <1>u DEF LevelOf, Levels
  <2>3. a < Unit(k) * Size(k)
    <3>1. k # 5 => a < Unit(k + 1) /\ k \in 1 .. 4
      BY <1>1, <1>u DEF LevelOf, Levels
    <3>2. k = 5 => a < Unit(5) * Size(5)
      BY <1>1, <1>2, <1>5, <1>u, <1>h, HalfWord DEF Levels
    <3> QED
      BY <3>1, <3>2, UnitStep
  <2>4. Place(e, j) = SlotOf(k, e)
    BY <1>3, <1>5
  <2> QED
    BY <1>5, <2>1, <2>2, <2>3, <2>4 DEF a
<1> QED
  BY <1>4, <1>5

(* The offsets that itimer_internal_add sends to a vector are within its    *)
(* reach, wherever in its slot the tick is.                                 *)
LEMMA WaitInRange ==
  ASSUME NEW k \in Levels, NEW e \in Jiffies, NEW j \in Jiffies,
         k # 1 => Unit(k) <= (e - j) % Word,
         (e - j) % Word < Unit(k) * Size(k)
  PROVE  Unit(k) <= Wait(k, e, j) /\ Wait(k, e, j) < Unit(k) * (Size(k) + 1)
<1> DEFINE a == (e - j) % Word
           U == Unit(k)
           S == Size(k)
           i == j - 1
           r == i % U
<1>1. i \in Int
  BY WordNat DEF Jiffies
<1>2. a \in Nat
  BY WordNat, ModRange DEF Jiffies
<1>3. U \in Nat \ {0} /\ S \in Nat \ {0}
  BY UnitNat, SizeNat
<1>4. r \in 0 .. U - 1
  <2> HIDE DEF i, U
  <2> QED
    BY <1>1, <1>3, ModRange
<1>5. (k # 1 => U <= a) /\ a < U * S
  OBVIOUS
<1>6. k = 1 => U = 1
  BY UnitStep
<1>7. Wait(k, e, j) = r + a + 1
  BY DEF Wait
<1> HIDE DEF a, r, U, S
<1>8. U <= r + a + 1
  BY <1>2, <1>3, <1>4, <1>5, <1>6
<1>9. r + a + 1 < U * (S + 1)
  BY <1>2, <1>3, <1>4, <1>5
<1> QED
  BY <1>7, <1>8, <1>9 DEF U, S

(* itimer_internal_add puts a node on course: for the tick it expires at,   *)
(* or for the next one when that is past.                                   *)
LEMMA AddedOnCourse ==
  ASSUME NEW e \in Jiffies, NEW j \in Jiffies
  PROVE  OnCourse(Place(e, j), e, j)
<1>1. CASE ~NotBefore(e, j)
  BY <1>1, PlaceOnCourse DEF OnCourse
<1>2. CASE NotBefore(e, j)
  <2>1. PICK k \in Levels :
          /\ Place(e, j) = SlotOf(k, e)
          /\ k # 1 => Unit(k) <= (e - j) % Word
          /\ (e - j) % Word < Unit(k) * Size(k)
    BY <1>2, PlaceOnCourse
  <2>2. Unit(k) <= Wait(k, e, j) /\ Wait(k, e, j) < Unit(k) * (Size(k) + 1)
    BY <2>1, WaitInRange
  <2> QED
    BY <1>2, <2>1, <2>2 DEF OnCourse
<1> QED
  BY <1>1, <1>2

(* When tick j starts a slot, a node on course of a vector is in that slot  *)
(* of its vector exactly when it is due within the slot.                    *)
LEMMA MeetsSlot ==
  ASSUME NEW k \in Levels, NEW e \in Jiffies, NEW j \in Jiffies,
         j % Unit(k) = 0, (e - j) % Word < Unit(k) * Size(k)
  PROVE  SlotOf(k, e) = SlotOf(k, j) <=> (e - j) % Word < Unit(k)
<1> DEFINE a == (e - j) % Word
           U == Unit(k)
           S == Size(k)
<1>1. U \in Nat \ {0} /\ S \in Nat \ {0}
  BY UnitNat, SizeNat
<1>2. PICK m \in Nat \ {0} : Word = U * S * m
  BY WordRounds
<1>3. a \in Nat
  BY WordNat, ModRange DEF Jiffies
<1>4. j \in Int /\ j % U = 0 /\ a < U * S
  BY WordNat DEF Jiffies
<1>5. (j + a) % Word = e
  BY WordNat, AheadInverse DEF Jiffies
<1>6. SlotOf(k, e) = SlotOf(k, j) <=> (e \div U) % S = (j \div U) % S
  BY DEF SlotOf
<1> HIDE DEF a, U, S
<1>7. ((((j + a) % (U * S * m)) \div U) % S = (j \div U) % S) <=> a < U
  BY <1>1, <1>2, <1>3, <1>4, SameSlot, ZenonT(30)
<1>8. (((e \div U) % S) = ((j \div U) % S)) <=> a < U
  BY <1>2, <1>5, <1>7
<1> QED
  BY <1>6, <1>8 DEF a, U

(* A tick moves a node on course of a vector one tick nearer, and still on  *)
(* course, unless it has reached the node's slot.                           *)
LEMMA StaysOnCourse ==
  ASSUME NEW k \in Levels, NEW e \in Jiffies, NEW j \in Jiffies,
         NotBefore(e, j),
         Unit(k) <= (e - j) % Word \/ j % Unit(k) # 0,
         j % Unit(k) = 0 => (e - j) % Word < Unit(k) * Size(k),
         j % Unit(k) # 0 => /\ Unit(k) <= Wait(k, e, j)
                            /\ Wait(k, e, j) < Unit(k) * (Size(k) + 1)
  PROVE  /\ (e - j) % Word # 0
         /\ NotBefore(e, (j + 1) % Word)
         /\ OnCourse(SlotOf(k, e), e, (j + 1) % Word)
<1> DEFINE a == (e - j) % Word
           U == Unit(k)
           S == Size(k)
           r == j % U
           h == (j + 1) % Word
<1>1. U \in Nat \ {0} /\ S \in Nat \ {0} /\ j \in Int /\ e \in Int
  BY UnitNat, SizeNat, WordNat DEF Jiffies
<1>2. PICK m \in Nat \ {0} : Word = U * S * m
  BY WordRounds
<1>3. a \in Nat
  BY WordNat, ModRange DEF Jiffies
<1>4. r \in 0 .. U - 1
  <2> HIDE DEF U
  <2> QED
    BY <1>1, ModRange
<1>5. (h - 1) % U = r
  <2> DEFINE M == S * m
  <2>1. Word = U * M /\ M \in Nat \ {0}
    BY <1>1, <1>2
  <2> HIDE DEF U, M
  <2> QED
    BY <1>1, <2>1, LastTick
<1>6. (j - 1) % U = IF r = 0 THEN U - 1 ELSE r - 1
  <2> HIDE DEF U
  <2> QED
    BY <1>1, Before
<1>7. r # 0 => U <= ((j - 1) % U) + a + 1 /\ ((j - 1) % U) + a + 1 < U * (S + 1)
  BY DEF Wait
<1>8. r = 0 => U <= a /\ a < U * S
  OBVIOUS
<1>9. U <= r + a /\ r + a < U * (S + 1)
  <2> HIDE DEF a, U, S, r
  <2>1. CASE r = 0
    BY <1>1, <1>3, <1>8, <2>1
  <2>2. CASE r # 0
    BY <1>1, <1>3, <1>4, <1>6, <1>7, <2>2
  <2> QED
    BY <2>1, <2>2
<1>10. a # 0
  <2> HIDE DEF a, U, S, r
  <2> QED
    BY <1>1, <1>3, <1>4, <1>9
<1>11. (e - h) % Word = a - 1
  BY <1>1, <1>10, WordNat, Nearer
<1>12. Wait(k, e, h) = r + a
  <2>1. Wait(k, e, h) = ((h - 1) % U) + ((e - h) % Word) + 1
    BY DEF Wait
  <2> HIDE DEF a, U, r, h
  <2> QED
    BY <1>3, <1>4, <1>5, <1>11, <2>1
<1>13. NotBefore(e, h)
  <2>1. a < Word \div 2 /\ Word \div 2 \in Int
    BY WordNat DEF NotBefore
  <2> HIDE DEF a, h
  <2> QED
    BY <1>3, <1>11, <2>1 DEF NotBefore
<1>14. OnCourse(SlotOf(k, e), e, h)
  <2>1. Unit(k) <= Wait(k, e, h) /\ Wait(k, e, h) < Unit(k) * (Size(k) + 1)
    BY <1>9, <1>12
  <2> QED
    BY <1>13, <2>1 DEF OnCourse
<1> QED
  BY <1>10, <1>13, <1>14

(* What the update of tick j does to a node on course: one that is due, or  *)
(* late, ends in the slot that is called back; any other stays on course.   *)
LEMMA CascadedNode ==
  ASSUME NEW place, NEW e \in Jiffies, NEW j \in Jiffies, OnCourse(place, e, j),
         NEW after, after = IF place \in Cascaded(j) THEN Place(e, j) ELSE place
  PROVE  /\ ~NotBefore(e, j) \/ (e - j) % Word = 0 => after = SlotOf(1, j)
         /\ NotBefore(e, j) /\ (e - j) % Word # 0 =>
              /\ after # SlotOf(1, j)
              /\ after \in Slots
              /\ NotBefore(e, (j + 1) % Word)
              /\ OnCourse(after, e, (j + 1) % Word)
<1>0. 1 \in Levels /\ Unit(1) = 1 /\ j % Unit(1) = 0
  BY WordNat, UnitStep DEF Levels, Jiffies
<1>1. CASE ~NotBefore(e, j)
  <2>1. place = SlotOf(1, j)
    BY <1>1 DEF OnCourse
  <2>2. place \notin Cascaded(j)
    BY <1>0, <2>1, CascadedSlot
  <2> QED
    BY <1>1, <2>1, <2>2
<1>2. CASE NotBefore(e, j)
  <2> DEFINE a == (e - j) % Word
  <2>0. a \in Nat
    BY WordNat, ModRange DEF Jiffies
  <2> HIDE DEF a
  <2>1. PICK k \in Levels :
          /\ place = SlotOf(k, e)
          /\ Unit(k) <= Wait(k, e, j)
          /\ Wait(k, e, j) < Unit(k) * (Size(k) + 1)
    BY <1>2 DEF OnCourse
  <2>2. Unit(k) \in Nat \ {0} /\ Size(k) \in Nat \ {0}
    BY UnitNat, SizeNat
  <2>3. j % Unit(k) = 0 => a < Unit(k) * Size(k)
    <3> SUFFICES ASSUME j % Unit(k) = 0
                 PROVE  a < Unit(k) * Size(k)
      OBVIOUS
    <3>1. (j - 1) % Unit(k) = Unit(k) - 1
      BY <2>2, WordNat, Before DEF Jiffies
    <3>2. Wait(k, e, j) = Unit(k) + a
      BY <2>0, <2>2, <3>1 DEF Wait, a
    <3> QED
      BY <2>0, <2>1, <2>2, <3>2
  <2>4. place \in Cascaded(j) <=> k # 1 /\ j % Unit(k) = 0 /\ a < Unit(k)
    BY <2>1, <2>3, CascadedSlot, MeetsSlot DEF a
  <2>5. \A l \in Levels : SlotOf(l, e) \in Slots
    BY SlotOfSlot
  <2>6. \A l \in Levels : l # 1 => SlotOf(l, e) # SlotOf(1, j)
    BY SameVector
  <2>7. a < Unit(1) * Size(1) => (SlotOf(1, e) = SlotOf(1, j) <=> a = 0)
    BY <1>0, <2>0, MeetsSlot DEF a
  <2>8. CASE place \in Cascaded(j)
    <3>1. PICK l \in Levels :
            /\ Place(e, j) = SlotOf(l, e)
            /\ l # 1 => Unit(l) <= a
            /\ a < Unit(l) * Size(l)
      BY <1>2, PlaceOnCourse DEF a
    <3>2. after = SlotOf(l, e)
      BY <2>8, <3>1
    <3>3. Unit(l) \in Nat \ {0}
      BY UnitNat
    <3>4. CASE a = 0
      BY <1>2, <2>7, <3>1, <3>2, <3>3, <3>4 DEF a
    <3>5. CASE a # 0
      <4>1. Unit(l) <= a
        BY <1>0, <2>0, <3>1, <3>5
      <4>2. Unit(l) <= Wait(l, e, j) /\ Wait(l, e, j) < Unit(l) * (Size(l) + 1)
        BY <3>1, WaitInRange DEF a
      <4>3. NotBefore(e, (j + 1) % Word) /\ OnCourse(SlotOf(l, e), e, (j + 1) % Word)
        BY <1>2, <3>1, <4>1, <4>2, StaysOnCourse DEF a
      <4>4. SlotOf(l, e) # SlotOf(1, j)
        BY <2>6, <2>7, <3>1, <3>5
      <4> QED
        BY <1>2, <2>5, <3>2, <3>5, <4>3, <4>4 DEF a
    <3> QED
      BY <3>4, <3>5
  <2>9. CASE place \notin Cascaded(j)
    <3>1. after = SlotOf(k, e)
      BY <2>1, <2>9
    <3>2. CASE k = 1 /\ a = 0
      <4>1. a < Unit(1) * Size(1)
        BY <1>0, <2>3, <3>2
      <4> QED
        BY <1>2, <2>7, <3>1, <3>2, <4>1 DEF a
    <3>3. CASE ~(k = 1 /\ a = 0)
      <4>1. Unit(k) <= a \/ j % Unit(k) # 0
        BY <1>0, <2>0, <2>2, <2>4, <2>9, <3>3
      <4>2. /\ a # 0
            /\ NotBefore(e, (j + 1) % Word)
            /\ OnCourse(SlotOf(k, e), e, (j + 1) % Word)
        BY <1>2, <2>1, <2>3, <4>1, StaysOnCourse DEF a
      <4>3. SlotOf(k, e) # SlotOf(1, j)
        BY <1>0, <2>3, <2>6, <2>7, <4>2
      <4> QED
        BY <1>2, <2>5, <3>1, <4>2, <4>3 DEF a
    <3> QED
      BY <3>2, <3>3
  <2> QED
    BY <2>8, <2>9
<1> QED
  BY <1>1, <1>2

-----------------------------------------------------------------------------
(* The update of a tick, node by node.                                      *)
LEMMA UpdateNode ==
  ASSUME Structure, InReach, Update, NEW n \in Nodes
  PROVE  /\ timer_jiffies' = (timer_jiffies + 1) % Word
         /\ expires' = expires
         /\ loc[n] = Out <=> loc'[n] = Out
         /\ InWheel(n) =>
              IF NotBefore(expires[n], timer_jiffies)
                 /\ (expires[n] - timer_jiffies) % Word # 0
              THEN /\ loc'[n] \in Slots
                   /\ NotBefore(expires[n], (timer_jiffies + 1) % Word)
                   /\ OnCourse(loc'[n], expires[n], (timer_jiffies + 1) % Word)
              ELSE loc'[n] = Queued
<1>1. timer_jiffies \in Jiffies /\ expires[n] \in Jiffies /\ loc[n] \in Places
  BY DEF Structure, TypeOK
<1>2. timer_jiffies' = (timer_jiffies + 1) % Word /\ expires' = expires
  BY DEF Update
<1>3. loc'[n] = IF AfterCascade(n) = SlotOf(1, timer_jiffies) THEN Queued ELSE AfterCascade(n)
  BY DEF Update
<1>4. loc[n] # Queued
  BY DEF Update, QueueEmpty
<1>5. CASE ~InWheel(n)
  <2>1. loc[n] = Out /\ Out \notin Slots /\ Queued # Out
    BY <1>1, <1>4, <1>5, SlotsAreNotLocal DEF InWheel, Places
  <2>2. Cascaded(timer_jiffies) \subseteq Slots /\ SlotOf(1, timer_jiffies) \in Slots
    <3>1. SlotOf(1, timer_jiffies) \in Slots
      BY <1>1, SlotOfSlot DEF Levels
    <3>2. ASSUME NEW k \in 2 .. 5
          PROVE  SlotOf(k, timer_jiffies) \in Slots
      BY <1>1, SlotOfSlot DEF Levels
    <3> QED
      BY <3>1, <3>2 DEF Cascaded
  <2>3. AfterCascade(n) = Out
    BY <2>1, <2>2 DEF AfterCascade
  <2> QED
    BY <1>2, <1>3, <1>5, <2>1, <2>2, <2>3
<1>6. CASE InWheel(n)
  <2>1. loc[n] \in Slots /\ OnCourse(loc[n], expires[n], timer_jiffies)
    BY <1>6 DEF InReach, InWheel
  <2>2. AfterCascade(n) = IF loc[n] \in Cascaded(timer_jiffies)
                          THEN Place(expires[n], timer_jiffies) ELSE loc[n]
    BY DEF AfterCascade
  <2> DEFINE P == NotBefore(expires[n], timer_jiffies)
             Z == (expires[n] - timer_jiffies) % Word = 0
  <2>3. /\ ~P \/ Z => AfterCascade(n) = SlotOf(1, timer_jiffies)
        /\ P /\ ~Z =>
             /\ AfterCascade(n) # SlotOf(1, timer_jiffies)
             /\ AfterCascade(n) \in Slots
             /\ NotBefore(expires[n], (timer_jiffies + 1) % Word)
             /\ OnCourse(AfterCascade(n), expires[n], (timer_jiffies + 1) % Word)
    BY <1>1, <2>1, <2>2, CascadedNode
  <2>4. loc[n] # Out
    BY <2>1, SlotsAreNotLocal
  <2> QED
    BY <1>2, <1>3, <1>6, <2>3, <2>4, SlotsAreNotLocal
<1> QED
  BY <1>5, <1>6

(* The ticks that callers ask for are on the clock.                         *)
LEMMA StructureOffset ==
  ASSUME Structure
  PROVE  TypeOK /\ \A o \in Jiffies : (timer_jiffies + o) % Word \in Jiffies
<1>1. TypeOK
  BY DEF Structure
<1>2. \A o \in Jiffies : timer_jiffies + o \in Int
  BY <1>1, WordNat DEF TypeOK, Jiffies
<1> QED
  BY <1>1, <1>2, WrapJiffies

(* No node is in the wheel of an initialised core.                          *)
LEMMA InReachInit == Init => InReach
  BY SlotsAreNotLocal DEF Init, InReach, InWheel

(* Every operation, and every turn of the update loop, keeps the nodes on   *)
(* course.                                                                  *)
LEMMA InReachStep == Structure /\ InReach /\ [Next]_vars => InReach'
<1> SUFFICES ASSUME Structure, InReach, [Next]_vars
             PROVE  InReach'
  OBVIOUS
<1>0. TypeOK /\ \A o \in Jiffies : (timer_jiffies + o) % Word \in Jiffies
  BY StructureOffset
<1>1. ASSUME NEW n \in Nodes, NodeInit(n) \/ NodeDestroy(n)
      PROVE  InReach'
  <2>1. \A m \in Nodes : InWheel(m)' => m # n
    BY <1>0, <1>1, SlotsAreNotLocal DEF NodeInit, NodeDestroy, InWheel, TypeOK
  <2> QED
    BY <1>0, <1>1, <2>1 DEF NodeInit, NodeDestroy, InReach, InWheel, TypeOK
<1>2. ASSUME NEW n \in Nodes, NEW e \in Jiffies, NodeAdd(n, e)
      PROVE  InReach'
  <2>1. OnCourse(Place(e, timer_jiffies), e, timer_jiffies)
    BY <1>0, AddedOnCourse DEF TypeOK
  <2> QED
    BY <1>0, <1>2, <2>1 DEF NodeAdd, InReach, InWheel, TypeOK
<1>3. ASSUME NEW n \in Nodes, NodeDel(n) \/ Fire(n)
      PROVE  InReach'
  BY <1>0, <1>3, SlotsAreNotLocal DEF NodeDel, Fire, InReach, InWheel, TypeOK
<1>4. ASSUME CoreDestroy
      PROVE  InReach'
  BY <1>0, <1>4, SlotsAreNotLocal DEF CoreDestroy, InReach, InWheel, TypeOK
<1>5. ASSUME Update
      PROVE  InReach'
  <2> SUFFICES ASSUME NEW n \in Nodes, InWheel(n)'
               PROVE  OnCourse(loc'[n], expires'[n], timer_jiffies')
    BY DEF InReach
  <2>1. loc'[n] # Queued /\ loc'[n] # Out
    BY SlotsAreNotLocal DEF InWheel
  <2>2. InWheel(n)
    <3>1. loc[n] # Out
      BY <1>5, <2>1, UpdateNode
    <3>2. loc[n] # Queued
      BY <1>5 DEF Update, QueueEmpty
    <3> QED
      BY <1>0, <3>1, <3>2 DEF TypeOK, Places, InWheel
  <2> QED
    BY <1>5, <2>1, <2>2, UpdateNode
<1>6. ASSUME UNCHANGED <<timer_jiffies, nodeVars>>
      PROVE  InReach'
  BY <1>6 DEF nodeVars, InReach, InWheel
<1>7. (\E j \in Jiffies : Run(j)) \/ Return \/ Done \/ UNCHANGED vars
      => UNCHANGED <<timer_jiffies, nodeVars>>
  BY DEF Run, Return, Done, vars, nodeVars
<1> QED
  BY <1>0, <1>1, <1>2, <1>3, <1>4, <1>5, <1>6, <1>7, OffsetAssumption
  DEF Next, Caller, Loop

(* Every node of the wheel is on course, in wheels of any size.             *)
THEOREM InReachTheorem == Spec => [](Structure /\ InReach)
<1>1. Init => Structure /\ InReach
  BY StructureInit, InReachInit
<1>2. Structure /\ InReach /\ [Next]_vars => (Structure /\ InReach)'
  BY StructureStep, InReachStep
<1> QED
  BY <1>1, <1>2, PTL DEF Spec

(* No node is ever left behind by the clock.                                *)
THEOREM NoneLeftBehindTheorem == Spec => []NoneLeftBehind
<1>1. InReach => NoneLeftBehind
  BY DEF InReach, NoneLeftBehind, OnCourse
<1> QED
  BY <1>1, InReachTheorem, PTL

(* Nodes are taken for calling back at the tick they asked for, or at once  *)
(* if they asked for one of the past.                                       *)
THEOREM OnTimeTheorem == Spec => OnTime
<1>1. Structure /\ InReach /\ [Next]_vars =>
        [\A n \in Nodes : InWheel(n) /\ loc'[n] = Queued =>
           expires[n] = timer_jiffies \/ ~NotBefore(expires[n], timer_jiffies)]_vars
  <2> SUFFICES ASSUME Structure, InReach, Next, NEW n \in Nodes, InWheel(n), loc'[n] = Queued
               PROVE  expires[n] = timer_jiffies \/ ~NotBefore(expires[n], timer_jiffies)
    OBVIOUS
  <2>0. TypeOK /\ \A o \in Jiffies : (timer_jiffies + o) % Word \in Jiffies
    BY StructureOffset
  <2>1. Update
    <3>1. loc[n] # Queued
      BY SlotsAreNotLocal DEF InWheel
    <3>2. \A m \in Nodes, e \in Jiffies : ~NodeAdd(m, e)
      <4> SUFFICES ASSUME NEW m \in Nodes, NEW e \in Jiffies, NodeAdd(m, e)
                   PROVE  loc'[n] # Queued
        OBVIOUS
      <4>1. Place(e, timer_jiffies) # Queued
        BY <2>0, PlaceSlot, SlotsAreNotLocal DEF TypeOK
      <4> QED
        BY <2>0, <3>1, <4>1 DEF NodeAdd, TypeOK
    <3>3. ~CoreDestroy
      BY <2>0, <3>1, SlotsAreNotLocal DEF CoreDestroy, TypeOK
    <3>4. \A m \in Nodes : ~NodeInit(m) /\ ~NodeDestroy(m) /\ ~NodeDel(m) /\ ~Fire(m)
      BY <2>0, <3>1, SlotsAreNotLocal DEF NodeInit, NodeDestroy, NodeDel, Fire, TypeOK
    <3>5. ~Return /\ ~Done /\ \A j : ~Run(j)
      BY <3>1 DEF Return, Done, Run, nodeVars
    <3> QED
      BY <2>0, <3>2, <3>3, <3>4, <3>5, OffsetAssumption DEF Next, Caller, Loop
  <2>2. ~NotBefore(expires[n], timer_jiffies) \/ (expires[n] - timer_jiffies) % Word = 0
    BY <2>1, UpdateNode, SlotsAreNotLocal
  <2>3. (expires[n] - timer_jiffies) % Word = 0 => expires[n] = timer_jiffies
    <3>1. expires[n] \in 0 .. Word - 1 /\ timer_jiffies \in 0 .. Word - 1
      BY <2>0 DEF TypeOK, Jiffies
    <3>2. (timer_jiffies + ((expires[n] - timer_jiffies) % Word)) % Word = expires[n]
      BY <3>1, WordNat, AheadInverse
    <3>3. timer_jiffies % Word = timer_jiffies
      BY <3>1, WordNat, ModSmall
    <3> QED
      BY <3>1, <3>2, <3>3
  <2> QED
    BY <2>2, <2>3
<1> QED
  BY <1>1, InReachTheorem, PTL DEF Spec, OnTime

-----------------------------------------------------------------------------
(* The refinement of TimerSet.                                             *)
fired == {n \in Nodes : loc[n] = Queued}

(* An initialised core is a set of no timers.                               *)
LEMMA RefinesInit == Init => Abstract!AbstractInit
<1> SUFFICES ASSUME Init
             PROVE  Abstract!AbstractInit
  OBVIOUS
<1>1. dueOf = [n \in Nodes |-> Abstract!Never]
  BY SlotsAreNotLocal DEF Init, dueOf, InWheel, Abstract!Never
<1>2. {n \in Nodes : loc[n] = Queued} = {}
  BY SlotsAreNotLocal DEF Init
<1> QED
  BY <1>1, <1>2 DEF Init, Abstract!AbstractInit, Abstract!Jiffies, Jiffies, Abstract!None, None

(* Operations on one node leave the due ticks of the others alone.          *)
LEMMA OtherNodes ==
  ASSUME TypeOK, NEW n \in Nodes, UNCHANGED timer_jiffies,
         \A m \in Nodes \ {n} : loc'[m] = loc[m] /\ expires'[m] = expires[m]
  PROVE  /\ dueOf' = [dueOf EXCEPT ![n] = dueOf'[n]]
         /\ loc'[n] # Queued => fired' = fired \ {n}
<1>1. \A m \in Nodes \ {n} : dueOf'[m] = dueOf[m]
  BY DEF dueOf, InWheel
<1>2. dueOf' = [m \in Nodes |-> dueOf'[m]] /\ dueOf = [m \in Nodes |-> dueOf[m]]
  BY DEF dueOf
<1> QED
  BY <1>1, <1>2 DEF fired

(* Every step of the core is a step of the set of armed timers, or none.    *)
LEMMA RefinesStep ==
  ASSUME Structure, InReach, [Next]_vars
  PROVE  [Abstract!AbstractNext]_<<timer_jiffies, dueOf, fired, cb>>
<1>0. TypeOK /\ \A o \in Jiffies : (timer_jiffies + o) % Word \in Jiffies
  BY StructureOffset
<1> DEFINE Goal == [Abstract!AbstractNext]_<<timer_jiffies, dueOf, fired, cb>>
<1>d. \A n \in Nodes : dueOf[n] = IF ~InWheel(n) THEN -1
                                  ELSE IF NotBefore(expires[n], timer_jiffies)
                                  THEN expires[n] ELSE timer_jiffies
  BY DEF dueOf
<1>e. \A n \in Nodes : dueOf'[n] = IF ~InWheel(n)' THEN -1
                                   ELSE IF NotBefore(expires[n], timer_jiffies)'
                                   THEN expires'[n] ELSE timer_jiffies'
  BY DEF dueOf, NotBefore
<1>1. ASSUME NEW n \in Nodes, NodeInit(n)
      PROVE  UNCHANGED <<timer_jiffies, dueOf, fired, cb>>
  <2>1. /\ UNCHANGED <<timer_jiffies, cb>>
        /\ \A m \in Nodes : loc'[m] = loc[m] /\ (m # n => expires'[m] = expires[m])
        /\ ~InWheel(n)
    BY <1>0, <1>1, SlotsAreNotLocal DEF NodeInit, Pending, InWheel, TypeOK, runVars
  <2>2. \A m \in Nodes : dueOf'[m] = dueOf[m]
    BY <2>1 DEF dueOf, InWheel
  <2>3. dueOf' = dueOf
    BY <2>2 DEF dueOf
  <2> QED
    BY <2>1, <2>3 DEF fired
<1>2. ASSUME NEW n \in Nodes, NodeDestroy(n) \/ NodeDel(n)
      PROVE  Abstract!Disarm(n)
  <2>1. /\ UNCHANGED <<timer_jiffies, cb>>
        /\ \A m \in Nodes \ {n} : loc'[m] = loc[m] /\ expires'[m] = expires[m]
        /\ loc'[n] = Out
    BY <1>0, <1>2 DEF NodeDestroy, NodeDel, TypeOK, runVars
  <2>2. dueOf'[n] = -1
    BY <2>1, <1>e, SlotsAreNotLocal DEF InWheel
  <2>3. dueOf' = [dueOf EXCEPT ![n] = -1] /\ fired' = fired \ {n}
    BY <1>0, <2>1, <2>2, OtherNodes, SlotsAreNotLocal
  <2> QED
    BY <2>1, <2>3 DEF Abstract!Disarm, Abstract!Never, fired
<1>3. ASSUME NEW n \in Nodes, NEW e \in Jiffies, NodeAdd(n, e)
      PROVE  Abstract!Arm(n, e)
  <2>1. /\ UNCHANGED <<timer_jiffies, cb>>
        /\ \A m \in Nodes \ {n} : loc'[m] = loc[m] /\ expires'[m] = expires[m]
        /\ loc'[n] = Place(e, timer_jiffies)
        /\ expires'[n] = e
    BY <1>0, <1>3 DEF NodeAdd, TypeOK, runVars
  <2>2. Place(e, timer_jiffies) \in Slots
    BY <1>0, PlaceSlot DEF TypeOK
  <2>3. dueOf'[n] = IF NotBefore(e, timer_jiffies) THEN e ELSE timer_jiffies
    BY <2>1, <2>2, <1>e DEF InWheel, NotBefore
  <2>4. /\ dueOf' = [dueOf EXCEPT ![n] = IF NotBefore(e, timer_jiffies)
                                        THEN e ELSE timer_jiffies]
        /\ fired' = fired \ {n}
    BY <1>0, <2>1, <2>2, <2>3, OtherNodes, SlotsAreNotLocal
  <2> QED
    BY <2>1, <2>4 DEF Abstract!Arm, Abstract!NotBefore, NotBefore, fired
<1>4. ASSUME CoreDestroy
      PROVE  Abstract!DisarmAll
  <2>1. /\ UNCHANGED <<timer_jiffies, cb>>
        /\ \A n \in Nodes : loc'[n] = IF InWheel(n) THEN Out ELSE loc[n]
    BY <1>4 DEF CoreDestroy, runVars
  <2>2. \A n \in Nodes : dueOf'[n] = -1
    BY <2>1, <1>e, SlotsAreNotLocal DEF InWheel
  <2>3. dueOf' = [n \in Nodes |-> -1]
    BY <2>2 DEF dueOf
  <2>4. fired' = fired
    BY <2>1, SlotsAreNotLocal DEF fired, InWheel
  <2> QED
    BY <2>1, <2>3, <2>4 DEF Abstract!DisarmAll, Abstract!Never, fired
<1>5. ASSUME Update
      PROVE  Abstract!Tick
  <2>1. cb = None /\ fired = {} /\ UNCHANGED cb
    BY <1>5 DEF Update, QueueEmpty, fired, runVars
  <2>2. timer_jiffies' = (timer_jiffies + 1) % Word
    BY <1>5 DEF Update
  <2> DEFINE due(n) == dueOf[n] = timer_jiffies
  <2>z. \A n \in Nodes : (expires[n] - timer_jiffies) % Word = 0 <=> expires[n] = timer_jiffies
    <3> SUFFICES ASSUME NEW n \in Nodes
                 PROVE  (expires[n] - timer_jiffies) % Word = 0 <=> expires[n] = timer_jiffies
      OBVIOUS
    <3>1. expires[n] \in 0 .. Word - 1 /\ timer_jiffies \in 0 .. Word - 1
      BY <1>0 DEF TypeOK, Jiffies
    <3>2. (timer_jiffies + ((expires[n] - timer_jiffies) % Word)) % Word = expires[n]
      BY <3>1, WordNat, AheadInverse
    <3>3. timer_jiffies % Word = timer_jiffies
      BY <3>1, WordNat, ModSmall
    <3>4. 0 % Word = 0
      BY WordNat, ModSmall
    <3>5. (timer_jiffies - timer_jiffies) % Word = 0
      BY <3>1, <3>4, WordNat
    <3> QED
      BY <3>1, <3>2, <3>3, <3>5
  <2>j. timer_jiffies # -1
    BY <1>0, WordNat DEF TypeOK, Jiffies
  <2>3. \A n \in Nodes : /\ loc'[n] = Queued <=> due(n)
                         /\ dueOf'[n] = IF due(n) THEN -1 ELSE dueOf[n]
    <3> SUFFICES ASSUME NEW n \in Nodes
                 PROVE  /\ loc'[n] = Queued <=> due(n)
                        /\ dueOf'[n] = IF due(n) THEN -1 ELSE dueOf[n]
      OBVIOUS
    <3>0. loc[n] # Queued /\ loc[n] \in Places
      BY <1>0, <1>5 DEF Update, QueueEmpty, TypeOK
    <3>1. CASE ~InWheel(n)
      <4>1. loc[n] = Out /\ loc'[n] = Out
        BY <1>5, <3>0, <3>1, UpdateNode DEF InWheel, Places
      <4> QED
        BY <3>1, <4>1, <1>d, <1>e, <2>j, SlotsAreNotLocal DEF InWheel
    <3>2. CASE InWheel(n) /\ NotBefore(expires[n], timer_jiffies)
               /\ expires[n] # timer_jiffies
      <4>1. /\ loc'[n] \in Slots
            /\ NotBefore(expires[n], (timer_jiffies + 1) % Word)
            /\ expires' = expires
        BY <1>5, <3>2, <2>z, UpdateNode
      <4>2. NotBefore(expires[n], timer_jiffies)'
        BY <2>2, <4>1 DEF NotBefore
      <4> QED
        BY <3>2, <4>1, <4>2, <1>d, <1>e, SlotsAreNotLocal DEF InWheel
    <3>3. CASE InWheel(n) /\ (~NotBefore(expires[n], timer_jiffies)
                              \/ expires[n] = timer_jiffies)
      <4>1. loc'[n] = Queued
        BY <1>5, <3>3, <2>z, UpdateNode
      <4> QED
        BY <3>3, <4>1, <1>d, <1>e, SlotsAreNotLocal DEF InWheel
    <3> QED
      BY <3>1, <3>2, <3>3
  <2>4. dueOf' = [n \in Nodes |-> IF dueOf[n] = timer_jiffies THEN -1 ELSE dueOf[n]]
    BY <2>3 DEF dueOf
  <2>5. fired' = {n \in Nodes : dueOf[n] = timer_jiffies}
    BY <2>3 DEF fired
  <2> QED
    BY <2>1, <2>2, <2>4, <2>5 DEF Abstract!Tick, Abstract!Never, Abstract!None, None, fired
<1>6. ASSUME NEW n \in Nodes, Fire(n)
      PROVE  Abstract!Fire(n)
  <2>1. state[n] = "OK"
    BY <1>6, SlotsAreNotLocal DEF Fire, Structure, LinkedHasCore, Pending
  <2>2. /\ UNCHANGED timer_jiffies
        /\ cb = None /\ cb' = n /\ loc[n] = Queued
        /\ \A m \in Nodes \ {n} : loc'[m] = loc[m] /\ expires'[m] = expires[m]
        /\ loc'[n] = Out
    BY <1>0, <1>6, <2>1 DEF Fire, TypeOK
  <2>3. dueOf'[n] = -1 /\ dueOf[n] = -1
    BY <2>2, <1>d, <1>e, SlotsAreNotLocal DEF InWheel
  <2>4. dueOf' = dueOf /\ fired' = fired \ {n}
    <3>1. dueOf' = [dueOf EXCEPT ![n] = dueOf[n]] /\ fired' = fired \ {n}
      BY <1>0, <2>2, <2>3, OtherNodes, SlotsAreNotLocal
    <3> QED
      BY <3>1 DEF dueOf
  <2> QED
    BY <2>2, <2>4 DEF Abstract!Fire, Abstract!None, None, fired
<1>7. ASSUME Return
      PROVE  Abstract!Return
  <2>1. UNCHANGED <<timer_jiffies, dueOf, fired>> /\ cb # None /\ cb' = None
    BY <1>7 DEF Return, nodeVars, dueOf, fired, InWheel
  <2> QED
    BY <2>1 DEF Abstract!Return, Abstract!None, None, fired
<1>8. (\E j : Run(j)) \/ Done \/ UNCHANGED vars => UNCHANGED <<timer_jiffies, dueOf, fired, cb>>
  BY DEF Run, Done, vars, nodeVars, runVars, dueOf, fired, InWheel
<1>9. \A e \in Jiffies : e \in Abstract!Jiffies
  BY DEF Jiffies, Abstract!Jiffies
<1> QED
  BY <1>0, <1>1, <1>2, <1>3, <1>4, <1>5, <1>6, <1>7, <1>8, <1>9, OffsetAssumption
  DEF Next, Caller, Loop, Abstract!AbstractNext

(* The wheel implements the set of armed timers, for every size of wheel,   *)
(* set of nodes and use: TLC checks it on a wheel of 14 slots.              *)
THEOREM Refinement == Spec => ImplementsTimerSet
<1>1. Structure /\ InReach /\ [Next]_vars =>
        [Abstract!AbstractNext]_<<timer_jiffies, dueOf, fired, cb>>
  BY RefinesStep
<1>2. Structure /\ InReach /\ [Next]_vars => [Abstract!AbstractNext]_(Abstract!abstractVars)
  BY <1>1 DEF fired, Abstract!abstractVars
<1> QED
  BY <1>2, RefinesInit, InReachTheorem, PTL
  DEF Spec, ImplementsTimerSet, Abstract!AbstractSpec
=============================================================================
