------------------------- MODULE BlockingSpscQueue -------------------------
(***************************************************************************)
(* BlockingReaderWriterQueue of readerwriterqueue.h: the queue, here a     *)
(* Fifo, and the LightweightSemaphore of atomicops.h, which counts its     *)
(* items and lets the consumer sleep while there are none.  One producer,  *)
(* one consumer; an action is one atomic access of a thread.               *)
(***************************************************************************)
EXTENDS Fifo, Integers

CONSTANT MaxItems \* items ever enqueued; they are 1, 2, 3...

ASSUME ItemsAssumption == MaxItems \in Nat /\ Items = 1 .. MaxItems

VARIABLES
  enqueued, \* producer: items enqueued
  ppc,      \* producer: where in enqueue
  cpc,      \* consumer: where in try_dequeue, pop or wait_dequeue
  m_count,  \* LightweightSemaphore: items, or -1 when the consumer sleeps
  m_sema    \* Semaphore: posts not yet waited for

semaVars == <<m_count, m_sema>>
blockingVars == <<fifoVars, enqueued, ppc, cpc, semaVars>>

BlockingInit ==
  /\ FifoInit
  /\ enqueued = 0
  /\ ppc = "idle"
  /\ cpc = "idle"
  /\ m_count = 0
  /\ m_sema = 0

-----------------------------------------------------------------------------
(* enqueue: the item first, then signal().                                  *)
Enqueue ==
  /\ ppc = "idle"
  /\ enqueued < MaxItems
  /\ Put(enqueued + 1)
  /\ enqueued' = enqueued + 1
  /\ ppc' = "signal"
  /\ UNCHANGED <<cpc, semaVars>>

(* Mutant: a consumer that is about to sleep is not woken.                  *)
SignalUnlessCommitted ==
  /\ ppc = "signal"
  /\ m_count' = m_count + 1
  /\ ppc' = IF m_count < -1 THEN "post" ELSE "idle"
  /\ UNCHANGED <<fifoVars, enqueued, cpc, m_sema>>

(* signal(): m_count.fetch_add(1), and a post if the consumer has gone to   *)
(* sleep, or is about to.                                                   *)
Signal ==
  /\ ppc = "signal"
  /\ m_count' = m_count + 1
  /\ ppc' = IF m_count < 0 THEN "post" ELSE "idle"
  /\ UNCHANGED <<fifoVars, enqueued, cpc, m_sema>>

Post ==
  /\ ppc = "post"
  /\ m_sema' = m_sema + 1
  /\ ppc' = "idle"
  /\ UNCHANGED <<fifoVars, enqueued, cpc, m_count>>

-----------------------------------------------------------------------------
(* try_dequeue or pop: false when the count shows no item.                  *)
TryWait ==
  /\ cpc = "idle"
  /\ m_count > 0
  /\ cpc' = "decrement"
  /\ UNCHANGED <<fifoVars, enqueued, ppc, semaVars>>

(* wait_dequeue: no item at first, so it spins.                             *)
WaitStart ==
  /\ cpc = "idle"
  /\ m_count <= 0
  /\ cpc' = "spin"
  /\ UNCHANGED <<fifoVars, enqueued, ppc, semaVars>>

SpinSees ==
  /\ cpc = "spin"
  /\ m_count > 0
  /\ cpc' = "decrement"
  /\ UNCHANGED <<fifoVars, enqueued, ppc, semaVars>>

(* m_count.fetch_add(-1), of a count that was positive.                     *)
Decrement ==
  /\ cpc = "decrement"
  /\ m_count' = m_count - 1
  /\ cpc' = "dequeue"
  /\ UNCHANGED <<fifoVars, enqueued, ppc, m_sema>>

(* Mutants: the old count is not looked at.                                 *)
SpinEndsAwake ==
  /\ cpc = "spin"
  /\ m_count' = m_count - 1
  /\ cpc' = "dequeue"
  /\ UNCHANGED <<fifoVars, enqueued, ppc, m_sema>>
SpinEndsAsleep ==
  /\ cpc = "spin"
  /\ m_count' = m_count - 1
  /\ cpc' = "sleep"
  /\ UNCHANGED <<fifoVars, enqueued, ppc, m_sema>>

(* The spinning ends: fetch_add(-1), whatever the count has become, and the *)
(* old one tells whether to sleep.                                          *)
SpinEnds ==
  /\ cpc = "spin"
  /\ m_count' = m_count - 1
  /\ cpc' = IF m_count <= 0 THEN "sleep" ELSE "dequeue"
  /\ UNCHANGED <<fifoVars, enqueued, ppc, m_sema>>

WakeUp ==
  /\ cpc = "sleep"
  /\ m_sema > 0
  /\ m_sema' = m_sema - 1
  /\ cpc' = "dequeue"
  /\ UNCHANGED <<fifoVars, enqueued, ppc, m_count>>

Dequeue ==
  /\ cpc = "dequeue"
  /\ Take
  /\ cpc' = "idle"
  /\ UNCHANGED <<enqueued, ppc, semaVars>>

Producer == Enqueue \/ Signal \/ Post
Consumer == TryWait \/ WaitStart \/ SpinSees \/ Decrement \/ SpinEnds \/ WakeUp \/ Dequeue

BlockingNext == Producer \/ Consumer

BlockingSpec == BlockingInit /\ [][BlockingNext]_blockingVars

(* Calls run on once they have begun.                                       *)
FairBlockingSpec ==
  /\ BlockingSpec
  /\ WF_blockingVars(Signal \/ Post)
  /\ WF_blockingVars(SpinSees \/ SpinEnds) /\ WF_blockingVars(Decrement \/ WakeUp \/ Dequeue)

-----------------------------------------------------------------------------
BlockingTypeOK ==
  /\ enqueued \in 0 .. MaxItems
  /\ contents \in Seq(Items)
  /\ taken \in 0 .. MaxItems
  /\ ppc \in {"idle", "signal", "post"}
  /\ cpc \in {"idle", "spin", "decrement", "dequeue", "sleep"}
  /\ m_count \in Int
  /\ m_sema \in Nat

(* The assertions of readerwriterqueue.h:698, 714 and 736: what the         *)
(* semaphore admits to the queue finds an item there; of atomicops.h:549:   *)
(* at most one thread waits.                                                *)
AssertionsHold ==
  /\ cpc = "dequeue" => contents # <<>>
  /\ ppc = "signal" => m_count >= -1

(* The books of the semaphore.  The count is what the queue holds, less the *)
(* item not yet signalled and the one the consumer has claimed; and the     *)
(* consumer sleeps with a post on its way exactly when its item is there.   *)
Claimed == IF cpc \in {"dequeue", "sleep"} THEN 1 ELSE 0
Unsignalled == IF ppc = "signal" THEN 1 ELSE 0
Posted == m_sema + (IF ppc = "post" THEN 1 ELSE 0)

Balanced ==
  /\ m_count = Len(contents) - Unsignalled - Claimed
  /\ Posted = IF cpc = "sleep" /\ m_count >= 0 THEN 1 ELSE 0
  /\ Unsignalled <= Len(contents)
  /\ cpc = "decrement" => m_count > 0
  /\ cpc = "dequeue" => m_count >= 0

(* Nobody oversleeps: a consumer in wait_dequeue gets an item if one comes. *)
WaiterServed == cpc \in {"spin", "sleep"} /\ contents # <<>> ~> cpc = "idle"
=============================================================================
