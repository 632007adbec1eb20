----------------------------- MODULE SpscQueue -----------------------------
(***************************************************************************)
(* The lock-free queue of src/lock_free/one_2_one/readerwriterqueue.h, for *)
(* one producer and one consumer thread: a ring of blocks, each a circular *)
(* buffer.  An action is what a thread does between two loads or stores of *)
(* variables that the other thread writes or reads.  Memory is             *)
(* sequentially consistent: the fences of the code are what allows it.     *)
(*                                                                         *)
(* The items are 1, 2, 3... in the order they are enqueued: the queue does *)
(* not look at them.                                                       *)
(***************************************************************************)
EXTENDS Integers, Sequences

CONSTANTS Queues,       \* the queues that programs make: records of
                        \* maxSize, the argument of the constructor,
                        \* maxBlockSize, which is MAX_BLOCK_SIZE, a power of two, and
                        \* maxBlocks, bound of the models: malloc fails for a further one
          MaxItems,     \* bound of the models: items ever enqueued
          Operations    \* what the consumer calls: of "dequeue" and "peek"

ASSUME SizesAssumption ==
  \A q \in Queues : /\ q.maxSize \in Nat \ {0} /\ q.maxBlockSize \in Nat \ {0, 1}
                    /\ q.maxBlocks \in Nat
ASSUME ItemsAssumption == MaxItems \in Nat /\ Operations \subseteq {"dequeue", "peek"}

VARIABLES
  made,   \* which of Queues it is
  frontBlock, tailBlock, largestBlockSize, \* the queue
  front, tail, localTail, localFront, next, size, data, \* each block
  wpc,    \* producer: where in inner_enqueue
  wblock, \* producer: the block it writes the item to
  alloc,  \* producer: CanAlloc?
  sent,   \* producer: items enqueued
  rpc,    \* consumer: where in try_dequeue or peek
  rblock, \* consumer: the block it reads the item from
  op,     \* consumer: which of the two
  result, \* consumer: the item that try_dequeue returned last
  wasEmpty, \* history: the queue was empty at some moment of this call of the consumer
  mostHeld  \* history: the most items the queue held during this call of the producer

queueVars == <<made, frontBlock, tailBlock, largestBlockSize, front, tail, localTail, localFront,
               next, size, data>>
producerVars == <<wpc, wblock, alloc, sent>>
consumerVars == <<rpc, rblock, op, result>>
vars == <<queueVars, producerVars, consumerVars, wasEmpty, mostHeld>>

Blocks == 1 .. made.maxBlocks
Allocated == {b \in Blocks : size[b] > 0}
Free == 0 \* a slot with no item constructed in it

-----------------------------------------------------------------------------
(* The constructor.                                                         *)
CeilToPow2(x) == CHOOSE p \in {2^k : k \in 0 .. x} : p >= x /\ p < 2 * x
ManyBlocks(q) == CeilToPow2(q.maxSize + 1) > q.maxBlockSize * 2
(* Mutant: no spare block.                                                  *)
InitialBlocksUnspared(q) ==
  IF ManyBlocks(q) THEN (q.maxSize + q.maxBlockSize - 2) \div (q.maxBlockSize - 1) ELSE 1
InitialBlocks(q) ==
  IF ManyBlocks(q) THEN (q.maxSize + q.maxBlockSize * 2 - 3) \div (q.maxBlockSize - 1) ELSE 1
InitialSize(q) == IF ManyBlocks(q) THEN q.maxBlockSize ELSE CeilToPow2(q.maxSize + 1)
(* The slots of blocks of any size: the size is doubled below maxBlockSize. *)
Slots(q) == 0 .. InitialSize(q) + 2 * q.maxBlockSize - 1

ASSUME BlocksAssumption == \A q \in Queues : InitialBlocks(q) <= q.maxBlocks

(* There is such a power of two.                                            *)
ASSUME PowerAssumption ==
  \A q \in Queues : CeilToPow2(q.maxSize + 1) \in q.maxSize + 1 .. 2 * q.maxSize + 1

Init ==
  /\ made \in Queues
  /\ frontBlock = 1
  /\ tailBlock = 1
  /\ largestBlockSize = InitialSize(made)
  /\ front = [b \in Blocks |-> 0]
  /\ tail = [b \in Blocks |-> 0]
  /\ localTail = [b \in Blocks |-> 0]
  /\ localFront = [b \in Blocks |-> 0]
  /\ next = [b \in Blocks |-> IF b < InitialBlocks(made) THEN b + 1 ELSE 1]
  /\ size = [b \in Blocks |-> IF b <= InitialBlocks(made) THEN InitialSize(made) ELSE 0]
  /\ data = [b \in Blocks |-> [i \in Slots(made) |-> Free]]
  /\ wpc = "idle" /\ wblock = 1 /\ alloc = FALSE /\ sent = 0
  /\ rpc = "idle" /\ rblock = 1 /\ op = "dequeue" /\ result = 0
  /\ wasEmpty = TRUE /\ mostHeld = 0

-----------------------------------------------------------------------------
(* What the queue holds: the blocks from the front block to the tail block, *)
(* each from its front to its tail, but for an item the consumer has moved  *)
(* out already.                                                             *)
Held(b) ==
  [k \in 1 .. (tail[b] - front[b]) % size[b] |-> data[b][(front[b] + k - 1) % size[b]]]

Contents ==
  LET from[b \in Blocks] == IF b = tailBlock THEN Held(b) ELSE Held(b) \o from[next[b]]
  IN IF rpc = "release" THEN Tail(from[frontBlock]) ELSE from[frontBlock]

(* Every step notes the queue it finds.  An item is held until the dequeue  *)
(* of it has returned.                                                      *)
Observe ==
  LET left == Len(Contents)
      held == IF rpc = "release" THEN left + 1 ELSE left
  IN /\ wasEmpty' = (left = 0 \/ (rpc # "idle" /\ wasEmpty))
     /\ mostHeld' = IF wpc # "idle" /\ mostHeld > held THEN mostHeld ELSE held

-----------------------------------------------------------------------------
(* The producer: inner_enqueue.                                             *)
After(b, i) == (i + 1) % size[b]

WStep(from, to) == wpc = from /\ wpc' = to /\ Observe /\ UNCHANGED <<alloc, consumerVars>>

(* The room it knew of is taken first.                                      *)
EnqueueStart(canAlloc) ==
  /\ wpc = "idle"
  /\ sent < MaxItems
  /\ alloc' = canAlloc
  /\ wblock' = tailBlock
  /\ wpc' = IF After(tailBlock, tail[tailBlock]) # localFront[tailBlock]
            THEN "construct" ELSE "loadFront"
  /\ Observe
  /\ UNCHANGED <<queueVars, sent, consumerVars>>

(* Then the room that the consumer has made meanwhile.                      *)
LoadFront ==
  /\ \E to \in {"construct", "loadFrontBlock"} :
       /\ WStep("loadFront", to)
       /\ to = "construct" <=> After(tailBlock, tail[tailBlock]) # front[tailBlock]
  /\ localFront' = [localFront EXCEPT ![tailBlock] = front[tailBlock]]
  /\ UNCHANGED <<made, frontBlock, tailBlock, largestBlockSize, front, tail, localTail, next, size,
                 data, wblock, sent>>

(* Mutant: the next block is taken though the consumer is still in it.      *)
LoadFrontBlockBlindly ==
  /\ WStep("loadFrontBlock", IF next[tailBlock] # tailBlock THEN "loadNext"
                             ELSE IF alloc THEN "alloc" ELSE "full")
  /\ UNCHANGED <<queueVars, wblock, sent>>

(* Then the next block of the ring, unless the consumer is in it.           *)
LoadFrontBlock ==
  /\ WStep("loadFrontBlock", IF next[tailBlock] # frontBlock THEN "loadNext"
                             ELSE IF alloc THEN "alloc" ELSE "full")
  /\ UNCHANGED <<queueVars, wblock, sent>>

LoadNext ==
  /\ WStep("loadNext", "construct")
  /\ wblock' = next[tailBlock]
  /\ localFront' = [localFront EXCEPT ![next[tailBlock]] = front[next[tailBlock]]]
  /\ UNCHANGED <<made, frontBlock, tailBlock, largestBlockSize, front, tail, localTail, next, size,
                 data, sent>>

Construct ==
  /\ WStep("construct", "publish")
  /\ data' = [data EXCEPT ![wblock][tail[wblock]] = sent + 1]
  /\ UNCHANGED <<made, frontBlock, tailBlock, largestBlockSize, front, tail, localTail, localFront,
                 next, size, wblock, sent>>

(* The store of the tail publishes the item, unless it is in the next block. *)
Publish ==
  /\ WStep("publish", IF wblock = tailBlock THEN "idle" ELSE "advance")
  /\ tail' = [tail EXCEPT ![wblock] = After(wblock, tail[wblock])]
  /\ sent' = IF wblock = tailBlock THEN sent + 1 ELSE sent
  /\ UNCHANGED <<made, frontBlock, tailBlock, largestBlockSize, front, localTail, localFront,
                 next, size, data, wblock>>

(* No room: a new block with the item in it, or malloc fails.               *)
Alloc ==
  LET newSize == IF largestBlockSize >= made.maxBlockSize THEN largestBlockSize
                 ELSE largestBlockSize * 2
  IN \E b \in Blocks \ Allocated :
     /\ WStep("alloc", "link")
     /\ \A c \in Blocks \ Allocated : b <= c
     /\ wblock' = b
     /\ largestBlockSize' = newSize
     /\ size' = [size EXCEPT ![b] = newSize]
     /\ data' = [data EXCEPT ![b][0] = sent + 1]
     /\ tail' = [tail EXCEPT ![b] = 1]
     /\ localTail' = [localTail EXCEPT ![b] = 1]
     /\ next' = [next EXCEPT ![b] = next[tailBlock]]
     /\ UNCHANGED <<made, frontBlock, tailBlock, front, localFront, sent>>

AllocFails == WStep("alloc", "idle") /\ UNCHANGED <<queueVars, wblock, sent>>

Link ==
  /\ WStep("link", "advance")
  /\ next' = [next EXCEPT ![tailBlock] = wblock]
  /\ UNCHANGED <<made, frontBlock, tailBlock, largestBlockSize, front, tail, localTail, localFront,
                 size, data, wblock, sent>>

(* The store of tailBlock publishes an item that is not in the tail block.  *)
AdvanceTailBlock ==
  /\ WStep("advance", "idle")
  /\ tailBlock' = wblock
  /\ sent' = sent + 1
  /\ UNCHANGED <<made, frontBlock, largestBlockSize, front, tail, localTail, localFront, next, size,
                 data, wblock>>

(* try_enqueue returns false.                                               *)
Full == WStep("full", "idle") /\ UNCHANGED <<queueVars, wblock, sent>>

EnqueueSteps ==
  \/ LoadFront \/ LoadFrontBlock \/ LoadNext \/ Construct \/ Publish \/ Alloc \/ AllocFails
  \/ Link \/ AdvanceTailBlock \/ Full

-----------------------------------------------------------------------------
(* The consumer: try_dequeue and peek.  pop is try_dequeue, but for the     *)
(* result.                                                                  *)
RStep(from, to) == rpc = from /\ rpc' = to /\ Observe /\ UNCHANGED <<producerVars, op>>

DequeueStart(o) ==
  /\ rpc = "idle"
  /\ op' = o
  /\ rblock' = frontBlock
  /\ rpc' = IF front[frontBlock] # localTail[frontBlock] THEN "take" ELSE "loadTail"
  /\ Observe
  /\ UNCHANGED <<queueVars, result, producerVars>>

(* Mutant: the tail is not read.                                            *)
LoadTailCached ==
  /\ RStep("loadTail", "loadTailBlock")
  /\ UNCHANGED <<queueVars, rblock, result>>

LoadTail ==
  /\ RStep("loadTail", IF front[frontBlock] # tail[frontBlock] THEN "take" ELSE "loadTailBlock")
  /\ localTail' = [localTail EXCEPT ![frontBlock] = tail[frontBlock]]
  /\ UNCHANGED <<made, frontBlock, tailBlock, largestBlockSize, front, tail, localFront, next, size,
                 data, rblock, result>>

(* Mutant: the tail is not read again.                                      *)
LoadTailBlockOnly ==
  /\ RStep("loadTailBlock", IF frontBlock # tailBlock THEN "loadNextTail" ELSE "empty")
  /\ rblock' = IF frontBlock # tailBlock THEN next[frontBlock] ELSE rblock
  /\ UNCHANGED <<queueVars, result>>

LoadTailBlock ==
  /\ RStep("loadTailBlock", IF frontBlock # tailBlock THEN "reloadTail" ELSE "empty")
  /\ UNCHANGED <<queueVars, rblock, result>>

(* The producer may have filled the front block, and gone on, since its     *)
(* tail was read.                                                           *)
ReloadTail ==
  /\ RStep("reloadTail", IF front[frontBlock] # tail[frontBlock] THEN "take" ELSE "loadNextBlock")
  /\ localTail' = [localTail EXCEPT ![frontBlock] = tail[frontBlock]]
  /\ UNCHANGED <<made, frontBlock, tailBlock, largestBlockSize, front, tail, localFront, next, size,
                 data, rblock, result>>

LoadNextBlock ==
  /\ RStep("loadNextBlock", "loadNextTail")
  /\ rblock' = next[frontBlock]
  /\ UNCHANGED <<queueVars, result>>

(* peek stays in the front block, and reads the item in the next.           *)
LoadNextTail ==
  /\ RStep("loadNextTail", IF op = "peek" THEN "take" ELSE "leave")
  /\ localTail' = IF op = "peek" THEN localTail
                  ELSE [localTail EXCEPT ![rblock] = tail[rblock]]
  /\ UNCHANGED <<made, frontBlock, tailBlock, largestBlockSize, front, tail, localFront, next, size,
                 data, rblock, result>>

LeaveBlock ==
  /\ RStep("leave", "take")
  /\ frontBlock' = rblock
  /\ UNCHANGED <<made, tailBlock, largestBlockSize, front, tail, localTail, localFront, next, size,
                 data, rblock, result>>

(* The item is moved out and destroyed; peek returns its address.           *)
TakeItem ==
  /\ op = "dequeue"
  /\ RStep("take", "release")
  /\ result' = data[rblock][front[rblock]]
  /\ data' = [data EXCEPT ![rblock][front[rblock]] = Free]
  /\ UNCHANGED <<made, frontBlock, tailBlock, largestBlockSize, front, tail, localTail, localFront,
                 next, size, rblock>>

Peek ==
  /\ op = "peek"
  /\ RStep("take", "idle")
  /\ UNCHANGED <<queueVars, rblock, result>>

(* The store of the front gives the slot back.                              *)
Release ==
  /\ RStep("release", "idle")
  /\ front' = [front EXCEPT ![rblock] = After(rblock, front[rblock])]
  /\ UNCHANGED <<made, frontBlock, tailBlock, largestBlockSize, tail, localTail, localFront, next,
                 size, data, rblock, result>>

(* try_dequeue returns false.                                               *)
Empty == RStep("empty", "idle") /\ UNCHANGED <<queueVars, rblock, result>>

DequeueSteps ==
  \/ LoadTail \/ LoadTailBlock \/ ReloadTail \/ LoadNextBlock \/ LoadNextTail \/ LeaveBlock
  \/ TakeItem \/ Peek \/ Release \/ Empty

-----------------------------------------------------------------------------
Enqueue == (\E canAlloc \in BOOLEAN : EnqueueStart(canAlloc)) \/ EnqueueSteps
Dequeue == (\E o \in Operations : DequeueStart(o)) \/ DequeueSteps

Next == Enqueue \/ Dequeue

Spec == Init /\ [][Next]_vars

(* A call runs on once it has begun, and the consumer keeps calling         *)
(* try_dequeue, as CRecordThread::svc does, whatever it peeks at between.   *)
FairSpec ==
  /\ Spec
  /\ WF_vars(EnqueueSteps)
  /\ WF_vars(DequeueSteps)
  /\ SF_vars(DequeueStart("dequeue"))

-----------------------------------------------------------------------------

(* The queue is a queue: items come out once each, in order, whichever      *)
(* blocks they went through and however the two threads interleave.         *)
Abstract == INSTANCE Fifo WITH contents <- Contents, taken <- result, Items <- 1 .. MaxItems
ImplementsFifo == Abstract!FifoSpec

(* The assertions of lines 253, 318 and 369: the block that the consumer    *)
(* moves on to has an item.  And of line 460: the one that the producer     *)
(* moves on to is empty.                                                    *)
AssertionsHold ==
  /\ rpc = "loadNextTail" => front[rblock] # tail[rblock]
  /\ wpc = "loadNext" => front[next[tailBlock]] = tail[next[tailBlock]]

(* The threads never meet in a slot: an item is constructed where there is  *)
(* none, and what is moved out or peeked at is the first item of the queue, *)
(* completely there.                                                        *)
SlotsApart ==
  /\ wpc = "construct" => data[wblock][tail[wblock]] = Free
  /\ rpc = "take" => Contents # <<>> /\ data[rblock][front[rblock]] = Head(Contents)

(* When try_dequeue or peek says the queue is empty, it was so at some      *)
(* moment of the call; and when try_enqueue says it is full, it held        *)
(* maxSize items at some moment of the call: "constructs a queue that can   *)
(* hold maxSize elements without further allocations" (line 65), whichever  *)
(* blocks the consumer has drained.                                         *)
AnswersTrue ==
  /\ rpc = "empty" => wasEmpty
  /\ wpc = "full" => mostHeld >= made.maxSize

(* Every item that was enqueued is dequeued in the end.                     *)
Delivered == \A k \in 1 .. MaxItems : sent >= k ~> result >= k
=============================================================================
