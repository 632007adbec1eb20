--------------------------- MODULE SpscQueueProofs ---------------------------
(***************************************************************************)
(* Proofs about SpscQueue, for queues of any sizes and any number of       *)
(* items: an inductive invariant of the lock-free queue, and the           *)
(* assertions of the code.  The ring of blocks is a list in memory that    *)
(* grows behind the tail block and turns as the consumer goes on; the      *)
(* invariant says that its blocks can be placed on a circle, from the      *)
(* front block on, and their items numbered.  The second part is about     *)
(* what the queue promises: the items of the ring are the queue of Fifo,   *)
(* the two threads never meet in a slot, and a queue said to be empty or   *)
(* full was so.  The recursion that reads the items off the ring is solved *)
(* by the numbering of the invariant.                                      *)
(***************************************************************************)
EXTENDS SpscQueue, DivMod, SequenceTheorems, WellFoundedInduction, TLAPS

(* How far slot j of a block is ahead of slot i: the subtraction of the     *)
(* code modulo the size of the block.                                       *)
Dist(b, i, j) == IF i <= j THEN j - i ELSE j - i + size[b]

(* The items in a block: from its front to its tail.                        *)
Count(b) == Dist(b, front[b], tail[b])

(* The blocks of the ring: all that are allocated, but for the one that     *)
(* inner_enqueue has made and not yet linked.                               *)
Linked == {b \in Blocks : size[b] > 0 /\ ~(wpc = "link" /\ b = wblock)}

(* The slots of a block.                                                    *)
Indices(b) == 0 .. size[b] - 1

(* Types of what the queue holds.                                           *)
MemoryOK ==
  /\ made \in Queues
  /\ {frontBlock, tailBlock} \subseteq Blocks
  /\ largestBlockSize \in InitialSize(made) .. InitialSize(made) + 2 * made.maxBlockSize
  /\ next \in [Blocks -> Blocks]
  /\ {front, tail, localTail, localFront, size} \subseteq [Blocks -> Nat]
  /\ data \in [Blocks -> [Slots(made) -> Nat]]
  /\ sent \in Nat /\ result \in Nat

(* Types of what the two threads hold.                                      *)
ThreadsOK ==
  /\ {wblock, rblock} \subseteq Blocks
  /\ wpc \in {"idle", "loadFront", "loadFrontBlock", "loadNext", "construct", "publish", "alloc",
              "link", "advance", "full"}
  /\ rpc \in {"idle", "loadTail", "loadTailBlock", "reloadTail", "loadNextBlock", "loadNextTail",
              "leave", "take", "release", "empty"}
  /\ alloc \in BOOLEAN /\ op \in {"dequeue", "peek"}

(* The type invariant.                                                      *)
TypeOK == MemoryOK /\ ThreadsOK

(* A block that is not allocated is blank; the indices of one that is stay  *)
(* within it, and it is one doubling at most above MAX_BLOCK_SIZE.          *)
Sizes ==
  /\ \A b \in Blocks :
     IF size[b] = 0
     THEN /\ front[b] = 0 /\ tail[b] = 0 /\ localTail[b] = 0 /\ localFront[b] = 0
          /\ \A i \in Slots(made) : data[b][i] = Free
     ELSE /\ size[b] \in InitialSize(made) .. InitialSize(made) + 2 * made.maxBlockSize
          /\ {front[b], tail[b], localTail[b], localFront[b]} \subseteq Indices(b)

(* The copies a thread keeps of the other's index are old, never wrong: the *)
(* consumer's copy of the tail lies behind the tail, the producer's copy of *)
(* the front behind the front.                                              *)
Copies ==
  \A b \in Blocks : size[b] > 0 =>
    /\ Dist(b, front[b], localTail[b]) <= Count(b)
    /\ Count(b) <= Dist(b, localFront[b], tail[b])

(* The linked blocks are a ring of n blocks: pos numbers them from the      *)
(* front block on, and next leads from each to the next.                    *)
Circle(pos, n) ==
  /\ n >= InitialBlocks(made)
  /\ \A b \in Linked : /\ pos[b] \in 0 .. n - 1
                     /\ next[b] \in Linked
                     /\ pos[next[b]] = IF pos[b] = n - 1 THEN 0 ELSE pos[b] + 1
  /\ \A b, c \in Linked : pos[b] = pos[c] => b = c
  /\ \A b \in Blocks \ Linked : next[b] \in Linked
  /\ frontBlock \in Linked /\ pos[frontBlock] = 0
  /\ tailBlock \in Linked

(* Between the front block and the tail block every block is full; the      *)
(* blocks past the tail block are empty, but for the item published in the  *)
(* block that the tail block is about to become.                            *)
Filled(pos) ==
  \A b \in Linked :
     /\ 0 < pos[b] /\ pos[b] <= pos[tailBlock] => Count(b) > 0
     /\ 0 < pos[b] /\ pos[b] < pos[tailBlock] => Count(b) = size[b] - 1
     /\ pos[b] > pos[tailBlock] => Count(b) = IF wpc = "advance" /\ b = wblock THEN 1 ELSE 0

(* Items are numbered as they are enqueued, and the numbers run on from     *)
(* block to block: first is the number of the item at the front of a block. *)
Numbered(pos, first) ==
  /\ sent = first[tailBlock] + Count(tailBlock) - 1
  /\ first[frontBlock] = IF rpc = "release" THEN result ELSE result + 1
  /\ \A b \in Linked : pos[b] < pos[tailBlock] => first[next[b]] = first[b] + Count(b)

(* The least number of items in the blocks after b up to, and without, the  *)
(* tail block, when these are full.                                         *)
Most(pos, b) == (pos[tailBlock] - pos[b]) * (InitialSize(made) - 1)

(* The numbers of the items of a block reach as far as its place in the     *)
(* queue demands.                                                           *)
Counted(pos, first) ==
  \A b \in Linked : pos[b] <= pos[tailBlock] =>
    /\ first[b] + Count(b) <= sent + 1
    /\ 0 < pos[b] => first[b] + Most(pos, b) + Count(tailBlock) <= sent + 1

(* A slot of the queue holds the item of its number, or none while the      *)
(* consumer is releasing it.                                                *)
Items(pos, first) ==
  \A b \in Linked : pos[b] <= pos[tailBlock] => \A i \in Indices(b) :
     Dist(b, front[b], i) < Count(b) =>
        data[b][i] = IF rpc = "release" /\ b = frontBlock /\ i = front[b] THEN Free
                     ELSE first[b] + Dist(b, front[b], i)

(* A slot outside of the queue holds no item, but for the one being         *)
(* published.                                                               *)
NoItems ==
  \A b \in Blocks : \A i \in Indices(b) : Dist(b, front[b], i) >= Count(b) =>
     \/ data[b][i] = Free
     \/ wpc = "publish" /\ b = wblock /\ i = tail[b]

(* What the producer knows at each point of inner_enqueue: it has room      *)
(* where it constructs, and the block it goes on to is not the consumer's.  *)
Producer ==
  /\ wpc # "idle" => sent < MaxItems
  /\ wpc = "loadFront" => wblock = tailBlock
  /\ wpc = "loadNext" => next[tailBlock] # frontBlock
  /\ wpc \in {"construct", "publish"} =>
       /\ wblock = tailBlock \/ (wblock = next[tailBlock] /\ wblock # frontBlock)
       /\ Dist(wblock, localFront[wblock], tail[wblock]) < size[wblock] - 1
  /\ wpc = "publish" => data[wblock][tail[wblock]] = sent + 1
  /\ wpc = "advance" => wblock = next[tailBlock] /\ wblock # frontBlock
  /\ wpc = "link" => size[wblock] > 0 /\ next[wblock] = next[tailBlock]
  /\ wpc \in {"link", "advance"} => Count(wblock) = 1 /\ data[wblock][front[wblock]] = sent + 1

(* The producer has found the tail block full, and is on its way to         *)
(* another.                                                                 *)
LeavesTail ==
  \/ wpc \in {"loadFrontBlock", "loadNext", "alloc", "link", "full", "advance"}
  \/ wpc \in {"construct", "publish"} /\ wblock # tailBlock

(* The tail block is then full as far as the producer knows; and it is      *)
(* really full unless the consumer is in it.                                *)
TailFull ==
  LeavesTail => /\ Dist(tailBlock, localFront[tailBlock], tail[tailBlock]) = size[tailBlock] - 1
                /\ frontBlock # tailBlock => front[tailBlock] = localFront[tailBlock]

(* What the consumer knows at each point of try_dequeue and peek: it leaves *)
(* its block only when that is empty and the producer has gone on, and      *)
(* where it takes an item there is one.                                     *)
Consumer ==
  /\ rpc \in {"reloadTail", "loadNextBlock", "loadNextTail", "leave"} => frontBlock # tailBlock
  /\ rpc \in {"loadNextBlock", "loadNextTail", "leave"} => Count(frontBlock) = 0
  /\ rpc \in {"loadNextTail", "leave"} => rblock = next[frontBlock]
  /\ rpc \in {"loadTail", "loadTailBlock", "reloadTail"} => rblock = frontBlock
  /\ rpc = "leave" => op = "dequeue" /\ localTail[rblock] # front[rblock]
  /\ rpc = "take" /\ op = "dequeue" => rblock = frontBlock /\ localTail[rblock] # front[rblock]
  /\ rpc = "take" /\ op = "peek" =>
        \/ rblock = frontBlock /\ Count(frontBlock) > 0
        \/ rblock = next[frontBlock] /\ frontBlock # tailBlock /\ Count(frontBlock) = 0
  /\ rpc = "release" => op = "dequeue" /\ rblock = frontBlock /\ localTail[rblock] # front[rblock]

(* The part of the invariant that speaks of the state alone,                *)
Parts == TypeOK /\ Sizes /\ Copies /\ NoItems /\ Producer /\ TailFull /\ Consumer

(* and the part about the ring, its numbering and its items.                *)
Placed(pos, first, n) ==
  /\ Circle(pos, n) /\ Filled(pos)
  /\ Numbered(pos, first) /\ Counted(pos, first) /\ Items(pos, first)

(* Numbers for the blocks.                                                  *)
Ghosts == [Blocks -> Int]

(* The inductive invariant: the linked blocks can be placed on a circle and *)
(* numbered so that all of this holds.                                      *)
IInv == Parts /\ \E pos \in Ghosts, first \in Ghosts, n \in Nat \ {0} : Placed(pos, first, n)

(* The sizes the constructor computes are positive, and its blocks are      *)
(* among those of the model.                                                *)
LEMMA SizeBounds ==
  ASSUME NEW q \in Queues
  PROVE  /\ InitialSize(q) \in Nat /\ InitialSize(q) >= 2
         /\ q.maxBlockSize \in Nat /\ q.maxBlockSize >= 2
         /\ q.maxSize \in Nat /\ q.maxSize >= 1
         /\ InitialBlocks(q) \in Nat \ {0}
         /\ InitialBlocks(q) <= q.maxBlocks /\ q.maxBlocks \in Nat
<1> DEFINE d == q.maxBlockSize - 1
           a == q.maxSize + q.maxBlockSize * 2 - 3
           c == CeilToPow2(q.maxSize + 1)
<1>1. /\ q.maxSize \in Nat \ {0} /\ q.maxBlockSize \in Nat \ {0, 1} /\ q.maxBlocks \in Nat
      /\ c \in q.maxSize + 1 .. 2 * q.maxSize + 1
      /\ InitialBlocks(q) <= q.maxBlocks
  BY SizesAssumption, PowerAssumption, BlocksAssumption
<1>2. InitialSize(q) = q.maxBlockSize \/ InitialSize(q) = c
  BY DEF InitialSize
<1>3. d \in Nat \ {0} /\ a \in Nat /\ a >= 2 * d
  BY <1>1
<1>4. InitialBlocks(q) = 1 \/ InitialBlocks(q) = a \div d
  BY DEF InitialBlocks
<1> HIDE DEF d, a, c
<1>5. a \div d \in Int /\ a = (a \div d) * d + (a % d) /\ a % d \in 0 .. d - 1
  <2>1. d \in Nat \ {0} /\ a \in Int
    BY <1>3
  <2> QED
    BY <2>1, DivMod, DivInt, ModRange
<1>6. a \div d >= 1
  <2> SUFFICES ASSUME a \div d <= 0 PROVE FALSE
    BY <1>5
  <2>1. (a \div d) * d <= 0
    BY <1>3, <1>5
  <2> QED
    BY <2>1, <1>3, <1>5
<1> QED
  BY <1>1, <1>2, <1>4, <1>5, <1>6

(* The next slot.                                                           *)
LEMMA AfterIs ==
  ASSUME NEW b, size[b] \in Nat, NEW i \in Indices(b)
  PROVE  After(b, i) = IF i + 1 = size[b] THEN 0 ELSE i + 1
<1>1. size[b] \in Nat \ {0} /\ i \in Nat /\ i < size[b]
  BY DEF Indices
<1>2. CASE i + 1 = size[b]
  <2>1. i + 1 = 1 * size[b] + 0
    BY <1>1, <1>2
  <2> QED
    BY <1>1, <1>2, <2>1, DivModUnique DEF After
<1>3. CASE i + 1 # size[b]
  BY <1>1, <1>3, ModSmall DEF After
<1> QED
  BY <1>2, <1>3

(* The invariant holds of the queue the constructor makes: every block      *)
(* blank, the places of the blocks their numbers in the list it links.      *)
LEMMA InitIInv == Init => IInv
<1> SUFFICES ASSUME Init PROVE IInv
  OBVIOUS
<1> DEFINE pos == [b \in Blocks |-> b - 1]
           first == [b \in Blocks |-> 1]
           n == InitialBlocks(made)
<1>1. /\ made \in Queues /\ Blocks = 1 .. made.maxBlocks /\ n \in Nat \ {0} /\ n <= made.maxBlocks
      /\ made.maxBlocks \in Nat /\ InitialSize(made) \in Nat /\ InitialSize(made) >= 2
      /\ made.maxBlockSize \in Nat
  BY SizeBounds DEF Init, Blocks
<1>2. Linked = 1 .. n
  BY <1>1 DEF Init, Linked
<1>3. TypeOK
  <2>1. data \in [Blocks -> [Slots(made) -> Nat]]
    BY DEF Init, Free
  <2>2. 1 \in Blocks
    BY <1>1
  <2>3. {front, tail, localTail, localFront} \subseteq [Blocks -> Nat]
    BY DEF Init
  <2>4. size \in [Blocks -> Nat]
    BY <1>1 DEF Init
  <2>5. next \in [Blocks -> Blocks]
    <3>1. next = [b \in Blocks |-> IF b < n THEN b + 1 ELSE 1]
      BY DEF Init
    <3>2. \A b \in Blocks : (IF b < n THEN b + 1 ELSE 1) \in Blocks
      BY <1>1
    <3> QED
      BY <3>1, <3>2
  <2>6. largestBlockSize \in InitialSize(made) .. InitialSize(made) + 2 * made.maxBlockSize
    BY <1>1 DEF Init
  <2>7. /\ frontBlock = 1 /\ tailBlock = 1 /\ wblock = 1 /\ rblock = 1
        /\ wpc = "idle" /\ alloc = FALSE /\ sent = 0
        /\ rpc = "idle" /\ op = "dequeue" /\ result = 0
    BY DEF Init
  <2> QED
    BY <1>1, <2>1, <2>2, <2>3, <2>4, <2>5, <2>6, <2>7 DEF TypeOK, MemoryOK, ThreadsOK
<1>4. Sizes /\ Copies /\ NoItems
  BY <1>1 DEF Init, Sizes, Copies, NoItems, Indices, Slots, Free, Count, Dist
<1>5. Producer /\ TailFull /\ Consumer
  BY <1>1 DEF Init, Producer, TailFull, Consumer, LeavesTail
<1>6. Circle(pos, n)
  BY <1>1, <1>2 DEF Init, Circle
<1>7. Filled(pos)
  BY <1>1, <1>2 DEF Init, Filled, Count, Dist
<1>8. Numbered(pos, first)
  BY <1>1, <1>2 DEF Init, Numbered, Count, Dist
<1>9. Items(pos, first)
  BY <1>1, <1>2 DEF Init, Items, Count, Dist, Indices
<1>11. Counted(pos, first)
  BY <1>1, <1>2 DEF Init, Counted, Count, Dist
<1>10. pos \in [Blocks -> Int] /\ first \in [Blocks -> Int]
  BY <1>1
<1> HIDE DEF pos, first, n
<1> QED
  BY <1>1, <1>3, <1>4, <1>5, <1>6, <1>7, <1>8, <1>9, <1>10, <1>11 DEF IInv, Parts, Placed, Ghosts

(* The blocks at the ends of the queue, and the ones that follow them.      *)
LEMMA Ends ==
  ASSUME Parts, NEW pos, NEW first, NEW n, Placed(pos, first, n)
  PROVE  /\ {frontBlock, tailBlock, next[frontBlock], next[tailBlock]} \subseteq Linked
         /\ Linked \subseteq Blocks
         /\ \A b \in Linked : next[b] \in Linked
         /\ \A b \in Linked : size[b] > 0
  BY DEF Placed, Circle, Linked

(* A block that exists: its size, and its indices within it.                *)
LEMMA Ranges ==
  ASSUME Parts, NEW b \in Blocks, size[b] > 0
  PROVE  /\ size[b] \in Nat /\ size[b] >= 2
         /\ {front[b], tail[b], localTail[b], localFront[b]} \subseteq Indices(b)
         /\ Dist(b, front[b], localTail[b]) <= Count(b)
         /\ Count(b) <= Dist(b, localFront[b], tail[b])
         /\ Count(b) \in Indices(b)
         /\ Indices(b) \subseteq Slots(made)
<1>1. InitialSize(made) \in Nat /\ InitialSize(made) >= 2
  BY SizeBounds DEF Parts, TypeOK, MemoryOK
<1>2. size[b] \in Nat /\ size[b] >= InitialSize(made)
  BY <1>1 DEF Parts, TypeOK, MemoryOK, Sizes
<1>3. {front[b], tail[b], localTail[b], localFront[b]} \subseteq Indices(b)
  BY <1>1, <1>2 DEF Parts, Sizes
<1>4. Dist(b, front[b], localTail[b]) <= Count(b) /\ Count(b) <= Dist(b, localFront[b], tail[b])
  BY DEF Parts, Copies
<1>5. Count(b) \in Indices(b)
  BY <1>2, <1>3 DEF Count, Dist, Indices
<1>6. Indices(b) \subseteq Slots(made)
  <2>1. size[b] <= InitialSize(made) + 2 * made.maxBlockSize /\ made.maxBlockSize \in Nat
    BY <1>1, SizeBounds DEF Parts, TypeOK, MemoryOK, Sizes
  <2> QED
    BY <1>1, <1>2, <2>1 DEF Indices, Slots
<1> QED
  BY <1>1, <1>2, <1>3, <1>4, <1>5, <1>6

(* The indices of a block are slots of the memory.                          *)
LEMMA IndicesAreSlots ==
  ASSUME Parts
  PROVE  \A b \in Blocks : Indices(b) \subseteq Slots(made)
<1> SUFFICES ASSUME NEW b \in Blocks PROVE Indices(b) \subseteq Slots(made)
  OBVIOUS
<1>1. CASE size[b] = 0
  BY <1>1 DEF Indices
<1>2. CASE size[b] > 0
  BY <1>2, Ranges
<1> QED
  BY <1>1, <1>2 DEF Parts, TypeOK, MemoryOK

(* Distances on a block: all but one slot lie between a full block's ends.  *)
LEMMA Distances ==
  ASSUME NEW b, size[b] \in Nat, NEW i \in Indices(b), NEW j \in Indices(b)
  PROVE  /\ Dist(b, i, j) \in Indices(b)
         /\ Dist(b, i, j) = 0 <=> i = j
         /\ After(b, j) \in Indices(b)
         /\ After(b, j) = i <=> Dist(b, i, j) = size[b] - 1
         /\ After(b, j) # i => Dist(b, i, After(b, j)) = Dist(b, i, j) + 1
         /\ i # j => Dist(b, After(b, i), j) = Dist(b, i, j) - 1
<1>1. After(b, j) = IF j + 1 = size[b] THEN 0 ELSE j + 1
  BY AfterIs
<1>2. After(b, i) = IF i + 1 = size[b] THEN 0 ELSE i + 1
  BY AfterIs
<1> QED
  BY <1>1, <1>2 DEF Dist, Indices

(* A step that leaves the slots of the queue and its ring alone: at most it *)
(* takes a fresh copy of an index.                                          *)
Still ==
  /\ UNCHANGED <<made, frontBlock, tailBlock, largestBlockSize, front, tail, next, size, data,
                 sent, result>>
  /\ \/ wpc' = wpc /\ wblock' = wblock
     \/ {wpc, wpc'} \cap {"link", "advance", "publish"} = {}
  /\ rpc' = "release" <=> rpc = "release"
  /\ \/ localTail' = localTail
     \/ \E b \in Linked : localTail' = [localTail EXCEPT ![b] = tail[b]]
  /\ \/ localFront' = localFront
     \/ \E b \in Linked : localFront' = [localFront EXCEPT ![b] = front[b]]

(* Such a step keeps all that is said of the memory and of the ring.        *)
LEMMA Frame ==
  ASSUME Parts, NEW pos, NEW first, NEW n, Placed(pos, first, n), Still
  PROVE  /\ Sizes' /\ Copies' /\ NoItems' /\ Placed(pos, first, n)'
         /\ MemoryOK'
         /\ Linked' = Linked /\ Blocks' = Blocks
         /\ \A b : Count(b)' = Count(b)
<1>1. Blocks' = Blocks
  BY DEF Still, Blocks
<1>2. Linked' = Linked
  BY <1>1 DEF Linked, Still
<1>3. \A b : Count(b)' = Count(b)
  BY DEF Count, Dist, Still
<1>4. NoItems'
  BY <1>1, <1>3 DEF Parts, NoItems, Still, Indices, Dist
<1>5. Circle(pos, n)'
  BY <1>1, <1>2 DEF Circle, Still, Placed
<1>6. Filled(pos)'
  BY <1>2, <1>3 DEF Filled, Still, Placed
<1>7. Numbered(pos, first)'
  BY <1>2, <1>3 DEF Numbered, Still, Placed
<1>8. Items(pos, first)'
  BY <1>2, <1>3 DEF Items, Still, Placed, Indices, Dist
<1>13. Counted(pos, first)'
  <2>1. tailBlock' = tailBlock /\ \A b : Most(pos, b)' = Most(pos, b)
    BY DEF Still, Most
  <2> QED
    BY <1>2, <1>3, <2>1 DEF Counted, Still, Placed
<1>9. ASSUME NEW b \in Blocks
      PROVE  /\ localTail'[b] \in {localTail[b], tail[b]}
             /\ localFront'[b] \in {localFront[b], front[b]}
             /\ size[b] = 0 => localTail'[b] = localTail[b] /\ localFront'[b] = localFront[b]
  <2>1. localTail \in [Blocks -> Nat] /\ localFront \in [Blocks -> Nat]
    BY DEF Parts, TypeOK, MemoryOK
  <2>2. \A c \in Linked : size[c] > 0
    BY DEF Linked
  <2> QED
    BY <1>9, <2>1, <2>2 DEF Still
<1>10. Sizes'
  BY <1>1, <1>9 DEF Parts, Sizes, Still, Indices, Slots, InitialSize, ManyBlocks
<1>11. Copies'
  <2>1. SUFFICES ASSUME NEW b \in Blocks, size[b] > 0
                 PROVE  /\ Dist(b, front[b], localTail'[b]) <= Count(b)
                        /\ Count(b) <= Dist(b, localFront'[b], tail[b])
    BY <1>1, <1>3 DEF Copies, Dist, Still
  <2>2. Count(b) <= Count(b)
    BY <2>1 DEF Parts, TypeOK, MemoryOK, Count, Dist
  <2>3. Dist(b, front[b], localTail[b]) <= Count(b) /\ Count(b) <= Dist(b, localFront[b], tail[b])
    BY <2>1 DEF Parts, Copies
  <2> QED
    BY <1>9, <2>1, <2>2, <2>3 DEF Count
<1>12. MemoryOK'
  <2>1. /\ tail \in [Blocks -> Nat] /\ front \in [Blocks -> Nat]
        /\ localTail \in [Blocks -> Nat] /\ localFront \in [Blocks -> Nat]
    BY DEF Parts, TypeOK, MemoryOK
  <2>2. localTail' \in [Blocks -> Nat]
    BY <2>1 DEF Still, Linked
  <2>3. localFront' \in [Blocks -> Nat]
    BY <2>1 DEF Still, Linked
  <2>4. Slots(made)' = Slots(made) /\ InitialSize(made)' = InitialSize(made)
    BY DEF Still
  <2> HIDE DEF Still
  <2>5. UNCHANGED <<made, frontBlock, tailBlock, largestBlockSize, front, tail, next, size, data,
                    sent, result>>
    BY DEF Still
  <2> QED
    BY <1>1, <2>2, <2>3, <2>4, <2>5 DEF Parts, TypeOK, MemoryOK
<1> QED
  BY <1>1, <1>2, <1>3, <1>4, <1>5, <1>6, <1>7, <1>8, <1>10, <1>11, <1>12,
     <1>13 DEF Placed

(* The neighbours: the block after the tail block is empty, but for an item *)
(* that the producer is about to publish; the one after the front block is  *)
(* not, unless the front block is the tail block.                           *)
LEMMA Neighbours ==
  ASSUME Parts, NEW pos \in Ghosts, NEW first, NEW n \in Nat \ {0}, Placed(pos, first, n)
  PROVE  /\ next[tailBlock] # frontBlock =>
              /\ pos[next[tailBlock]] = pos[tailBlock] + 1
              /\ Count(next[tailBlock]) = IF wpc = "advance" THEN 1 ELSE 0
              /\ next[tailBlock] # tailBlock
         /\ frontBlock # tailBlock =>
              /\ pos[next[frontBlock]] = 1 /\ pos[tailBlock] > 0
              /\ Count(next[frontBlock]) > 0
              /\ next[frontBlock] # frontBlock
<1>1. /\ {frontBlock, tailBlock, next[frontBlock], next[tailBlock]} \subseteq Linked
      /\ Linked \subseteq Blocks
  BY Ends
<1>2. \A b \in Linked : /\ pos[b] \in 0 .. n - 1
                        /\ pos[next[b]] = IF pos[b] = n - 1 THEN 0 ELSE pos[b] + 1
  BY DEF Placed, Circle
<1>3. (\A b, c \in Linked : pos[b] = pos[c] => b = c) /\ pos[frontBlock] = 0
  BY DEF Placed, Circle
<1>4. ASSUME next[tailBlock] # frontBlock
      PROVE  /\ pos[next[tailBlock]] = pos[tailBlock] + 1
             /\ Count(next[tailBlock]) = IF wpc = "advance" THEN 1 ELSE 0
             /\ next[tailBlock] # tailBlock
  <2>1. pos[next[tailBlock]] = pos[tailBlock] + 1 /\ pos[tailBlock] \in Int
    BY <1>1, <1>2, <1>3, <1>4
  <2>2. wpc = "advance" => wblock = next[tailBlock]
    BY DEF Parts, Producer
  <2>3. Count(next[tailBlock]) = IF wpc = "advance" /\ next[tailBlock] = wblock THEN 1 ELSE 0
    BY <1>1, <2>1 DEF Placed, Filled
  <2> QED
    BY <2>1, <2>2, <2>3
<1>5. ASSUME frontBlock # tailBlock
      PROVE  /\ pos[next[frontBlock]] = 1 /\ pos[tailBlock] > 0
             /\ Count(next[frontBlock]) > 0
             /\ next[frontBlock] # frontBlock
  <2>1. pos[tailBlock] > 0 /\ pos[tailBlock] \in 0 .. n - 1
    BY <1>1, <1>2, <1>3, <1>5
  <2>2. pos[next[frontBlock]] = 1
    BY <1>1, <1>2, <1>3, <2>1
  <2>3. Count(next[frontBlock]) > 0
    BY <1>1, <2>1, <2>2 DEF Placed, Filled
  <2> QED
    BY <1>3, <2>1, <2>2, <2>3
<1> QED
  BY <1>4, <1>5

(* The acquire of the front of the tail block: when it shows no room, the   *)
(* tail block is full.                                                      *)
LEMMA LoadFrontStep ==
  ASSUME Parts, NEW pos \in Ghosts, NEW first \in Ghosts, NEW n \in Nat \ {0},
         Placed(pos, first, n), LoadFront
  PROVE  Parts' /\ Placed(pos, first, n)'
<1> USE DEF LoadFront, WStep, queueVars, producerVars, consumerVars
<1>1. /\ {frontBlock, tailBlock, next[frontBlock], next[tailBlock]} \subseteq Linked
      /\ Linked \subseteq Blocks
      /\ \A b \in Linked : size[b] > 0
  BY Ends
<1>2. Still
  BY <1>1 DEF Still, Parts, Consumer
<1>3. /\ Sizes' /\ Copies' /\ NoItems' /\ Placed(pos, first, n)' /\ Blocks' = Blocks
      /\ \A b : Count(b)' = Count(b)
      /\ MemoryOK'
  BY <1>2, Frame
<1>4. /\ After(tailBlock, tail[tailBlock]) = front[tailBlock]
         <=> Dist(tailBlock, front[tailBlock], tail[tailBlock]) = size[tailBlock] - 1
      /\ Dist(tailBlock, front[tailBlock], tail[tailBlock]) \in Indices(tailBlock)
      /\ size[tailBlock] \in Nat
  BY <1>1, Ranges, Distances
<1>5. localFront'[tailBlock] = front[tailBlock]
  BY <1>1 DEF Parts, TypeOK, MemoryOK
<1>6. TypeOK'
  BY <1>1, <1>3 DEF Parts, TypeOK, ThreadsOK
<1>7. Producer'
  BY <1>1, <1>3, <1>4, <1>5 DEF Parts, TypeOK, ThreadsOK, Producer, Count, Dist, Indices
<1>8. TailFull'
  BY <1>1, <1>3, <1>4, <1>5 DEF Parts, TypeOK, TailFull, LeavesTail, Producer, Count, Dist, Indices
<1>9. Consumer'
  BY <1>1, <1>3 DEF Parts, TypeOK, ThreadsOK, Consumer, Count, Dist
<1> QED
  BY <1>3, <1>6, <1>7, <1>8, <1>9 DEF Parts

(* The next block is taken only if it is not the consumer's.                *)
LEMMA LoadFrontBlockStep ==
  ASSUME Parts, NEW pos \in Ghosts, NEW first \in Ghosts, NEW n \in Nat \ {0},
         Placed(pos, first, n), LoadFrontBlock
  PROVE  Parts' /\ Placed(pos, first, n)'
<1> USE DEF LoadFrontBlock, WStep, queueVars, producerVars, consumerVars
<1>1. /\ {frontBlock, tailBlock, next[frontBlock], next[tailBlock]} \subseteq Linked
      /\ Linked \subseteq Blocks
      /\ \A b \in Linked : size[b] > 0
  BY Ends
<1>2. Still
  BY <1>1 DEF Still, Parts, Consumer
<1>3. /\ Sizes' /\ Copies' /\ NoItems' /\ Placed(pos, first, n)' /\ Blocks' = Blocks
      /\ \A b : Count(b)' = Count(b)
      /\ MemoryOK'
  BY <1>2, Frame
<1>4. TypeOK'
  BY <1>1, <1>3 DEF Parts, TypeOK, ThreadsOK
<1>5. Producer'
  BY <1>1, <1>3 DEF Parts, TypeOK, ThreadsOK, Producer, Count, Dist, Indices
<1>6. TailFull'
  BY <1>1, <1>3 DEF Parts, TypeOK, TailFull, LeavesTail, Producer, Count, Dist, Indices
<1>7. Consumer'
  BY <1>1, <1>3 DEF Parts, TypeOK, ThreadsOK, Consumer, Count, Dist
<1> QED
  BY <1>3, <1>4, <1>5, <1>6, <1>7 DEF Parts

(* The next block is empty, so that the item has room there.                *)
LEMMA LoadNextStep ==
  ASSUME Parts, NEW pos \in Ghosts, NEW first \in Ghosts, NEW n \in Nat \ {0},
         Placed(pos, first, n), LoadNext
  PROVE  Parts' /\ Placed(pos, first, n)'
<1> USE DEF LoadNext, WStep, queueVars, producerVars, consumerVars
<1>1. /\ {frontBlock, tailBlock, next[frontBlock], next[tailBlock]} \subseteq Linked
      /\ Linked \subseteq Blocks
      /\ \A b \in Linked : size[b] > 0
  BY Ends
<1>2. Still
  BY <1>1 DEF Still, Parts, Consumer
<1>3. /\ Sizes' /\ Copies' /\ NoItems' /\ Placed(pos, first, n)' /\ Blocks' = Blocks
      /\ \A b : Count(b)' = Count(b)
      /\ MemoryOK'
  BY <1>2, Frame
<1>4. /\ next[tailBlock] # frontBlock =>
           /\ Count(next[tailBlock]) = IF wpc = "advance" THEN 1 ELSE 0
           /\ next[tailBlock] # tailBlock
      /\ frontBlock # tailBlock => Count(next[frontBlock]) > 0 /\ next[frontBlock] # frontBlock
  BY Neighbours
<1>5. /\ localFront'[next[tailBlock]] = front[next[tailBlock]]
      /\ next[tailBlock] # tailBlock => localFront'[tailBlock] = localFront[tailBlock]
      /\ size[next[tailBlock]] \in Nat /\ size[next[tailBlock]] >= 2
  BY <1>1, Ranges DEF Parts, TypeOK, MemoryOK
<1>6. TypeOK'
  BY <1>1, <1>3 DEF Parts, TypeOK, ThreadsOK
<1>7. Producer'
  BY <1>1, <1>3, <1>4, <1>5 DEF Parts, TypeOK, ThreadsOK, Producer, Count, Dist, Indices
<1>8. TailFull'
  BY <1>1, <1>3, <1>4, <1>5 DEF Parts, TypeOK, TailFull, LeavesTail, Producer, Count, Dist, Indices
<1>9. Consumer'
  BY <1>1, <1>3 DEF Parts, TypeOK, ThreadsOK, Consumer, Count, Dist
<1> QED
  BY <1>3, <1>6, <1>7, <1>8, <1>9 DEF Parts

(* malloc fails, and nothing has changed.                                   *)
LEMMA AllocFailsStep ==
  ASSUME Parts, NEW pos \in Ghosts, NEW first \in Ghosts, NEW n \in Nat \ {0},
         Placed(pos, first, n), AllocFails
  PROVE  Parts' /\ Placed(pos, first, n)'
<1> USE DEF AllocFails, WStep, queueVars, producerVars, consumerVars
<1>1. /\ {frontBlock, tailBlock, next[frontBlock], next[tailBlock]} \subseteq Linked
      /\ Linked \subseteq Blocks
      /\ \A b \in Linked : size[b] > 0
  BY Ends
<1>2. Still
  BY <1>1 DEF Still, Parts, Consumer
<1>3. /\ Sizes' /\ Copies' /\ NoItems' /\ Placed(pos, first, n)' /\ Blocks' = Blocks
      /\ \A b : Count(b)' = Count(b)
      /\ MemoryOK'
  BY <1>2, Frame
<1>4. TypeOK'
  BY <1>1, <1>3 DEF Parts, TypeOK, ThreadsOK
<1>5. Producer'
  BY <1>1, <1>3 DEF Parts, TypeOK, ThreadsOK, Producer, Count, Dist, Indices
<1>6. TailFull'
  BY <1>1, <1>3 DEF Parts, TypeOK, TailFull, LeavesTail, Producer, Count, Dist, Indices
<1>7. Consumer'
  BY <1>1, <1>3 DEF Parts, TypeOK, ThreadsOK, Consumer, Count, Dist
<1> QED
  BY <1>3, <1>4, <1>5, <1>6, <1>7 DEF Parts

(* CannotAlloc: the producer gives up, and nothing has changed.             *)
LEMMA FullStep ==
  ASSUME Parts, NEW pos \in Ghosts, NEW first \in Ghosts, NEW n \in Nat \ {0},
         Placed(pos, first, n), Full
  PROVE  Parts' /\ Placed(pos, first, n)'
<1> USE DEF Full, WStep, queueVars, producerVars, consumerVars
<1>1. /\ {frontBlock, tailBlock, next[frontBlock], next[tailBlock]} \subseteq Linked
      /\ Linked \subseteq Blocks
      /\ \A b \in Linked : size[b] > 0
  BY Ends
<1>2. Still
  BY <1>1 DEF Still, Parts, Consumer
<1>3. /\ Sizes' /\ Copies' /\ NoItems' /\ Placed(pos, first, n)' /\ Blocks' = Blocks
      /\ \A b : Count(b)' = Count(b)
      /\ MemoryOK'
  BY <1>2, Frame
<1>4. TypeOK'
  BY <1>1, <1>3 DEF Parts, TypeOK, ThreadsOK
<1>5. Producer'
  BY <1>1, <1>3 DEF Parts, TypeOK, ThreadsOK, Producer, Count, Dist, Indices
<1>6. TailFull'
  BY <1>1, <1>3 DEF Parts, TypeOK, TailFull, LeavesTail, Producer, Count, Dist, Indices
<1>7. Consumer'
  BY <1>1, <1>3 DEF Parts, TypeOK, ThreadsOK, Consumer, Count, Dist
<1> QED
  BY <1>3, <1>4, <1>5, <1>6, <1>7 DEF Parts

(* The room the producer knew of is room: the consumer only makes more.     *)
LEMMA EnqueueStartStep ==
  ASSUME Parts, NEW pos \in Ghosts, NEW first \in Ghosts, NEW n \in Nat \ {0},
         Placed(pos, first, n), NEW canAlloc \in BOOLEAN, EnqueueStart(canAlloc)
  PROVE  Parts' /\ Placed(pos, first, n)'
<1> USE DEF EnqueueStart, queueVars, consumerVars
<1>1. /\ {frontBlock, tailBlock, next[frontBlock], next[tailBlock]} \subseteq Linked
      /\ Linked \subseteq Blocks
      /\ \A b \in Linked : size[b] > 0
  BY Ends
<1>2. Still
  BY <1>1 DEF Still, Parts, Consumer
<1>3. /\ Sizes' /\ Copies' /\ NoItems' /\ Placed(pos, first, n)' /\ Blocks' = Blocks
      /\ \A b : Count(b)' = Count(b)
      /\ MemoryOK'
  BY <1>2, Frame
<1>4. /\ After(tailBlock, tail[tailBlock]) = localFront[tailBlock]
         <=> Dist(tailBlock, localFront[tailBlock], tail[tailBlock]) = size[tailBlock] - 1
      /\ Dist(tailBlock, localFront[tailBlock], tail[tailBlock]) \in Indices(tailBlock)
      /\ size[tailBlock] \in Nat
  BY <1>1, Ranges, Distances
<1>5. TypeOK'
  BY <1>1, <1>3 DEF Parts, TypeOK, ThreadsOK
<1>6. Producer'
  BY <1>1, <1>3, <1>4 DEF Parts, TypeOK, ThreadsOK, Producer, Count, Dist, Indices
<1>7. TailFull'
  BY <1>1, <1>3, <1>4 DEF Parts, TypeOK, TailFull, LeavesTail, Producer, Count, Dist, Indices
<1>8. Consumer'
  BY <1>1, <1>3 DEF Parts, TypeOK, ThreadsOK, Consumer, Count, Dist
<1> QED
  BY <1>3, <1>5, <1>6, <1>7, <1>8 DEF Parts

(* The acquire of the tail of the front block.                              *)
LEMMA LoadTailStep ==
  ASSUME Parts, NEW pos \in Ghosts, NEW first \in Ghosts, NEW n \in Nat \ {0},
         Placed(pos, first, n), LoadTail
  PROVE  Parts' /\ Placed(pos, first, n)'
<1> USE DEF LoadTail, RStep, queueVars, producerVars, consumerVars
<1>1. /\ {frontBlock, tailBlock, next[frontBlock], next[tailBlock]} \subseteq Linked
      /\ Linked \subseteq Blocks
      /\ \A b \in Linked : size[b] > 0
  BY Ends
<1>2. Still
  BY <1>1 DEF Still, Parts, Consumer
<1>3. /\ Sizes' /\ Copies' /\ NoItems' /\ Placed(pos, first, n)' /\ Blocks' = Blocks
      /\ \A b : Count(b)' = Count(b)
      /\ MemoryOK'
  BY <1>2, Frame
<1>4. /\ front[frontBlock] # tail[frontBlock] => Count(frontBlock) > 0
      /\ front[frontBlock] = tail[frontBlock] => Count(frontBlock) = 0
  <2>1. /\ size[frontBlock] \in Nat
        /\ {front[frontBlock], tail[frontBlock], localTail[frontBlock]}
             \subseteq Indices(frontBlock)
        /\ Count(frontBlock) \in Indices(frontBlock)
        /\ Dist(frontBlock, front[frontBlock], localTail[frontBlock]) <= Count(frontBlock)
    BY <1>1, Ranges
  <2>2. /\ Dist(frontBlock, front[frontBlock], tail[frontBlock]) = 0
           <=> front[frontBlock] = tail[frontBlock]
        /\ Dist(frontBlock, front[frontBlock], tail[frontBlock]) \in Indices(frontBlock)
        /\ Count(frontBlock) = 0 <=> front[frontBlock] = tail[frontBlock]
    BY <2>1, Distances DEF Count
  <2> QED
    BY <2>1, <2>2 DEF Indices, Count
<1>5. localTail'[frontBlock] = tail[frontBlock]
  BY <1>1 DEF Parts, TypeOK, MemoryOK
<1>6. TypeOK'
  BY <1>1, <1>3 DEF Parts, TypeOK, ThreadsOK
<1>7. Producer'
  BY <1>1, <1>3 DEF Parts, TypeOK, ThreadsOK, Producer, Count, Dist, Indices
<1>8. TailFull'
  BY <1>1, <1>3 DEF Parts, TypeOK, TailFull, LeavesTail, Producer, Count, Dist, Indices
<1>9. Consumer'
  BY <1>1, <1>3, <1>4, <1>5 DEF Parts, TypeOK, ThreadsOK, Consumer, Count, Dist
<1> QED
  BY <1>3, <1>6, <1>7, <1>8, <1>9 DEF Parts

(* The front block is not the tail block: there is a next block with an     *)
(* item in it.                                                              *)
LEMMA LoadTailBlockStep ==
  ASSUME Parts, NEW pos \in Ghosts, NEW first \in Ghosts, NEW n \in Nat \ {0},
         Placed(pos, first, n), LoadTailBlock
  PROVE  Parts' /\ Placed(pos, first, n)'
<1> USE DEF LoadTailBlock, RStep, queueVars, producerVars, consumerVars
<1>1. /\ {frontBlock, tailBlock, next[frontBlock], next[tailBlock]} \subseteq Linked
      /\ Linked \subseteq Blocks
      /\ \A b \in Linked : size[b] > 0
  BY Ends
<1>2. Still
  BY <1>1 DEF Still, Parts, Consumer
<1>3. /\ Sizes' /\ Copies' /\ NoItems' /\ Placed(pos, first, n)' /\ Blocks' = Blocks
      /\ \A b : Count(b)' = Count(b)
      /\ MemoryOK'
  BY <1>2, Frame
<1>4. TypeOK'
  BY <1>1, <1>3 DEF Parts, TypeOK, ThreadsOK
<1>5. Producer'
  BY <1>1, <1>3 DEF Parts, TypeOK, ThreadsOK, Producer, Count, Dist, Indices
<1>6. TailFull'
  BY <1>1, <1>3 DEF Parts, TypeOK, TailFull, LeavesTail, Producer, Count, Dist, Indices
<1>7. Consumer'
  BY <1>1, <1>3 DEF Parts, TypeOK, ThreadsOK, Consumer, Count, Dist
<1> QED
  BY <1>3, <1>4, <1>5, <1>6, <1>7 DEF Parts

(* The tail read again after the tail block: a block that is found empty    *)
(* now stays empty, for the producer has left it.                           *)
LEMMA ReloadTailStep ==
  ASSUME Parts, NEW pos \in Ghosts, NEW first \in Ghosts, NEW n \in Nat \ {0},
         Placed(pos, first, n), ReloadTail
  PROVE  Parts' /\ Placed(pos, first, n)'
<1> USE DEF ReloadTail, RStep, queueVars, producerVars, consumerVars
<1>1. /\ {frontBlock, tailBlock, next[frontBlock], next[tailBlock]} \subseteq Linked
      /\ Linked \subseteq Blocks
      /\ \A b \in Linked : size[b] > 0
  BY Ends
<1>2. Still
  BY <1>1 DEF Still, Parts, Consumer
<1>3. /\ Sizes' /\ Copies' /\ NoItems' /\ Placed(pos, first, n)' /\ Blocks' = Blocks
      /\ \A b : Count(b)' = Count(b)
      /\ MemoryOK'
  BY <1>2, Frame
<1>4. /\ front[frontBlock] # tail[frontBlock] => Count(frontBlock) > 0
      /\ front[frontBlock] = tail[frontBlock] => Count(frontBlock) = 0
  <2>1. /\ size[frontBlock] \in Nat
        /\ {front[frontBlock], tail[frontBlock], localTail[frontBlock]}
             \subseteq Indices(frontBlock)
        /\ Count(frontBlock) \in Indices(frontBlock)
        /\ Dist(frontBlock, front[frontBlock], localTail[frontBlock]) <= Count(frontBlock)
    BY <1>1, Ranges
  <2>2. /\ Dist(frontBlock, front[frontBlock], tail[frontBlock]) = 0
           <=> front[frontBlock] = tail[frontBlock]
        /\ Dist(frontBlock, front[frontBlock], tail[frontBlock]) \in Indices(frontBlock)
        /\ Count(frontBlock) = 0 <=> front[frontBlock] = tail[frontBlock]
    BY <2>1, Distances DEF Count
  <2> QED
    BY <2>1, <2>2 DEF Indices, Count
<1>5. localTail'[frontBlock] = tail[frontBlock]
  BY <1>1 DEF Parts, TypeOK, MemoryOK
<1>6. TypeOK'
  BY <1>1, <1>3 DEF Parts, TypeOK, ThreadsOK
<1>7. Producer'
  BY <1>1, <1>3 DEF Parts, TypeOK, ThreadsOK, Producer, Count, Dist, Indices
<1>8. TailFull'
  BY <1>1, <1>3 DEF Parts, TypeOK, TailFull, LeavesTail, Producer, Count, Dist, Indices
<1>9. Consumer'
  BY <1>1, <1>3, <1>4, <1>5 DEF Parts, TypeOK, ThreadsOK, Consumer, Count, Dist
<1> QED
  BY <1>3, <1>6, <1>7, <1>8, <1>9 DEF Parts

(* The block after the front block.                                         *)
LEMMA LoadNextBlockStep ==
  ASSUME Parts, NEW pos \in Ghosts, NEW first \in Ghosts, NEW n \in Nat \ {0},
         Placed(pos, first, n), LoadNextBlock
  PROVE  Parts' /\ Placed(pos, first, n)'
<1> USE DEF LoadNextBlock, RStep, queueVars, producerVars, consumerVars
<1>1. /\ {frontBlock, tailBlock, next[frontBlock], next[tailBlock]} \subseteq Linked
      /\ Linked \subseteq Blocks
      /\ \A b \in Linked : size[b] > 0
  BY Ends
<1>2. Still
  BY <1>1 DEF Still, Parts, Consumer
<1>3. /\ Sizes' /\ Copies' /\ NoItems' /\ Placed(pos, first, n)' /\ Blocks' = Blocks
      /\ \A b : Count(b)' = Count(b)
      /\ MemoryOK'
  BY <1>2, Frame
<1>4. TypeOK'
  BY <1>1, <1>3 DEF Parts, TypeOK, ThreadsOK
<1>5. Producer'
  BY <1>1, <1>3 DEF Parts, TypeOK, ThreadsOK, Producer, Count, Dist, Indices
<1>6. TailFull'
  BY <1>1, <1>3 DEF Parts, TypeOK, TailFull, LeavesTail, Producer, Count, Dist, Indices
<1>7. Consumer'
  BY <1>1, <1>3 DEF Parts, TypeOK, ThreadsOK, Consumer, Count, Dist
<1> QED
  BY <1>3, <1>4, <1>5, <1>6, <1>7 DEF Parts

(* The tail of the next block: an item is there.                            *)
LEMMA LoadNextTailStep ==
  ASSUME Parts, NEW pos \in Ghosts, NEW first \in Ghosts, NEW n \in Nat \ {0},
         Placed(pos, first, n), LoadNextTail
  PROVE  Parts' /\ Placed(pos, first, n)'
<1> USE DEF LoadNextTail, RStep, queueVars, producerVars, consumerVars
<1>1. /\ {frontBlock, tailBlock, next[frontBlock], next[tailBlock]} \subseteq Linked
      /\ Linked \subseteq Blocks
      /\ \A b \in Linked : size[b] > 0
  BY Ends
<1>2. Still
  BY <1>1 DEF Still, Parts, Consumer
<1>3. /\ Sizes' /\ Copies' /\ NoItems' /\ Placed(pos, first, n)' /\ Blocks' = Blocks
      /\ \A b : Count(b)' = Count(b)
      /\ MemoryOK'
  BY <1>2, Frame
<1>4. /\ next[tailBlock] # frontBlock =>
           /\ Count(next[tailBlock]) = IF wpc = "advance" THEN 1 ELSE 0
           /\ next[tailBlock] # tailBlock
      /\ frontBlock # tailBlock => Count(next[frontBlock]) > 0 /\ next[frontBlock] # frontBlock
  BY Neighbours
<1>5. op # "peek" => localTail'[rblock] = tail[rblock]
  BY <1>1 DEF Parts, TypeOK, MemoryOK, ThreadsOK
<1>6. \A b \in Blocks : tail[b] = front[b] => Count(b) = 0
  BY DEF Parts, TypeOK, MemoryOK, Count, Dist
<1>7. TypeOK'
  BY <1>1, <1>3 DEF Parts, TypeOK, ThreadsOK
<1>8. Producer'
  BY <1>1, <1>3 DEF Parts, TypeOK, ThreadsOK, Producer, Count, Dist, Indices
<1>9. TailFull'
  BY <1>1, <1>3 DEF Parts, TypeOK, TailFull, LeavesTail, Producer, Count, Dist, Indices
<1>10. Consumer'
  BY <1>1, <1>3, <1>4, <1>5, <1>6 DEF Parts, TypeOK, ThreadsOK, Consumer, Count, Dist
<1> QED
  BY <1>3, <1>7, <1>8, <1>9, <1>10 DEF Parts

(* peek returns, and nothing has changed.                                   *)
LEMMA PeekStep ==
  ASSUME Parts, NEW pos \in Ghosts, NEW first \in Ghosts, NEW n \in Nat \ {0},
         Placed(pos, first, n), Peek
  PROVE  Parts' /\ Placed(pos, first, n)'
<1> USE DEF Peek, RStep, queueVars, producerVars, consumerVars
<1>1. /\ {frontBlock, tailBlock, next[frontBlock], next[tailBlock]} \subseteq Linked
      /\ Linked \subseteq Blocks
      /\ \A b \in Linked : size[b] > 0
  BY Ends
<1>2. Still
  BY <1>1 DEF Still, Parts, Consumer
<1>3. /\ Sizes' /\ Copies' /\ NoItems' /\ Placed(pos, first, n)' /\ Blocks' = Blocks
      /\ \A b : Count(b)' = Count(b)
      /\ MemoryOK'
  BY <1>2, Frame
<1>4. TypeOK'
  BY <1>1, <1>3 DEF Parts, TypeOK, ThreadsOK
<1>5. Producer'
  BY <1>1, <1>3 DEF Parts, TypeOK, ThreadsOK, Producer, Count, Dist, Indices
<1>6. TailFull'
  BY <1>1, <1>3 DEF Parts, TypeOK, TailFull, LeavesTail, Producer, Count, Dist, Indices
<1>7. Consumer'
  BY <1>1, <1>3 DEF Parts, TypeOK, ThreadsOK, Consumer, Count, Dist
<1> QED
  BY <1>3, <1>4, <1>5, <1>6, <1>7 DEF Parts

(* try_dequeue and peek find nothing, and nothing has changed.              *)
LEMMA EmptyStep ==
  ASSUME Parts, NEW pos \in Ghosts, NEW first \in Ghosts, NEW n \in Nat \ {0},
         Placed(pos, first, n), Empty
  PROVE  Parts' /\ Placed(pos, first, n)'
<1> USE DEF Empty, RStep, queueVars, producerVars, consumerVars
<1>1. /\ {frontBlock, tailBlock, next[frontBlock], next[tailBlock]} \subseteq Linked
      /\ Linked \subseteq Blocks
      /\ \A b \in Linked : size[b] > 0
  BY Ends
<1>2. Still
  BY <1>1 DEF Still, Parts, Consumer
<1>3. /\ Sizes' /\ Copies' /\ NoItems' /\ Placed(pos, first, n)' /\ Blocks' = Blocks
      /\ \A b : Count(b)' = Count(b)
      /\ MemoryOK'
  BY <1>2, Frame
<1>4. TypeOK'
  BY <1>1, <1>3 DEF Parts, TypeOK, ThreadsOK
<1>5. Producer'
  BY <1>1, <1>3 DEF Parts, TypeOK, ThreadsOK, Producer, Count, Dist, Indices
<1>6. TailFull'
  BY <1>1, <1>3 DEF Parts, TypeOK, TailFull, LeavesTail, Producer, Count, Dist, Indices
<1>7. Consumer'
  BY <1>1, <1>3 DEF Parts, TypeOK, ThreadsOK, Consumer, Count, Dist
<1> QED
  BY <1>3, <1>4, <1>5, <1>6, <1>7 DEF Parts

(* The items the consumer knew of are there: the producer only adds more.   *)
LEMMA DequeueStartStep ==
  ASSUME Parts, NEW pos \in Ghosts, NEW first \in Ghosts, NEW n \in Nat \ {0},
         Placed(pos, first, n), NEW o \in Operations, DequeueStart(o)
  PROVE  Parts' /\ Placed(pos, first, n)'
<1> USE ItemsAssumption DEF DequeueStart, queueVars, producerVars
<1>1. /\ {frontBlock, tailBlock, next[frontBlock], next[tailBlock]} \subseteq Linked
      /\ Linked \subseteq Blocks
      /\ \A b \in Linked : size[b] > 0
  BY Ends
<1>2. Still
  BY <1>1 DEF Still, Parts, Consumer
<1>3. /\ Sizes' /\ Copies' /\ NoItems' /\ Placed(pos, first, n)' /\ Blocks' = Blocks
      /\ \A b : Count(b)' = Count(b)
      /\ MemoryOK'
  BY <1>2, Frame
<1>4. /\ front[frontBlock] # localTail[frontBlock] => Count(frontBlock) > 0
      /\ front[frontBlock] = tail[frontBlock] => Count(frontBlock) = 0
  <2>1. /\ size[frontBlock] \in Nat
        /\ {front[frontBlock], tail[frontBlock], localTail[frontBlock]}
             \subseteq Indices(frontBlock)
        /\ Count(frontBlock) \in Indices(frontBlock)
        /\ Dist(frontBlock, front[frontBlock], localTail[frontBlock]) <= Count(frontBlock)
    BY <1>1, Ranges
  <2>2. /\ Dist(frontBlock, front[frontBlock], localTail[frontBlock]) = 0
           <=> front[frontBlock] = localTail[frontBlock]
        /\ Dist(frontBlock, front[frontBlock], localTail[frontBlock]) \in Indices(frontBlock)
        /\ Count(frontBlock) = 0 <=> front[frontBlock] = tail[frontBlock]
    BY <2>1, Distances DEF Count
  <2> QED
    BY <2>1, <2>2 DEF Indices, Count
<1>5. TypeOK'
  BY <1>1, <1>3 DEF Parts, TypeOK, ThreadsOK
<1>6. Producer'
  BY <1>1, <1>3 DEF Parts, TypeOK, ThreadsOK, Producer, Count, Dist, Indices
<1>7. TailFull'
  BY <1>1, <1>3 DEF Parts, TypeOK, TailFull, LeavesTail, Producer, Count, Dist, Indices
<1>8. Consumer'
  BY <1>1, <1>3, <1>4 DEF Parts, TypeOK, ThreadsOK, Consumer, Count, Dist
<1> QED
  BY <1>3, <1>5, <1>6, <1>7, <1>8 DEF Parts

(* The item is constructed in a slot outside of the queue.                  *)
LEMMA ConstructStep ==
  ASSUME Parts, NEW pos \in Ghosts, NEW first \in Ghosts, NEW n \in Nat \ {0},
         Placed(pos, first, n), Construct
  PROVE  Parts' /\ Placed(pos, first, n)'
<1>1. /\ {frontBlock, tailBlock, next[frontBlock], next[tailBlock]} \subseteq Linked
      /\ Linked \subseteq Blocks
      /\ \A b \in Linked : size[b] > 0
  BY Ends
<1>2. /\ wblock \in Linked
      /\ tail[wblock] \in Indices(wblock) /\ tail[wblock] \in Slots(made)
  <2>1. wblock \in Linked
    BY <1>1 DEF Construct, WStep, Parts, Producer
  <2> QED
    BY <1>1, <2>1, Ranges
<1>3. /\ data' \in [Blocks -> [Slots(made) -> Nat]]
      /\ data'[wblock][tail[wblock]] = sent + 1
      /\ \A b \in Blocks : \A i \in Slots(made) :
            b # wblock \/ i # tail[wblock] => data'[b][i] = data[b][i]
  BY <1>1, <1>2 DEF Construct, Parts, TypeOK, MemoryOK
<1>4. /\ UNCHANGED <<made, frontBlock, tailBlock, largestBlockSize, front, tail, localTail,
                     localFront, next, size, wblock, sent>>
      /\ UNCHANGED <<alloc, rpc, rblock, op, result>>
      /\ wpc = "construct" /\ wpc' = "publish"
  BY DEF Construct, WStep, consumerVars
<1>5. /\ Blocks' = Blocks /\ Linked' = Linked
      /\ \A b : Count(b)' = Count(b) /\ Indices(b)' = Indices(b)
      /\ \A b, i, j : Dist(b, i, j)' = Dist(b, i, j)
  BY <1>4 DEF Blocks, Linked, Count, Dist, Indices
<1>6. TypeOK'
  BY <1>3, <1>4, <1>5 DEF Parts, TypeOK, MemoryOK, ThreadsOK
<1>7. Sizes'
  BY <1>1, <1>2, <1>3, <1>4, <1>5 DEF Parts, Sizes
<1>8. Copies'
  BY <1>4, <1>5 DEF Parts, Copies, Dist
<1>9. NoItems'
  BY <1>3, <1>4, <1>5, IndicesAreSlots DEF Parts, NoItems, Dist
<1>10. Producer'
  BY <1>3, <1>4, <1>5 DEF Parts, Producer, Dist
<1>11. TailFull'
  BY <1>4, <1>5 DEF Parts, TailFull, LeavesTail, Dist
<1>12. Consumer'
  BY <1>4, <1>5 DEF Parts, Consumer
<1>13. Circle(pos, n)' /\ Filled(pos)' /\ Numbered(pos, first)' /\ Counted(pos, first)'
  <2>1. tailBlock' = tailBlock /\ \A b : Most(pos, b)' = Most(pos, b)
    BY <1>4 DEF Most
  <2> QED
    BY <1>4, <1>5, <2>1 DEF Placed, Circle, Filled, Numbered, Counted
<1>14. Items(pos, first)'
  <2>1. SUFFICES ASSUME NEW b \in Linked, NEW i \in Indices(b), Dist(b, front[b], i) < Count(b)
                 PROVE  data'[b][i] = data[b][i]
    BY <1>4, <1>5 DEF Placed, Items, Dist
  <2>2. i \in Slots(made) /\ size[b] \in Nat
    BY <1>1, Ranges
  <2> QED
    BY <1>1, <1>3, <2>1, <2>2 DEF Count, Parts, TypeOK, MemoryOK, Dist
<1> QED
  BY <1>6, <1>7, <1>8, <1>9, <1>10, <1>11, <1>12, <1>13, <1>14 DEF Parts, Placed

(* The tail is stored: the item joins the queue if its block is the tail    *)
(* block, and otherwise waits in an empty block past it.                    *)
LEMMA PublishStep ==
  ASSUME Parts, NEW pos \in Ghosts, NEW first \in Ghosts, NEW n \in Nat \ {0},
         Placed(pos, first, n), Publish
  PROVE  Parts' /\ Placed(pos, first, n)'
<1>1. /\ {frontBlock, tailBlock, next[frontBlock], next[tailBlock]} \subseteq Linked
      /\ Linked \subseteq Blocks
      /\ \A b \in Linked : size[b] > 0
  BY Ends
<1>2. /\ wblock = tailBlock \/ (wblock = next[tailBlock] /\ wblock # frontBlock)
      /\ wblock \in Linked
      /\ Dist(wblock, localFront[wblock], tail[wblock]) < size[wblock] - 1
      /\ data[wblock][tail[wblock]] = sent + 1
  BY <1>1 DEF Publish, WStep, Parts, Producer
<1>3. /\ size[wblock] \in Nat
      /\ {front[wblock], tail[wblock], localTail[wblock], localFront[wblock]}
           \subseteq Indices(wblock)
      /\ Count(wblock) <= Dist(wblock, localFront[wblock], tail[wblock])
      /\ Dist(wblock, front[wblock], localTail[wblock]) <= Count(wblock)
      /\ Count(wblock) \in Indices(wblock)
  BY <1>1, <1>2, Ranges
<1>4. /\ After(wblock, tail[wblock]) \in Indices(wblock)
      /\ \A i \in Indices(wblock) : Dist(wblock, i, tail[wblock]) < size[wblock] - 1 =>
           Dist(wblock, i, After(wblock, tail[wblock])) = Dist(wblock, i, tail[wblock]) + 1
  <2>1. tail[wblock] \in Indices(wblock)
    BY <1>3
  <2>2. After(wblock, tail[wblock]) \in Indices(wblock)
    BY <1>3, <2>1, Distances
  <2>3. ASSUME NEW i \in Indices(wblock), Dist(wblock, i, tail[wblock]) < size[wblock] - 1
        PROVE  Dist(wblock, i, After(wblock, tail[wblock])) = Dist(wblock, i, tail[wblock]) + 1
    <3>1. Dist(wblock, i, tail[wblock]) # size[wblock] - 1
      BY <1>3, <2>3
    <3> QED
      BY <1>3, <2>1, <3>1, Distances
  <2> QED
    BY <2>2, <2>3
<1>5. /\ Dist(wblock, front[wblock], tail[wblock]) = Count(wblock)
      /\ Count(wblock) < size[wblock] - 1
      /\ Dist(wblock, localFront[wblock], tail[wblock]) \in Nat
  BY <1>2, <1>3, Distances DEF Count, Indices
<1>6. /\ tail' \in [Blocks -> Nat]
      /\ tail'[wblock] = After(wblock, tail[wblock])
      /\ \A b \in Blocks : b # wblock => tail'[b] = tail[b]
  BY <1>1, <1>2, <1>4 DEF Publish, Parts, TypeOK, MemoryOK, Indices
<1>7. /\ UNCHANGED <<made, frontBlock, tailBlock, largestBlockSize, front, localTail, localFront,
                     next, size, data, wblock>>
      /\ UNCHANGED <<alloc, rpc, rblock, op, result>>
      /\ wpc = "publish" /\ wpc' = (IF wblock = tailBlock THEN "idle" ELSE "advance")
      /\ sent' = IF wblock = tailBlock THEN sent + 1 ELSE sent
  BY DEF Publish, WStep, consumerVars
<1>8. /\ Blocks' = Blocks /\ Linked' = Linked
      /\ \A b : Indices(b)' = Indices(b)
      /\ \A b, i, j : Dist(b, i, j)' = Dist(b, i, j)
  BY <1>7 DEF Blocks, Linked, Dist, Indices
<1>9. /\ \A b \in Blocks : Count(b)' = IF b = wblock THEN Count(b) + 1 ELSE Count(b)
      /\ Dist(wblock, localFront[wblock], tail'[wblock])
           = Dist(wblock, localFront[wblock], tail[wblock]) + 1
  BY <1>2, <1>3, <1>4, <1>5, <1>6, <1>7, <1>8 DEF Count, Dist
<1> /\ \A b \in Blocks : Count(b) \in Int
    /\ \A b \in Blocks : \A i \in Indices(b) : Dist(b, front[b], i) \in Int /\ i \in Int
  BY DEF Parts, TypeOK, MemoryOK, Count, Dist, Indices
<1>10. \A i \in Indices(wblock) :
          Dist(wblock, front[wblock], i) = Count(wblock) => i = tail[wblock]
  BY <1>3 DEF Count, Dist, Indices
<1>11. TypeOK'
  BY <1>6, <1>7, <1>8 DEF Parts, TypeOK, MemoryOK, ThreadsOK
<1>12. Sizes'
  BY <1>1, <1>2, <1>4, <1>6, <1>7, <1>8 DEF Parts, Sizes
<1>13. Copies'
  BY <1>3, <1>5, <1>6, <1>7, <1>8, <1>9 DEF Parts, Copies, Dist, Indices
<1>14. NoItems'
  <2>1. SUFFICES ASSUME NEW b \in Blocks, NEW i \in Indices(b), Dist(b, front[b], i) >= Count(b)'
                 PROVE  data[b][i] = Free
    BY <1>7, <1>8 DEF NoItems, Dist
  <2>2. Dist(b, front[b], i) >= Count(b) /\ (b = wblock => i # tail[wblock])
    BY <1>5, <1>9, <2>1
  <2> QED
    BY <1>7, <2>1, <2>2 DEF Parts, NoItems
<1>15. wblock # tailBlock => /\ Count(wblock) = 0 /\ front[wblock] = tail[wblock]
                             /\ pos[wblock] = pos[tailBlock] + 1
  <2>1. wblock # tailBlock => Count(wblock) = 0 /\ pos[wblock] = pos[tailBlock] + 1
    BY <1>2, <1>7, Neighbours
  <2>2. Count(wblock) = 0 => front[wblock] = tail[wblock]
    BY <1>3, Distances DEF Count
  <2> QED
    BY <2>1, <2>2
<1>16. Producer'
  BY <1>1, <1>2, <1>7, <1>8, <1>9, <1>15 DEF Parts, Producer, Dist
<1>17. TailFull'
  BY <1>1, <1>2, <1>6, <1>7, <1>8 DEF Parts, TailFull, LeavesTail, Dist
<1>18. Consumer'
  BY <1>1, <1>2, <1>3, <1>5, <1>7, <1>8, <1>9 DEF Parts, Consumer, Indices
<1>19. Circle(pos, n)'
  BY <1>7, <1>8 DEF Placed, Circle
<1>20. Filled(pos)'
  BY <1>1, <1>2, <1>3, <1>7, <1>8, <1>9, <1>15 DEF Placed, Filled, Circle, Ghosts, Indices
<1>21. Numbered(pos, first)'
  BY <1>1, <1>2, <1>3, <1>7, <1>8, <1>9, <1>15 DEF Placed, Numbered, Circle, Ghosts, Indices
<1>23. Counted(pos, first)'
  <2>1. SUFFICES ASSUME NEW b \in Linked, pos[b] <= pos[tailBlock]
                 PROVE  /\ first[b] + Count(b)' <= sent' + 1
                        /\ 0 < pos[b] =>
                             first[b] + Most(pos, b) + Count(tailBlock)' <= sent' + 1
    BY <1>7, <1>8 DEF Counted, Most
  <2>2. /\ first[b] + Count(b) <= sent + 1
        /\ 0 < pos[b] => first[b] + Most(pos, b) + Count(tailBlock) <= sent + 1
    BY <2>1 DEF Placed, Counted
  <2>3. /\ Count(tailBlock)' = IF tailBlock = wblock THEN Count(tailBlock) + 1 ELSE Count(tailBlock)
        /\ Count(b)' = IF b = wblock THEN Count(b) + 1 ELSE Count(b)
    BY <1>1, <1>7, <1>9
  <2>4. b = wblock => wblock = tailBlock
    BY <1>1, <1>15, <2>1 DEF Ghosts
  <2>5. /\ first[b] \in Int /\ Most(pos, b) \in Int /\ sent \in Int
        /\ Count(b) \in Int /\ Count(tailBlock) \in Int
    <3>1. pos[b] \in Int /\ pos[tailBlock] \in Int /\ first[b] \in Int
      BY <1>1 DEF Ghosts
    <3> QED
      BY <1>1, <3>1, SizeBounds DEF Most, Parts, TypeOK, MemoryOK
  <2> HIDE DEF Most
  <2> QED
    BY <1>7, <2>2, <2>3, <2>4, <2>5
<1>22. Items(pos, first)'
  <2>1. SUFFICES ASSUME NEW b \in Linked, pos[b] <= pos[tailBlock],
                        NEW i \in Indices(b), Dist(b, front[b], i) < Count(b)'
                 PROVE  data[b][i] = IF rpc = "release" /\ b = frontBlock /\ i = front[b] THEN Free
                                     ELSE first[b] + Dist(b, front[b], i)
    BY <1>7, <1>8 DEF Items, Dist
  <2>2. CASE Dist(b, front[b], i) < Count(b)
    BY <2>1, <2>2 DEF Placed, Items
  <2>3. CASE ~ (Dist(b, front[b], i) < Count(b))
    <3>1. b = wblock /\ Dist(b, front[b], i) = Count(b)
      BY <1>1, <1>9, <2>1, <2>3
    <3>2. i = tail[b] /\ b = tailBlock
      <4>1. pos[tailBlock] \in Int
        BY <1>1 DEF Ghosts
      <4> QED
        BY <1>10, <1>15, <2>1, <3>1, <4>1
    <3>3. ~ (rpc = "release" /\ b = frontBlock /\ i = front[b])
      <4>1. SUFFICES ASSUME rpc = "release", b = frontBlock, tail[b] = front[b] PROVE FALSE
        BY <3>2
      <4>2. localTail[b] # front[b]
        BY <4>1 DEF Parts, Consumer
      <4>3. Dist(b, front[b], localTail[b]) # 0 /\ Count(b) = 0
        <5>1. rblock = frontBlock
          BY <4>1 DEF Parts, Consumer
        <5> QED
          BY <1>3, <3>1, <4>1, <4>2, <5>1, Distances DEF Count
      <4>4. Dist(b, front[b], localTail[b]) \in Indices(b)
        BY <1>3, <3>1, Distances
      <4> QED
        BY <1>3, <3>1, <4>3, <4>4 DEF Indices
    <3>4. sent = first[b] + Count(b) - 1
      BY <3>2 DEF Placed, Numbered
    <3> QED
      <4>1. sent \in Int /\ first[b] \in Int /\ Count(b) \in Int
        BY <1>1 DEF Ghosts, Parts, TypeOK, MemoryOK
      <4> QED
        BY <1>2, <3>1, <3>2, <3>3, <3>4, <4>1
  <2> QED
    BY <2>2, <2>3
<1> QED
  BY <1>11, <1>12, <1>13, <1>14, <1>16, <1>17, <1>18, <1>19, <1>20, <1>21, <1>22, <1>23
  DEF Parts, Placed

(* A new block with the item in it, known to the producer alone.            *)
LEMMA AllocStep ==
  ASSUME Parts, NEW pos \in Ghosts, NEW first \in Ghosts, NEW n \in Nat \ {0},
         Placed(pos, first, n), Alloc
  PROVE  Parts' /\ Placed(pos, first, n)'
<1>1. /\ {frontBlock, tailBlock, next[frontBlock], next[tailBlock]} \subseteq Linked
      /\ Linked \subseteq Blocks
      /\ \A b \in Linked : size[b] > 0
  BY Ends
<1> DEFINE newSize == IF largestBlockSize >= made.maxBlockSize THEN largestBlockSize
                      ELSE largestBlockSize * 2
<1>2. PICK b \in Blocks \ Allocated :
        /\ wblock' = b
        /\ largestBlockSize' = newSize
        /\ size' = [size EXCEPT ![b] = newSize]
        /\ data' = [data EXCEPT ![b][0] = sent + 1]
        /\ tail' = [tail EXCEPT ![b] = 1]
        /\ localTail' = [localTail EXCEPT ![b] = 1]
        /\ next' = [next EXCEPT ![b] = next[tailBlock]]
  BY DEF Alloc
<1>3. /\ UNCHANGED <<made, frontBlock, tailBlock, front, localFront, sent>>
      /\ UNCHANGED <<alloc, rpc, rblock, op, result>>
      /\ wpc = "alloc" /\ wpc' = "link"
  BY DEF Alloc, WStep, consumerVars
<1>4. /\ newSize \in InitialSize(made) .. InitialSize(made) + 2 * made.maxBlockSize
      /\ newSize \in Nat /\ newSize >= 2
      /\ 0 \in Slots(made)
  <2>1. /\ InitialSize(made) \in Nat /\ InitialSize(made) >= 2
        /\ made.maxBlockSize \in Nat /\ made.maxBlockSize >= 2
    BY SizeBounds DEF Parts, TypeOK, MemoryOK
  <2>2. largestBlockSize \in InitialSize(made) .. InitialSize(made) + 2 * made.maxBlockSize
    BY DEF Parts, TypeOK, MemoryOK
  <2>3. Slots(made) = 0 .. InitialSize(made) + 2 * made.maxBlockSize - 1
    BY DEF Slots
  <2> QED
    BY <2>1, <2>2, <2>3
<1> HIDE DEF newSize
<1>5. /\ b \notin Linked /\ size[b] = 0 /\ front[b] = 0 /\ localFront[b] = 0
      /\ \A i \in Slots(made) : data[b][i] = Free
  BY DEF Allocated, Linked, Parts, TypeOK, MemoryOK, Sizes
<1>6. /\ size'[b] = newSize /\ tail'[b] = 1 /\ localTail'[b] = 1 /\ next'[b] = next[tailBlock]
      /\ data'[b][0] = sent + 1
      /\ \A i \in Slots(made) : i # 0 => data'[b][i] = Free
      /\ \A c \in Blocks : c # b =>
           /\ size'[c] = size[c] /\ tail'[c] = tail[c] /\ localTail'[c] = localTail[c]
           /\ next'[c] = next[c] /\ data'[c] = data[c]
  BY <1>2, <1>4, <1>5 DEF Parts, TypeOK, MemoryOK
<1>7. MemoryOK'
  <2>1. size' \in [Blocks -> Nat] /\ tail' \in [Blocks -> Nat] /\ localTail' \in [Blocks -> Nat]
    BY <1>2, <1>4 DEF Parts, TypeOK, MemoryOK
  <2>2. next' \in [Blocks -> Blocks]
    BY <1>1, <1>2 DEF Parts, TypeOK, MemoryOK
  <2>3. data' \in [Blocks -> [Slots(made) -> Nat]]
    BY <1>2, <1>4 DEF Parts, TypeOK, MemoryOK
  <2>4. largestBlockSize' \in InitialSize(made) .. InitialSize(made) + 2 * made.maxBlockSize
    BY <1>2, <1>4
  <2>5. Blocks' = Blocks /\ Slots(made)' = Slots(made) /\ InitialSize(made)' = InitialSize(made)
    BY <1>3 DEF Blocks
  <2> QED
    BY <1>3, <2>1, <2>2, <2>3, <2>4, <2>5 DEF Parts, TypeOK, MemoryOK
<1>8. Blocks' = Blocks /\ Linked' = Linked
  <2>1. Blocks' = Blocks
    BY <1>3 DEF Blocks
  <2> QED
    BY <1>2, <1>3, <1>5, <1>6, <2>1 DEF Linked
<1>9. \A c \in Blocks : c # b =>
        /\ Indices(c)' = Indices(c) /\ Count(c)' = Count(c)
        /\ \A i, j : Dist(c, i, j)' = Dist(c, i, j)
  BY <1>3, <1>6, <1>8 DEF Count, Dist, Indices
<1>10. Count(b)' = 1 /\ Indices(b)' = 0 .. newSize - 1 /\ \A i \in Nat : Dist(b, 0, i)' = i
  BY <1>3, <1>5, <1>6 DEF Count, Dist, Indices
<1>11. TypeOK'
  BY <1>2, <1>3, <1>7, <1>8 DEF Parts, TypeOK, ThreadsOK
<1>12. Sizes'
  BY <1>3, <1>4, <1>5, <1>6, <1>8, <1>9, <1>10 DEF Parts, Sizes
<1>13. Copies'
  BY <1>3, <1>5, <1>6, <1>8, <1>9, <1>10 DEF Parts, Copies
<1>14. NoItems'
  <2>1. SUFFICES ASSUME NEW c \in Blocks, NEW i \in Indices(c)',
                        Dist(c, front[c], i)' >= Count(c)'
                 PROVE  data'[c][i] = Free
    BY <1>3, <1>8 DEF NoItems
  <2>2. CASE c = b
    <3>1. i \in Slots(made) /\ i # 0
      <4>1. front' = front /\ i \in Nat /\ i <= newSize - 1
        BY <1>3, <1>4, <1>10, <2>1, <2>2
      <4>2. Dist(b, front[b], i)' = i
        BY <1>5, <1>10, <2>2, <4>1 DEF Dist
      <4>3. i >= 1
        BY <1>10, <2>1, <2>2, <4>2
      <4>4. InitialSize(made) \in Nat /\ made.maxBlockSize \in Nat
        BY SizeBounds DEF Parts, TypeOK, MemoryOK
      <4> QED
        BY <1>4, <4>1, <4>3, <4>4 DEF Slots
    <3> QED
      BY <1>6, <2>2, <3>1
  <2>3. CASE c # b
    BY <1>3, <1>6, <1>9, <2>1, <2>3 DEF Parts, NoItems
  <2> QED
    BY <2>2, <2>3
<1>15. Producer'
  BY <1>1, <1>2, <1>3, <1>4, <1>5, <1>6, <1>10 DEF Parts, Producer
<1>16. TailFull'
  BY <1>1, <1>2, <1>3, <1>5, <1>6, <1>9 DEF Parts, TailFull, LeavesTail
<1>17. Consumer'
  BY <1>1, <1>2, <1>3, <1>5, <1>6, <1>9 DEF Parts, Consumer
<1>18. Circle(pos, n)'
  BY <1>1, <1>2, <1>3, <1>5, <1>6, <1>8 DEF Placed, Circle
<1>19. Filled(pos)'
  BY <1>1, <1>2, <1>3, <1>5, <1>6, <1>8, <1>9 DEF Placed, Filled
<1>20. Numbered(pos, first)'
  BY <1>1, <1>2, <1>3, <1>5, <1>6, <1>8, <1>9 DEF Placed, Numbered
<1>22. Counted(pos, first)'
  <2>1. \A c : Most(pos, c)' = Most(pos, c)
    BY <1>3 DEF Most
  <2> QED
    BY <1>1, <1>2, <1>3, <1>5, <1>6, <1>8, <1>9, <2>1 DEF Placed, Counted
<1>21. Items(pos, first)'
  BY <1>1, <1>2, <1>3, <1>5, <1>6, <1>8, <1>9 DEF Placed, Items
<1> QED
  BY <1>11, <1>12, <1>13, <1>14, <1>15, <1>16, <1>17, <1>18, <1>19, <1>20, <1>21, <1>22
  DEF Parts, Placed

(* The places of the blocks when a block is linked behind the tail block.   *)
Linking(pos) ==
  [b \in Blocks |-> IF b = wblock THEN pos[tailBlock] + 1
                    ELSE IF pos[b] > pos[tailBlock] THEN pos[b] + 1 ELSE pos[b]]

(* The block is linked behind the tail block: the blocks past that one move *)
(* up a place.                                                              *)
LEMMA LinkStep ==
  ASSUME Parts, NEW pos \in Ghosts, NEW first \in Ghosts, NEW n \in Nat \ {0},
         Placed(pos, first, n), Link
  PROVE  Parts' /\ \E p \in Ghosts : Placed(p, first, n + 1)'
<1>1. /\ {frontBlock, tailBlock, next[frontBlock], next[tailBlock]} \subseteq Linked
      /\ Linked \subseteq Blocks
      /\ \A b \in Linked : size[b] > 0
  BY Ends
<1>2. /\ UNCHANGED <<made, frontBlock, tailBlock, largestBlockSize, front, tail, localTail,
                     localFront, size, data, wblock, sent>>
      /\ UNCHANGED <<alloc, rpc, rblock, op, result>>
      /\ wpc = "link" /\ wpc' = "advance"
  BY DEF Link, WStep, consumerVars
<1>3. /\ wblock \in Blocks /\ wblock \notin Linked /\ size[wblock] > 0
      /\ next[wblock] = next[tailBlock] /\ Count(wblock) = 1
  BY <1>2 DEF Linked, Parts, TypeOK, ThreadsOK, Producer
<1>4. /\ next' \in [Blocks -> Blocks]
      /\ next'[tailBlock] = wblock
      /\ \A b \in Blocks : b # tailBlock => next'[b] = next[b]
  BY <1>1, <1>3 DEF Link, Parts, TypeOK, MemoryOK
<1>5. /\ Blocks' = Blocks
      /\ \A b : Count(b)' = Count(b) /\ Indices(b)' = Indices(b)
      /\ \A b, i, j : Dist(b, i, j)' = Dist(b, i, j)
  BY <1>2 DEF Blocks, Count, Dist, Indices
<1>6. Linked' = Linked \cup {wblock}
  BY <1>2, <1>3, <1>5 DEF Linked
<1>7. TypeOK'
  BY <1>2, <1>4, <1>5 DEF Parts, TypeOK, MemoryOK, ThreadsOK
<1>8. Sizes' /\ Copies' /\ NoItems'
  BY <1>2, <1>5 DEF Parts, Sizes, Copies, NoItems, Dist
<1>9. Producer'
  BY <1>1, <1>2, <1>3, <1>4, <1>5 DEF Parts, Producer
<1>10. TailFull'
  BY <1>2, <1>5 DEF Parts, TailFull, LeavesTail, Dist
<1>11. Consumer'
  BY <1>1, <1>2, <1>4, <1>5 DEF Parts, Consumer
<1> PICK p \in Ghosts : p = Linking(pos)
  <2>1. \A b \in Blocks : pos[b] \in Int
    BY DEF Ghosts
  <2>2. Linking(pos) \in Ghosts
    BY <1>1, <2>1 DEF Linking, Ghosts
  <2> QED
    BY <2>2
<1>12. /\ p \in Ghosts /\ p[wblock] = pos[tailBlock] + 1
       /\ \A b \in Linked : p[b] = IF pos[b] > pos[tailBlock] THEN pos[b] + 1 ELSE pos[b]
  BY <1>1, <1>3 DEF Linking, Ghosts
<1>13. /\ \A b \in Linked : /\ pos[b] \in 0 .. n - 1
                            /\ next[b] \in Linked
                            /\ pos[next[b]] = IF pos[b] = n - 1 THEN 0 ELSE pos[b] + 1
       /\ \A b, c \in Linked : pos[b] = pos[c] => b = c
       /\ \A b \in Blocks \ Linked : next[b] \in Linked
       /\ pos[frontBlock] = 0
       /\ n >= InitialBlocks(made) /\ InitialBlocks(made) \in Nat
  BY SizeBounds DEF Placed, Circle, Parts, TypeOK, MemoryOK
<1>14. Circle(p, n + 1)'
  <2>1. ASSUME NEW b \in Linked \cup {wblock}
        PROVE  /\ p[b] \in 0 .. n
               /\ next'[b] \in Linked \cup {wblock}
               /\ p[next'[b]] = IF p[b] = n THEN 0 ELSE p[b] + 1
    <3>1. CASE b = wblock
      BY <1>1, <1>3, <1>4, <1>12, <1>13, <3>1
    <3>2. CASE b = tailBlock
      BY <1>1, <1>3, <1>4, <1>12, <1>13, <3>2
    <3>3. CASE b # wblock /\ b # tailBlock
      <4>1. b \in Linked /\ next'[b] = next[b]
        BY <1>1, <1>4, <2>1, <3>3
      <4>2. pos[b] # pos[tailBlock]
        BY <1>1, <1>13, <3>3, <4>1
      <4> QED
        BY <1>1, <1>12, <1>13, <4>1, <4>2
    <3> QED
      BY <3>1, <3>2, <3>3
  <2>2. ASSUME NEW b \in Linked \cup {wblock}, NEW c \in Linked \cup {wblock}, p[b] = p[c]
        PROVE  b = c
    BY <1>1, <1>12, <1>13, <2>2
  <2>3. p[frontBlock] = 0
    BY <1>1, <1>12, <1>13
  <2>4. n + 1 >= InitialBlocks(made)
    BY <1>13
  <2>5. n + 1 - 1 = n
    OBVIOUS
  <2> QED
    BY <1>1, <1>2, <1>4, <1>5, <1>6, <1>13, <2>1, <2>2, <2>3, <2>4, <2>5 DEF Circle
<1>15. \A b \in Linked : /\ p[b] <= p[tailBlock] <=> pos[b] <= pos[tailBlock]
                         /\ p[b] < p[tailBlock] <=> pos[b] < pos[tailBlock]
                         /\ p[b] > p[tailBlock] <=> pos[b] > pos[tailBlock]
                         /\ p[b] > 0 <=> pos[b] > 0
  BY <1>1, <1>12, <1>13
<1>16. p[wblock] > p[tailBlock] /\ p[tailBlock] \in Int /\ p[wblock] \in Int
  BY <1>1, <1>12, <1>13
<1>17. Filled(p)'
  BY <1>1, <1>2, <1>3, <1>5, <1>6, <1>15, <1>16 DEF Placed, Filled
<1>18. Numbered(p, first)'
  <2>1. ASSUME NEW b \in Linked, pos[b] < pos[tailBlock] PROVE next'[b] = next[b]
    BY <1>1, <1>4, <1>13, <2>1
  <2> QED
    BY <1>1, <1>2, <1>3, <1>5, <1>6, <1>15, <1>16, <2>1 DEF Placed, Numbered
<1>20. Counted(p, first)'
  <2>1. \A b \in Linked : pos[b] <= pos[tailBlock] => Most(p, b)' = Most(pos, b)
    BY <1>1, <1>2, <1>12, <1>13 DEF Most
  <2>2. tailBlock' = tailBlock
    BY <1>2
  <2> QED
    BY <1>1, <1>2, <1>3, <1>5, <1>6, <1>15, <1>16, <2>1, <2>2 DEF Placed, Counted
<1>19. Items(p, first)'
  BY <1>1, <1>2, <1>3, <1>5, <1>6, <1>15, <1>16 DEF Placed, Items, Dist
<1> QED
  BY <1>7, <1>8, <1>9, <1>10, <1>11, <1>12, <1>14, <1>17, <1>18, <1>19, <1>20
  DEF Parts, Placed

(* The tail block is stored: the block with the new item joins the queue,   *)
(* and its numbers begin with that item.                                    *)
LEMMA AdvanceTailBlockStep ==
  ASSUME Parts, NEW pos \in Ghosts, NEW first \in Ghosts, NEW n \in Nat \ {0},
         Placed(pos, first, n), AdvanceTailBlock
  PROVE  Parts' /\ \E f \in Ghosts : Placed(pos, f, n)'
<1>1. /\ {frontBlock, tailBlock, next[frontBlock], next[tailBlock]} \subseteq Linked
      /\ Linked \subseteq Blocks
      /\ \A b \in Linked : size[b] > 0
  BY Ends
<1>2. /\ UNCHANGED <<made, frontBlock, largestBlockSize, front, tail, localTail, localFront, next,
                     size, data, wblock>>
      /\ UNCHANGED <<alloc, rpc, rblock, op, result>>
      /\ wpc = "advance" /\ wpc' = "idle"
      /\ tailBlock' = wblock /\ sent' = sent + 1
  BY DEF AdvanceTailBlock, WStep, consumerVars
<1>3. /\ wblock = next[tailBlock] /\ wblock # frontBlock /\ wblock \in Linked
      /\ Count(wblock) = 1 /\ data[wblock][front[wblock]] = sent + 1
      /\ pos[wblock] = pos[tailBlock] + 1 /\ wblock # tailBlock
  BY <1>1, <1>2, Neighbours DEF Parts, Producer
<1>4. /\ Blocks' = Blocks /\ Linked' = Linked
      /\ \A b : Count(b)' = Count(b) /\ Indices(b)' = Indices(b)
      /\ \A b, i, j : Dist(b, i, j)' = Dist(b, i, j)
  BY <1>2 DEF Blocks, Count, Dist, Indices, Linked
<1>5. TypeOK'
  BY <1>1, <1>2, <1>3, <1>4 DEF Parts, TypeOK, MemoryOK, ThreadsOK
<1>6. Sizes' /\ Copies' /\ NoItems'
  BY <1>2, <1>4 DEF Parts, Sizes, Copies, NoItems, Dist
<1>7. Producer' /\ TailFull'
  BY <1>2 DEF Parts, Producer, TailFull, LeavesTail
<1>8. Consumer'
  BY <1>1, <1>2, <1>3, <1>4 DEF Parts, Consumer
<1>9. Circle(pos, n)'
  BY <1>2, <1>3, <1>4 DEF Placed, Circle
<1>10. /\ \A b \in Linked : /\ pos[b] \in 0 .. n - 1
                            /\ pos[next[b]] = IF pos[b] = n - 1 THEN 0 ELSE pos[b] + 1
       /\ \A b, c \in Linked : pos[b] = pos[c] => b = c
       /\ \A b \in Linked : next[b] \in Linked
       /\ pos[frontBlock] = 0
  BY DEF Placed, Circle
<1>11. pos[tailBlock] > 0 => Count(tailBlock) = size[tailBlock] - 1
  BY <1>1, <1>2, <1>10 DEF Parts, TailFull, LeavesTail, Count
<1>12. Filled(pos)'
  <2>1. SUFFICES ASSUME NEW b \in Linked
                 PROVE  /\ 0 < pos[b] /\ pos[b] <= pos[tailBlock] + 1 => Count(b) > 0
                        /\ 0 < pos[b] /\ pos[b] < pos[tailBlock] + 1 => Count(b) = size[b] - 1
                        /\ pos[b] > pos[tailBlock] + 1 => Count(b) = 0
    BY <1>2, <1>3, <1>4 DEF Filled
  <2>2. pos[b] \in Int /\ pos[tailBlock] \in Int /\ pos[wblock] \in Int
    BY <1>1, <1>3, <1>10
  <2>3. /\ pos[b] = pos[tailBlock] + 1 => b = wblock
        /\ pos[b] = pos[tailBlock] => b = tailBlock
    BY <1>1, <1>3, <1>10
  <2> QED
    BY <1>3, <1>11, <2>2, <2>3 DEF Placed, Filled
<1> PICK f \in Ghosts : f = [first EXCEPT ![wblock] = sent + 1]
  <2>1. sent + 1 \in Int
    BY DEF Parts, TypeOK, MemoryOK
  <2>2. [first EXCEPT ![wblock] = sent + 1] \in Ghosts
    BY <2>1 DEF Ghosts
  <2> QED
    BY <2>2
<1>13. f \in Ghosts /\ f[wblock] = sent + 1 /\ \A b \in Linked : b # wblock => f[b] = first[b]
  BY <1>1, <1>3 DEF Ghosts, Parts, TypeOK, MemoryOK
<1>14. sent = first[tailBlock] + Count(tailBlock) - 1 /\ sent \in Int
  BY DEF Placed, Numbered, Parts, TypeOK, MemoryOK
<1>15. first[tailBlock] \in Int /\ Count(tailBlock) \in Int
  BY <1>1 DEF Ghosts, Parts, TypeOK, MemoryOK, Count, Dist
<1>16. Numbered(pos, f)'
  <2>1. sent' = f[tailBlock'] + Count(wblock) - 1
    BY <1>2, <1>3, <1>13, <1>14
  <2>2. f[frontBlock] = IF rpc = "release" THEN result ELSE result + 1
    BY <1>1, <1>3, <1>13 DEF Placed, Numbered
  <2>3. ASSUME NEW b \in Linked, pos[b] < pos[tailBlock] + 1 PROVE f[next[b]] = f[b] + Count(b)
    <3>1. CASE b = tailBlock
      BY <1>3, <1>13, <1>14, <1>15, <3>1
    <3>2. CASE b # tailBlock
      <4>1. pos[b] < pos[tailBlock]
        BY <1>1, <1>10, <2>3, <3>2
      <4>2. b # wblock /\ next[b] # wblock /\ next[b] \in Linked
        BY <1>1, <1>3, <1>10, <4>1
      <4> QED
        BY <1>13, <4>1, <4>2 DEF Placed, Numbered
    <3> QED
      BY <3>1, <3>2
  <2> QED
    BY <1>2, <1>3, <1>4, <2>1, <2>2, <2>3 DEF Numbered
<1>18. Counted(pos, f)'
  <2>1. SUFFICES ASSUME NEW b \in Linked, pos[b] <= pos[tailBlock] + 1
                 PROVE  /\ f[b] + Count(b) <= sent + 2
                        /\ 0 < pos[b] => f[b] + Most(pos, b)' + 1 <= sent + 2
    BY <1>2, <1>3, <1>4, <1>14 DEF Counted
  <2>2. /\ Most(pos, b)' = (pos[wblock] - pos[b]) * (InitialSize(made) - 1)
        /\ Most(pos, b) = (pos[tailBlock] - pos[b]) * (InitialSize(made) - 1)
    BY <1>2, <1>3 DEF Most
  <2>3. /\ pos[b] \in Int /\ pos[tailBlock] \in Int /\ first[b] \in Int /\ Count(b) \in Int
        /\ InitialSize(made) \in Int
    BY <1>1, <1>10, SizeBounds DEF Ghosts, Parts, TypeOK, MemoryOK, Count, Dist
  <2>4. CASE b = wblock
    <3>1. Most(pos, b)' = 0 * (InitialSize(made) - 1)
      BY <1>3, <2>2, <2>3, <2>4
    <3> QED
      BY <1>3, <1>13, <1>14, <2>3, <2>4, <3>1
  <2>5. CASE b # wblock
    <3>1. pos[b] <= pos[tailBlock] /\ f[b] = first[b]
      BY <1>1, <1>3, <1>10, <1>13, <2>1, <2>5
    <3>2. /\ first[b] + Count(b) <= sent + 1
          /\ 0 < pos[b] => first[b] + Most(pos, b) + Count(tailBlock) <= sent + 1
      BY <3>1 DEF Placed, Counted
    <3>3. 0 < pos[b] => Count(tailBlock) >= InitialSize(made) - 1
      <4>1. size[tailBlock] >= InitialSize(made) /\ size[tailBlock] \in Int
        BY <1>1, <2>3, SizeBounds DEF Parts, TypeOK, MemoryOK, Sizes
      <4> QED
        BY <1>11, <2>3, <3>1, <4>1
    <3> DEFINE x == pos[tailBlock] - pos[b]
               y == InitialSize(made) - 1
    <3>4. x \in Int /\ y \in Int /\ pos[wblock] - pos[b] = x + 1
      BY <1>3, <2>3
    <3>5. Most(pos, b)' = (x + 1) * y /\ Most(pos, b) = x * y
      BY <2>2, <3>4
    <3> HIDE DEF x, y
    <3>6. Most(pos, b)' = Most(pos, b) + y /\ Most(pos, b) \in Int
      BY <3>4, <3>5
    <3> QED
      BY <1>14, <1>15, <2>3, <3>1, <3>2, <3>3, <3>4, <3>6 DEF y
  <2> QED
    BY <2>4, <2>5
<1>17. Items(pos, f)'
  <2>1. SUFFICES ASSUME NEW b \in Linked, pos[b] <= pos[tailBlock] + 1,
                        NEW i \in Indices(b), Dist(b, front[b], i) < Count(b)
                 PROVE  data[b][i] = IF rpc = "release" /\ b = frontBlock /\ i = front[b] THEN Free
                                     ELSE f[b] + Dist(b, front[b], i)
    BY <1>2, <1>3, <1>4 DEF Items, Dist
  <2>2. CASE b = wblock
    <3>1. size[b] \in Nat /\ front[b] \in Indices(b)
      BY <1>1, <2>1, Ranges
    <3>2. Dist(b, front[b], i) \in Indices(b) /\ (Dist(b, front[b], i) = 0 <=> front[b] = i)
      BY <2>1, <3>1, Distances
    <3>3. Dist(b, front[b], i) = 0 /\ front[b] = i
      BY <1>3, <2>1, <2>2, <3>2 DEF Indices
    <3> QED
      BY <1>3, <1>13, <1>14, <2>2, <3>3
  <2>3. CASE b # wblock
    <3>1. pos[b] <= pos[tailBlock]
      BY <1>1, <1>3, <1>10, <2>1, <2>3
    <3> QED
      BY <1>13, <2>1, <2>3, <3>1 DEF Placed, Items
  <2> QED
    BY <2>2, <2>3
<1> QED
  BY <1>5, <1>6, <1>7, <1>8, <1>9, <1>12, <1>13, <1>16, <1>17, <1>18
  DEF Parts, Placed

(* The places of the blocks when the consumer goes on to the next block.    *)
Leaving(pos, n) == [b \in Blocks |-> IF pos[b] = 0 THEN n - 1 ELSE pos[b] - 1]

(* The consumer goes on to the next block: the block it left, which is      *)
(* empty, is now the last of the ring.                                      *)
LEMMA LeaveBlockStep ==
  ASSUME Parts, NEW pos \in Ghosts, NEW first \in Ghosts, NEW n \in Nat \ {0},
         Placed(pos, first, n), LeaveBlock
  PROVE  Parts' /\ \E p \in Ghosts : Placed(p, first, n)'
<1>1. /\ {frontBlock, tailBlock, next[frontBlock], next[tailBlock]} \subseteq Linked
      /\ Linked \subseteq Blocks
      /\ \A b \in Linked : size[b] > 0
  BY Ends
<1>2. /\ UNCHANGED <<made, tailBlock, largestBlockSize, front, tail, localTail, localFront, next,
                     size, data, rblock, result>>
      /\ UNCHANGED <<wpc, wblock, alloc, sent, op>>
      /\ rpc = "leave" /\ rpc' = "take"
      /\ frontBlock' = rblock
  BY DEF LeaveBlock, RStep, producerVars
<1>3. /\ rblock = next[frontBlock] /\ frontBlock # tailBlock /\ Count(frontBlock) = 0
      /\ op = "dequeue" /\ localTail[rblock] # front[rblock]
      /\ pos[rblock] = 1 /\ pos[tailBlock] > 0 /\ rblock # frontBlock
  BY <1>2, Neighbours DEF Parts, Consumer
<1>4. /\ Blocks' = Blocks /\ Linked' = Linked
      /\ \A b : Count(b)' = Count(b) /\ Indices(b)' = Indices(b)
      /\ \A b, i, j : Dist(b, i, j)' = Dist(b, i, j)
  BY <1>2 DEF Blocks, Count, Dist, Indices, Linked
<1>5. /\ \A b \in Linked : /\ pos[b] \in 0 .. n - 1
                           /\ next[b] \in Linked
                           /\ pos[next[b]] = IF pos[b] = n - 1 THEN 0 ELSE pos[b] + 1
      /\ \A b, c \in Linked : pos[b] = pos[c] => b = c
      /\ pos[frontBlock] = 0
  BY DEF Placed, Circle
<1>6. next[tailBlock] # rblock
  BY <1>1, <1>3, <1>5
<1>7. TypeOK'
  BY <1>2, <1>4 DEF Parts, TypeOK, MemoryOK, ThreadsOK
<1>8. Sizes' /\ Copies' /\ NoItems'
  BY <1>2, <1>4 DEF Parts, Sizes, Copies, NoItems, Dist
<1>9. Producer'
  BY <1>2, <1>4, <1>6 DEF Parts, Producer, Dist
<1>10. TailFull'
  BY <1>2, <1>3, <1>4 DEF Parts, TailFull, LeavesTail, Dist
<1>11. Consumer'
  BY <1>2, <1>3 DEF Consumer
<1> PICK p \in Ghosts : p = Leaving(pos, n)
  <2>1. \A b \in Blocks : pos[b] \in Int
    BY DEF Ghosts
  <2>2. Leaving(pos, n) \in Ghosts
    BY <2>1 DEF Leaving, Ghosts
  <2> QED
    BY <2>2
<1>12. \A b \in Linked : p[b] = IF pos[b] = 0 THEN n - 1 ELSE pos[b] - 1
  BY <1>1 DEF Leaving
<1>13. Circle(p, n)'
  <2>1. ASSUME NEW b \in Linked
        PROVE  p[b] \in 0 .. n - 1 /\ p[next[b]] = IF p[b] = n - 1 THEN 0 ELSE p[b] + 1
    BY <1>1, <1>3, <1>5, <1>12
  <2>2. ASSUME NEW b \in Linked, NEW c \in Linked, p[b] = p[c] PROVE b = c
    BY <1>5, <1>12, <2>2
  <2>3. p[rblock] = 0
    BY <1>1, <1>3, <1>12
  <2> QED
    BY <1>1, <1>2, <1>3, <1>4, <1>5, <2>1, <2>2, <2>3 DEF Placed, Circle
<1>14. \A b \in Linked : b # frontBlock =>
         /\ p[b] <= p[tailBlock] <=> pos[b] <= pos[tailBlock]
         /\ p[b] < p[tailBlock] <=> pos[b] < pos[tailBlock]
         /\ p[b] > p[tailBlock] <=> pos[b] > pos[tailBlock]
         /\ p[b] > 0 => pos[b] > 0
  BY <1>1, <1>3, <1>5, <1>12
<1>15. p[frontBlock] > p[tailBlock] /\ p[frontBlock] \in Int /\ p[tailBlock] \in Int
  BY <1>1, <1>3, <1>5, <1>12
<1>16. wpc = "advance" => wblock # frontBlock
  BY DEF Parts, Producer
<1>17. Filled(p)'
  BY <1>1, <1>2, <1>3, <1>4, <1>14, <1>15, <1>16 DEF Placed, Filled
<1>18. Numbered(p, first)'
  <2>1. first[rblock] = result + 1
    <3>1. first[rblock] = first[frontBlock] + 0
      BY <1>1, <1>3, <1>5 DEF Placed, Numbered
    <3>2. first[frontBlock] = result + 1 /\ result \in Int
      BY <1>2 DEF Placed, Numbered, Parts, TypeOK, MemoryOK
    <3> QED
      BY <3>1, <3>2
  <2> QED
    BY <1>1, <1>2, <1>4, <1>14, <1>15, <2>1 DEF Placed, Numbered
<1>20. Counted(p, first)'
  <2>1. \A b \in Linked : b # frontBlock => Most(p, b)' = Most(pos, b)
    BY <1>1, <1>2, <1>3, <1>5, <1>12 DEF Most
  <2> QED
    BY <1>1, <1>2, <1>4, <1>14, <1>15, <2>1 DEF Placed, Counted
<1>19. Items(p, first)'
  BY <1>1, <1>2, <1>4, <1>14, <1>15 DEF Placed, Items, Dist
<1> QED
  BY <1>7, <1>8, <1>9, <1>10, <1>11, <1>13, <1>17, <1>18, <1>19, <1>20
  DEF Parts, Placed

(* The item is moved out: it is the first of the queue, the next number.    *)
LEMMA TakeItemStep ==
  ASSUME Parts, NEW pos \in Ghosts, NEW first \in Ghosts, NEW n \in Nat \ {0},
         Placed(pos, first, n), TakeItem
  PROVE  Parts' /\ Placed(pos, first, n)'
<1>1. /\ {frontBlock, tailBlock, next[frontBlock], next[tailBlock]} \subseteq Linked
      /\ Linked \subseteq Blocks
      /\ \A b \in Linked : size[b] > 0
  BY Ends
<1>2. /\ UNCHANGED <<made, frontBlock, tailBlock, largestBlockSize, front, tail, localTail,
                     localFront, next, size, rblock>>
      /\ UNCHANGED <<wpc, wblock, alloc, sent, op>>
      /\ rpc = "take" /\ rpc' = "release" /\ op = "dequeue"
      /\ result' = data[rblock][front[rblock]]
  BY DEF TakeItem, RStep, producerVars
<1>3. rblock = frontBlock /\ localTail[frontBlock] # front[frontBlock]
  BY <1>2 DEF Parts, Consumer
<1>4. /\ front[frontBlock] \in Indices(frontBlock) /\ front[frontBlock] \in Slots(made)
      /\ Dist(frontBlock, front[frontBlock], front[frontBlock]) = 0
      /\ 0 < Count(frontBlock)
  <2>1. /\ size[frontBlock] \in Nat
        /\ {front[frontBlock], localTail[frontBlock]} \subseteq Indices(frontBlock)
        /\ Indices(frontBlock) \subseteq Slots(made)
        /\ Dist(frontBlock, front[frontBlock], localTail[frontBlock]) <= Count(frontBlock)
        /\ Count(frontBlock) \in Indices(frontBlock)
    BY <1>1, Ranges
  <2>2. /\ Dist(frontBlock, front[frontBlock], front[frontBlock]) = 0
        /\ Dist(frontBlock, front[frontBlock], localTail[frontBlock]) # 0
        /\ Dist(frontBlock, front[frontBlock], localTail[frontBlock]) \in Indices(frontBlock)
    BY <1>3, <2>1, Distances
  <2> QED
    BY <2>1, <2>2 DEF Indices
<1>5. /\ data' \in [Blocks -> [Slots(made) -> Nat]]
      /\ data'[frontBlock][front[frontBlock]] = Free
      /\ \A b \in Blocks : \A i \in Slots(made) :
           b # frontBlock \/ i # front[frontBlock] => data'[b][i] = data[b][i]
  BY <1>1, <1>3, <1>4 DEF TakeItem, Parts, TypeOK, MemoryOK, Free
<1>6. /\ Blocks' = Blocks /\ Linked' = Linked
      /\ \A b : Count(b)' = Count(b) /\ Indices(b)' = Indices(b)
      /\ \A b, i, j : Dist(b, i, j)' = Dist(b, i, j)
  BY <1>2 DEF Blocks, Count, Dist, Indices, Linked
<1>7. pos[frontBlock] = 0 /\ pos[tailBlock] >= 0
  BY <1>1 DEF Placed, Circle
<1>8. result' = result + 1 /\ first[frontBlock] = result + 1
  <2>1. first[frontBlock] = result + 1 /\ result \in Nat
    BY <1>2 DEF Placed, Numbered, Parts, TypeOK, MemoryOK
  <2>2. data[frontBlock][front[frontBlock]] = first[frontBlock] + 0
    BY <1>1, <1>2, <1>4, <1>7 DEF Placed, Items
  <2> QED
    BY <1>2, <1>3, <2>1, <2>2
<1>9. TypeOK'
  BY <1>2, <1>5, <1>6, <1>8 DEF Parts, TypeOK, MemoryOK, ThreadsOK
<1>10. Sizes'
  BY <1>1, <1>2, <1>5, <1>6 DEF Parts, Sizes
<1>11. Copies'
  BY <1>2, <1>6 DEF Parts, Copies, Dist
<1>12. NoItems'
  BY <1>2, <1>5, <1>6, IndicesAreSlots DEF Parts, NoItems, Dist
<1>13. Producer'
  <2>1. Count(frontBlock) > 0 => tail[frontBlock] # front[frontBlock]
    BY DEF Count, Dist, Parts, TypeOK, MemoryOK
  <2>2. wpc = "publish" => wblock \in Linked /\ tail[wblock] \in Slots(made)
    <3>1. wpc = "publish" => wblock \in Linked
      BY <1>1 DEF Parts, Producer
    <3> QED
      BY <1>1, <3>1, Ranges
  <2>3. wpc \in {"link", "advance"} => /\ wblock \in Blocks /\ size[wblock] > 0
                                       /\ wblock # frontBlock
    BY <1>1 DEF Parts, Producer, Linked, TypeOK, ThreadsOK
  <2>4. wpc \in {"link", "advance"} => front[wblock] \in Slots(made)
    BY <2>3, Ranges
  <2> QED
    BY <1>1, <1>2, <1>4, <1>5, <1>6, <2>1, <2>2, <2>3, <2>4 DEF Parts, Producer, Dist
<1>14. TailFull'
  BY <1>2, <1>6 DEF Parts, TailFull, LeavesTail, Dist
<1>15. Consumer'
  BY <1>2, <1>3 DEF Consumer
<1>16. Circle(pos, n)' /\ Filled(pos)'
  BY <1>2, <1>6 DEF Placed, Circle, Filled
<1>17. Numbered(pos, first)'
  BY <1>2, <1>6, <1>8 DEF Placed, Numbered
<1>19. Counted(pos, first)'
  <2>1. tailBlock' = tailBlock /\ \A b : Most(pos, b)' = Most(pos, b)
    BY <1>2 DEF Most
  <2> QED
    BY <1>2, <1>6, <2>1 DEF Placed, Counted
<1>18. Items(pos, first)'
  BY <1>1, <1>2, <1>5, <1>6, IndicesAreSlots DEF Placed, Items, Dist
<1> QED
  BY <1>9, <1>10, <1>11, <1>12, <1>13, <1>14, <1>15, <1>16, <1>17, <1>18, <1>19
  DEF Parts, Placed

(* The front is stored: the slot, which holds no item, leaves the queue.    *)
LEMMA ReleaseStep ==
  ASSUME Parts, NEW pos \in Ghosts, NEW first \in Ghosts, NEW n \in Nat \ {0},
         Placed(pos, first, n), Release
  PROVE  Parts' /\ \E f \in Ghosts : Placed(pos, f, n)'
<1>1. /\ {frontBlock, tailBlock, next[frontBlock], next[tailBlock]} \subseteq Linked
      /\ Linked \subseteq Blocks
      /\ \A b \in Linked : size[b] > 0
  BY Ends
<1>2. /\ UNCHANGED <<made, frontBlock, tailBlock, largestBlockSize, tail, localTail, localFront,
                     next, size, data, rblock, result>>
      /\ UNCHANGED <<wpc, wblock, alloc, sent, op>>
      /\ rpc = "release" /\ rpc' = "idle"
  BY DEF Release, RStep, producerVars
<1>3. rblock = frontBlock /\ localTail[frontBlock] # front[frontBlock]
  BY <1>2 DEF Parts, Consumer
<1>4. /\ size[frontBlock] \in Nat /\ size[frontBlock] >= 2
      /\ {front[frontBlock], tail[frontBlock], localTail[frontBlock]} \subseteq Indices(frontBlock)
      /\ Dist(frontBlock, front[frontBlock], localTail[frontBlock]) <= Count(frontBlock)
      /\ Count(frontBlock) \in Indices(frontBlock)
  BY <1>1, Ranges
<1>5. /\ Dist(frontBlock, front[frontBlock], localTail[frontBlock]) \in Indices(frontBlock) \ {0}
      /\ tail[frontBlock] # front[frontBlock] /\ Count(frontBlock) > 0
  <2>1. /\ Dist(frontBlock, front[frontBlock], localTail[frontBlock]) \in Indices(frontBlock) \ {0}
        /\ Count(frontBlock) = 0 <=> tail[frontBlock] = front[frontBlock]
    BY <1>3, <1>4, Distances DEF Count
  <2> QED
    BY <1>4, <2>1 DEF Indices
<1>6. After(frontBlock, front[frontBlock]) \in Indices(frontBlock)
  BY <1>4, Distances
<1>7. \A i \in Indices(frontBlock) : i # front[frontBlock] =>
        Dist(frontBlock, After(frontBlock, front[frontBlock]), i)
          = Dist(frontBlock, front[frontBlock], i) - 1
  BY <1>4, Distances
<1>8. Dist(frontBlock, After(frontBlock, front[frontBlock]), front[frontBlock])
        = size[frontBlock] - 1
  BY <1>4, <1>6, Distances
<1>9. /\ front' \in [Blocks -> Nat]
      /\ front'[frontBlock] = After(frontBlock, front[frontBlock])
      /\ \A b \in Blocks : b # frontBlock => front'[b] = front[b]
  BY <1>1, <1>3, <1>6 DEF Release, Parts, TypeOK, MemoryOK, Indices
<1>10. /\ Blocks' = Blocks /\ Linked' = Linked
       /\ \A b : Indices(b)' = Indices(b)
       /\ \A b, i, j : Dist(b, i, j)' = Dist(b, i, j)
  BY <1>2 DEF Blocks, Linked, Dist, Indices
<1>11. \A b \in Blocks : Count(b)' = IF b = frontBlock THEN Count(b) - 1 ELSE Count(b)
  BY <1>2, <1>4, <1>5, <1>7, <1>9, <1>10 DEF Count, Dist
<1>12. /\ \A b \in Blocks : Count(b) \in Int
       /\ \A b \in Blocks : \A i \in Indices(b) : Dist(b, front[b], i) \in Int
  BY DEF Parts, TypeOK, MemoryOK, Count, Dist, Indices
<1>13. TypeOK'
  BY <1>2, <1>9, <1>10 DEF Parts, TypeOK, MemoryOK, ThreadsOK
<1>14. Sizes'
  BY <1>1, <1>2, <1>6, <1>9, <1>10 DEF Parts, Sizes
<1>15. Copies'
  <2>1. SUFFICES ASSUME NEW b \in Blocks, size[b] > 0
                 PROVE  /\ Dist(b, front'[b], localTail[b]) <= Count(b)'
                        /\ Count(b)' <= Dist(b, localFront[b], tail[b])
    BY <1>2, <1>10 DEF Copies, Dist
  <2>2. /\ Dist(b, front[b], localTail[b]) <= Count(b)
        /\ Count(b) <= Dist(b, localFront[b], tail[b])
        /\ Dist(b, localFront[b], tail[b]) \in Int
    BY <2>1 DEF Parts, Copies, TypeOK, MemoryOK, Dist
  <2>3. CASE b = frontBlock
    <3>1. Dist(b, front'[b], localTail[b]) = Dist(b, front[b], localTail[b]) - 1
      BY <1>3, <1>4, <1>7, <1>9, <2>3
    <3>2. Dist(b, front[b], localTail[b]) \in Int /\ Count(b) \in Int
      BY <1>4, <1>5, <2>3 DEF Indices
    <3> QED
      BY <1>11, <2>2, <2>3, <3>1, <3>2
  <2>4. CASE b # frontBlock
    BY <1>9, <1>11, <2>2, <2>4
  <2> QED
    BY <2>3, <2>4
<1>16. pos[frontBlock] = 0 /\ \A b \in Linked : pos[b] >= 0 /\ pos[b] \in Int
  BY DEF Placed, Circle
<1>17. data[frontBlock][front[frontBlock]] = Free
  <2>1. Dist(frontBlock, front[frontBlock], front[frontBlock]) = 0
    BY <1>4, Distances
  <2> QED
    BY <1>1, <1>2, <1>4, <1>5, <1>16, <2>1 DEF Placed, Items
<1>18. NoItems'
  <2>1. SUFFICES ASSUME NEW b \in Blocks, NEW i \in Indices(b),
                        Dist(b, front'[b], i) >= Count(b)'
                 PROVE  \/ data[b][i] = Free
                        \/ wpc = "publish" /\ b = wblock /\ i = tail[b]
    BY <1>2, <1>10 DEF NoItems, Dist
  <2>2. CASE b = frontBlock /\ i = front[frontBlock]
    BY <1>17, <2>2
  <2>3. CASE ~ (b = frontBlock /\ i = front[frontBlock])
    <3>1. Dist(b, front[b], i) >= Count(b)
      BY <1>7, <1>9, <1>11, <1>12, <2>1, <2>3
    <3> QED
      BY <2>1, <3>1 DEF Parts, NoItems
  <2> QED
    BY <2>2, <2>3
<1>19. Producer'
  <2>1. wpc \in {"link", "advance"} => wblock \in Blocks /\ wblock # frontBlock
    BY <1>1 DEF Parts, Producer, Linked, TypeOK, ThreadsOK
  <2> QED
    BY <1>2, <1>9, <1>10, <1>11, <2>1 DEF Parts, Producer, Dist
<1>20. TailFull'
  BY <1>1, <1>2, <1>9, <1>10 DEF Parts, TailFull, LeavesTail, Dist
<1>21. Consumer'
  BY <1>2 DEF Consumer
<1> PICK f \in Ghosts : f = [first EXCEPT ![frontBlock] = first[frontBlock] + 1]
  <2>1. first[frontBlock] + 1 \in Int
    BY <1>1 DEF Ghosts
  <2>2. [first EXCEPT ![frontBlock] = first[frontBlock] + 1] \in Ghosts
    BY <2>1 DEF Ghosts
  <2> QED
    BY <2>2
<1>22. /\ f[frontBlock] = first[frontBlock] + 1
       /\ \A b \in Linked : b # frontBlock => f[b] = first[b]
       /\ \A b \in Linked : first[b] \in Int
  BY <1>1 DEF Ghosts
<1>23. Circle(pos, n)'
  BY <1>2, <1>10 DEF Placed, Circle
<1>24. Filled(pos)'
  BY <1>1, <1>2, <1>10, <1>11, <1>16 DEF Placed, Filled
<1>25. Numbered(pos, f)'
  <2>1. sent = f[tailBlock] + Count(tailBlock)' - 1
    <3>1. sent = first[tailBlock] + Count(tailBlock) - 1
      BY DEF Placed, Numbered
    <3>2. /\ f[tailBlock] - first[tailBlock] = IF tailBlock = frontBlock THEN 1 ELSE 0
          /\ first[tailBlock] \in Int /\ f[tailBlock] \in Int
      BY <1>1, <1>22
    <3>3. Count(tailBlock)' = IF tailBlock = frontBlock THEN Count(tailBlock) - 1
                              ELSE Count(tailBlock)
      BY <1>1, <1>2, <1>11
    <3>4. Count(tailBlock) \in Int
      BY <1>1, <1>12
    <3> QED
      BY <3>1, <3>2, <3>3, <3>4
  <2>2. f[frontBlock] = result + 1
    BY <1>2, <1>22 DEF Placed, Numbered
  <2>3. ASSUME NEW b \in Linked, pos[b] < pos[tailBlock] PROVE f[next[b]] = f[b] + Count(b)'
    <3>1. next[b] \in Linked /\ next[b] # frontBlock
      BY <1>1, <1>16, <2>3 DEF Placed, Circle
    <3>2. first[next[b]] = first[b] + Count(b)
      BY <2>3 DEF Placed, Numbered
    <3> QED
      BY <1>1, <1>11, <1>12, <1>22, <3>1, <3>2
  <2> QED
    BY <1>2, <1>10, <2>1, <2>2, <2>3 DEF Numbered
<1>27. Counted(pos, f)'
  <2>1. SUFFICES ASSUME NEW b \in Linked, pos[b] <= pos[tailBlock]
                 PROVE  /\ f[b] + Count(b)' <= sent + 1
                        /\ 0 < pos[b] => f[b] + Most(pos, b) + Count(tailBlock)' <= sent + 1
    BY <1>2, <1>10 DEF Counted, Most
  <2>2. /\ first[b] + Count(b) <= sent + 1
        /\ 0 < pos[b] => first[b] + Most(pos, b) + Count(tailBlock) <= sent + 1
    BY <2>1 DEF Placed, Counted
  <2>3. f[b] + Count(b)' = first[b] + Count(b)
    BY <1>1, <1>11, <1>12, <1>22
  <2>4. 0 < pos[b] => f[b] = first[b] /\ Count(tailBlock)' = Count(tailBlock)
    <3>1. 0 < pos[b] => b # frontBlock /\ tailBlock # frontBlock
      BY <1>1, <1>16, <2>1
    <3> QED
      BY <1>1, <1>2, <1>11, <1>22, <3>1
  <2> QED
    BY <2>2, <2>3, <2>4
<1>26. Items(pos, f)'
  <2>1. SUFFICES ASSUME NEW b \in Linked, pos[b] <= pos[tailBlock],
                        NEW i \in Indices(b), Dist(b, front'[b], i) < Count(b)'
                 PROVE  data[b][i] = f[b] + Dist(b, front'[b], i)
    BY <1>2, <1>10 DEF Items, Dist
  <2>2. CASE b = frontBlock
    <3>1. i # front[b]
      <4>1. Count(b) <= size[b] - 1 /\ Count(b) \in Int
        BY <1>4, <2>2 DEF Indices
      <4>2. Count(b)' = Count(b) - 1 /\ size[b] \in Nat
        BY <1>1, <1>4, <1>11, <2>2
      <4>3. Dist(b, front'[b], front[b]) = size[b] - 1
        BY <1>8, <1>9, <2>2
      <4> QED
        BY <2>1, <4>1, <4>2, <4>3
    <3>2. Dist(b, front'[b], i) = Dist(b, front[b], i) - 1
      BY <1>7, <1>9, <2>1, <2>2, <3>1
    <3>3. Dist(b, front[b], i) < Count(b) /\ Dist(b, front[b], i) \in Int
      BY <1>1, <1>11, <1>12, <2>1, <2>2, <3>2
    <3>4. data[b][i] = first[b] + Dist(b, front[b], i)
      BY <2>1, <3>1, <3>3 DEF Placed, Items
    <3> QED
      BY <1>22, <2>1, <2>2, <3>2, <3>3, <3>4
  <2>3. CASE b # frontBlock
    BY <1>1, <1>9, <1>11, <1>22, <2>1, <2>3 DEF Placed, Items
  <2> QED
    BY <2>2, <2>3
<1> QED
  BY <1>13, <1>14, <1>15, <1>18, <1>19, <1>20, <1>21, <1>23, <1>24, <1>25, <1>26, <1>27
  DEF Parts, Placed

(* Every step keeps the invariant.                                          *)
LEMMA IInvStep == IInv /\ [Next]_vars => IInv'
<1> SUFFICES ASSUME IInv, [Next]_vars PROVE IInv'
  OBVIOUS
<1>1. Parts /\ \E pos \in Ghosts, first \in Ghosts, n \in Nat \ {0} : Placed(pos, first, n)
  BY DEF IInv
<1>2. PICK pos \in Ghosts, first \in Ghosts, n \in Nat \ {0} : Placed(pos, first, n)
  BY <1>1
<1>3. Ghosts' = Ghosts
  <2>1. made' = made
    BY DEF Next, Enqueue, EnqueueStart, EnqueueSteps, LoadFront, LoadFrontBlock, LoadNext,
           Construct, Publish, Alloc, AllocFails, Link, AdvanceTailBlock, Full, Dequeue,
           DequeueStart, DequeueSteps, LoadTail, LoadTailBlock, ReloadTail, LoadNextBlock,
           LoadNextTail, LeaveBlock, TakeItem, Peek, Release, Empty, queueVars, vars
  <2> QED
    BY <2>1 DEF Ghosts, Blocks
<1>4. n + 1 \in Nat \ {0}
  OBVIOUS
<1>5. SUFFICES Parts' /\ \E p \in Ghosts, f \in Ghosts, m \in Nat \ {0} : Placed(p, f, m)'
  BY <1>3 DEF IInv
<1>6. ASSUME NEW canAlloc \in BOOLEAN, EnqueueStart(canAlloc)
      PROVE  Parts' /\ Placed(pos, first, n)'
  BY <1>1, <1>2, <1>6, EnqueueStartStep
<1>7. ASSUME NEW o \in Operations, DequeueStart(o)
      PROVE  Parts' /\ Placed(pos, first, n)'
  BY <1>1, <1>2, <1>7, DequeueStartStep
<1>8. CASE EnqueueSteps
  <2>1. ASSUME LoadFront \/ LoadFrontBlock \/ LoadNext \/ Construct \/ Publish \/ Alloc
                 \/ AllocFails \/ Full
        PROVE  Parts' /\ Placed(pos, first, n)'
    BY <1>1, <1>2, <2>1, LoadFrontStep, LoadFrontBlockStep, LoadNextStep, ConstructStep,
       PublishStep, AllocStep, AllocFailsStep, FullStep
  <2>2. CASE Link
    BY <1>1, <1>2, <1>4, <2>2, LinkStep
  <2>3. CASE AdvanceTailBlock
    BY <1>1, <1>2, <2>3, AdvanceTailBlockStep
  <2> QED
    BY <1>2, <1>8, <2>1, <2>2, <2>3 DEF EnqueueSteps
<1>9. CASE DequeueSteps
  <2>1. ASSUME LoadTail \/ LoadTailBlock \/ ReloadTail \/ LoadNextBlock \/ LoadNextTail
                 \/ TakeItem \/ Peek \/ Empty
        PROVE  Parts' /\ Placed(pos, first, n)'
    BY <1>1, <1>2, <2>1, LoadTailStep, LoadTailBlockStep, ReloadTailStep, LoadNextBlockStep,
       LoadNextTailStep, TakeItemStep, PeekStep, EmptyStep
  <2>2. CASE LeaveBlock
    BY <1>1, <1>2, <2>2, LeaveBlockStep
  <2>3. CASE Release
    BY <1>1, <1>2, <2>3, ReleaseStep
  <2> QED
    BY <1>2, <1>9, <2>1, <2>2, <2>3 DEF DequeueSteps
<1>10. CASE UNCHANGED vars
  <2> USE <1>1, <1>10 DEF vars, queueVars, producerVars, consumerVars, Parts
  <2>1. Parts'
    <3>1. TypeOK'
      BY DEF TypeOK, MemoryOK, ThreadsOK, Blocks
    <3>2. Sizes' /\ Copies' /\ NoItems'
      BY DEF Sizes, Blocks, Indices, Copies, Count, Dist, NoItems
    <3>3. Producer' /\ TailFull'
      BY DEF Producer, TailFull, LeavesTail, Count, Dist
    <3>4. Consumer'
      BY DEF Consumer, Count, Dist
    <3> QED
      BY <3>1, <3>2, <3>3, <3>4
  <2>2. Placed(pos, first, n)'
    BY <1>2, <1>10 DEF vars, queueVars, producerVars, consumerVars, Placed, Blocks, Circle, Linked,
       Filled, Numbered, Counted, Most, Items, Count, Dist, Indices
  <2> QED
    BY <1>2, <2>1, <2>2
<1> QED
  BY <1>2, <1>6, <1>7, <1>8, <1>9, <1>10 DEF Next, Enqueue, Dequeue

(* The queue of any sizes and any number of items, whatever the two threads *)
(* do, keeps the invariant.                                                 *)
THEOREM QueueInvariant == Spec => []IInv
<1>1. Init => IInv
  BY InitIInv
<1>2. IInv /\ [Next]_vars => IInv'
  BY IInvStep
<1> QED
  BY <1>1, <1>2, PTL DEF Spec

(* The assertions of lines 253, 318, 369 and 460 hold: a block that the     *)
(* consumer moves on to has an item, and one that the producer moves on to  *)
(* is empty.                                                                *)
THEOREM AssertionsHoldAlways == Spec => []AssertionsHold
<1>1. IInv => AssertionsHold
  <2> SUFFICES ASSUME IInv PROVE AssertionsHold
    OBVIOUS
  <2>1. Parts /\ \E pos \in Ghosts, first \in Ghosts, n \in Nat \ {0} : Placed(pos, first, n)
    BY DEF IInv
  <2>2. PICK pos \in Ghosts, first \in Ghosts, n \in Nat \ {0} : Placed(pos, first, n)
    BY <2>1
  <2>3. {next[frontBlock], next[tailBlock]} \subseteq Blocks
    BY <2>1, <2>2, Ends
  <2>4. \A b \in Blocks : front[b] \in Nat /\ tail[b] \in Nat
    BY <2>1 DEF Parts, TypeOK, MemoryOK
  <2>5. rpc = "loadNextTail" => front[rblock] # tail[rblock]
    <3>1. SUFFICES ASSUME rpc = "loadNextTail" PROVE front[rblock] # tail[rblock]
      OBVIOUS
    <3>2. rblock = next[frontBlock] /\ frontBlock # tailBlock
      BY <2>1, <3>1 DEF Parts, Consumer
    <3>3. Count(rblock) > 0
      BY <2>1, <2>2, <3>2, Neighbours
    <3> QED
      BY <2>3, <2>4, <3>2, <3>3 DEF Count, Dist
  <2>6. wpc = "loadNext" => front[next[tailBlock]] = tail[next[tailBlock]]
    <3>1. SUFFICES ASSUME wpc = "loadNext" PROVE front[next[tailBlock]] = tail[next[tailBlock]]
      OBVIOUS
    <3>2. next[tailBlock] # frontBlock
      BY <2>1, <3>1 DEF Parts, Producer
    <3>3. Count(next[tailBlock]) = 0 /\ next[tailBlock] \in Linked
      BY <2>1, <2>2, <3>1, <3>2, Neighbours, Ends
    <3>4. /\ size[next[tailBlock]] \in Nat
          /\ {front[next[tailBlock]], tail[next[tailBlock]]} \subseteq Indices(next[tailBlock])
      BY <2>1, <2>2, <2>3, <3>3, Ends, Ranges
    <3> QED
      BY <3>3, <3>4, Distances DEF Count
  <2> QED
    BY <2>5, <2>6 DEF AssertionsHold
<1> QED
  BY <1>1, QueueInvariant, PTL

-----------------------------------------------------------------------------
(* A function over the first n numbers is a sequence.                       *)
LEMMA IntervalSeq ==
  ASSUME NEW S, NEW m \in Nat, NEW s \in [1 .. m -> S]
  PROVE  s \in Seq(S) /\ Len(s) = m
  BY SeqDef, LenProperties

(* An empty sequence is the empty one.                                      *)
LEMMA NoSeq ==
  ASSUME NEW s \in Seq(Int), Len(s) = 0
  PROVE  s = << >>
  BY EmptySeq

(* The k-th slot from the front of a block.                                 *)
Slot(b, k) == (front[b] + k - 1) % size[b]

(* It is k - 1 slots ahead of the front.                                    *)
LEMMA SlotIs ==
  ASSUME Parts, NEW b \in Blocks, size[b] > 0, NEW k \in 1 .. size[b]
  PROVE  Slot(b, k) \in Indices(b) /\ Dist(b, front[b], Slot(b, k)) = k - 1
<1>1. size[b] \in Nat \ {0} /\ front[b] \in 0 .. size[b] - 1 /\ k \in Nat /\ 1 <= k /\ k <= size[b]
  BY Ranges DEF Indices
<1>2. CASE front[b] + k - 1 < size[b]
  <2>1. front[b] + k - 1 \in 0 .. size[b] - 1
    BY <1>1, <1>2
  <2>2. Slot(b, k) = front[b] + k - 1
    BY <1>1, <2>1, ModSmall DEF Slot
  <2> QED
    BY <1>1, <1>2, <2>1, <2>2 DEF Indices, Dist
<1>3. CASE front[b] + k - 1 >= size[b]
  <2>1. front[b] + k - 1 = 1 * size[b] + (front[b] + k - 1 - size[b])
    BY <1>1
  <2>2. front[b] + k - 1 - size[b] \in 0 .. size[b] - 1
    BY <1>1, <1>3
  <2>3. Slot(b, k) = front[b] + k - 1 - size[b]
    <3> DEFINE a == front[b] + k - 1
               r == front[b] + k - 1 - size[b]
               q == 1
    <3>1. a \in Int /\ r \in 0 .. size[b] - 1 /\ q \in Int /\ a = q * size[b] + r
      BY <1>1, <2>1, <2>2
    <3> HIDE DEF a, r, q
    <3>2. a % size[b] = r
      BY <1>1, <3>1, DivModUnique
    <3> QED
      BY <3>2 DEF Slot, a, r
  <2> QED
    BY <1>1, <1>3, <2>2, <2>3 DEF Indices, Dist
<1> QED
  BY <1>1, <1>2, <1>3

(* What a block holds, by its slots.                                        *)
LEMMA HeldIs ==
  ASSUME Parts, NEW b \in Blocks, size[b] > 0
  PROVE  Held(b) = [k \in 1 .. Count(b) |-> data[b][Slot(b, k)]]
<1>1. size[b] \in Nat \ {0} /\ front[b] \in 0 .. size[b] - 1 /\ tail[b] \in 0 .. size[b] - 1
  BY Ranges DEF Indices
<1>2. (tail[b] - front[b]) % size[b] = Count(b)
  <2>1. CASE front[b] <= tail[b]
    <3>1. tail[b] - front[b] \in 0 .. size[b] - 1
      BY <1>1, <2>1
    <3> QED
      BY <1>1, <2>1, <3>1, ModSmall DEF Count, Dist
  <2>2. CASE front[b] > tail[b]
    <3> DEFINE a == tail[b] - front[b]
               r == tail[b] - front[b] + size[b]
               q == -1
    <3>1. a \in Int /\ r \in 0 .. size[b] - 1 /\ q \in Int /\ a = q * size[b] + r
      BY <1>1, <2>2
    <3>2. Count(b) = r
      BY <1>1, <2>2 DEF Count, Dist
    <3> HIDE DEF a, r, q
    <3>3. a % size[b] = r
      BY <1>1, <3>1, DivModUnique
    <3> QED
      BY <3>2, <3>3 DEF a
  <2> QED
    BY <1>1, <2>1, <2>2
<1> QED
  BY <1>2 DEF Held, Slot

(* What the k-th slot of a block holds.                                     *)
Numeral(first, b, k) ==
  IF rpc = "release" /\ b = frontBlock /\ k = 1 THEN Free ELSE first[b] + k - 1

(* A block of the queue holds the items of its numbers.                     *)
LEMMA HeldItems ==
  ASSUME Parts, NEW pos \in Ghosts, NEW first \in Ghosts, NEW n \in Nat \ {0},
         Placed(pos, first, n), NEW b \in Linked, pos[b] <= pos[tailBlock]
  PROVE  /\ Count(b) \in Nat
         /\ Held(b) = [k \in 1 .. Count(b) |-> Numeral(first, b, k)]
         /\ Held(b) \in Seq(Int) /\ Len(Held(b)) = Count(b)
<1>1. b \in Blocks /\ size[b] > 0 /\ first[b] \in Int
  BY Ends DEF Ghosts
<1>2. size[b] \in Nat /\ Count(b) \in Nat /\ Count(b) < size[b] /\ front[b] \in Indices(b)
  BY <1>1, Ranges DEF Indices
<1>3. ASSUME NEW k \in 1 .. Count(b) PROVE data[b][Slot(b, k)] = Numeral(first, b, k)
  <2>1. k \in 1 .. size[b]
    BY <1>2
  <2>2. Slot(b, k) \in Indices(b) /\ Dist(b, front[b], Slot(b, k)) = k - 1
    BY <1>1, <2>1, SlotIs
  <2>3. Slot(b, k) = front[b] <=> k = 1
    BY <1>2, <2>2, Distances
  <2>4. data[b][Slot(b, k)] = IF rpc = "release" /\ b = frontBlock /\ Slot(b, k) = front[b]
                              THEN Free ELSE first[b] + Dist(b, front[b], Slot(b, k))
    BY <1>2, <2>1, <2>2 DEF Placed, Items
  <2> QED
    BY <1>1, <2>2, <2>3, <2>4 DEF Numeral
<1>4. Held(b) = [k \in 1 .. Count(b) |-> Numeral(first, b, k)]
  BY <1>1, <1>3, HeldIs
<1>5. Held(b) \in [1 .. Count(b) -> Int]
  BY <1>1, <1>4 DEF Numeral, Free
<1> QED
  BY <1>2, <1>4, <1>5, IntervalSeq

(* The items from a block of the queue on.                                  *)
Line(first, b) == [k \in 1 .. sent + 1 - first[b] |-> Numeral(first, b, k)]

(* They are what the block holds, and then those from the next block on.    *)
LEMMA Lines ==
  ASSUME Parts, NEW pos \in Ghosts, NEW first \in Ghosts, NEW n \in Nat \ {0},
         Placed(pos, first, n), NEW b \in Linked, pos[b] <= pos[tailBlock]
  PROVE  /\ sent + 1 - first[b] \in Nat
         /\ Line(first, b) \in Seq(Int) /\ Len(Line(first, b)) = sent + 1 - first[b]
         /\ b = tailBlock => Held(b) = Line(first, b)
         /\ pos[b] < pos[tailBlock] => /\ next[b] \in Linked /\ pos[next[b]] = pos[b] + 1
                                       /\ Held(b) \o Line(first, next[b]) = Line(first, b)
<1>1. /\ \A c \in Linked : /\ pos[c] \in 0 .. n - 1
                           /\ next[c] \in Linked
                           /\ pos[next[c]] = IF pos[c] = n - 1 THEN 0 ELSE pos[c] + 1
      /\ pos[frontBlock] = 0 /\ tailBlock \in Linked
  BY DEF Placed, Circle
<1>2. \A c \in Linked : first[c] \in Int
  BY Ends DEF Ghosts
<1>3. sent \in Nat
  BY DEF Parts, TypeOK, MemoryOK
<1>4. ASSUME NEW c \in Linked, pos[c] <= pos[tailBlock]
      PROVE  /\ sent + 1 - first[c] \in Nat
             /\ Line(first, c) \in Seq(Int) /\ Len(Line(first, c)) = sent + 1 - first[c]
  <2>1. Count(c) \in Nat
    BY <1>4, HeldItems
  <2>2. first[c] + Count(c) <= sent + 1
    BY <1>4 DEF Placed, Counted
  <2>3. sent + 1 - first[c] \in Nat
    BY <1>2, <1>3, <2>1, <2>2
  <2>4. Line(first, c) \in [1 .. sent + 1 - first[c] -> Int]
    BY <1>2 DEF Line, Numeral, Free
  <2> QED
    BY <2>3, <2>4, IntervalSeq
<1>5. ASSUME b = tailBlock PROVE Held(b) = Line(first, b)
  <2>1. sent = first[b] + Count(b) - 1
    BY <1>5 DEF Placed, Numbered
  <2>2. Count(b) \in Nat /\ Held(b) = [k \in 1 .. Count(b) |-> Numeral(first, b, k)]
    BY <1>5, HeldItems
  <2>3. Count(b) = sent + 1 - first[b]
    BY <1>2, <1>3, <2>1, <2>2
  <2> QED
    BY <2>2, <2>3 DEF Line
<1>6. ASSUME pos[b] < pos[tailBlock]
      PROVE  /\ next[b] \in Linked /\ pos[next[b]] = pos[b] + 1
             /\ Held(b) \o Line(first, next[b]) = Line(first, b)
  <2> DEFINE c == next[b]
             s == Held(b)
             t == Line(first, c)
             u == Line(first, b)
  <2>1. c \in Linked /\ pos[c] = pos[b] + 1 /\ pos[c] <= pos[tailBlock] /\ c # frontBlock
    BY <1>1, <1>6
  <2>2. first[c] = first[b] + Count(b)
    BY <1>6 DEF Placed, Numbered
  <2>3. /\ Count(b) \in Nat /\ s = [k \in 1 .. Count(b) |-> Numeral(first, b, k)]
        /\ s \in Seq(Int) /\ Len(s) = Count(b)
    BY HeldItems
  <2>4. /\ t \in Seq(Int) /\ Len(t) = sent + 1 - first[c] /\ sent + 1 - first[c] \in Nat
        /\ u \in Seq(Int) /\ Len(u) = sent + 1 - first[b] /\ sent + 1 - first[b] \in Nat
    BY <1>4, <2>1
  <2>5. /\ \A k \in 1 .. sent + 1 - first[c] : t[k] = Numeral(first, c, k)
        /\ \A k \in 1 .. sent + 1 - first[b] : u[k] = Numeral(first, b, k)
        /\ \A k \in 1 .. Count(b) : s[k] = Numeral(first, b, k)
    BY <2>3 DEF Line
  <2>6. rpc = "release" /\ b = frontBlock => Count(b) >= 1
    <3>1. SUFFICES ASSUME rpc = "release", b = frontBlock PROVE Count(b) >= 1
      OBVIOUS
    <3>2. localTail[b] # front[b]
      BY <3>1 DEF Parts, Consumer
    <3>3. /\ size[b] \in Nat /\ {front[b], localTail[b]} \subseteq Indices(b)
          /\ Dist(b, front[b], localTail[b]) <= Count(b)
      BY Ends, Ranges
    <3>4. Dist(b, front[b], localTail[b]) # 0 /\ Dist(b, front[b], localTail[b]) \in Indices(b)
      BY <3>2, <3>3, Distances
    <3> QED
      BY <2>3, <3>3, <3>4 DEF Indices
  <2> HIDE DEF c, s, t, u
  <2>7. /\ s \o t \in Seq(Int) /\ Len(s \o t) = Len(s) + Len(t)
        /\ \A k \in 1 .. Len(s) + Len(t) :
             (s \o t)[k] = IF k <= Len(s) THEN s[k] ELSE t[k - Len(s)]
    BY <2>3, <2>4, ConcatProperties
  <2>8. Len(s) + Len(t) = Len(u)
    BY <1>2, <1>3, <2>1, <2>2, <2>3, <2>4
  <2>9. ASSUME NEW k \in 1 .. Len(u) PROVE (s \o t)[k] = u[k]
    <3>0. k \in Int /\ Count(b) \in Int
      BY <2>3, <2>4
    <3>1. u[k] = Numeral(first, b, k)
      BY <2>4, <2>5
    <3>2. CASE k <= Count(b)
      BY <2>3, <2>5, <2>7, <2>8, <3>1, <3>2
    <3>3. CASE k > Count(b)
      <4>1. (s \o t)[k] = t[k - Count(b)] /\ k - Count(b) \in 1 .. sent + 1 - first[c]
        <5>1. k \in Int /\ k >= 1 /\ k <= Len(s) + Len(t) /\ k > Len(s)
          BY <2>3, <2>4, <2>8, <3>3
        <5>2. (s \o t)[k] = t[k - Len(s)]
          BY <2>3, <2>4, <2>7, <5>1
        <5>3. Len(s) = Count(b) /\ Len(t) = sent + 1 - first[c] /\ Len(t) \in Nat /\ Len(s) \in Nat
          BY <2>3, <2>4
        <5>4. k - Len(s) \in 1 .. Len(t)
          BY <5>1, <5>3
        <5> QED
          BY <5>2, <5>3, <5>4
      <4>2. t[k - Count(b)] = first[c] + (k - Count(b)) - 1
        BY <2>1, <2>5, <4>1 DEF Numeral
      <4>3. Numeral(first, b, k) = first[b] + k - 1
        BY <2>3, <2>6, <3>3 DEF Numeral
      <4> QED
        <5>1. k \in Int /\ first[b] \in Int /\ first[c] \in Int
          BY <1>2, <2>1, <2>4
        <5> QED
          BY <2>2, <3>1, <3>0, <4>1, <4>2, <4>3, <5>1
    <3>4. k <= Count(b) \/ k > Count(b)
      BY <3>0
    <3> QED
      BY <3>2, <3>3, <3>4
  <2>10. s \o t = u
    BY <2>4, <2>7, <2>8, <2>9, SeqEqual
  <2> QED
    BY <2>1, <2>10 DEF c, s, t, u
<1> QED
  BY <1>4, <1>5, <1>6

(* A solution of the recursion over the blocks.                             *)
FollowsRing(f) ==
  f = [b \in Blocks |-> IF b = tailBlock THEN Held(b) ELSE Held(b) \o f[next[b]]]

(* What the queue holds is read off a solution, when there is one.          *)
LEMMA ContentsByRing ==
  ASSUME \E f : FollowsRing(f)
  PROVE  \E f : /\ FollowsRing(f)
                /\ Contents = IF rpc = "release" THEN Tail(f[frontBlock]) ELSE f[frontBlock]
<1> DEFINE g == CHOOSE f : FollowsRing(f)
<1>1. FollowsRing(g)
  OBVIOUS
<1>2. Contents = IF rpc = "release" THEN Tail(g[frontBlock]) ELSE g[frontBlock]
  BY DEF Contents, FollowsRing
<1> QED
  BY <1>1, <1>2

(* There is one: through the ring to the tail block; past it are only       *)
(* blocks that lead to the front block, and outside of the ring blocks that *)
(* lead into it.                                                            *)
Through(pos, first) ==
  [b \in Linked |-> IF pos[b] <= pos[tailBlock] THEN Line(first, b)
                    ELSE IF wpc = "advance" /\ b = wblock
                         THEN Held(b) \o Line(first, frontBlock) ELSE Line(first, frontBlock)]

(* And of the blocks outside of the ring.                                   *)
Solution(pos, first) ==
  [b \in Blocks |-> IF b \in Linked THEN Through(pos, first)[b]
                    ELSE Held(b) \o Through(pos, first)[next[b]]]

(* That is a solution.                                                      *)
LEMMA SolutionExists ==
  ASSUME Parts, NEW pos \in Ghosts, NEW first \in Ghosts, NEW n \in Nat \ {0},
         Placed(pos, first, n)
  PROVE  FollowsRing(Solution(pos, first))
<1> DEFINE g == Through(pos, first)
           f == Solution(pos, first)
<1>1. /\ \A b \in Linked : /\ pos[b] \in 0 .. n - 1
                           /\ next[b] \in Linked
                           /\ pos[next[b]] = IF pos[b] = n - 1 THEN 0 ELSE pos[b] + 1
      /\ \A b, c \in Linked : pos[b] = pos[c] => b = c
      /\ pos[frontBlock] = 0 /\ {frontBlock, tailBlock} \subseteq Linked /\ Linked \subseteq Blocks
      /\ \A b \in Blocks \ Linked : next[b] \in Linked
  BY Ends DEF Placed, Circle
<1>2. /\ \A b \in Linked : f[b] = g[b]
      /\ \A b \in Blocks \ Linked : f[b] = Held(b) \o g[next[b]]
      /\ \A b \in Linked : pos[b] <= pos[tailBlock] => g[b] = Line(first, b)
      /\ \A b \in Linked : pos[b] > pos[tailBlock] =>
           g[b] = IF wpc = "advance" /\ b = wblock
                  THEN Held(b) \o Line(first, frontBlock) ELSE Line(first, frontBlock)
  BY <1>1 DEF Through, Solution
<1>3. f = [b \in Blocks |-> f[b]]
  BY DEF Solution
<1> HIDE DEF f, g
<1>4. ASSUME NEW b \in Blocks
      PROVE  f[b] = IF b = tailBlock THEN Held(b) ELSE Held(b) \o f[next[b]]
  <2>1. CASE b \notin Linked
    BY <1>1, <1>2, <2>1
  <2>2. CASE b \in Linked /\ pos[b] <= pos[tailBlock]
    <3>1. b # tailBlock => pos[b] < pos[tailBlock]
      BY <1>1, <2>2
    <3>2. f[b] = Line(first, b)
      BY <1>2, <2>2
    <3>3. b = tailBlock => Held(b) = Line(first, b)
      BY <2>2, Lines
    <3>4. ASSUME b # tailBlock PROVE Held(b) \o f[next[b]] = Line(first, b)
      <4>1. /\ next[b] \in Linked /\ pos[next[b]] = pos[b] + 1
            /\ Held(b) \o Line(first, next[b]) = Line(first, b)
        BY <2>2, <3>1, <3>4, Lines
      <4>2. pos[next[b]] <= pos[tailBlock]
        BY <1>1, <2>2, <3>1, <3>4, <4>1
      <4>3. f[next[b]] = Line(first, next[b])
        BY <1>2, <4>1, <4>2
      <4> QED
        BY <4>1, <4>3
    <3> QED
      BY <3>2, <3>3, <3>4
  <2>3. CASE b \in Linked /\ pos[b] > pos[tailBlock]
    <3>1. next[b] \in Linked /\ b # tailBlock
      BY <1>1, <2>3
    <3>2. f[next[b]] = Line(first, frontBlock)
      <4>1. CASE pos[b] = n - 1
        <5>1. next[b] = frontBlock /\ pos[frontBlock] <= pos[tailBlock]
          BY <1>1, <2>3, <3>1, <4>1
        <5> QED
          BY <1>1, <1>2, <5>1
      <4>2. CASE pos[b] # n - 1
        <5>1. pos[next[b]] = pos[b] + 1 /\ pos[next[b]] > pos[tailBlock] + 1
          BY <1>1, <2>3, <3>1, <4>2
        <5>2. wpc = "advance" => wblock = next[tailBlock] /\ wblock # frontBlock
          BY DEF Parts, Producer
        <5>3. wpc = "advance" => pos[wblock] = pos[tailBlock] + 1
          BY <5>2, Neighbours
        <5>4. ~ (wpc = "advance" /\ next[b] = wblock)
          BY <1>1, <5>1, <5>3
        <5>5. pos[next[b]] > pos[tailBlock]
          BY <1>1, <5>1
        <5> QED
          BY <1>2, <3>1, <5>4, <5>5
      <4> QED
        BY <4>1, <4>2
    <3>3. CASE wpc = "advance" /\ b = wblock
      BY <1>2, <2>3, <3>1, <3>2, <3>3
    <3>4. CASE ~ (wpc = "advance" /\ b = wblock)
      <4>1. Count(b) = 0
        BY <2>3, <3>4 DEF Placed, Filled
      <4>2. Held(b) = << >>
        <5>1. Held(b) = [k \in 1 .. 0 |-> data[b][Slot(b, k)]]
          BY <1>1, <2>3, <4>1, Ends, HeldIs
        <5>2. Held(b) \in [1 .. 0 -> Int]
          BY <5>1
        <5> QED
          BY <5>2, IntervalSeq, NoSeq
      <4>3. Line(first, frontBlock) \in Seq(Int)
        BY <1>1, Lines
      <4>4. Held(b) \o Line(first, frontBlock) = Line(first, frontBlock)
        BY <4>2, <4>3, ConcatEmptySeq
      <4> QED
        BY <1>2, <2>3, <3>1, <3>2, <3>4, <4>4
    <3> QED
      BY <3>3, <3>4
  <2> QED
    BY <1>1, <2>1, <2>2, <2>3
<1>5. f = [b \in Blocks |-> IF b = tailBlock THEN Held(b) ELSE Held(b) \o f[next[b]]]
  BY <1>3, <1>4
<1> QED
  BY <1>5 DEF FollowsRing, f

(* Every set of numbers with an element has a least one.                    *)
LEMMA LeastNumber ==
  ASSUME NEW S, S \subseteq Nat, S # {}
  PROVE  \E m \in S : \A k \in S : m <= k
<1>1. IsWellFoundedOn(OpToRel(<, Nat), Nat)
  BY NatLessThanWellFounded
<1>2. PICK m \in S : \A k \in S : ~ (<<k, m>> \in OpToRel(<, Nat))
  BY <1>1, WFMin
<1>3. ASSUME NEW k \in S PROVE m <= k
  <2>1. ~ (k < m)
    BY <1>2, <1>3 DEF OpToRel
  <2> QED
    BY <2>1
<1> QED
  BY <1>2, <1>3

(* And any solution is what the queue holds: by induction from the tail     *)
(* block back to the front block.                                           *)
LEMMA SolutionIs ==
  ASSUME Parts, NEW pos \in Ghosts, NEW first \in Ghosts, NEW n \in Nat \ {0},
         Placed(pos, first, n), NEW f, FollowsRing(f)
  PROVE  f[frontBlock] = Line(first, frontBlock)
<1> DEFINE Wrong == {b \in Linked : pos[b] <= pos[tailBlock] /\ f[b] # Line(first, b)}
           Far == {pos[tailBlock] - pos[b] : b \in Wrong}
<1>1. /\ \A b \in Linked : pos[b] \in 0 .. n - 1
      /\ \A b, c \in Linked : pos[b] = pos[c] => b = c
      /\ pos[frontBlock] = 0 /\ {frontBlock, tailBlock} \subseteq Linked /\ Linked \subseteq Blocks
  BY Ends DEF Placed, Circle
<1>2. Far \subseteq Nat
  BY <1>1
<1>3. SUFFICES ASSUME Wrong # {} PROVE FALSE
  BY <1>1
<1>4. PICK m \in Far : \A k \in Far : m <= k
  <2>1. Far # {}
    BY <1>3
  <2> HIDE DEF Far
  <2> QED
    BY <1>2, <2>1, LeastNumber
<1>5. PICK b \in Wrong : m = pos[tailBlock] - pos[b]
  OBVIOUS
<1>6. ASSUME NEW c \in Wrong PROVE pos[c] <= pos[b]
  <2>1. m <= pos[tailBlock] - pos[c]
    BY <1>4
  <2>2. pos[b] \in Int /\ pos[c] \in Int /\ pos[tailBlock] \in Int
    BY <1>1
  <2> QED
    BY <1>5, <2>1, <2>2
<1>7. f[b] = IF b = tailBlock THEN Held(b) ELSE Held(b) \o f[next[b]]
  BY <1>1, <1>5 DEF FollowsRing
<1>8. b # tailBlock /\ pos[b] < pos[tailBlock]
  BY <1>1, <1>5, <1>7, Lines
<1>9. /\ next[b] \in Linked /\ pos[next[b]] = pos[b] + 1
      /\ Held(b) \o Line(first, next[b]) = Line(first, b)
  BY <1>5, <1>8, Lines
<1>10. f[next[b]] # Line(first, next[b])
  BY <1>5, <1>7, <1>8, <1>9
<1>11. next[b] \in Wrong
  BY <1>1, <1>8, <1>9, <1>10
<1> QED
  BY <1>1, <1>6, <1>9, <1>11

(* The m numbers after a.                                                   *)
Following(a, m) == [k \in 1 .. m |-> a + k]

(* What the queue holds: the items enqueued and not dequeued, in order.     *)
InOrder ==
  /\ sent - result \in Nat
  /\ Contents = Following(result, sent - result)

(* They are: the numbers of a queue's blocks run from the front block's     *)
(* first, which is the item after the one dequeued last, to the last item   *)
(* sent.                                                                    *)
LEMMA ContentsAre == IInv => InOrder
<1> SUFFICES ASSUME IInv PROVE InOrder
  OBVIOUS
<1>1. Parts /\ \E pos \in Ghosts, first \in Ghosts, n \in Nat \ {0} : Placed(pos, first, n)
  BY DEF IInv
<1>2. PICK pos \in Ghosts, first \in Ghosts, n \in Nat \ {0} : Placed(pos, first, n)
  BY <1>1
<1>3. PICK f : /\ FollowsRing(f)
               /\ Contents = IF rpc = "release" THEN Tail(f[frontBlock]) ELSE f[frontBlock]
  BY <1>1, <1>2, SolutionExists, ContentsByRing
<1> DEFINE s == Line(first, frontBlock)
<1>4. f[frontBlock] = s
  BY <1>1, <1>2, <1>3, SolutionIs
<1>5. frontBlock \in Linked /\ pos[frontBlock] <= pos[tailBlock] /\ frontBlock \in Blocks
  <2>1. {frontBlock, tailBlock} \subseteq Linked /\ Linked \subseteq Blocks
    BY <1>1, <1>2, Ends
  <2>2. pos[frontBlock] = 0 /\ pos[tailBlock] \in 0 .. n - 1
    BY <1>2, <2>1 DEF Placed, Circle
  <2> QED
    BY <2>1, <2>2
<1>6. /\ s \in Seq(Int) /\ Len(s) = sent + 1 - first[frontBlock]
      /\ sent + 1 - first[frontBlock] \in Nat
      /\ s = [k \in 1 .. sent + 1 - first[frontBlock] |-> Numeral(first, frontBlock, k)]
  BY <1>1, <1>2, <1>5, Lines DEF Line
<1>7. sent \in Nat /\ result \in Nat
  BY <1>1 DEF Parts, TypeOK, MemoryOK
<1>8. first[frontBlock] = IF rpc = "release" THEN result ELSE result + 1
  BY <1>2 DEF Placed, Numbered
<1> HIDE DEF s
<1>9. CASE rpc # "release"
  <2>1. sent + 1 - first[frontBlock] = sent - result
    BY <1>7, <1>8, <1>9
  <2>2. \A k \in 1 .. sent - result : Numeral(first, frontBlock, k) = result + k
    BY <1>7, <1>8, <1>9 DEF Numeral
  <2> QED
    BY <1>3, <1>4, <1>6, <1>9, <2>1, <2>2 DEF InOrder, Following
<1>10. CASE rpc = "release"
  <2>1. Count(frontBlock) > 0 /\ first[frontBlock] + Count(frontBlock) <= sent + 1
    <3>1. /\ size[frontBlock] \in Nat
          /\ {front[frontBlock], localTail[frontBlock]} \subseteq Indices(frontBlock)
          /\ Dist(frontBlock, front[frontBlock], localTail[frontBlock]) <= Count(frontBlock)
          /\ Count(frontBlock) \in Indices(frontBlock)
      BY <1>1, <1>2, <1>5, Ends, Ranges
    <3>2. localTail[frontBlock] # front[frontBlock]
      BY <1>1, <1>10 DEF Parts, Consumer
    <3>3. /\ Dist(frontBlock, front[frontBlock], localTail[frontBlock]) # 0
          /\ Dist(frontBlock, front[frontBlock], localTail[frontBlock]) \in Indices(frontBlock)
      BY <3>1, <3>2, Distances
    <3>4. first[frontBlock] + Count(frontBlock) <= sent + 1
      BY <1>2, <1>5 DEF Placed, Counted
    <3> QED
      BY <3>1, <3>3, <3>4 DEF Indices
  <2>2. Count(frontBlock) \in Int
    BY <1>1, <1>5 DEF Parts, TypeOK, MemoryOK, Count, Dist
  <2>3. sent - result \in Nat /\ Len(s) = sent - result + 1
    BY <1>6, <1>7, <1>8, <1>10, <2>1, <2>2
  <2>4. s # << >>
    BY <1>6, <2>3, EmptySeq
  <2>5. /\ Tail(s) \in Seq(Int) /\ Len(Tail(s)) = sent - result
        /\ \A k \in 1 .. sent - result : Tail(s)[k] = s[k + 1]
    <3>1. /\ Tail(s) \in Seq(Int) /\ Len(Tail(s)) = Len(s) - 1
          /\ \A k \in 1 .. Len(Tail(s)) : Tail(s)[k] = s[k + 1]
      BY <1>6, <2>4, HeadTailProperties
    <3>2. Len(Tail(s)) = sent - result
      BY <2>3, <3>1
    <3> QED
      BY <3>1, <3>2
  <2>6. \A k \in 1 .. sent - result : s[k + 1] = result + k
    <3>1. SUFFICES ASSUME NEW k \in 1 .. sent - result PROVE s[k + 1] = result + k
      OBVIOUS
    <3>2. k + 1 \in 1 .. sent + 1 - first[frontBlock] /\ k + 1 # 1
      BY <1>7, <1>8, <1>10, <2>3
    <3>3. s[k + 1] = first[frontBlock] + (k + 1) - 1
      BY <1>6, <3>2 DEF Numeral
    <3> QED
      BY <1>7, <1>8, <1>10, <3>3
  <2>7. Tail(s) = [k \in 1 .. sent - result |-> Tail(s)[k]]
    BY <2>3, <2>5, LenProperties
  <2> QED
    BY <1>3, <1>4, <1>10, <2>3, <2>5, <2>6, <2>7 DEF InOrder, Following
<1>11. rpc # "release" => sent - result \in Nat
  BY <1>6, <1>7, <1>8
<1> QED
  BY <1>9, <1>10, <1>11 DEF InOrder

(* What a step does to the numbers of the items enqueued and dequeued: one  *)
(* more, by the stores that publish an item and by the move out of one.     *)
LEMMA Numbers ==
  ASSUME IInv, Next
  PROVE  \/ sent' = sent /\ result' = result
         \/ sent' = sent + 1 /\ result' = result /\ sent < MaxItems
         \/ sent' = sent /\ result' = result + 1 /\ sent > result
<1>1. Parts /\ \E pos \in Ghosts, first \in Ghosts, n \in Nat \ {0} : Placed(pos, first, n)
  BY DEF IInv
<1>2. PICK pos \in Ghosts, first \in Ghosts, n \in Nat \ {0} : Placed(pos, first, n)
  BY <1>1
<1>3. CASE TakeItem
  <2>1. sent' = sent /\ rpc = "take" /\ rpc' = "release"
    BY <1>3 DEF TakeItem, RStep, producerVars
  <2>2. Parts' /\ Placed(pos, first, n)'
    BY <1>1, <1>2, <1>3, TakeItemStep
  <2>3. frontBlock' = frontBlock
    BY <1>3 DEF TakeItem
  <2>4. first[frontBlock] = result + 1
    BY <1>2, <2>1 DEF Placed, Numbered
  <2>5. first[frontBlock] = result'
    BY <2>1, <2>2, <2>3 DEF Placed, Numbered
  <2>6. result' = result + 1
    BY <2>4, <2>5
  <2>7. IInv'
    BY IInvStep
  <2>8. InOrder'
    BY <2>7, ContentsAre, PTL
  <2> QED
    BY <1>1, <2>1, <2>6, <2>8 DEF Parts, TypeOK, MemoryOK, InOrder
<1>4. CASE ~ TakeItem
  <2>1. wpc = "idle" \/ sent < MaxItems
    BY <1>1 DEF Parts, Producer
  <2>2. CASE Enqueue
    BY <2>1, <2>2 DEF Enqueue, EnqueueStart, EnqueueSteps, LoadFront, LoadFrontBlock, LoadNext,
       Construct, Publish, Alloc, AllocFails, Link, AdvanceTailBlock, Full, WStep, consumerVars
  <2>3. CASE Dequeue
    BY <1>4, <2>3 DEF Dequeue, DequeueStart, DequeueSteps, LoadTail, LoadTailBlock, ReloadTail,
       LoadNextBlock, LoadNextTail, LeaveBlock, Peek, Release, Empty, RStep, producerVars
  <2> QED
    BY <2>2, <2>3 DEF Next
<1> QED
  BY <1>3, <1>4

(* Such numbers as a sequence: its ends, and what an enqueue and a dequeue  *)
(* make of it.                                                              *)
LEMMA FollowingIs ==
  ASSUME NEW a \in Nat, NEW m \in Nat
  PROVE  /\ Following(a, m) = << >> <=> m = 0
         /\ Append(Following(a, m), a + m + 1) = Following(a, m + 1)
         /\ Len(Following(a, m)) = m
         /\ m > 0 => /\ Head(Following(a, m)) = a + 1
                     /\ Tail(Following(a, m)) = Following(a + 1, m - 1)
<1> DEFINE c == Following(a, m)
<1>1. c \in [1 .. m -> Int] /\ \A k \in 1 .. m : c[k] = a + k
  BY DEF Following
<1>2. c \in Seq(Int) /\ Len(c) = m
  BY <1>1, IntervalSeq
<1>3. c = << >> <=> m = 0
  BY <1>2, EmptySeq, NoSeq
<1>4. Append(c, a + m + 1) = Following(a, m + 1)
  BY <1>1, <1>2 DEF Following
<1>5. ASSUME m > 0 PROVE Head(c) = a + 1 /\ Tail(c) = Following(a + 1, m - 1)
  <2>1. c # << >>
    BY <1>3, <1>5
  <2>2. Head(c) = c[1] /\ c[1] = a + 1
    BY <1>1, <1>2, <1>5
  <2>3. /\ Tail(c) \in Seq(Int) /\ Len(Tail(c)) = m - 1
        /\ \A k \in 1 .. m - 1 : Tail(c)[k] = c[k + 1]
    <3>1. /\ Tail(c) \in Seq(Int) /\ Len(Tail(c)) = Len(c) - 1
          /\ \A k \in 1 .. Len(Tail(c)) : Tail(c)[k] = c[k + 1]
      BY <1>2, <2>1, HeadTailProperties
    <3> QED
      BY <1>2, <3>1
  <2>4. Tail(c) = [k \in 1 .. m - 1 |-> Tail(c)[k]]
    BY <2>3, LenProperties
  <2>5. \A k \in 1 .. m - 1 : Tail(c)[k] = a + 1 + k
    BY <1>1, <2>3
  <2>6. Tail(c) = Following(a + 1, m - 1)
    BY <2>4, <2>5 DEF Following
  <2> QED
    BY <2>2, <2>6
<1> QED
  BY <1>2, <1>3, <1>4, <1>5

(* The queue implements the queue of Fifo: a store that publishes an item   *)
(* appends it, the move out of an item takes the first one, and no other    *)
(* step changes what is held, whatever blocks the items are in.             *)
THEOREM QueueIsFifo == Spec => ImplementsFifo
<1>1. Init => Abstract!FifoInit
  <2> SUFFICES ASSUME Init PROVE Abstract!FifoInit
    OBVIOUS
  <2>1. Contents = Following(result, sent - result) /\ sent = 0 /\ result = 0
    BY InitIInv, ContentsAre DEF Init, InOrder
  <2>2. Contents = Following(0, 0)
    BY <2>1
  <2> QED
    BY <2>1, <2>2, FollowingIs DEF Abstract!FifoInit
<1>2. IInv /\ [Next]_vars => [Abstract!FifoNext]_(Abstract!fifoVars)
  <2> SUFFICES ASSUME IInv, [Next]_vars PROVE [Abstract!FifoNext]_(Abstract!fifoVars)
    OBVIOUS
  <2>1. IInv'
    BY IInvStep
  <2>2. Contents = Following(result, sent - result) /\ sent - result \in Nat
    BY ContentsAre DEF InOrder
  <2>3. Contents' = Following(result', sent' - result')
    <3>1. InOrder'
      BY <2>1, ContentsAre, PTL
    <3> QED
      BY <3>1 DEF InOrder, Following
  <2>4. sent \in Nat /\ result \in Nat
    BY DEF IInv, Parts, TypeOK, MemoryOK
  <2>5. CASE sent' = sent /\ result' = result
    BY <2>2, <2>3, <2>5 DEF Abstract!fifoVars
  <2>6. CASE sent' = sent + 1 /\ result' = result /\ sent < MaxItems
    <3> DEFINE d == sent - result
    <3>1. d \in Nat /\ sent + 1 = result + d + 1 /\ sent' - result' = d + 1
      BY <2>2, <2>4, <2>6
    <3>2. Contents = Following(result, d) /\ Contents' = Following(result, d + 1)
      BY <2>2, <2>3, <2>6, <3>1
    <3> HIDE DEF d
    <3>3. Contents' = Append(Contents, sent + 1)
      <4>1. Append(Following(result, d), result + d + 1) = Following(result, d + 1)
        BY <2>4, <3>1, FollowingIs
      <4> QED
        BY <3>1, <3>2, <4>1
    <3>4. sent + 1 \in 1 .. MaxItems
      BY <2>4, <2>6, ItemsAssumption
    <3> QED
      BY <2>6, <3>3, <3>4 DEF Abstract!FifoNext, Abstract!Put
  <2>7. CASE sent' = sent /\ result' = result + 1 /\ sent > result
    <3> DEFINE d == sent - result
    <3>1. d \in Nat /\ d > 0 /\ sent' - result' = d - 1 /\ d # 0
      BY <2>2, <2>4, <2>7
    <3>2. Contents = Following(result, d) /\ Contents' = Following(result + 1, d - 1)
      BY <2>2, <2>3, <2>7, <3>1
    <3> HIDE DEF d
    <3>3. Contents # << >> /\ Head(Contents) = result + 1 /\ Contents' = Tail(Contents)
      BY <2>4, <3>1, <3>2, FollowingIs
    <3> QED
      BY <2>7, <3>3 DEF Abstract!FifoNext, Abstract!Take
  <2>8. UNCHANGED vars => sent' = sent /\ result' = result
    BY DEF vars, producerVars, consumerVars
  <2> QED
    BY <2>5, <2>6, <2>7, <2>8, Numbers
<1> QED
  BY <1>1, <1>2, QueueInvariant, PTL DEF Spec, ImplementsFifo, Abstract!FifoSpec

(* The threads never meet in a slot: the producer constructs where no item  *)
(* is, and the consumer takes or peeks at the first item of the queue,      *)
(* which is completely there.                                               *)
THEOREM SlotsApartAlways == Spec => []SlotsApart
<1>1. IInv => SlotsApart
  <2> SUFFICES ASSUME IInv PROVE SlotsApart
    OBVIOUS
  <2>1. Parts /\ \E pos \in Ghosts, first \in Ghosts, n \in Nat \ {0} : Placed(pos, first, n)
    BY DEF IInv
  <2>2. PICK pos \in Ghosts, first \in Ghosts, n \in Nat \ {0} : Placed(pos, first, n)
    BY <2>1
  <2>3. /\ {frontBlock, tailBlock, next[frontBlock], next[tailBlock]} \subseteq Linked
        /\ Linked \subseteq Blocks
        /\ \A b \in Linked : size[b] > 0
    BY <2>1, <2>2, Ends
  <2>4. ASSUME wpc = "construct" PROVE data[wblock][tail[wblock]] = Free
    <3>1. wblock \in Linked
      BY <2>1, <2>3, <2>4 DEF Parts, Producer
    <3>2. tail[wblock] \in Indices(wblock) /\ Count(wblock) \in Indices(wblock)
      BY <2>1, <2>3, <3>1, Ranges
    <3>3. Dist(wblock, front[wblock], tail[wblock]) >= Count(wblock)
      BY <3>2 DEF Count, Indices
    <3> QED
      BY <2>1, <2>3, <2>4, <3>1, <3>2, <3>3 DEF Parts, NoItems
  <2>5. ASSUME rpc = "take"
        PROVE  /\ rblock \in Linked /\ Count(rblock) > 0 /\ pos[rblock] <= pos[tailBlock]
               /\ first[rblock] = result + 1
    <3>1. pos[frontBlock] = 0 /\ pos[tailBlock] >= 0 /\ first[frontBlock] = result + 1
      BY <2>3, <2>5, <2>2 DEF Placed, Circle, Numbered
    <3>2. CASE op = "dequeue"
      <4>1. rblock = frontBlock /\ localTail[rblock] # front[rblock]
        BY <2>1, <2>5, <3>2 DEF Parts, Consumer
      <4>2. /\ size[rblock] \in Nat /\ {front[rblock], localTail[rblock]} \subseteq Indices(rblock)
            /\ Dist(rblock, front[rblock], localTail[rblock]) <= Count(rblock)
            /\ Count(rblock) \in Indices(rblock)
        BY <2>1, <2>3, <4>1, Ranges
      <4>3. /\ Dist(rblock, front[rblock], localTail[rblock]) # 0
            /\ Dist(rblock, front[rblock], localTail[rblock]) \in Indices(rblock)
        BY <4>1, <4>2, Distances
      <4> QED
        BY <2>3, <3>1, <4>1, <4>2, <4>3 DEF Indices
    <3>3. CASE op = "peek" /\ rblock = frontBlock /\ Count(frontBlock) > 0
      BY <2>3, <3>1, <3>3
    <3>4. CASE /\ op = "peek" /\ rblock = next[frontBlock]
               /\ frontBlock # tailBlock /\ Count(frontBlock) = 0
      <4>1. /\ pos[rblock] = 1 /\ pos[tailBlock] > 0 /\ Count(rblock) > 0
        BY <2>1, <2>2, <3>4, Neighbours
      <4>2. pos[tailBlock] \in Int /\ pos[frontBlock] < pos[tailBlock]
        BY <2>2, <2>3, <3>1, <4>1 DEF Placed, Circle
      <4>3. first[rblock] = first[frontBlock] + 0
        BY <2>2, <2>3, <3>4, <4>2 DEF Placed, Numbered
      <4>4. result \in Nat
        BY <2>1 DEF Parts, TypeOK, MemoryOK
      <4> QED
        BY <2>3, <3>1, <3>4, <4>1, <4>2, <4>3, <4>4
    <3> QED
      BY <2>1, <2>5, <3>2, <3>3, <3>4 DEF Parts, Consumer, TypeOK, ThreadsOK
  <2>6. ASSUME rpc = "take"
        PROVE  Contents # << >> /\ data[rblock][front[rblock]] = Head(Contents)
    <3>1. /\ rblock \in Linked /\ Count(rblock) > 0 /\ pos[rblock] <= pos[tailBlock]
          /\ first[rblock] = result + 1
      BY <2>5, <2>6
    <3>2. size[rblock] \in Nat /\ front[rblock] \in Indices(rblock) /\ result \in Nat
      BY <2>1, <2>3, <3>1, Ranges DEF Parts, TypeOK, MemoryOK
    <3>3. Dist(rblock, front[rblock], front[rblock]) = 0
      BY <3>2, Distances
    <3>4. data[rblock][front[rblock]] = first[rblock] + 0
      BY <2>2, <2>6, <3>1, <3>2, <3>3 DEF Placed, Items
    <3> DEFINE d == sent - result
    <3>5. Contents = Following(result, d) /\ d \in Nat
      BY ContentsAre DEF InOrder
    <3>6. d > 0
      <4>1. first[rblock] + Count(rblock) <= sent + 1 /\ Count(rblock) \in Int /\ sent \in Nat
        BY <2>1, <2>2, <2>3, <3>1 DEF Placed, Counted, Parts, TypeOK, MemoryOK, Count, Dist
      <4> QED
        BY <3>1, <3>2, <4>1
    <3> HIDE DEF d
    <3>7. Contents # << >> /\ Head(Contents) = result + 1
      <4>1. d # 0
        BY <3>6
      <4> QED
        BY <3>2, <3>5, <3>6, <4>1, FollowingIs
    <3>8. data[rblock][front[rblock]] = result + 1
      BY <3>1, <3>2, <3>4
    <3> QED
      BY <3>7, <3>8
  <2> QED
    BY <2>4, <2>6 DEF SlotsApart
<1> QED
  BY <1>1, QueueInvariant, PTL

(* What the two threads know of the queue during their calls.               *)
History ==
  /\ wasEmpty \in BOOLEAN /\ mostHeld \in Nat
  /\ rpc = "loadTailBlock" /\ frontBlock = tailBlock => wasEmpty
  /\ rpc = "empty" => wasEmpty
  /\ wpc = "loadFrontBlock" /\ next[tailBlock] = tailBlock => mostHeld >= made.maxSize
  /\ wpc = "full" => mostHeld >= made.maxSize

(* The items the queue counts as its own: those not yet released.           *)
Kept == sent - (IF rpc = "release" THEN result - 1 ELSE result)

(* What a step notes, by the numbers of the items.                          *)
LEMMA ObserveIs ==
  ASSUME IInv, Observe
  PROVE  /\ Kept \in Nat
         /\ wasEmpty' = (sent - result = 0 \/ (rpc # "idle" /\ wasEmpty))
         /\ mostHeld' = IF wpc # "idle" /\ mostHeld > Kept THEN mostHeld ELSE Kept
<1> DEFINE d == sent - result
<1>1. Contents = Following(result, d) /\ d \in Nat
  BY ContentsAre DEF InOrder
<1>2. result \in Nat /\ sent \in Nat
  BY DEF IInv, Parts, TypeOK, MemoryOK
<1> HIDE DEF d
<1>3. Len(Contents) = d
  BY <1>1, <1>2, FollowingIs
<1>4. Kept = IF rpc = "release" THEN d + 1 ELSE d
  BY <1>2 DEF Kept, d
<1>5. Kept \in Nat
  BY <1>1, <1>4
<1>6. wasEmpty' = (d = 0 \/ (rpc # "idle" /\ wasEmpty))
  BY <1>3 DEF Observe
<1>7. mostHeld' = IF wpc # "idle" /\ mostHeld > Kept THEN mostHeld ELSE Kept
  BY <1>3, <1>4 DEF Observe
<1> QED
  BY <1>5, <1>6, <1>7 DEF d

(* The blocks of the constructor but one hold maxSize items; when there is  *)
(* one block only, it does.                                                 *)
LEMMA Capacity ==
  ASSUME NEW q \in Queues, NEW m \in Nat \ {0}, m >= InitialBlocks(q)
  PROVE  /\ m >= 2 => (m - 1) * (InitialSize(q) - 1) >= q.maxSize
         /\ m = 1 => InitialSize(q) - 1 >= q.maxSize
<1> DEFINE d == q.maxBlockSize - 1
           a == q.maxSize + q.maxBlockSize * 2 - 3
           i == a \div d
           c == CeilToPow2(q.maxSize + 1) - 1
<1>1. /\ q.maxSize \in Nat \ {0} /\ q.maxBlockSize \in Nat \ {0, 1}
      /\ c \in q.maxSize .. 2 * q.maxSize
  <2>1. CeilToPow2(q.maxSize + 1) \in q.maxSize + 1 .. 2 * q.maxSize + 1 /\ q.maxSize \in Nat \ {0}
    BY SizesAssumption, PowerAssumption
  <2> QED
    BY <2>1, SizesAssumption
<1>2. CASE ManyBlocks(q)
  <2>1. d \in Nat \ {0} /\ a \in Nat /\ a = q.maxSize - 1 + 2 * d
    BY <1>1
  <2>2. InitialSize(q) - 1 = d /\ InitialBlocks(q) = i
    BY <1>2 DEF InitialSize, InitialBlocks
  <2> HIDE DEF d, a
  <2>0. d \in Nat \ {0} /\ a \in Int
    BY <2>1
  <2>3. i \in Int /\ a = i * d + (a % d) /\ a % d \in 0 .. d - 1
    <3>1. (a \div d) \in Int
      BY <2>0, DivInt
    <3>2. a = (a \div d) * d + (a % d)
      BY <2>0, DivMod
    <3>3. (a % d) \in 0 .. d - 1
      BY <2>0, ModRange
    <3> QED
      BY <3>1, <3>2, <3>3
  <2> HIDE DEF i
  <2>4. (i - 1) * d = i * d - d
    BY <2>1, <2>3
  <2>5. (i - 1) * d >= q.maxSize
    BY <1>1, <2>1, <2>3, <2>4
  <2>6. i >= 2
    <3> SUFFICES ASSUME i - 1 <= 0 PROVE FALSE
      BY <2>3
    <3> DEFINE x == 1 - i
    <3>1. x \in Nat /\ i - 1 = - x
      BY <2>3
    <3> HIDE DEF x
    <3>2. x * d \in Nat /\ (- x) * d = - (x * d)
      BY <2>0, <3>1
    <3>3. - (x * d) >= q.maxSize
      BY <2>5, <3>1, <3>2
    <3> QED
      BY <1>1, <3>2, <3>3
  <2>7. (m - 1) * d >= (i - 1) * d
    <3> DEFINE x == m - 1
               y == i - 1
    <3>1. x \in Int /\ y \in Int /\ x >= y
      BY <2>2, <2>3
    <3> HIDE DEF x, y
    <3>2. x * d >= y * d
      BY <2>1, <3>1
    <3> QED
      BY <3>2 DEF x, y
  <2>8. (m - 1) * d \in Int /\ (i - 1) * d \in Int
    BY <2>1, <2>3
  <2> QED
    BY <1>1, <2>2, <2>3, <2>5, <2>6, <2>7, <2>8
<1>3. CASE ~ ManyBlocks(q)
  <2>1. InitialSize(q) - 1 = c
    BY <1>3 DEF InitialSize
  <2> HIDE DEF c
  <2>2. c \in Nat /\ c >= q.maxSize
    BY <1>1
  <2>3. ASSUME m >= 2 PROVE (m - 1) * c >= c
    <3> DEFINE x == m - 2
    <3>1. x \in Nat /\ m - 1 = x + 1
      BY <2>3
    <3> HIDE DEF x
    <3>2. (x + 1) * c = x * c + c /\ x * c \in Nat
      BY <2>2, <3>1
    <3> QED
      BY <2>2, <3>1, <3>2
  <2>4. (m - 1) * c \in Int
    BY <2>2
  <2> QED
    BY <1>1, <2>1, <2>2, <2>3, <2>4
<1> QED
  BY <1>2, <1>3

(* When the producer finds no room in the tail block and the consumer in    *)
(* the next one, the queue holds maxSize items.                             *)
LEMMA FullHolds ==
  ASSUME IInv, wpc = "loadFrontBlock", next[tailBlock] = frontBlock, tailBlock # frontBlock
  PROVE  Kept >= made.maxSize
<1>1. Parts /\ \E pos \in Ghosts, first \in Ghosts, n \in Nat \ {0} : Placed(pos, first, n)
  BY DEF IInv
<1>2. PICK pos \in Ghosts, first \in Ghosts, n \in Nat \ {0} : Placed(pos, first, n)
  BY <1>1
<1> DEFINE c == next[frontBlock]
           y == InitialSize(made) - 1
<1>3. {frontBlock, tailBlock, c} \subseteq Linked /\ Linked \subseteq Blocks /\ size[tailBlock] > 0
  BY <1>1, <1>2, Ends
<1>4. /\ pos[tailBlock] \in 0 .. n - 1 /\ pos[frontBlock] = 0
      /\ pos[frontBlock] = IF pos[tailBlock] = n - 1 THEN 0 ELSE pos[tailBlock] + 1
      /\ n >= InitialBlocks(made)
  BY <1>2, <1>3 DEF Placed, Circle
<1>5. pos[c] = 1 /\ pos[tailBlock] > 0
  BY <1>1, <1>2, Neighbours
<1>6. pos[tailBlock] = n - 1 /\ n >= 2
  BY <1>4, <1>5
<1>7. made \in Queues /\ y \in Nat /\ made.maxSize \in Nat /\ sent \in Nat /\ result \in Nat
  BY <1>1, SizeBounds DEF Parts, TypeOK, MemoryOK
<1>8. (n - 1) * y >= made.maxSize
  BY <1>4, <1>6, <1>7, Capacity
<1>9. /\ first[c] + Most(pos, c) + Count(tailBlock) <= sent + 1
      /\ first[c] = first[frontBlock] + Count(frontBlock)
  BY <1>2, <1>3, <1>4, <1>5, <1>6 DEF Placed, Counted, Numbered
<1>10. first[frontBlock] = IF rpc = "release" THEN result ELSE result + 1
  BY <1>2 DEF Placed, Numbered
<1>11. Count(tailBlock) >= y
  <2>1. Count(tailBlock) = size[tailBlock] - 1
    BY <1>1 DEF Parts, TailFull, LeavesTail, Count
  <2>2. size[tailBlock] >= InitialSize(made) /\ size[tailBlock] \in Nat
    BY <1>1, <1>3, <1>7, SizeBounds DEF Parts, TypeOK, MemoryOK, Sizes
  <2>3. InitialSize(made) \in Nat
    BY <1>7, SizeBounds
  <2> QED
    BY <1>7, <2>1, <2>2, <2>3
<1>12. Count(frontBlock) \in Nat /\ Count(tailBlock) \in Nat
  BY <1>1, <1>2, <1>3, <1>4, <1>5, HeldItems
<1>13. Most(pos, c) = (n - 2) * y
  <2>1. pos[tailBlock] - pos[c] = n - 2
    BY <1>5, <1>6
  <2>2. Most(pos, c) = (pos[tailBlock] - pos[c]) * (InitialSize(made) - 1)
    BY DEF Most
  <2> QED
    BY <2>1, <2>2
<1> HIDE DEF c, y
<1>14. (n - 1) * y = (n - 2) * y + y /\ (n - 2) * y \in Int
  <2> DEFINE x == n - 2
  <2>1. x \in Int /\ n - 1 = x + 1
    BY <1>6
  <2> HIDE DEF x
  <2>2. (x + 1) * y = x * y + y /\ x * y \in Int
    BY <1>7, <2>1
  <2> QED
    BY <2>1, <2>2 DEF x
<1>15. Kept = sent + 1 - first[frontBlock] /\ first[frontBlock] \in Int
  BY <1>7, <1>10 DEF Kept
<1> QED
  BY <1>7, <1>8, <1>9, <1>11, <1>12, <1>13, <1>14, <1>15

(* The same, of a ring of one block.                                        *)
LEMMA OneBlockHolds ==
  ASSUME IInv, wpc = "loadFront", next[tailBlock] = tailBlock,
         After(tailBlock, tail[tailBlock]) = front[tailBlock]
  PROVE  Kept >= made.maxSize
<1>1. Parts /\ \E pos \in Ghosts, first \in Ghosts, n \in Nat \ {0} : Placed(pos, first, n)
  BY DEF IInv
<1>2. PICK pos \in Ghosts, first \in Ghosts, n \in Nat \ {0} : Placed(pos, first, n)
  BY <1>1
<1>3. {frontBlock, tailBlock} \subseteq Linked /\ Linked \subseteq Blocks /\ size[tailBlock] > 0
  BY <1>1, <1>2, Ends
<1>4. /\ pos[tailBlock] \in 0 .. n - 1 /\ pos[frontBlock] = 0
      /\ pos[tailBlock] = IF pos[tailBlock] = n - 1 THEN 0 ELSE pos[tailBlock] + 1
      /\ n >= InitialBlocks(made)
      /\ \A b, c \in Linked : pos[b] = pos[c] => b = c
  BY <1>2, <1>3 DEF Placed, Circle
<1>5. n = 1 /\ tailBlock = frontBlock
  BY <1>3, <1>4
<1>6. made \in Queues /\ made.maxSize \in Nat /\ sent \in Nat /\ result \in Nat
  BY <1>1, SizeBounds DEF Parts, TypeOK, MemoryOK
<1>7. InitialSize(made) - 1 >= made.maxSize /\ InitialSize(made) \in Nat
  BY <1>4, <1>5, <1>6, Capacity, SizeBounds
<1>8. Count(tailBlock) = size[tailBlock] - 1 /\ size[tailBlock] \in Nat
  <2>1. /\ size[tailBlock] \in Nat
        /\ {front[tailBlock], tail[tailBlock]} \subseteq Indices(tailBlock)
    BY <1>1, <1>3, Ranges
  <2> QED
    BY <2>1, Distances DEF Count
<1>9. size[tailBlock] >= InitialSize(made)
  BY <1>1, <1>3, <1>7, <1>8 DEF Parts, Sizes
<1>10. /\ sent = first[tailBlock] + Count(tailBlock) - 1
       /\ first[tailBlock] = IF rpc = "release" THEN result ELSE result + 1
  BY <1>2, <1>5 DEF Placed, Numbered
<1>11. Kept = sent + 1 - first[tailBlock] /\ first[tailBlock] \in Int
  BY <1>6, <1>10 DEF Kept
<1> QED
  BY <1>6, <1>7, <1>8, <1>9, <1>10, <1>11

(* What the steps of each thread leave alone.                               *)
LEMMA EnqueueMoves ==
  ASSUME Enqueue
  PROVE  /\ Observe /\ UNCHANGED <<rpc, frontBlock, made>>
         /\ tailBlock' = tailBlock \/ (AdvanceTailBlock /\ tailBlock' = wblock)
         /\ wpc' = "loadFrontBlock" => LoadFront
         /\ wpc' = "full" => LoadFrontBlock
  BY DEF Enqueue, EnqueueStart, EnqueueSteps, LoadFront, LoadFrontBlock, LoadNext, Construct,
     Publish, Alloc, AllocFails, Link, AdvanceTailBlock, Full, WStep, queueVars, consumerVars

(* And of the consumer.                                                     *)
LEMMA DequeueMoves ==
  ASSUME Dequeue
  PROVE  /\ Observe /\ UNCHANGED <<wpc, tailBlock, next, made>>
         /\ rpc' = "loadTailBlock" => LoadTail
         /\ rpc' = "empty" => LoadTailBlock
  BY DEF Dequeue, DequeueStart, DequeueSteps, LoadTail, LoadTailBlock, ReloadTail, LoadNextBlock,
     LoadNextTail, LeaveBlock, TakeItem, Peek, Release, Empty, RStep, queueVars, producerVars

(* Every step keeps what is known of the history: a call that finds the     *)
(* queue empty, or full, has seen it so since it began.                     *)
LEMMA HistoryStep == IInv /\ History /\ [Next]_vars => History'
<1> SUFFICES ASSUME IInv, History, [Next]_vars PROVE History'
  OBVIOUS
<1>1. CASE UNCHANGED vars
  BY <1>1 DEF vars, queueVars, producerVars, consumerVars, History
<1>2. CASE Enqueue
  <2>1. /\ Observe /\ UNCHANGED <<rpc, frontBlock, made>>
        /\ tailBlock' = tailBlock \/ (AdvanceTailBlock /\ tailBlock' = wblock)
        /\ wpc' = "loadFrontBlock" => LoadFront
        /\ wpc' = "full" => LoadFrontBlock
    BY <1>2, EnqueueMoves
  <2>2. /\ Kept \in Nat /\ made.maxSize \in Nat
        /\ wasEmpty' = (sent - result = 0 \/ (rpc # "idle" /\ wasEmpty))
        /\ mostHeld' = IF wpc # "idle" /\ mostHeld > Kept THEN mostHeld ELSE Kept
    BY <2>1, ObserveIs, SizeBounds DEF IInv, Parts, TypeOK, MemoryOK
  <2>3. AdvanceTailBlock => wblock # frontBlock
    BY DEF AdvanceTailBlock, WStep, IInv, Parts, Producer
  <2>4. ASSUME wpc' = "loadFrontBlock", next'[tailBlock'] = tailBlock'
        PROVE  Kept >= made.maxSize
    <3>1. /\ wpc = "loadFront" /\ next' = next /\ tailBlock' = tailBlock
          /\ After(tailBlock, tail[tailBlock]) = front[tailBlock]
      BY <2>1, <2>4 DEF LoadFront, WStep
    <3> QED
      BY <2>4, <3>1, OneBlockHolds
  <2>5. ASSUME wpc' = "full"
        PROVE  wpc = "loadFrontBlock" /\ (mostHeld >= made.maxSize \/ Kept >= made.maxSize)
    <3>1. wpc = "loadFrontBlock" /\ next[tailBlock] = frontBlock
      BY <2>1, <2>5 DEF LoadFrontBlock, WStep
    <3>2. CASE tailBlock = frontBlock
      BY <3>1, <3>2 DEF History
    <3>3. CASE tailBlock # frontBlock
      BY <3>1, <3>3, FullHolds
    <3> QED
      BY <3>1, <3>2, <3>3
  <2>6. wasEmpty' \in BOOLEAN /\ mostHeld' \in Nat
    BY <2>2 DEF History
  <2>7. rpc' = "loadTailBlock" /\ frontBlock' = tailBlock' => wasEmpty'
    BY <2>1, <2>2, <2>3 DEF History
  <2>8. rpc' = "empty" => wasEmpty'
    BY <2>1, <2>2 DEF History
  <2>9. wpc' = "loadFrontBlock" /\ next'[tailBlock'] = tailBlock' => mostHeld' >= made.maxSize
    BY <2>2, <2>4 DEF History
  <2>10. wpc' = "full" => mostHeld' >= made.maxSize
    BY <2>2, <2>5 DEF History
  <2> QED
    BY <2>1, <2>6, <2>7, <2>8, <2>9, <2>10 DEF History
<1>3. CASE Dequeue
  <2>1. /\ Observe /\ UNCHANGED <<wpc, tailBlock, next, made>>
        /\ rpc' = "loadTailBlock" => LoadTail
        /\ rpc' = "empty" => LoadTailBlock
    BY <1>3, DequeueMoves
  <2>2. /\ Kept \in Nat /\ made.maxSize \in Nat
        /\ wasEmpty' = (sent - result = 0 \/ (rpc # "idle" /\ wasEmpty))
        /\ mostHeld' = IF wpc # "idle" /\ mostHeld > Kept THEN mostHeld ELSE Kept
    BY <2>1, ObserveIs, SizeBounds DEF IInv, Parts, TypeOK, MemoryOK
  <2>3. ASSUME rpc' = "loadTailBlock", frontBlock' = tailBlock' PROVE sent - result = 0
    <3>1. rpc = "loadTail" /\ frontBlock = tailBlock /\ front[frontBlock] = tail[frontBlock]
      BY <2>1, <2>3 DEF LoadTail, RStep
    <3>2. Parts /\ \E pos \in Ghosts, first \in Ghosts, n \in Nat \ {0} : Placed(pos, first, n)
      BY DEF IInv
    <3>3. PICK pos \in Ghosts, first \in Ghosts, n \in Nat \ {0} : Placed(pos, first, n)
      BY <3>2
    <3>4. Count(tailBlock) = 0
      BY <3>1, <3>2 DEF Count, Dist, Parts, TypeOK, MemoryOK
    <3>5. sent = first[tailBlock] + Count(tailBlock) - 1 /\ first[tailBlock] = result + 1
      BY <3>1, <3>3 DEF Placed, Numbered
    <3> QED
      BY <3>2, <3>4, <3>5 DEF Parts, TypeOK, MemoryOK
  <2>4. ASSUME rpc' = "empty" PROVE rpc # "idle" /\ wasEmpty
    BY <2>1, <2>4 DEF LoadTailBlock, RStep, History
  <2>5. wasEmpty' \in BOOLEAN /\ mostHeld' \in Nat
    BY <2>2 DEF History
  <2>6. wpc # "idle" => mostHeld' >= mostHeld
    BY <2>2 DEF History
  <2>7. wpc' = "loadFrontBlock" /\ next'[tailBlock'] = tailBlock' => mostHeld' >= made.maxSize
    BY <2>1, <2>2, <2>5, <2>6 DEF History
  <2>8. wpc' = "full" => mostHeld' >= made.maxSize
    BY <2>1, <2>2, <2>5, <2>6 DEF History
  <2> QED
    BY <2>1, <2>2, <2>3, <2>4, <2>5, <2>7, <2>8 DEF History
<1> QED
  BY <1>1, <1>2, <1>3 DEF Next

(* The answers are true: a call that says the queue is empty has met it so, *)
(* and one that says it is full has met it with maxSize items or more.      *)
THEOREM AnswersTrueAlways == Spec => []AnswersTrue
<1>1. Init => History
  BY DEF Init, History
<1>2. IInv /\ History /\ [Next]_vars => History'
  BY HistoryStep
<1>3. History => AnswersTrue
  BY DEF History, AnswersTrue
<1> QED
  BY <1>1, <1>2, <1>3, QueueInvariant, PTL DEF Spec

=============================================================================
