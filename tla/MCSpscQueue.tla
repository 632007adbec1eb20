----------------------------- MODULE MCSpscQueue -----------------------------
(* Small queues for TLC: one of a block that grows twice, by a bigger one    *)
(* each time, and one that starts as a ring of several blocks.               *)
EXTENDS SpscQueue

Growing == [maxSize |-> 1, maxBlockSize |-> 4, maxBlocks |-> 3]
Ring == [maxSize |-> 4, maxBlockSize |-> 2, maxBlocks |-> 6]
GrowingAndRing == {Growing, Ring}

Both == {"dequeue", "peek"}
=============================================================================
