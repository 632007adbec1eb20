------------------------ MODULE MCBlockingSpscQueue ------------------------
(* A small instance of the blocking queue for TLC.                          *)
EXTENDS BlockingSpscQueue, TLC

FewItems == 1 .. MaxItems
=============================================================================
