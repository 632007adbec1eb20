-------------------------------- MODULE Fifo --------------------------------
(***************************************************************************)
(* What a queue between one producer and one consumer promises: what is    *)
(* put is taken once, in order.  SpscQueue implements it, and RecordThread *)
(* is built on it.                                                         *)
(***************************************************************************)
EXTENDS Sequences

CONSTANT Items \* what can be put

VARIABLES contents, \* what was put and not taken, in order
          taken     \* what the last Take returned, or what was there before

fifoVars == <<contents, taken>>

FifoInit == contents = <<>> /\ taken = 0

Put(m) == contents' = Append(contents, m) /\ UNCHANGED taken

Take ==
  /\ contents # <<>>
  /\ taken' = Head(contents)
  /\ contents' = Tail(contents)

FifoNext == Take \/ \E m \in Items : Put(m)

FifoSpec == FifoInit /\ [][FifoNext]_fifoVars
=============================================================================
