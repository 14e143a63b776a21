---------------------------- MODULE BoundedFifo ----------------------------
(***************************************************************************)
(* What ring_buf.h promises its users: a queue of at most Capacity blocks. *)
(* put_rb_data adds a block at the end, get_rb_data takes the oldest one.  *)
(* How callers wait, and where the blocks are kept, is left to RingBuf.    *)
(***************************************************************************)
EXTENDS Naturals, Sequences

CONSTANTS Consumers, Data, Capacity

VARIABLES fifo,    \* the blocks in the queue, oldest first
          val      \* per consumer: the block its last get_rb_data returned

Init == fifo = << >> /\ val \in [Consumers -> Data]

Put(d) ==
    /\ Len(fifo) < Capacity
    /\ fifo' = Append(fifo, d)
    /\ UNCHANGED val

Get(c) ==
    /\ fifo # << >>
    /\ val' = [val EXCEPT ![c] = Head(fifo)]
    /\ fifo' = Tail(fifo)

Next == (\E d \in Data : Put(d)) \/ (\E c \in Consumers : Get(c))

Spec == Init /\ [][Next]_<<fifo, val>>
=============================================================================
