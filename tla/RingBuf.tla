------------------------------- MODULE RingBuf -------------------------------
(***************************************************************************)
(* The ring buffer of the GR collector (gr/ring_buf.c): max_que_num slots, *)
(* a mutex and two condition variables.                                    *)
(*                                                                         *)
(* Everything between taking buf_lock and releasing it (or waiting) is one *)
(* step.  A thread outside put_rb_data and get_rb_data is "out"; one that  *)
(* wants the lock, because it has just called or was woken, is "lock"; one *)
(* in pthread_cond_wait is "wait".                                         *)
(***************************************************************************)
EXTENDS Naturals, FiniteSets, Sequences

CONSTANTS
    Producers, Consumers,    \* threads that put (collect_data) and get (collect_tcp)
    Data,                    \* contents of a block
    MaxQueNum                \* max_que_num: 64, or what -q says

ASSUME RingAssumption ==
    /\ MaxQueNum \in Nat \ {0}
    /\ Producers \cap Consumers = {}
    /\ IsFiniteSet(Producers) /\ IsFiniteSet(Consumers)

VARIABLES
    slot,         \* shm_hdl: the blocks
    start_idx,    \* start of valid data
    num_full,     \* # of full locations
    st,           \* per thread: out, lock or wait
    arg,          \* per producer: the block it puts
    val           \* per consumer: the block it got last

ringVars == <<slot, start_idx, num_full, st, arg, val>>

Threads == Producers \cup Consumers

\* new_rb: all slots empty (the memory is whatever malloc returned).
RingInit ==
    /\ slot \in [0 .. MaxQueNum - 1 -> Data]
    /\ start_idx = 0
    /\ num_full = 0
    /\ st = [t \in Threads |-> "out"]
    /\ arg \in [Producers -> Data]
    /\ val \in [Consumers -> Data]

-----------------------------------------------------------------------------
Waiting(S) == {t \in S : st[t] = "wait"}
Locking(S) == {t \in S : st[t] = "lock"}

\* The caller t leaves, and pthread_cond_signal wakes one of the threads of S that
\* wait, if there is one.
leave_signal_Never(t, S) == st' = [st EXCEPT ![t] = "out"]

leave_signal(t, S) ==
    \/ /\ Waiting(S) = {}
       /\ st' = [st EXCEPT ![t] = "out"]
    \/ \E w \in Waiting(S) : st' = [st EXCEPT ![t] = "out", ![w] = "lock"]

\* put_rb_data is called, ...
PutCall(p) ==
    /\ st[p] = "out"
    /\ st' = [st EXCEPT ![p] = "lock"]
    /\ \E d \in Data : arg' = [arg EXCEPT ![p] = d]
    /\ UNCHANGED <<slot, start_idx, num_full, val>>

\* ... waits while the buffer is full, ...
PutWait(p) ==
    /\ st[p] = "lock"
    /\ num_full = MaxQueNum
    /\ st' = [st EXCEPT ![p] = "wait"]
    /\ UNCHANGED <<slot, start_idx, num_full, arg, val>>

\* A fault: the block goes to the oldest slot.
put_rb_data_Oldest(p) ==
    /\ st[p] = "lock"
    /\ num_full # MaxQueNum
    /\ slot' = [slot EXCEPT ![start_idx] = arg[p]]
    /\ num_full' = num_full + 1
    /\ leave_signal(p, Consumers)
    /\ UNCHANGED <<start_idx, arg, val>>

\* ... and puts the block behind the last full slot.
put_rb_data(p) ==
    /\ st[p] = "lock"
    /\ num_full # MaxQueNum
    /\ slot' = [slot EXCEPT ![(start_idx + num_full) % MaxQueNum] = arg[p]]
    /\ num_full' = num_full + 1
    /\ leave_signal(p, Consumers)
    /\ UNCHANGED <<start_idx, arg, val>>

\* get_rb_data is called, ...
GetCall(c) ==
    /\ st[c] = "out"
    /\ st' = [st EXCEPT ![c] = "lock"]
    /\ UNCHANGED <<slot, start_idx, num_full, arg, val>>

\* ... waits while there is nothing, ...
GetWait(c) ==
    /\ st[c] = "lock"
    /\ num_full = 0
    /\ st' = [st EXCEPT ![c] = "wait"]
    /\ UNCHANGED <<slot, start_idx, num_full, arg, val>>

\* ... and takes the oldest block.
get_rb_data(c) ==
    /\ st[c] = "lock"
    /\ num_full # 0
    /\ val' = [val EXCEPT ![c] = slot[start_idx]]
    /\ start_idx' = (start_idx + 1) % MaxQueNum
    /\ num_full' = num_full - 1
    /\ leave_signal(c, Producers)
    /\ UNCHANGED <<slot, arg>>

\* pthread_cond_wait may return without a signal.
WakeUp(t) ==
    /\ st[t] = "wait"
    /\ st' = [st EXCEPT ![t] = "lock"]
    /\ UNCHANGED <<slot, start_idx, num_full, arg, val>>

-----------------------------------------------------------------------------
Producer(p) == PutCall(p) \/ PutWait(p) \/ put_rb_data(p)
Consumer(c) == GetCall(c) \/ GetWait(c) \/ get_rb_data(c)

RingNext ==
    \/ \E p \in Producers : Producer(p)
    \/ \E c \in Consumers : Consumer(c)
    \/ \E t \in Threads : WakeUp(t)

RingSpec == RingInit /\ [][RingNext]_ringVars

-----------------------------------------------------------------------------
\* The type of the ring's state.
RingTypeOK ==
    /\ slot \in [0 .. MaxQueNum - 1 -> Data]
    /\ start_idx \in 0 .. MaxQueNum - 1
    /\ num_full \in 0 .. MaxQueNum
    /\ st \in [Threads -> {"out", "lock", "wait"}]
    /\ arg \in [Producers -> Data]
    /\ val \in [Consumers -> Data]

\* One pthread_cond_signal per block is enough: while a consumer waits, every block in
\* the ring has a woken (or arriving) consumer of its own, and while a producer
\* waits, so has every free slot.  In particular nobody waits for what is there.
NoLostWakeup ==
    /\ Waiting(Consumers) # {} => num_full <= Cardinality(Locking(Consumers))
    /\ Waiting(Producers) # {} => MaxQueNum - num_full <= Cardinality(Locking(Producers))

\* The ring is a bounded queue: the blocks come out once, in the order they were put.
Queue == [i \in 1 .. num_full |-> slot[(start_idx + i - 1) % MaxQueNum]]

Fifo == INSTANCE BoundedFifo WITH fifo <- Queue, val <- val, Capacity <- MaxQueNum

FifoSpec == Fifo!Spec

\* put_rb_data returns ("If the queue is full, it waits until there is room").
PutReturns == \A p \in Producers : st[p] # "out" ~> st[p] = "out"
=============================================================================
