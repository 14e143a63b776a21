--------------------------- MODULE RingBuf_proofs ---------------------------
(***************************************************************************)
(* The ring buffer for any number of threads and any max_que_num: no       *)
(* wake-up is lost with one pthread_cond_signal per block, and the slots   *)
(* used in a circle are a bounded first-in first-out queue.                *)
(***************************************************************************)
EXTENDS RingBuf, FiniteSetTheorems, SequenceTheorems, TLAPS

-----------------------------------------------------------------------------
(* Indices                                                                 *)

\* The remainder of a slot number, at most once around the ring.
LEMMA ModOnce ==
    ASSUME NEW a \in 0 .. 2 * MaxQueNum - 1
    PROVE  a % MaxQueNum = IF a < MaxQueNum THEN a ELSE a - MaxQueNum
<1>1. CASE a < MaxQueNum
  BY <1>1, RingAssumption
<1>2. CASE ~ a < MaxQueNum
  BY <1>2, RingAssumption
<1>. QED BY <1>1, <1>2

-----------------------------------------------------------------------------
(* The type invariant                                                      *)

\* The caller leaves and wakes at most one thread: the states stay states.
LEMMA LeaveSignalType ==
    ASSUME RingTypeOK, NEW t \in Threads, NEW S \in SUBSET Threads, leave_signal(t, S)
    PROVE  st' \in [Threads -> {"out", "lock", "wait"}]
<1>1. CASE Waiting(S) = {} /\ st' = [st EXCEPT ![t] = "out"]
  BY <1>1 DEF RingTypeOK
<1>2. CASE \E w \in Waiting(S) : st' = [st EXCEPT ![t] = "out", ![w] = "lock"]
  BY <1>2 DEF RingTypeOK, Waiting
<1>. QED BY <1>1, <1>2 DEF leave_signal

\* Every step keeps the types.
LEMMA RingTypeStep == ASSUME RingTypeOK, [RingNext]_ringVars PROVE RingTypeOK'
<1>0. MaxQueNum \in Nat \ {0} /\ Producers \subseteq Threads /\ Consumers \subseteq Threads
  BY RingAssumption DEF Threads
<1>1. ASSUME NEW p \in Producers, PutCall(p) PROVE RingTypeOK'
  BY <1>0, <1>1 DEF RingTypeOK, PutCall
<1>2. ASSUME NEW p \in Producers, PutWait(p) PROVE RingTypeOK'
  BY <1>0, <1>2 DEF RingTypeOK, PutWait
<1>3. ASSUME NEW p \in Producers, put_rb_data(p) PROVE RingTypeOK'
  <2>1. st' \in [Threads -> {"out", "lock", "wait"}]
    BY <1>0, <1>3, LeaveSignalType DEF put_rb_data
  <2>2. num_full' \in 0 .. MaxQueNum /\ slot' \in [0 .. MaxQueNum - 1 -> Data]
    BY <1>0, <1>3 DEF RingTypeOK, put_rb_data
  <2>. QED BY <1>3, <2>1, <2>2 DEF RingTypeOK, put_rb_data
<1>4. ASSUME NEW c \in Consumers, GetCall(c) \/ GetWait(c) PROVE RingTypeOK'
  BY <1>0, <1>4 DEF RingTypeOK, GetCall, GetWait
<1>5. ASSUME NEW c \in Consumers, get_rb_data(c) PROVE RingTypeOK'
  <2>1. st' \in [Threads -> {"out", "lock", "wait"}]
    BY <1>0, <1>5, LeaveSignalType DEF get_rb_data
  <2>2. num_full' \in 0 .. MaxQueNum /\ start_idx' \in 0 .. MaxQueNum - 1
    BY <1>0, <1>5 DEF RingTypeOK, get_rb_data
  <2>3. val' \in [Consumers -> Data]
    BY <1>5 DEF RingTypeOK, get_rb_data
  <2>. QED BY <1>5, <2>1, <2>2, <2>3 DEF RingTypeOK, get_rb_data
<1>6. ASSUME NEW t \in Threads, WakeUp(t) PROVE RingTypeOK'
  BY <1>6 DEF RingTypeOK, WakeUp
<1>7. CASE UNCHANGED ringVars
  BY <1>7 DEF RingTypeOK, ringVars
<1>. QED BY <1>1, <1>2, <1>3, <1>4, <1>5, <1>6, <1>7 DEF RingNext, Producer, Consumer

\* The ring's indices stay inside the ring, for any number of threads and slots.
LEMMA RingTyping == RingSpec => []RingTypeOK
<1>1. RingInit => RingTypeOK
  BY RingAssumption DEF RingInit, RingTypeOK
<1>. QED BY <1>1, RingTypeStep, PTL DEF RingSpec

-----------------------------------------------------------------------------
(* No lost wake-up                                                         *)

\* Fewer threads lock by at most one, and more when one is woken.
LEMMA LockingCard ==
    ASSUME NEW S \in SUBSET Threads, IsFiniteSet(S)
    PROVE  /\ IsFiniteSet(Locking(S)) /\ Cardinality(Locking(S)) \in Nat
           /\ \A t \in Locking(S) :
                Cardinality(Locking(S) \ {t}) = Cardinality(Locking(S)) - 1
           /\ \A t : t \notin Locking(S) =>
                Cardinality(Locking(S) \cup {t}) = Cardinality(Locking(S)) + 1
<1>1. IsFiniteSet(Locking(S))
  BY FS_Subset DEF Locking
<1>. QED BY <1>1, FS_CardinalityType, FS_RemoveElement, FS_AddElement

\* A thread of S that leaves, when the woken thread is not in S.
LEMMA LeaveCard ==
    ASSUME RingTypeOK,
           NEW S \in SUBSET Threads, NEW R \in SUBSET Threads, S \cap R = {}, IsFiniteSet(S),
           NEW t \in S, st[t] = "lock", leave_signal(t, R)
    PROVE  /\ Cardinality(Locking(S))' = Cardinality(Locking(S)) - 1
           /\ Waiting(S)' = Waiting(S)
<1>1. Locking(S)' = Locking(S) \ {t} /\ Waiting(S)' = Waiting(S)
  <2>1. CASE Waiting(R) = {} /\ st' = [st EXCEPT ![t] = "out"]
    BY <2>1 DEF RingTypeOK, Locking, Waiting
  <2>2. CASE \E w \in Waiting(R) : st' = [st EXCEPT ![t] = "out", ![w] = "lock"]
    <3>1. PICK w \in Waiting(R) : st' = [st EXCEPT ![t] = "out", ![w] = "lock"]
      BY <2>2
    <3>2. w \in R /\ w \notin S
      BY <3>1 DEF Waiting
    <3>. QED BY <3>1, <3>2 DEF RingTypeOK, Locking, Waiting
  <2>. QED BY <2>1, <2>2 DEF leave_signal
<1>2. t \in Locking(S)
  BY DEF Locking
<1>. QED BY <1>1, <1>2, LockingCard

\* The other side: if a thread of R waits, one more of R goes for the lock.
LEMMA WokenCard ==
    ASSUME RingTypeOK,
           NEW R \in SUBSET Threads, IsFiniteSet(R),
           NEW t \in Threads \ R, leave_signal(t, R), Waiting(R)' # {}
    PROVE  /\ Waiting(R) # {}
           /\ Cardinality(Locking(R))' = Cardinality(Locking(R)) + 1
<1>1. CASE Waiting(R) = {} /\ st' = [st EXCEPT ![t] = "out"]
  BY <1>1 DEF RingTypeOK, Waiting
<1>2. CASE \E w \in Waiting(R) : st' = [st EXCEPT ![t] = "out", ![w] = "lock"]
  <2>1. PICK w \in Waiting(R) : st' = [st EXCEPT ![t] = "out", ![w] = "lock"]
    BY <1>2
  <2>2. w \in R /\ w \notin Locking(R) /\ w # t
    BY <2>1 DEF Waiting, Locking
  <2>3. Locking(R)' = Locking(R) \cup {w}
    BY <2>1, <2>2 DEF RingTypeOK, Locking
  <2>. QED BY <2>1, <2>2, <2>3, LockingCard
<1>. QED BY <1>1, <1>2 DEF leave_signal

\* A thread that goes for the lock, or a waiting one that is woken, only helps.
LEMMA OneMoreLocks ==
    ASSUME RingTypeOK, NEW S \in SUBSET Threads, IsFiniteSet(S),
           NEW t \in Threads, st[t] # "lock", st' = [st EXCEPT ![t] = "lock"]
    PROVE  /\ Waiting(S)' \subseteq Waiting(S)
           /\ Cardinality(Locking(S))' \in Nat
           /\ Cardinality(Locking(S))' >= Cardinality(Locking(S))
<1>1. Waiting(S)' \subseteq Waiting(S)
  BY DEF RingTypeOK, Waiting
<1>2. CASE t \in S
  <2>1. Locking(S)' = Locking(S) \cup {t} /\ t \notin Locking(S)
    BY <1>2 DEF RingTypeOK, Locking
  <2>. QED BY <1>1, <2>1, LockingCard
<1>3. CASE t \notin S
  <2>1. Locking(S)' = Locking(S)
    BY <1>3 DEF RingTypeOK, Locking
  <2>. QED BY <1>1, <2>1, LockingCard
<1>. QED BY <1>2, <1>3

\* Every step keeps the wake-ups.
LEMMA WakeupStep ==
    ASSUME RingTypeOK, NoLostWakeup, [RingNext]_ringVars PROVE NoLostWakeup'
<1>0. /\ MaxQueNum \in Nat \ {0} /\ Producers \subseteq Threads /\ Consumers \subseteq Threads
      /\ Producers \cap Consumers = {}
      /\ IsFiniteSet(Producers) /\ IsFiniteSet(Consumers)
      /\ num_full \in 0 .. MaxQueNum
      /\ Cardinality(Locking(Producers)) \in Nat /\ Cardinality(Locking(Consumers)) \in Nat
  BY RingAssumption, LockingCard DEF Threads, RingTypeOK
<1>1. ASSUME NEW p \in Producers, PutCall(p) PROVE NoLostWakeup'
  <2>1. /\ st[p] # "lock" /\ st' = [st EXCEPT ![p] = "lock"] /\ num_full' = num_full
        /\ p \in Threads
    BY <1>0, <1>1 DEF PutCall
  <2>2. /\ Waiting(Producers)' \subseteq Waiting(Producers)
        /\ Cardinality(Locking(Producers))' \in Nat
        /\ Cardinality(Locking(Producers))' >= Cardinality(Locking(Producers))
    BY <1>0, <2>1, OneMoreLocks
  <2>3. /\ Waiting(Consumers)' \subseteq Waiting(Consumers)
        /\ Cardinality(Locking(Consumers))' \in Nat
        /\ Cardinality(Locking(Consumers))' >= Cardinality(Locking(Consumers))
    BY <1>0, <2>1, OneMoreLocks
  <2>. QED BY <1>0, <2>1, <2>2, <2>3 DEF NoLostWakeup
<1>2. ASSUME NEW p \in Producers, PutWait(p) PROVE NoLostWakeup'
  <2>1. Locking(Consumers)' = Locking(Consumers) /\ Waiting(Consumers)' = Waiting(Consumers)
    BY <1>0, <1>2 DEF PutWait, RingTypeOK, Locking, Waiting
  <2>2. Locking(Producers)' = Locking(Producers) \ {p} /\ p \in Locking(Producers)
    BY <1>0, <1>2 DEF PutWait, RingTypeOK, Locking
  <2>3. Cardinality(Locking(Producers))' \in Nat
    BY <1>0, <2>2, LockingCard, FS_RemoveElement, FS_CardinalityType
  <2>4. num_full' = num_full /\ MaxQueNum - num_full = 0
    BY <1>0, <1>2 DEF PutWait
  <2>. QED BY <1>0, <2>1, <2>3, <2>4 DEF NoLostWakeup
<1>3. ASSUME NEW p \in Producers, put_rb_data(p) PROVE NoLostWakeup'
  <2>1. /\ st[p] = "lock" /\ leave_signal(p, Consumers) /\ num_full' = num_full + 1
        /\ p \in Threads \ Consumers
    BY <1>0, <1>3 DEF put_rb_data
  <2>2. /\ Cardinality(Locking(Producers))' = Cardinality(Locking(Producers)) - 1
        /\ Waiting(Producers)' = Waiting(Producers)
    BY <1>0, <2>1, LeaveCard
  <2>3. Waiting(Consumers)' # {} =>
          /\ Waiting(Consumers) # {}
          /\ Cardinality(Locking(Consumers))' = Cardinality(Locking(Consumers)) + 1
    BY <1>0, <2>1, WokenCard
  <2>. QED BY <1>0, <2>1, <2>2, <2>3 DEF NoLostWakeup
<1>4. ASSUME NEW c \in Consumers, GetCall(c) PROVE NoLostWakeup'
  <2>1. /\ st[c] # "lock" /\ st' = [st EXCEPT ![c] = "lock"] /\ num_full' = num_full
        /\ c \in Threads
    BY <1>0, <1>4 DEF GetCall
  <2>2. /\ Waiting(Producers)' \subseteq Waiting(Producers)
        /\ Cardinality(Locking(Producers))' \in Nat
        /\ Cardinality(Locking(Producers))' >= Cardinality(Locking(Producers))
    BY <1>0, <2>1, OneMoreLocks
  <2>3. /\ Waiting(Consumers)' \subseteq Waiting(Consumers)
        /\ Cardinality(Locking(Consumers))' \in Nat
        /\ Cardinality(Locking(Consumers))' >= Cardinality(Locking(Consumers))
    BY <1>0, <2>1, OneMoreLocks
  <2>. QED BY <1>0, <2>1, <2>2, <2>3 DEF NoLostWakeup
<1>5. ASSUME NEW c \in Consumers, GetWait(c) PROVE NoLostWakeup'
  <2>1. Locking(Producers)' = Locking(Producers) /\ Waiting(Producers)' = Waiting(Producers)
    BY <1>0, <1>5 DEF GetWait, RingTypeOK, Locking, Waiting
  <2>2. Locking(Consumers)' = Locking(Consumers) \ {c} /\ c \in Locking(Consumers)
    BY <1>0, <1>5 DEF GetWait, RingTypeOK, Locking
  <2>3. Cardinality(Locking(Consumers))' \in Nat
    BY <1>0, <2>2, LockingCard, FS_RemoveElement, FS_CardinalityType
  <2>4. num_full' = num_full /\ num_full = 0
    BY <1>5 DEF GetWait
  <2>. QED BY <1>0, <2>1, <2>3, <2>4 DEF NoLostWakeup
<1>6. ASSUME NEW c \in Consumers, get_rb_data(c) PROVE NoLostWakeup'
  <2>1. /\ st[c] = "lock" /\ leave_signal(c, Producers) /\ num_full' = num_full - 1
        /\ c \in Threads \ Producers
    BY <1>0, <1>6 DEF get_rb_data
  <2>2. /\ Cardinality(Locking(Consumers))' = Cardinality(Locking(Consumers)) - 1
        /\ Waiting(Consumers)' = Waiting(Consumers)
    BY <1>0, <2>1, LeaveCard
  <2>3. Waiting(Producers)' # {} =>
          /\ Waiting(Producers) # {}
          /\ Cardinality(Locking(Producers))' = Cardinality(Locking(Producers)) + 1
    BY <1>0, <2>1, WokenCard
  <2>. QED BY <1>0, <2>1, <2>2, <2>3 DEF NoLostWakeup
<1>7. ASSUME NEW t \in Threads, WakeUp(t) PROVE NoLostWakeup'
  <2>1. st[t] # "lock" /\ st' = [st EXCEPT ![t] = "lock"] /\ num_full' = num_full
    BY <1>7 DEF WakeUp
  <2>2. /\ Waiting(Producers)' \subseteq Waiting(Producers)
        /\ Cardinality(Locking(Producers))' \in Nat
        /\ Cardinality(Locking(Producers))' >= Cardinality(Locking(Producers))
    BY <1>0, <2>1, OneMoreLocks
  <2>3. /\ Waiting(Consumers)' \subseteq Waiting(Consumers)
        /\ Cardinality(Locking(Consumers))' \in Nat
        /\ Cardinality(Locking(Consumers))' >= Cardinality(Locking(Consumers))
    BY <1>0, <2>1, OneMoreLocks
  <2>. QED BY <1>0, <2>1, <2>2, <2>3 DEF NoLostWakeup
<1>8. CASE UNCHANGED ringVars
  BY <1>8 DEF NoLostWakeup, ringVars, Waiting, Locking
<1>. QED BY <1>1, <1>2, <1>3, <1>4, <1>5, <1>6, <1>7, <1>8 DEF RingNext, Producer, Consumer

\* One pthread_cond_signal per block and per free slot is enough, for any number of
\* collectors and senders: while a thread waits, every block (every free slot) has a
\* thread of its own that is on its way to the lock.
THEOREM RingWakeups == RingSpec => []NoLostWakeup
<1>1. RingInit => NoLostWakeup
  BY DEF RingInit, NoLostWakeup, Waiting, Threads
<1>. QED BY <1>1, RingTyping, WakeupStep, PTL DEF RingSpec

-----------------------------------------------------------------------------
(* The ring is a bounded queue                                             *)

\* The blocks from start_idx on are a sequence of num_full blocks.
LEMMA QueueSeq ==
    ASSUME RingTypeOK
    PROVE  /\ Queue \in Seq(Data) /\ Len(Queue) = num_full
           /\ \A i \in 1 .. num_full : Queue[i] = slot[(start_idx + i - 1) % MaxQueNum]
<1>1. num_full \in 0 .. MaxQueNum /\ MaxQueNum \in Nat \ {0} /\ start_idx \in 0 .. MaxQueNum - 1
  BY RingAssumption DEF RingTypeOK
<1>2. \A i \in 1 .. num_full : (start_idx + i - 1) % MaxQueNum \in 0 .. MaxQueNum - 1
  BY <1>1, ModOnce
<1>3. \A i \in 1 .. num_full : slot[(start_idx + i - 1) % MaxQueNum] \in Data
  BY <1>2 DEF RingTypeOK
<1>4. num_full \in Nat
  BY <1>1
<1>5. Queue \in [1 .. num_full -> Data]
  BY <1>3, Zenon DEF Queue
<1>6. \A i \in 1 .. num_full : Queue[i] = slot[(start_idx + i - 1) % MaxQueNum]
  BY Zenon DEF Queue
<1>. QED BY <1>4, <1>5, <1>6, SeqDef

\* A block put behind the last full slot is the new end of the queue.
LEMMA PutIsAppend ==
    ASSUME RingTypeOK, RingTypeOK', NEW p \in Producers, put_rb_data(p)
    PROVE  Fifo!Put(arg[p])
<1>1. /\ num_full \in 0 .. MaxQueNum - 1 /\ MaxQueNum \in Nat \ {0}
      /\ start_idx \in 0 .. MaxQueNum - 1
      /\ start_idx' = start_idx /\ num_full' = num_full + 1
      /\ slot' = [slot EXCEPT ![(start_idx + num_full) % MaxQueNum] = arg[p]]
      /\ arg[p] \in Data
  BY RingAssumption DEF RingTypeOK, put_rb_data
<1>2. (start_idx + num_full) % MaxQueNum \in 0 .. MaxQueNum - 1
  BY <1>1, ModOnce
<1>3. ASSUME NEW i \in 1 .. num_full
      PROVE  Queue'[i] = Queue[i]
  <2>1. /\ (start_idx + i - 1) % MaxQueNum # (start_idx + num_full) % MaxQueNum
        /\ (start_idx + i - 1) % MaxQueNum \in 0 .. MaxQueNum - 1
    <3>1. start_idx + i - 1 \in 0 .. 2 * MaxQueNum - 1 /\ start_idx + num_full \in 0 .. 2 * MaxQueNum - 1
      BY <1>1
    <3>. QED BY <1>1, <3>1, ModOnce
  <2>2. slot'[(start_idx + i - 1) % MaxQueNum] = slot[(start_idx + i - 1) % MaxQueNum]
    BY <1>1, <1>2, <2>1 DEF RingTypeOK
  <2>3. i \in 1 .. num_full'
    BY <1>1
  <2>. QED BY <1>1, <2>2, <2>3, QueueSeq DEF Queue
<1>4. Queue'[num_full + 1] = arg[p]
  <2>1. slot'[(start_idx + num_full) % MaxQueNum] = arg[p]
    BY <1>1, <1>2 DEF RingTypeOK
  <2>2. num_full + 1 \in 1 .. num_full' /\ start_idx + (num_full + 1) - 1 = start_idx + num_full
    BY <1>1
  <2>. QED BY <1>1, <2>1, <2>2 DEF Queue
<1>5. Queue \in Seq(Data) /\ Len(Queue) = num_full
  BY QueueSeq
<1>6. Queue' = Append(Queue, arg[p])
  <2>. DEFINE a == Append(Queue, arg[p])
  <2>1. a \in Seq(Data) /\ Len(a) = num_full + 1 /\ a[num_full + 1] = arg[p]
        /\ \A i \in 1 .. num_full : a[i] = Queue[i]
    BY <1>1, <1>5, AppendProperties
  <2>2. Queue' \in Seq(Data) /\ Len(Queue') = num_full + 1
    <3>1. Queue' = [i \in 1 .. num_full' |-> slot'[(start_idx' + i - 1) % MaxQueNum]]
      BY DEF Queue
    <3>2. \A i \in 1 .. num_full + 1 : Queue'[i] \in Data
      BY <1>1, <1>3, <1>4, <1>5, ElementOfSeq
    <3>3. Queue' \in [1 .. num_full + 1 -> Data]
      BY <1>1, <3>1, <3>2
    <3>. QED BY <1>1, <3>3, SeqDef
  <2>3. \A i \in 1 .. num_full + 1 : Queue'[i] = a[i]
    BY <1>1, <1>3, <1>4, <2>1
  <2>. HIDE DEF a
  <2>4. Queue' = a
    BY <2>1, <2>2, <2>3, SeqEqual
  <2>. QED BY <2>4 DEF a
<1>7. Len(Queue) < MaxQueNum /\ val' = val
  BY <1>1, <1>5 DEF put_rb_data
<1>. QED BY <1>6, <1>7 DEF Fifo!Put

\* The block taken from start_idx is the oldest one of the queue.
LEMMA GetIsTail ==
    ASSUME RingTypeOK, RingTypeOK', NEW c \in Consumers, get_rb_data(c)
    PROVE  Fifo!Get(c)
<1>1. /\ num_full \in 1 .. MaxQueNum /\ MaxQueNum \in Nat \ {0}
      /\ start_idx \in 0 .. MaxQueNum - 1
      /\ start_idx' = (start_idx + 1) % MaxQueNum /\ num_full' = num_full - 1
      /\ slot' = slot /\ val' = [val EXCEPT ![c] = slot[start_idx]]
  BY RingAssumption DEF RingTypeOK, get_rb_data
<1>2. /\ Queue \in Seq(Data) /\ Len(Queue) = num_full
      /\ \A i \in 1 .. num_full : Queue[i] = slot[(start_idx + i - 1) % MaxQueNum]
  BY QueueSeq
<1>3. Queue # << >>
  BY <1>1, <1>2, EmptySeq
<1>4. Head(Queue) = slot[start_idx]
  <2>1. Head(Queue) = Queue[1]
    BY <1>2, <1>3, HeadTailProperties
  <2>2. start_idx + 1 - 1 = start_idx /\ start_idx % MaxQueNum = start_idx /\ 1 \in 1 .. num_full
    BY <1>1, ModOnce
  <2>. QED BY <1>2, <2>1, <2>2
<1>5. ASSUME NEW i \in 1 .. num_full - 1
      PROVE  /\ Queue'[i] = Queue[i + 1]
             /\ Queue'[i] \in Data
  <2>1. (start_idx' + i - 1) % MaxQueNum = (start_idx + (i + 1) - 1) % MaxQueNum
    <3>1. start_idx' = IF start_idx + 1 < MaxQueNum THEN start_idx + 1 ELSE start_idx + 1 - MaxQueNum
      BY <1>1, ModOnce
    <3>2. CASE start_idx + 1 < MaxQueNum
      BY <1>1, <3>1, <3>2
    <3>3. CASE ~ start_idx + 1 < MaxQueNum
      <4>1. start_idx' + i - 1 = i - 1 /\ start_idx + (i + 1) - 1 = MaxQueNum + i - 1
        BY <1>1, <3>1, <3>3
      <4>2. i - 1 \in 0 .. MaxQueNum - 1 /\ MaxQueNum + i - 1 \in MaxQueNum .. 2 * MaxQueNum - 1
        BY <1>1
      <4>3. (i - 1) % MaxQueNum = i - 1
        BY <1>1, <4>2, ModOnce
      <4>4. (MaxQueNum + i - 1) % MaxQueNum = i - 1
        BY <1>1, <4>2, ModOnce
      <4>. QED BY <4>1, <4>3, <4>4
    <3>. QED BY <3>2, <3>3
  <2>2. Queue'[i] = slot[(start_idx' + i - 1) % MaxQueNum]
    BY <1>1 DEF Queue
  <2>3. i + 1 \in 1 .. num_full
    BY <1>1
  <2>. QED BY <1>2, <2>1, <2>2, <2>3, ElementOfSeq
<1>6. Queue' = Tail(Queue)
  <2>1. /\ Tail(Queue) \in Seq(Data) /\ Len(Tail(Queue)) = num_full - 1
        /\ \A i \in 1 .. num_full - 1 : Tail(Queue)[i] = Queue[i + 1]
    BY <1>1, <1>2, <1>3, HeadTailProperties
  <2>2. Queue' \in Seq(Data) /\ Len(Queue') = num_full - 1
    <3>1. Queue' = [i \in 1 .. num_full' |-> slot'[(start_idx' + i - 1) % MaxQueNum]]
      BY DEF Queue
    <3>2. Queue' \in [1 .. num_full - 1 -> Data]
      BY <1>1, <1>5, <3>1
    <3>. QED BY <1>1, <3>2, SeqDef
  <2>. QED BY <1>5, <2>1, <2>2, SeqEqual
<1>. QED BY <1>1, <1>3, <1>4, <1>6 DEF Fifo!Get

\* A step that moves no block is a stutter of the queue.
LEMMA QueueSame ==
    ASSUME UNCHANGED <<slot, start_idx, num_full, val>>
    PROVE  UNCHANGED <<Queue, val>>
BY DEF Queue

\* The ring implements the queue its users rely on (put_rb_data, get_rb_data): the blocks
\* come out once, in the order they were put, and never more than max_que_num wait.
THEOREM RingIsFifo == RingSpec => FifoSpec
<1>1. RingInit => Fifo!Init
  <2>. SUFFICES ASSUME RingInit PROVE Fifo!Init
    OBVIOUS
  <2>1. Queue = << >>
    BY DEF RingInit, Queue
  <2>. QED BY <2>1 DEF RingInit, Fifo!Init
<1>2. RingTypeOK /\ RingTypeOK' /\ [RingNext]_ringVars => [Fifo!Next]_<<Queue, val>>
  <2>. SUFFICES ASSUME RingTypeOK, RingTypeOK', [RingNext]_ringVars
                PROVE  [Fifo!Next]_<<Queue, val>>
    OBVIOUS
  <2>1. ASSUME NEW p \in Producers, put_rb_data(p) PROVE Fifo!Next
    BY <2>1, PutIsAppend DEF Fifo!Next, RingTypeOK
  <2>2. ASSUME NEW c \in Consumers, get_rb_data(c) PROVE Fifo!Next
    BY <2>2, GetIsTail DEF Fifo!Next
  <2>3. ASSUME NEW p \in Producers, PutCall(p) \/ PutWait(p) PROVE UNCHANGED <<Queue, val>>
    BY <2>3, QueueSame DEF PutCall, PutWait
  <2>4. ASSUME NEW c \in Consumers, GetCall(c) \/ GetWait(c) PROVE UNCHANGED <<Queue, val>>
    BY <2>4, QueueSame DEF GetCall, GetWait
  <2>5. ASSUME NEW t \in Threads, WakeUp(t) PROVE UNCHANGED <<Queue, val>>
    BY <2>5, QueueSame DEF WakeUp
  <2>6. CASE UNCHANGED ringVars
    BY <2>6, QueueSame DEF ringVars
  <2>. QED BY <2>1, <2>2, <2>3, <2>4, <2>5, <2>6 DEF RingNext, Producer, Consumer
<1>. QED BY <1>1, <1>2, RingTyping, PTL DEF RingSpec, FifoSpec, Fifo!Spec
=============================================================================
