------------------------------ MODULE ShmAlloc ------------------------------
(***************************************************************************)
(* The shared memory allocator of the router (router/src/listen.c get_shm, *)
(* shm_free_insert and the reference counting of release_buf; initial      *)
(* state from router/src/router.c init_shm).                               *)
(*                                                                         *)
(* The segment of ShmSize bytes is cut into extents [buf, size].  The code *)
(* keeps the free extents in a list ordered by address, so the list is     *)
(* fully described by the set `free'; the list of used extents is only     *)
(* ever searched by address, so it is the set `used'.  The count field of  *)
(* a used extent is count[buf].                                            *)
(***************************************************************************)
EXTENDS Integers, FiniteSets

CONSTANTS ShmSize,      \* shmsize: router -b gives it in KB
          MaxCount      \* bound: the references the callers take of one buffer

\* router.c:335 makes shmsize a multiple of 0x400; the allocator needs a multiple of 4.
ASSUME ShmSizeAssumption ==
    /\ ShmSize \in Nat \ {0}
    /\ ShmSize % 4 = 0

ASSUME MaxCountAssumption == MaxCount \in Nat \ {0}

VARIABLES free,         \* shm_free: the free extents
          used,         \* shm_used: the extents handed out
          count,        \* shm->count of the used extent at an address
          shmErrs          \* the diagnostics the router has issued (errout)

shmVars == <<free, used, count, shmErrs>>

Extent == [buf : Nat, size : Nat]

\* The addresses an extent may start at, and the bytes of the segment.
Addr == 0 .. ShmSize
Byte == 0 .. (ShmSize - 1)

\* The first address after an extent.
End(e) == e.buf + e.size

\* The request size rounded up to a multiple of four: ((size+3)>>2)<<2.
RoundUp(size) == ((size + 3) \div 4) * 4

Covers(e, x) == e.buf <= x /\ x < End(e)

Overlap(e, f) == e.buf < End(f) /\ f.buf < End(e)

\* The addresses at which an extent of the set S starts.
Bufs(S) == {e.buf : e \in S}

-----------------------------------------------------------------------------
ShmInit ==
    /\ free = {[buf |-> 0, size |-> ShmSize]}
    /\ used = {}
    /\ count = [b \in Addr |-> 0]
    /\ shmErrs = {}

\* The free extents that can hold size bytes; the code takes the first in the list.
Fits(size) == {s \in free : s.size >= size}

FirstFit(size) == CHOOSE s \in Fits(size) : \A t \in Fits(size) : s.buf <= t.buf

\* A fault: an exact fit leaves an empty extent.
Rest_KeepEmpty(s, size) == {[buf |-> s.buf + size, size |-> s.size - size]}

\* What is left of the free extent s when size bytes are cut from its front.
Rest(s, size) ==
    IF s.size = size THEN {} ELSE {[buf |-> s.buf + size, size |-> s.size - size]}

\* get_shm, and the first reference that its caller get_buf takes.
get_shm(size) ==
    /\ Fits(size) # {}
    /\ LET s == FirstFit(size) IN
         /\ free' = (free \ {s}) \cup Rest(s, size)
         /\ used' = used \cup {[buf |-> s.buf, size |-> size]}
         /\ count' = [count EXCEPT
                        ![s.buf] = (IF s.size = size THEN @ ELSE 0) + 1]
    /\ UNCHANGED shmErrs

\* A fault: the reference of the reader is not counted.
shm_ref_Forgotten(b) == b \in Addr /\ UNCHANGED shmVars

\* shm->count++ when a buffer is sent to one more reader.
shm_ref(b) ==
    /\ count' = [count EXCEPT ![b] = @ + 1]
    /\ UNCHANGED <<free, used, shmErrs>>

\* The free extents around e.
Conflict(fr, e) == \E s \in fr : Overlap(s, e)

JoinLow(fr, e) == IF \E s \in fr : End(s) = e.buf
                    THEN (CHOOSE s \in fr : End(s) = e.buf).buf ELSE e.buf

JoinHigh(fr, e) == IF \E s \in fr : s.buf = End(e)
                     THEN End(CHOOSE s \in fr : s.buf = End(e)) ELSE End(e)

\* A fault: the two neighbours are not both joined.
shm_free_insert_OneSide(fr, e) ==
    LET lo == JoinLow(fr, e)
        hi == IF lo = e.buf THEN JoinHigh(fr, e) ELSE End(e)
    IN  {s \in fr : ~ (lo <= s.buf /\ s.buf < hi)} \cup {[buf |-> lo, size |-> hi - lo]}

\* shm_free_insert: the free extents after e is given back.  e is joined with the
\* free neighbour below and with the free neighbour above it.  An extent that
\* overlaps a free one is a "Shared memory buffer conflict", and is dropped.
shm_free_insert(fr, e) ==
    LET lo == JoinLow(fr, e)
        hi == JoinHigh(fr, e)
    IN  IF Conflict(fr, e)
          THEN fr
          ELSE {s \in fr : ~ (lo <= s.buf /\ s.buf < hi)}
                 \cup {[buf |-> lo, size |-> hi - lo]}

\* Faults: the extent stays in the list of used ones; it is freed at the first release.
shm_unref_KeepUsed(b) ==
    LET e == CHOOSE u \in used : u.buf = b IN
    /\ count' = [count EXCEPT ![b] = IF @ > 1 THEN @ - 1 ELSE 0]
    /\ IF count[b] > 1
         THEN UNCHANGED <<free, used, shmErrs>>
         ELSE /\ UNCHANGED used
              /\ free' = shm_free_insert(free, e)
              /\ shmErrs' = shmErrs \cup IF Conflict(free, e) THEN {"conflict"} ELSE {}

shm_unref_First(b) ==
    LET e == CHOOSE u \in used : u.buf = b IN
    /\ count' = [count EXCEPT ![b] = 0]
    /\ used' = used \ {e}
    /\ free' = shm_free_insert(free, e)
    /\ UNCHANGED shmErrs

\* The end of release_buf: drop one reference of the used extent at b, and give
\* the extent back with the last one.
shm_unref(b) ==
    LET e == CHOOSE u \in used : u.buf = b IN
    /\ count' = [count EXCEPT ![b] = IF @ > 1 THEN @ - 1 ELSE 0]
    /\ IF count[b] > 1
         THEN UNCHANGED <<free, used, shmErrs>>
         ELSE /\ used' = used \ {e}
              /\ free' = shm_free_insert(free, e)
              /\ shmErrs' = shmErrs \cup IF Conflict(free, e) THEN {"conflict"} ELSE {}

\* The allocator alone, driven by any callers that respect its references.
ShmGet   == \E size \in 1 .. ShmSize : get_shm(RoundUp(size))
ShmRef   == \E b \in Bufs(used) : count[b] < MaxCount /\ shm_ref(b)
ShmUnref == \E b \in Bufs(used) : shm_unref(b)

ShmNext == ShmGet \/ ShmRef \/ ShmUnref

ShmSpec == ShmInit /\ [][ShmNext]_shmVars

-----------------------------------------------------------------------------
\* The type of the allocator's state (rtr_shmbuf_t): extents are never empty and
\* lie inside the segment.
ShmTypeOK ==
    /\ free \in SUBSET Extent
    /\ used \in SUBSET Extent
    /\ \A e \in free \cup used : e.size > 0 /\ End(e) <= ShmSize
    /\ count \in [Addr -> Nat]

\* No two extents share a byte, whichever lists they are in: what get_shm hands
\* out is never part of another buffer or of the free memory.
Disjoint ==
    /\ \A e, f \in free \cup used : e # f => ~ Overlap(e, f)
    /\ free \cap used = {}

\* Every byte of the segment is in some extent: splitting in get_shm and joining
\* in shm_free_insert never lose memory.
NoLeak == \A x \in Byte : \E e \in free \cup used : Covers(e, x)

\* shm_free_insert leaves no two adjacent free extents: first fit sees the free
\* memory in pieces as large as they are.
Coalesced == \A e, f \in free : End(e) # f.buf

\* An extent is in use exactly while its reference count is positive.
Counted == \A b \in Addr : count[b] > 0 <=> b \in Bufs(used)

\* When the last buffer is released the segment is one free extent again, so a
\* request of any size up to shmsize succeeds (get_buf refuses only larger ones).
AllBack == used = {} => free = {[buf |-> 0, size |-> ShmSize]}

\* The "Shared memory buffer conflict" diagnostic of shm_free_insert never comes.
NoConflict == "conflict" \notin shmErrs

\* The free and used extents partition the segment, as get_shm and shm_free_insert are to
\* keep it: none overlap, none is lost, free neighbours are joined, no diagnostic comes.
Partition == Disjoint /\ NoLeak /\ Coalesced /\ NoConflict

ShmInv == ShmTypeOK /\ Disjoint /\ NoLeak /\ Coalesced /\ Counted /\ NoConflict
=============================================================================
