--------------------------- MODULE Router_proofs ---------------------------
(***************************************************************************)
(* Proofs about the shared memory allocator, for every segment size and    *)
(* every bound on the reference counts; and what the router that uses it   *)
(* guarantees whatever its clients do, for every set of clients, every     *)
(* segment size and every limit: its state is well typed, the free and     *)
(* used buffers partition the segment, and no process is given more        *)
(* buffers than its limit.                                                 *)
(***************************************************************************)
EXTENDS Router, WellFoundedInduction, SequenceTheorems, TLAPS

-----------------------------------------------------------------------------
(* The allocator.  ShmInv is inductive; the lemmas about one step (GetStep, RefStep,
   UnrefStep) are about the operators that the router uses as well. *)

\* A non-empty set of naturals has a least element.
LEMMA NatMin ==
    ASSUME NEW T \in SUBSET Nat, T # {}
    PROVE  \E x \in T : \A y \in T : x <= y
<1>1. PICK x \in T : \A y \in T : ~ (<<y, x>> \in OpToRel(<, Nat))
  BY NatLessThanWellFounded, WFMin
<1>2. ASSUME NEW y \in T PROVE x <= y
  <2>1. ~ (y < x)
    BY <1>1, <1>2 DEF OpToRel
  <2>. QED BY <2>1
<1>. QED BY <1>2

\* The first free extent that fits is free and is large enough: first fit is
\* well defined whenever the search of get_shm does not run off the list.
LEMMA FirstFitFits ==
    ASSUME ShmTypeOK, NEW size \in Nat, Fits(size) # {}
    PROVE  FirstFit(size) \in Fits(size)
<1>1. Bufs(Fits(size)) \in SUBSET Nat /\ Bufs(Fits(size)) # {}
  BY DEF Bufs, Fits, ShmTypeOK, Extent
<1>2. PICK b \in Bufs(Fits(size)) : \A c \in Bufs(Fits(size)) : b <= c
  BY <1>1, NatMin
<1>3. \E s \in Fits(size) : \A t \in Fits(size) : s.buf <= t.buf
  BY <1>2 DEF Bufs
<1>. QED BY <1>3 DEF FirstFit

\* A rounded request is at least the request, positive and a multiple of four bytes.
LEMMA RoundUpType ==
    ASSUME NEW size \in Nat \ {0}
    PROVE  /\ RoundUp(size) \in Nat \ {0}
           /\ size <= RoundUp(size)
           /\ RoundUp(size) < size + 4
BY DEF RoundUp

\* Two extents of one list that start at the same address are the same.
LEMMA SameBuf ==
    ASSUME ShmInv, NEW e \in free \cup used, NEW f \in free \cup used, e.buf = f.buf
    PROVE  e = f
<1>1. e \in Extent /\ f \in Extent /\ e.size > 0 /\ f.size > 0
  BY DEF ShmInv, ShmTypeOK
<1>2. Overlap(e, f)
  BY <1>1 DEF Overlap, End, Extent
<1>. QED BY <1>2 DEF ShmInv, Disjoint

-----------------------------------------------------------------------------
\* get_shm cuts a buffer off a free extent without touching anything else.
LEMMA GetStep ==
    ASSUME ShmInv, NEW size \in Nat \ {0}, get_shm(size)
    PROVE  ShmInv'
<1>. DEFINE s == FirstFit(size)
            u == [buf |-> s.buf, size |-> size]
            r == [buf |-> s.buf + size, size |-> s.size - size]
<1>0. /\ free' = (free \ {s}) \cup Rest(s, size)
      /\ used' = used \cup {u}
      /\ count' = [count EXCEPT ![s.buf] = (IF s.size = size THEN @ ELSE 0) + 1]
      /\ shmErrs' = shmErrs
  BY DEF get_shm
<1>1. s \in free /\ s \in Extent /\ s.size >= size /\ End(s) <= ShmSize
  BY FirstFitFits DEF get_shm, Fits, ShmInv, ShmTypeOK
<1>2. s.buf \in Addr
  BY <1>1, ShmSizeAssumption DEF Addr, Extent, End
<1>3. count[s.buf] = 0
  <2>1. s.buf \notin Bufs(used)
    BY <1>1, SameBuf DEF Bufs, ShmInv, Disjoint
  <2>. QED BY <1>2, <2>1 DEF ShmInv, Counted, ShmTypeOK
<1>4. \/ s.size = size /\ Rest(s, size) = {} /\ u = s
      \/ s.size > size /\ Rest(s, size) = {r}
  BY <1>1 DEF Rest, Extent
<1>5. /\ u \in Extent /\ u.buf = s.buf /\ u.size = size /\ End(u) = s.buf + size
      /\ s.size > size => r \in Extent /\ r.buf = s.buf + size /\ r.size = s.size - size
                          /\ r.size > 0 /\ End(r) = End(s)
  BY <1>1 DEF Extent, End
<1>6. ShmTypeOK'
  <2>1. free' \in SUBSET Extent /\ used' \in SUBSET Extent
    BY <1>0, <1>4, <1>5 DEF ShmInv, ShmTypeOK
  <2>2. \A e \in free' \cup used' : e.size > 0 /\ End(e) <= ShmSize
    <3>1. End(u) <= ShmSize
      BY <1>1, <1>5, ShmSizeAssumption DEF End, Extent
    <3>. QED BY <1>0, <1>1, <1>4, <1>5, <3>1 DEF ShmInv, ShmTypeOK
  <2>3. count' \in [Addr -> Nat]
    BY <1>0, <1>2, <1>3 DEF ShmInv, ShmTypeOK
  <2>. QED BY <2>1, <2>2, <2>3 DEF ShmTypeOK
<1>7. Disjoint'
  <2>1. ASSUME NEW e \in (free \ {s}) \cup used
        PROVE  e # s /\ e \in Extent /\ e.size > 0 /\ ~ Overlap(e, s) /\ ~ Overlap(s, e)
    BY <1>1 DEF ShmInv, Disjoint, ShmTypeOK
  <2>2. ASSUME NEW e \in (free \ {s}) \cup used
        PROVE  /\ ~ Overlap(e, u) /\ ~ Overlap(u, e) /\ e # u
               /\ s.size > size => ~ Overlap(e, r) /\ ~ Overlap(r, e) /\ e # r
    BY <1>1, <1>5, <2>1 DEF Overlap, End, Extent
  <2>3. s.size > size => ~ Overlap(u, r) /\ ~ Overlap(r, u) /\ u # r
    BY <1>1, <1>5 DEF Overlap, End, Extent
  <2>4. \A e, f \in free' \cup used' : e # f => ~ Overlap(e, f)
    BY <1>0, <1>4, <2>2, <2>3 DEF ShmInv, Disjoint
  <2>5. free' \cap used' = {}
    BY <1>0, <1>4, <2>2, <2>3 DEF ShmInv, Disjoint
  <2>. QED BY <2>4, <2>5 DEF Disjoint
<1>8. NoLeak'
  <2>. SUFFICES ASSUME NEW x \in Byte PROVE \E e \in free' \cup used' : Covers(e, x)
    BY DEF NoLeak
  <2>1. PICK e \in free \cup used : Covers(e, x)
    BY DEF ShmInv, NoLeak
  <2>2. CASE e # s
    BY <1>0, <2>1, <2>2
  <2>3. CASE e = s
    <3>1. Covers(u, x) \/ (s.size > size /\ Covers(r, x))
      BY <1>1, <1>4, <1>5, <2>1, <2>3, ShmSizeAssumption DEF Covers, End, Byte, Extent
    <3>. QED BY <1>0, <1>4, <3>1
  <2>. QED BY <2>2, <2>3
<1>9. Coalesced'
  <2>1. ASSUME NEW e \in free
        PROVE  (End(e) # s.buf /\ End(s) # e.buf /\ End(e) # s.buf + size) \/ e = s
    <3>1. e \in Extent /\ e.size > 0
      BY DEF ShmInv, ShmTypeOK
    <3>2. e # s => ~ Overlap(e, s)
      BY <1>1 DEF ShmInv, Disjoint
    <3>3. End(e) # s.buf /\ End(s) # e.buf
      BY <1>1 DEF ShmInv, Coalesced
    <3>. QED BY <1>1, <3>1, <3>2, <3>3 DEF Overlap, End, Extent
  <2>2. \A e, f \in free : End(e) # f.buf
    BY DEF ShmInv, Coalesced
  <2>3. s.size > size => End(r) # r.buf
    BY <1>1, <1>5 DEF End, Extent
  <2>4. ASSUME NEW e \in free', NEW f \in free' PROVE End(e) # f.buf
    <3>1. CASE e \in free \ {s} /\ f \in free \ {s}
      BY <2>2, <3>1
    <3>2. CASE s.size > size /\ e \in free \ {s} /\ f = r
      BY <1>5, <2>1, <3>2
    <3>3. CASE s.size > size /\ e = r /\ f \in free \ {s}
      BY <1>5, <1>1, <2>2, <3>3
    <3>4. CASE s.size > size /\ e = r /\ f = r
      BY <2>3, <3>4
    <3>. QED BY <1>0, <1>4, <3>1, <3>2, <3>3, <3>4
  <2>. QED BY <2>4 DEF Coalesced
<1>10. Counted'
  <2>1. Bufs(used') = Bufs(used) \cup {s.buf}
    BY <1>0, <1>5 DEF Bufs
  <2>2. count \in [Addr -> Int] /\ count'[s.buf] = 1
    BY <1>0, <1>2, <1>3 DEF ShmInv, ShmTypeOK
  <2>3. ASSUME NEW b \in Addr PROVE count'[b] > 0 <=> b \in Bufs(used')
    <3>1. CASE b = s.buf
      BY <2>1, <2>2, <3>1
    <3>2. CASE b # s.buf
      <4>1. count'[b] = count[b]
        BY <1>0, <2>2, <3>2
      <4>. QED BY <2>1, <3>2, <4>1 DEF ShmInv, Counted
    <3>. QED BY <3>1, <3>2
  <2>. QED BY <2>3 DEF Counted, Bufs
<1>. QED BY <1>0, <1>6, <1>7, <1>8, <1>9, <1>10 DEF ShmInv, NoConflict

\* One more reference changes neither list.
LEMMA RefStep ==
    ASSUME ShmInv, NEW b \in Bufs(used), shm_ref(b)
    PROVE  ShmInv'
<1>1. b \in Addr
  BY ShmSizeAssumption DEF Bufs, Addr, ShmInv, ShmTypeOK, Extent, End
<1>2. ShmTypeOK'
  BY <1>1 DEF shm_ref, ShmInv, ShmTypeOK
<1>3. Counted'
  BY <1>1 DEF shm_ref, ShmInv, ShmTypeOK, Counted
<1>. QED BY <1>2, <1>3 DEF shm_ref, ShmInv, Disjoint, NoLeak, Coalesced, NoConflict

-----------------------------------------------------------------------------
\* What joining the used extent e with its free neighbours yields: the joined
\* range [lo, hi) contains e, at most one free extent below and one above it, and
\* nothing else.
LEMMA JoinShape ==
    ASSUME ShmInv, NEW e \in used
    PROVE  LET lo == JoinLow(free, e)
               hi == JoinHigh(free, e)
           IN  /\ ~ Conflict(free, e)
               /\ lo \in Nat /\ hi \in Nat
               /\ lo <= e.buf /\ End(e) <= hi /\ hi <= ShmSize
               /\ lo = e.buf \/ \E s \in free : s.buf = lo /\ End(s) = e.buf
               /\ hi = End(e) \/ \E s \in free : s.buf = End(e) /\ End(s) = hi
               /\ \A s \in free : End(s) # lo /\ s.buf # hi
               /\ \A s \in free : lo <= s.buf /\ s.buf < hi
                                    => \/ s.buf = lo /\ End(s) = e.buf
                                       \/ s.buf = End(e) /\ End(s) = hi
<1>. DEFINE lo == JoinLow(free, e)
            hi == JoinHigh(free, e)
<1>1. e \in Extent /\ e.size > 0 /\ End(e) \in Nat /\ e.buf < End(e) /\ End(e) <= ShmSize
  BY ShmSizeAssumption DEF ShmInv, ShmTypeOK, Extent, End
<1>2. ASSUME NEW s \in free
      PROVE  /\ s \in Extent /\ s.size > 0 /\ s.buf \in Nat /\ End(s) \in Nat
             /\ s.buf < End(s) /\ End(s) <= ShmSize
             /\ s # e /\ ~ Overlap(s, e)
  BY ShmSizeAssumption DEF ShmInv, ShmTypeOK, Extent, End, Disjoint
<1>3. ~ Conflict(free, e)
  BY <1>2 DEF Conflict
<1>4. /\ lo \in Nat /\ lo <= e.buf
      /\ \/ lo = e.buf /\ \A s \in free : End(s) # e.buf
         \/ \E s \in free : s.buf = lo /\ End(s) = e.buf
  <2>1. CASE \E s \in free : End(s) = e.buf
    <3>. DEFINE t == CHOOSE s \in free : End(s) = e.buf
    <3>1. t \in free /\ End(t) = e.buf
      BY <2>1
    <3>2. lo = t.buf
      BY <2>1 DEF JoinLow
    <3>. HIDE DEF t
    <3>. QED BY <1>1, <1>2, <3>1, <3>2
  <2>2. CASE ~ \E s \in free : End(s) = e.buf
    BY <1>1, <2>2 DEF JoinLow, Extent
  <2>. QED BY <2>1, <2>2
<1>5. /\ hi \in Nat /\ End(e) <= hi /\ hi <= ShmSize
      /\ \/ hi = End(e) /\ \A s \in free : s.buf # End(e)
         \/ \E s \in free : s.buf = End(e) /\ End(s) = hi
  <2>1. CASE \E s \in free : s.buf = End(e)
    <3>. DEFINE t == CHOOSE s \in free : s.buf = End(e)
    <3>1. t \in free /\ t.buf = End(e)
      BY <2>1
    <3>2. hi = End(t)
      BY <2>1 DEF JoinHigh
    <3>. HIDE DEF t
    <3>. QED BY <1>1, <1>2, <3>1, <3>2
  <2>2. CASE ~ \E s \in free : s.buf = End(e)
    BY <1>1, <2>2 DEF JoinHigh
  <2>. QED BY <2>1, <2>2
<1>. HIDE DEF lo, hi
<1>6. \A s, t \in free : End(s) # t.buf /\ (s # t => ~ Overlap(s, t))
  BY DEF ShmInv, Coalesced, Disjoint
<1>7. \A s \in free : End(s) # lo /\ s.buf # hi
  BY <1>4, <1>5, <1>6
<1>8. ASSUME NEW s \in free, lo <= s.buf, s.buf < hi
      PROVE  \/ s.buf = lo /\ End(s) = e.buf
             \/ s.buf = End(e) /\ End(s) = hi
  <2>1. CASE s.buf < e.buf
    <3>1. PICK t \in free : t.buf = lo /\ End(t) = e.buf
      BY <1>1, <1>2, <1>4, <1>8, <2>1 DEF Extent
    <3>2. Overlap(s, t)
      BY <1>1, <1>2, <1>8, <2>1, <3>1 DEF Overlap, Extent
    <3>. QED BY <1>6, <3>1, <3>2
  <2>2. CASE s.buf >= e.buf
    <3>1. s.buf >= End(e)
      BY <1>1, <1>2, <2>2 DEF Overlap, Extent
    <3>2. PICK t \in free : t.buf = End(e) /\ End(t) = hi
      BY <1>1, <1>2, <1>5, <1>8, <3>1
    <3>3. Overlap(s, t)
      BY <1>1, <1>2, <1>8, <3>1, <3>2 DEF Overlap
    <3>. QED BY <1>6, <3>2, <3>3
  <2>. QED BY <1>1, <1>2, <2>1, <2>2 DEF Extent
<1>. QED BY <1>3, <1>4, <1>5, <1>7, <1>8 DEF lo, hi

\* Dropping a reference keeps the invariant; with the last reference the extent
\* goes back to the free list, joined with its neighbours, and no conflict shows.
LEMMA UnrefStep ==
    ASSUME ShmInv, NEW b \in Bufs(used), shm_unref(b)
    PROVE  ShmInv'
<1>. DEFINE e == CHOOSE u \in used : u.buf = b
<1>1. e \in used /\ e.buf = b
  BY DEF Bufs
<1>2. /\ count' = [count EXCEPT ![b] = IF @ > 1 THEN @ - 1 ELSE 0]
      /\ count[b] > 1 => free' = free /\ used' = used /\ shmErrs' = shmErrs
      /\ ~ (count[b] > 1) =>
           /\ used' = used \ {e}
           /\ free' = shm_free_insert(free, e)
           /\ shmErrs' = shmErrs \cup IF Conflict(free, e) THEN {"conflict"} ELSE {}
  BY DEF shm_unref
<1>. HIDE DEF e
<1>3. b \in Addr /\ e \in Extent /\ e.size > 0 /\ e.buf < End(e)
  BY <1>1, ShmSizeAssumption DEF Addr, ShmInv, ShmTypeOK, Extent, End
<1>4. count' \in [Addr -> Nat] /\ \A c \in Addr \ {b} : count'[c] = count[c]
  BY <1>2, <1>3 DEF ShmInv, ShmTypeOK
<1>5. CASE count[b] > 1
  <2>1. count'[b] > 0
    BY <1>2, <1>3, <1>5 DEF ShmInv, ShmTypeOK
  <2>2. Counted'
    BY <1>2, <1>3, <1>4, <1>5, <2>1 DEF ShmInv, Counted, Bufs
  <2>. QED BY <1>2, <1>4, <1>5, <2>2
           DEF ShmInv, ShmTypeOK, Disjoint, NoLeak, Coalesced, NoConflict
<1>6. CASE ~ (count[b] > 1)
  <2>. DEFINE lo == JoinLow(free, e)
              hi == JoinHigh(free, e)
              n == [buf |-> lo, size |-> hi - lo]
              keep == {s \in free : ~ (lo <= s.buf /\ s.buf < hi)}
  <2>1. /\ ~ Conflict(free, e)
        /\ lo \in Nat /\ hi \in Nat
        /\ lo <= e.buf /\ End(e) <= hi /\ hi <= ShmSize
        /\ lo = e.buf \/ \E s \in free : s.buf = lo /\ End(s) = e.buf
        /\ hi = End(e) \/ \E s \in free : s.buf = End(e) /\ End(s) = hi
        /\ \A s \in free : End(s) # lo /\ s.buf # hi
        /\ \A s \in free : lo <= s.buf /\ s.buf < hi
                             => \/ s.buf = lo /\ End(s) = e.buf
                                \/ s.buf = End(e) /\ End(s) = hi
    BY <1>1, JoinShape
  <2>2. free' = keep \cup {n} /\ used' = used \ {e} /\ shmErrs' = shmErrs
    BY <1>2, <1>6, <2>1 DEF shm_free_insert
  <2>. HIDE DEF lo, hi
  <2>3. n \in Extent /\ n.buf = lo /\ n.size > 0 /\ End(n) = hi
    BY <1>3, <2>1 DEF Extent, End
  <2>4. ASSUME NEW f \in free \cup used
        PROVE  /\ f \in Extent /\ f.size > 0 /\ f.buf \in Nat /\ End(f) \in Nat
               /\ f.buf < End(f) /\ End(f) <= ShmSize
    BY ShmSizeAssumption DEF ShmInv, ShmTypeOK, Extent, End
  <2>5. \A f, g \in free \cup used : f # g => ~ Overlap(f, g)
    BY DEF ShmInv, Disjoint
  <2>6. ASSUME NEW f \in keep \cup (used \ {e})
        PROVE  ~ Overlap(f, n) /\ ~ Overlap(n, f) /\ f # n
    <3>1. f \in free \cup used /\ f # e
      BY <1>1 DEF ShmInv, Disjoint
    <3>2. ~ Overlap(f, e)
      BY <1>1, <2>5, <3>1
    <3>3. lo = e.buf \/ f.buf >= e.buf \/ End(f) <= lo
      <4>1. CASE \E s \in free : s.buf = lo /\ End(s) = e.buf
        <5>1. PICK s \in free : s.buf = lo /\ End(s) = e.buf
          BY <4>1
        <5>2. f # s
          BY <1>3, <2>1, <2>4, <5>1 DEF ShmInv, Disjoint, Extent
        <5>3. ~ Overlap(f, s)
          BY <2>5, <3>1, <5>2
        <5>. QED BY <1>3, <2>1, <2>4, <3>1, <5>1, <5>3 DEF Overlap, Extent
      <4>. QED BY <2>1, <4>1
    <3>4. hi = End(e) \/ f.buf < End(e) \/ f.buf >= hi
      <4>1. CASE \E s \in free : s.buf = End(e) /\ End(s) = hi
        <5>1. PICK s \in free : s.buf = End(e) /\ End(s) = hi
          BY <4>1
        <5>2. f # s
          BY <1>3, <2>1, <2>4, <5>1 DEF ShmInv, Disjoint, Extent
        <5>3. ~ Overlap(f, s)
          BY <2>5, <3>1, <5>2
        <5>. QED BY <1>3, <2>1, <2>4, <3>1, <5>1, <5>3 DEF Overlap, Extent
      <4>. QED BY <2>1, <4>1
    <3>5. End(f) <= lo \/ hi <= f.buf
      BY <1>3, <2>1, <2>4, <3>1, <3>2, <3>3, <3>4 DEF Overlap, Extent, End
    <3>. QED BY <1>3, <2>1, <2>3, <2>4, <3>1, <3>5 DEF Overlap
  <2>7. ShmTypeOK'
    <3>1. free' \in SUBSET Extent /\ used' \in SUBSET Extent
      BY <2>2, <2>3, <2>4
    <3>2. \A f \in free' \cup used' : f.size > 0 /\ End(f) <= ShmSize
      BY <2>1, <2>2, <2>3, <2>4
    <3>. QED BY <1>4, <3>1, <3>2 DEF ShmTypeOK
  <2>8. Disjoint'
    <3>1. \A f, g \in free' \cup used' : f # g => ~ Overlap(f, g)
      BY <2>2, <2>5, <2>6
    <3>2. free' \cap used' = {}
      BY <2>2, <2>6 DEF ShmInv, Disjoint
    <3>. QED BY <3>1, <3>2 DEF Disjoint
  <2>9. NoLeak'
    <3>. SUFFICES ASSUME NEW x \in Byte PROVE \E f \in free' \cup used' : Covers(f, x)
      BY DEF NoLeak
    <3>1. PICK f \in free \cup used : Covers(f, x)
      BY DEF ShmInv, NoLeak
    <3>2. CASE f \in keep \cup (used \ {e})
      BY <2>2, <3>1, <3>2
    <3>3. CASE f \notin keep \cup (used \ {e})
      <4>1. lo <= f.buf /\ End(f) <= hi
        BY <1>1, <1>3, <2>1, <2>4, <3>3 DEF Extent
      <4>2. Covers(n, x)
        BY <2>1, <2>3, <2>4, <3>1, <4>1, ShmSizeAssumption DEF Covers, Byte
      <4>. QED BY <2>2, <4>2
    <3>. QED BY <3>2, <3>3
  <2>10. Coalesced'
    <3>1. \A f, g \in free : End(f) # g.buf
      BY DEF ShmInv, Coalesced
    <3>2. \A f \in free : End(f) # n.buf /\ End(n) # f.buf
      BY <2>1, <2>3
    <3>3. End(n) # n.buf
      BY <1>3, <2>1, <2>3 DEF Extent
    <3>. QED BY <2>2, <3>1, <3>2, <3>3 DEF Coalesced
  <2>11. Counted'
    <3>1. Bufs(used') = Bufs(used) \ {b}
      <4>1. \A f \in used \ {e} : f.buf # b
        BY <1>1, SameBuf
      <4>. QED BY <1>1, <2>2, <4>1 DEF Bufs
    <3>2. count'[b] = 0
      BY <1>2, <1>3, <1>6 DEF ShmInv, ShmTypeOK
    <3>3. ASSUME NEW c \in Addr PROVE count'[c] > 0 <=> c \in Bufs(used')
      BY <1>4, <3>1, <3>2 DEF ShmInv, Counted
    <3>. QED BY <3>3 DEF Counted, Bufs
  <2>. QED BY <2>2, <2>7, <2>8, <2>9, <2>10, <2>11 DEF ShmInv, NoConflict
<1>. QED BY <1>5, <1>6

-----------------------------------------------------------------------------
\* The segment starts as one free extent, which satisfies the invariant.
LEMMA ShmInitInv == ShmInit => ShmInv
<1>. SUFFICES ASSUME ShmInit PROVE ShmInv
  OBVIOUS
<1>. DEFINE e == [buf |-> 0, size |-> ShmSize]
<1>1. free = {e} /\ used = {} /\ e \in Extent /\ e.buf = 0 /\ End(e) = ShmSize
  BY ShmSizeAssumption DEF ShmInit, Extent, End
<1>2. ShmTypeOK
  BY <1>1, ShmSizeAssumption DEF ShmInit, ShmTypeOK, Addr
<1>3. Disjoint /\ Coalesced /\ NoConflict
  BY <1>1, ShmSizeAssumption DEF ShmInit, Disjoint, Coalesced, NoConflict
<1>4. NoLeak
  BY <1>1, ShmSizeAssumption DEF NoLeak, Covers, Byte
<1>5. Counted
  BY <1>1 DEF ShmInit, Counted, Bufs
<1>. QED BY <1>2, <1>3, <1>4, <1>5 DEF ShmInv

\* The invariant is inductive: no call of get_shm, no reference and no release
\* breaks it.
LEMMA ShmInvStep == ShmInv /\ [ShmNext]_shmVars => ShmInv'
<1>. SUFFICES ASSUME ShmInv, [ShmNext]_shmVars PROVE ShmInv'
  OBVIOUS
<1>1. CASE ShmGet
  BY <1>1, RoundUpType, GetStep, ShmSizeAssumption DEF ShmGet
<1>2. CASE ShmRef
  BY <1>2, RefStep DEF ShmRef
<1>3. CASE ShmUnref
  BY <1>3, UnrefStep DEF ShmUnref
<1>4. CASE UNCHANGED shmVars
  BY <1>4 DEF shmVars, ShmInv, ShmTypeOK, Disjoint, NoLeak, Coalesced, Counted,
              NoConflict, Bufs
<1>. QED BY <1>1, <1>2, <1>3, <1>4 DEF ShmNext

\* The allocator's lists are always well formed: extents are non-empty, inside
\* the segment, and counts are numbers (get_shm, shm_free_insert, release_buf).
THEOREM ShmTyping == ShmSpec => []ShmTypeOK
BY ShmInitInv, ShmInvStep, PTL DEF ShmSpec, ShmInv

\* The extents of the free and used lists always partition the segment, with the
\* free memory joined as far as it goes, and shm_free_insert never reports a
\* conflict: no buffer overlaps another and no byte is ever lost.
THEOREM ShmPartition == ShmSpec => []Partition
BY ShmInitInv, ShmInvStep, PTL DEF ShmSpec, ShmInv, Partition

\* An extent is in the used list exactly while its count is positive.
THEOREM ShmCounted == ShmSpec => []Counted
BY ShmInitInv, ShmInvStep, PTL DEF ShmSpec, ShmInv

\* Once every buffer is released the whole segment is one free extent again.
THEOREM ShmAllBack == ShmSpec => []AllBack
<1>1. ShmInv => AllBack
  <2>. SUFFICES ASSUME ShmInv, used = {}
                PROVE  free = {[buf |-> 0, size |-> ShmSize]}
    BY DEF AllBack
  <2>1. 0 \in Byte
    BY ShmSizeAssumption DEF Byte
  <2>2. PICK e \in free : Covers(e, 0)
    BY <2>1 DEF ShmInv, NoLeak
  <2>3. ASSUME NEW f \in free
        PROVE  /\ f \in Extent /\ f.size > 0 /\ f.buf \in Nat /\ End(f) \in Nat
               /\ f.buf < End(f) /\ End(f) <= ShmSize
    BY ShmSizeAssumption DEF ShmInv, ShmTypeOK, Extent, End
  <2>4. e.buf = 0
    BY <2>2, <2>3 DEF Covers
  <2>5. End(e) = ShmSize
    <3>. SUFFICES ASSUME End(e) # ShmSize PROVE FALSE
      OBVIOUS
    <3>1. End(e) \in Byte
      BY <2>3, ShmSizeAssumption DEF Byte
    <3>2. PICK f \in free : Covers(f, End(e))
      BY <3>1 DEF ShmInv, NoLeak
    <3>3. f # e /\ f.buf # End(e)
      BY <2>3, <3>2 DEF Covers, ShmInv, Coalesced
    <3>4. Overlap(e, f)
      BY <2>3, <2>4, <3>2, <3>3 DEF Covers, Overlap
    <3>. QED BY <3>3, <3>4 DEF ShmInv, Disjoint
  <2>6. ASSUME NEW f \in free PROVE f = e
    <3>1. Overlap(f, e)
      BY <2>3, <2>4, <2>5 DEF Overlap
    <3>. QED BY <3>1 DEF ShmInv, Disjoint
  <2>7. e = [buf |-> 0, size |-> ShmSize]
    <3>1. e.size = ShmSize
      BY <2>3, <2>4, <2>5, ShmSizeAssumption DEF End, Extent
    <3>. QED BY <2>3, <2>4, <3>1 DEF Extent
  <2>. QED BY <2>6, <2>7
<1>. QED BY <1>1, ShmInitInv, ShmInvStep, PTL DEF ShmSpec

-----------------------------------------------------------------------------
(* The router *)

\* A message made from typed parts is a message.
LEMMA MsgType ==
    ASSUME NEW cmd \in {"CONNECT", "REFUSE", "BUFFER", "RELEASE", "GETBUF", "DISCONNECT", "NONE"},
           NEW p \in Client, NEW b \in Nat, NEW size \in Nat, NEW k \in Nat
    PROVE  /\ Msg(cmd, p, b, size, k) \in Message
           /\ Msg(cmd, p, b, size, k).cmd = cmd
           /\ Msg(cmd, p, b, size, k).size = size
BY DEF Msg, Message

\* The message kept when no handler is under way is a message.
LEMMA NoMsgType == NoMsg(SomeClient) \in Message
<1>1. SomeClient \in Client
  BY ClientAssumption DEF SomeClient
<1>. QED BY <1>1, MsgType DEF NoMsg, NoBlk

\* The first index selected in a sequence is an index of it that satisfies the test.
LEMMA SelectInQue ==
    ASSUME TypeOK, \E i \in DOMAIN que : ToCur(que[i])
    PROVE  SelectInSeq(que, ToCur) \in 1 .. Len(que)
<1>. DEFINE I == {i \in 1 .. Len(que) : ToCur(que[i])}
<1>0. que \in Seq(Message) /\ Len(que) \in Nat /\ DOMAIN que = 1 .. Len(que)
  BY LenProperties DEF TypeOK
<1>1. I # {} /\ I \in SUBSET Nat /\ I \subseteq 1 .. Len(que)
  BY <1>0
<1>2. Min(I) \in I
  BY <1>1, NatMin DEF Min
<1>. QED BY <1>1, <1>2 DEF SelectInSeq

\* A pending message that can be served is found.
LEMMA SelectInMb ==
    ASSUME TypeOK, \E i \in DOMAIN mb : Ready(mb[i])
    PROVE  /\ SelectInSeq(mb, Ready) \in 1 .. Len(mb)
           /\ Ready(mb[SelectInSeq(mb, Ready)])
<1>. DEFINE I == {i \in 1 .. Len(mb) : Ready(mb[i])}
<1>0. mb \in Seq(Message) /\ Len(mb) \in Nat /\ DOMAIN mb = 1 .. Len(mb)
  BY LenProperties DEF TypeOK
<1>1. I # {} /\ I \in SUBSET Nat /\ I \subseteq 1 .. Len(mb)
  BY <1>0
<1>2. Min(I) \in I
  BY <1>1, NatMin DEF Min
<1>. QED BY <1>1, <1>2 DEF SelectInSeq

\* Removing an element leaves a sequence of the remaining ones.
LEMMA RemoveAtType ==
    ASSUME NEW S, NEW s \in Seq(S), NEW i \in 1 .. Len(s)
    PROVE  RemoveAt(s, i) \in Seq(S) /\ Range(RemoveAt(s, i)) \subseteq Range(s)
<1>. DEFINE a == SubSeq(s, 1, i - 1)
            b == SubSeq(s, i + 1, Len(s))
<1>1. Len(s) \in Nat /\ \A j \in 1 .. Len(s) : s[j] \in Range(s)
  BY DEF Range
<1>2. a \in Seq(Range(s)) /\ b \in Seq(Range(s))
  BY <1>1, SubSeqProperties
<1>3. a \o b \in Seq(Range(s))
  BY <1>2, ConcatProperties
<1>4. Range(s) \subseteq S
  BY RangeOfSeq
<1>. QED BY <1>3, <1>4, RangeOfSeq, SeqMonotonic DEF RemoveAt

\* Appending adds one element, taking the tail adds none.
LEMMA AppendRange ==
    ASSUME NEW S, NEW s \in Seq(S), NEW e \in S
    PROVE  Append(s, e) \in Seq(S) /\ Range(Append(s, e)) = Range(s) \cup {e}
<1>1. Len(s) \in Nat /\ Len(Append(s, e)) = Len(s) + 1 /\ Append(s, e) \in Seq(S)
  BY AppendProperties
<1>2. DOMAIN s = 1 .. Len(s) /\ DOMAIN Append(s, e) = 1 .. Len(s) + 1
  BY <1>1
<1>3. \A j \in 1 .. Len(s) : Append(s, e)[j] = s[j]
  BY AppendProperties
<1>4. Append(s, e)[Len(s) + 1] = e
  BY AppendProperties
<1>5. Range(Append(s, e)) \subseteq Range(s) \cup {e}
  BY <1>1, <1>2, <1>3, <1>4 DEF Range
<1>6. Range(s) \subseteq Range(Append(s, e))
  BY <1>1, <1>2, <1>3 DEF Range
<1>7. e \in Range(Append(s, e))
  BY <1>1, <1>2, <1>4 DEF Range
<1>. QED BY <1>1, <1>5, <1>6, <1>7

\* The messages behind the first one.
LEMMA TailRange ==
    ASSUME NEW S, NEW s \in Seq(S), s # << >>
    PROVE  /\ Head(s) \in S /\ Head(s) \in Range(s)
           /\ Tail(s) \in Seq(S) /\ Range(Tail(s)) \subseteq Range(s)
<1>1. Len(s) \in Nat \ {0} /\ DOMAIN s = 1 .. Len(s)
  BY EmptySeq
<1>2. Head(s) = s[1]
  BY <1>1
<1>3. Tail(s) \in Seq(S) /\ Len(Tail(s)) = Len(s) - 1
      /\ \A i \in 1 .. Len(Tail(s)) : Tail(s)[i] = s[i + 1]
  BY HeadTailProperties
<1>4. Range(Tail(s)) \subseteq Range(s)
  BY <1>1, <1>3 DEF Range
<1>. QED BY <1>1, <1>2, <1>3, <1>4 DEF Range

\* Taking the first occurrence out of a sequence leaves a sequence.
LEMMA RemoveFirstType ==
    ASSUME NEW S, NEW s \in Seq(S), NEW e
    PROVE  RemoveFirst(s, e) \in Seq(S)
<1>. DEFINE I == {i \in 1 .. Len(s) : s[i] = e}
<1>1. CASE I = {}
  BY <1>1 DEF RemoveFirst
<1>2. CASE I # {}
  <2>1. Len(s) \in Nat /\ I \in SUBSET Nat
    BY LenProperties
  <2>2. Min(I) \in I
    BY <1>2, <2>1, NatMin DEF Min
  <2>3. RemoveFirst(s, e) = RemoveAt(s, Min(I))
    BY <1>2 DEF RemoveFirst, SelectInSeq
  <2>. QED BY <2>2, <2>3, RemoveAtType
<1>. QED BY <1>1, <1>2

-----------------------------------------------------------------------------
(* The parts the handlers share                                            *)

\* Without a step of the allocator its invariant stays.
LEMMA ShmSame == ASSUME ShmInv, UNCHANGED shmVars PROVE ShmInv'
BY DEF ShmInv, ShmTypeOK, Disjoint, NoLeak, Coalesced, Counted, NoConflict, shmVars,
       Overlap, Covers, End, Bufs

\* send_msg leaves a message to send and the router in que_snd or past it.
LEMMA SendMsg ==
    ASSUME TypeOK, NEW m \in Message, NEW mc, NEW cont \in {"top", "scan", "route"},
           send_msg(m, mc, cont)
    PROVE  /\ que' \in Seq(Message) /\ que' # << >>
           /\ que_count' \in Int
           /\ rpc' \in {cont, "snd"} /\ ret' = cont
<1>1. que \in Seq(Message) /\ que_count \in Int
  BY DEF TypeOK
<1>2. que' \in Seq(Message) /\ Len(que') = Len(que) + 1 /\ Len(que) \in Nat
  BY <1>1, AppendProperties, LenProperties DEF send_msg, que_msg
<1>3. que' # << >>
  BY <1>2, EmptySeq
<1>. QED BY <1>1, <1>2, <1>3 DEF send_msg, que_msg, EnterSnd

\* The message a handler takes is a typed message that need not wait, and the
\* queues it leaves hold no message they did not hold before.
LEMMA TakeType ==
    ASSUME TypeOK, AskedSize, NEW m, Take(m)
    PROVE  /\ m \in Message /\ Ready(m)
           /\ m.cmd = "GETBUF" => m.size > 0
           /\ inq' \in Seq(Message) /\ mb' \in Seq(Message)
           /\ AskedSize'
           /\ rpc \in {"scan", "wait"}
<1>0. inq \in Seq(Message) /\ mb \in Seq(Message)
  BY DEF TypeOK
<1>1. CASE rpc = "scan"
  <2>. DEFINE i == SelectInSeq(mb, Ready)
  <2>1. /\ \E j \in DOMAIN mb : Ready(mb[j])
        /\ m = mb[i] /\ mb' = RemoveAt(mb, i) /\ inq' = inq
    BY <1>1 DEF Take
  <2>2. i \in 1 .. Len(mb) /\ Ready(mb[i])
    BY <2>1, SelectInMb
  <2>. HIDE DEF i
  <2>3. m \in Message /\ m \in Range(mb)
    BY <1>0, <2>1, <2>2 DEF Range
  <2>4. mb' \in Seq(Message) /\ Range(mb') \subseteq Range(mb)
    BY <1>0, <2>1, <2>2, RemoveAtType
  <2>. QED BY <1>0, <1>1, <2>1, <2>2, <2>3, <2>4 DEF AskedSize
<1>2. CASE rpc # "scan"
  <2>1. /\ rpc = "wait" /\ inq # << >> /\ Ready(Head(inq))
        /\ m = Head(inq) /\ inq' = Tail(inq) /\ mb' = mb
    BY <1>2 DEF Take
  <2>2. /\ m \in Message /\ m \in Range(inq)
        /\ inq' \in Seq(Message) /\ Range(inq') \subseteq Range(inq)
    BY <1>0, <2>1, TailRange
  <2>. QED BY <1>0, <2>1, <2>2 DEF AskedSize
<1>. QED BY <1>1, <1>2

\* Taking a buffer out of a list keeps the lists typed and within the limits.
LEMMA DropFromBlStep ==
    ASSUME TypeOK, Limits, NEW p \in Client, NEW b, DropFromBl(p, b)
    PROVE  bl' \in [Client -> SUBSET Addr] /\ cnt' \in [Client -> Nat] /\ Limits'
<1>1. bl \in [Client -> SUBSET Addr] /\ cnt \in [Client -> Nat]
  BY DEF TypeOK
<1>2. CASE InBl(p, b)
  <2>1. bl' \in [Client -> SUBSET Addr]
    BY <1>1, <1>2 DEF DropFromBl
  <2>2. cnt' \in [Client -> Nat] /\ \A q \in Client : cnt'[q] <= cnt[q]
    BY <1>1, <1>2 DEF DropFromBl
  <2>. QED BY <1>1, <2>1, <2>2, LimitAssumption DEF Limits
<1>3. CASE ~ InBl(p, b)
  BY <1>1, <1>3 DEF DropFromBl, Limits
<1>. QED BY <1>2, <1>3

\* Dropping a reference keeps the allocator's invariant, whatever the buffer.
LEMMA DropRefStep ==
    ASSUME TypeOK, ShmInv, NEW b, DropRef(b)
    PROVE  ShmInv' /\ msg_count' \in Int
<1>1. CASE b \in Bufs(used)
  BY <1>1, UnrefStep DEF DropRef, TypeOK
<1>2. CASE b \notin Bufs(used)
  BY <1>2, ShmSame DEF DropRef, TypeOK, shmVars
<1>. QED BY <1>1, <1>2

\* The whole of release_buf when nothing is routed.
LEMMA ReleaseStep ==
    ASSUME RouterInv, NEW p \in Client, NEW b, release_buf(p, b)
    PROVE  /\ bl' \in [Client -> SUBSET Addr] /\ cnt' \in [Client -> Nat] /\ Limits'
           /\ ShmInv' /\ msg_count' \in Int
BY DropFromBlStep, DropRefStep DEF RouterInv, release_buf

-----------------------------------------------------------------------------
(* One lemma per action (or per group that touches the same state)         *)

\* The invariant holds in the beginning.
LEMMA InitInv == Init => RouterInv
<1>. SUFFICES ASSUME Init PROVE RouterInv
  OBVIOUS
<1>1. ShmInv
  BY ShmInitInv DEF Init
<1>2. TypeOK
  <2>1. cur \in Message
    BY NoMsgType DEF Init
  <2>2. hand \in [Client -> [buf : Nat, size : Nat, blk : Nat]]
    BY DEF Init, Nothing, NoBlk
  <2>. QED BY <2>1, <2>2, LimitAssumption DEF Init, TypeOK, NoBlk
<1>3. RoutedInUse /\ SndPending
  BY DEF Init, RoutedInUse, SndPending, Routing
<1>4. AskedSize
  BY DEF Init, AskedSize, Range
<1>5. Limits
  BY LimitAssumption DEF Init, Limits
<1>. QED BY <1>1, <1>2, <1>3, <1>4, <1>5 DEF RouterInv

\* Steps of do_listen that move no message.
LEMMA ListenStep ==
    ASSUME RouterInv, BeginListen \/ SndFull \/ EndScan PROVE RouterInv'
<1>1. ShmInv' /\ UNCHANGED shmVars
  BY ShmSame DEF RouterInv, BeginListen, SndFull, EndScan
<1>2. TypeOK'
  BY DEF RouterInv, TypeOK, BeginListen, SndFull, EndScan, EnterSnd, plVars, queVars, clientVars
<1>3. RoutedInUse'
  BY <1>1 DEF RouterInv, TypeOK, RoutedInUse, Routing, BeginListen, SndFull, EndScan, EnterSnd,
              shmVars
<1>4. SndPending'
  BY DEF RouterInv, TypeOK, SndPending, BeginListen, SndFull, EndScan, EnterSnd, queVars
<1>5. AskedSize' /\ Limits'
  BY DEF RouterInv, AskedSize, Limits, BeginListen, SndFull, EndScan, plVars
<1>. QED BY <1>1, <1>2, <1>3, <1>4, <1>5 DEF RouterInv

\* que_snd sends a message and takes it from the send queue.
LEMMA SndOneStep == ASSUME RouterInv, SndOne PROVE RouterInv'
<1>0. que # << >> /\ que \in Seq(Message) /\ Len(que) \in Nat
  BY LenProperties DEF RouterInv, TypeOK, SndPending, SndOne
<1>1. ShmInv' /\ UNCHANGED shmVars
  BY ShmSame DEF RouterInv, SndOne
<1>2. /\ Head(que) \in Message
      /\ que' \in Seq(Message) /\ Len(que') = Len(que) - 1
  BY <1>0, TailRange, HeadTailProperties DEF SndOne
<1>3. out' \in [Client -> Seq(Message)]
  <2>1. Head(que).pid \in Client /\ out \in [Client -> Seq(Message)]
    BY <1>2 DEF Message, RouterInv, TypeOK
  <2>2. Append(out[Head(que).pid], Head(que)) \in Seq(Message)
    BY <1>2, <2>1, AppendProperties
  <2>. QED BY <2>1, <2>2 DEF SndOne
<1>4. TypeOK'
  <2>1. qnum' \in Int /\ qnum' <= OutCap /\ que_count' \in Int
    BY LimitAssumption DEF RouterInv, TypeOK, SndOne
  <2>2. rpc' \in {"top", "snd", "scan", "route"}
    BY DEF RouterInv, TypeOK, SndOne
  <2>. QED BY <1>2, <1>3, <2>1, <2>2 DEF RouterInv, TypeOK, SndOne, plVars, clientVars
<1>5. RoutedInUse'
  BY <1>1 DEF RouterInv, TypeOK, RoutedInUse, Routing, SndOne, shmVars
<1>6. SndPending'
  <2>1. CASE Len(que) = 1
    BY <2>1 DEF RouterInv, TypeOK, SndPending, SndOne
  <2>2. CASE Len(que) # 1
    BY <1>0, <1>2, <2>2, EmptySeq DEF SndPending
  <2>. QED BY <2>1, <2>2
<1>7. AskedSize' /\ Limits'
  BY DEF RouterInv, AskedSize, Limits, SndOne, plVars
<1>. QED BY <1>1, <1>4, <1>5, <1>6, <1>7 DEF RouterInv

\* A message that cannot be served joins the pending ones.
LEMMA DeferStep == ASSUME RouterInv, Defer PROVE RouterInv'
<1>0. inq \in Seq(Message) /\ mb \in Seq(Message) /\ inq # << >>
  BY DEF RouterInv, TypeOK, Defer
<1>1. ShmInv' /\ UNCHANGED shmVars
  BY ShmSame DEF RouterInv, Defer
<1>2. /\ Head(inq) \in Message /\ Head(inq) \in Range(inq)
      /\ inq' \in Seq(Message) /\ Range(inq') \subseteq Range(inq)
  BY <1>0, TailRange DEF Defer
<1>3. mb' \in Seq(Message) /\ Range(mb') = Range(mb) \cup {Head(inq)}
  BY <1>0, <1>2, AppendRange DEF Defer
<1>4. AskedSize'
  BY <1>2, <1>3 DEF RouterInv, AskedSize
<1>5. TypeOK'
  BY <1>2, <1>3 DEF RouterInv, TypeOK, Defer, plVars, queVars, clientVars
<1>6. RoutedInUse' /\ SndPending' /\ Limits'
  BY <1>1 DEF RouterInv, RoutedInUse, Routing, SndPending, Limits, Defer, shmVars, queVars, plVars
<1>. QED BY <1>1, <1>4, <1>5, <1>6 DEF RouterInv

\* The handler of CONNECT.
LEMMA ConnectStep == ASSUME RouterInv, HandleConnect PROVE RouterInv'
<1>1. PICK m \in Takeable("CONNECT") :
         /\ Take(m)
         /\ IF Connected(m.pid)
              THEN rpc' = "top" /\ UNCHANGED <<ret, queVars, plVars, owed>>
              ELSE IF Accepts(m.pid)
              THEN /\ new_pl(m.pid)
                   /\ owed' = [owed EXCEPT ![m.pid] = << >>]
                   /\ send_msg(Msg("CONNECT", m.pid, 0, 0, NoBlk), msg_count, "top")
              ELSE /\ send_msg(Msg("REFUSE", m.pid, 0, 0, NoBlk), msg_count, "top")
                   /\ UNCHANGED <<plVars, owed>>
         /\ UNCHANGED <<shmVars, cur, todo, errs, out, qnum, clientVars>>
  BY DEF HandleConnect
<1>2. /\ m \in Message /\ AskedSize' /\ rpc \in {"scan", "wait"}
      /\ inq' \in Seq(Message) /\ mb' \in Seq(Message)
  BY <1>1, TakeType DEF RouterInv
<1>3. m.pid \in Client
  BY <1>2 DEF Message
<1>4. ShmInv' /\ UNCHANGED shmVars
  BY <1>1, ShmSame DEF RouterInv
<1>. DEFINE yes == Msg("CONNECT", m.pid, 0, 0, NoBlk)
            no  == Msg("REFUSE", m.pid, 0, 0, NoBlk)
<1>5. yes \in Message /\ no \in Message
  BY <1>3, MsgType DEF NoBlk
<1>. HIDE DEF yes, no
<1>6. CASE Connected(m.pid)
  <2>1. rpc' = "top" /\ UNCHANGED <<ret, queVars, plVars, owed>>
    BY <1>1, <1>6
  <2>2. TypeOK'
    BY <1>1, <1>2, <2>1 DEF RouterInv, TypeOK, plVars, queVars, clientVars
  <2>. QED BY <1>2, <1>4, <2>1, <2>2
           DEF RouterInv, RoutedInUse, Routing, SndPending, Limits, plVars
<1>7. CASE ~ Connected(m.pid) /\ Accepts(m.pid)
  <2>0. /\ pl' = Append(pl, m.pid)
        /\ bl' = [bl EXCEPT ![m.pid] = {}]
        /\ cnt' = [cnt EXCEPT ![m.pid] = 0]
        /\ owed' = [owed EXCEPT ![m.pid] = << >>]
        /\ send_msg(yes, msg_count, "top")
        /\ UNCHANGED msg_count
    BY <1>1, <1>7 DEF yes, new_pl
  <2>1. /\ que' \in Seq(Message) /\ que' # << >> /\ que_count' \in Int
        /\ rpc' \in {"top", "snd"} /\ ret' = "top"
    BY <1>5, <2>0, SendMsg DEF RouterInv
  <2>2. pl' \in Seq(Client \ Strangers)
    BY <1>3, <1>7, <2>0, AppendProperties DEF Accepts, RouterInv, TypeOK
  <2>3. /\ bl \in [Client -> SUBSET Addr] /\ cnt \in [Client -> Nat]
        /\ owed \in [Client -> Seq(Nat)]
    BY DEF RouterInv, TypeOK
  <2>4. /\ bl' \in [Client -> SUBSET Addr] /\ cnt' \in [Client -> Nat]
        /\ owed' \in [Client -> Seq(Nat)]
    BY <1>3, <2>0, <2>3
  <2>5. TypeOK'
    BY <1>1, <1>2, <2>0, <2>1, <2>2, <2>4 DEF RouterInv, TypeOK, clientVars
  <2>6. \A q \in Client : cnt'[q] <= cnt[q]
    BY <1>3, <2>0, <2>3
  <2>7. Limits'
    BY <2>3, <2>4, <2>6, LimitAssumption DEF RouterInv, Limits
  <2>. QED BY <1>2, <1>4, <2>1, <2>5, <2>7 DEF RouterInv, RoutedInUse, Routing, SndPending
<1>8. CASE ~ Connected(m.pid) /\ ~ Accepts(m.pid)
  <2>1. /\ que' \in Seq(Message) /\ que' # << >> /\ que_count' \in Int
        /\ rpc' \in {"top", "snd"} /\ ret' = "top"
    BY <1>1, <1>5, <1>8, SendMsg DEF RouterInv, no
  <2>2. UNCHANGED <<plVars, owed>>
    BY <1>1, <1>8
  <2>3. TypeOK'
    BY <1>1, <1>2, <2>1, <2>2 DEF RouterInv, TypeOK, plVars, clientVars
  <2>. QED BY <1>2, <1>4, <2>1, <2>2, <2>3
           DEF RouterInv, RoutedInUse, Routing, SndPending, Limits, plVars
<1>. QED BY <1>6, <1>7, <1>8

\* The handler of GETBUF: a buffer is taken from the segment, or the request is refused.
LEMMA GetBufStep == ASSUME RouterInv, HandleGetBuf PROVE RouterInv'
<1>1. PICK m \in Takeable("GETBUF") :
        LET p    == m.pid
            size == RoundUp(m.size)
        IN
        /\ Take(m)
        /\ IF ~ Connected(p)
             THEN rpc' = "top" /\ UNCHANGED <<shmVars, ret, queVars, plVars>>
             ELSE IF p \notin Writers \/ size > ShmSize
             THEN /\ send_msg(Msg("REFUSE", p, 0, 0, NoBlk), msg_count, "top")
                  /\ UNCHANGED <<shmVars, plVars>>
             ELSE /\ get_buf(p, size)
                  /\ send_msg(Msg("BUFFER", p, FirstFit(size).buf, size, NoBlk), msg_count', "top")
        /\ UNCHANGED <<cur, todo, errs, out, qnum, clientVars, owed>>
  BY DEF HandleGetBuf
<1>. DEFINE p    == m.pid
            size == RoundUp(m.size)
            b    == FirstFit(size).buf
            no   == Msg("REFUSE", p, 0, 0, NoBlk)
            yes  == Msg("BUFFER", p, b, size, NoBlk)
<1>2. /\ m \in Message /\ Ready(m) /\ AskedSize' /\ rpc \in {"scan", "wait"}
      /\ m.cmd = "GETBUF" => m.size > 0
      /\ inq' \in Seq(Message) /\ mb' \in Seq(Message)
  BY <1>1, TakeType DEF RouterInv
<1>3. p \in Client /\ m.size \in Nat \ {0} /\ m.cmd = "GETBUF"
  BY <1>1, <1>2 DEF Message, Takeable
<1>4. size \in Nat \ {0}
  BY <1>3, RoundUpType
<1>5. no \in Message
  BY <1>3, MsgType DEF NoBlk
<1>6. UNCHANGED <<cur, todo, errs, out, qnum, clientVars, owed>>
  BY <1>1
<1>7. CASE ~ Connected(p)
  <2>1. rpc' = "top" /\ UNCHANGED <<shmVars, ret, queVars, plVars>>
    BY <1>1, <1>7
  <2>2. ShmInv'
    BY <2>1, ShmSame DEF RouterInv
  <2>3. TypeOK'
    BY <1>2, <1>6, <2>1 DEF RouterInv, TypeOK, plVars, queVars, clientVars
  <2>. QED BY <1>2, <2>1, <2>2, <2>3
           DEF RouterInv, RoutedInUse, Routing, SndPending, Limits, plVars
<1>8. CASE Connected(p) /\ (p \notin Writers \/ size > ShmSize)
  <2>1. send_msg(no, msg_count, "top") /\ UNCHANGED <<shmVars, plVars>>
    BY <1>1, <1>8
  <2>. HIDE DEF no
  <2>2. /\ que' \in Seq(Message) /\ que' # << >> /\ que_count' \in Int
        /\ rpc' \in {"top", "snd"} /\ ret' = "top"
    BY <1>5, <2>1, SendMsg DEF RouterInv
  <2>3. ShmInv'
    BY <2>1, ShmSame DEF RouterInv
  <2>4. TypeOK'
    BY <1>2, <1>6, <2>1, <2>2 DEF RouterInv, TypeOK, plVars, clientVars
  <2>. QED BY <1>2, <2>1, <2>2, <2>3, <2>4
           DEF RouterInv, RoutedInUse, Routing, SndPending, Limits, plVars
<1>9. CASE Connected(p) /\ ~ (p \notin Writers \/ size > ShmSize)
  <2>1. /\ get_shm(size)
        /\ bl' = [bl EXCEPT ![p] = @ \cup {b}]
        /\ cnt' = [cnt EXCEPT ![p] = @ + 1]
        /\ msg_count' = msg_count + 1
        /\ send_msg(yes, msg_count', "top")
        /\ UNCHANGED pl
    BY <1>1, <1>9 DEF get_buf
  <2>2. FirstFit(size) \in Fits(size)
    BY <1>4, <2>1, FirstFitFits DEF get_shm, RouterInv, ShmInv
  <2>3. b \in Addr /\ b \in Nat
    BY <2>2, ShmSizeAssumption DEF Fits, RouterInv, ShmInv, ShmTypeOK, Extent, End, Addr
  <2>4. yes \in Message
    BY <1>3, <1>4, <2>3, MsgType DEF NoBlk
  <2>5. ShmInv'
    BY <1>4, <2>1, GetStep DEF RouterInv
  <2>6. p \in Writers /\ cnt[p] < MAXWRITEBUF
    BY <1>2, <1>3, <1>9, LimitAssumption DEF Ready, Pends, GetBufPends, RouterInv, TypeOK
  <2>. HIDE DEF p, size, b, yes, no
  <2>7. /\ que' \in Seq(Message) /\ que' # << >> /\ que_count' \in Int
        /\ rpc' \in {"top", "snd"} /\ ret' = "top"
    BY <2>1, <2>4, SendMsg DEF RouterInv
  <2>8. bl \in [Client -> SUBSET Addr] /\ cnt \in [Client -> Nat] /\ msg_count \in Int
    BY DEF RouterInv, TypeOK
  <2>9. bl' \in [Client -> SUBSET Addr] /\ cnt' \in [Client -> Nat] /\ msg_count' \in Int
    BY <1>3, <2>1, <2>3, <2>8
  <2>10. TypeOK'
    BY <1>2, <1>6, <2>1, <2>7, <2>9 DEF RouterInv, TypeOK, clientVars
  <2>11. cnt'[p] <= MAXWRITEBUF /\ \A q \in Client \ {p} : cnt'[q] = cnt[q]
    BY <1>3, <2>1, <2>6, <2>8, LimitAssumption
  <2>12. Limits'
    BY <2>6, <2>11 DEF RouterInv, Limits
  <2>. QED BY <1>2, <2>5, <2>7, <2>10, <2>12
           DEF RouterInv, RoutedInUse, Routing, SndPending
<1>. QED BY <1>7, <1>8, <1>9

\* The handler of RELEASE: a block is to be routed, or a reference is dropped.
LEMMA ReleaseHandlerStep == ASSUME RouterInv, HandleRelease PROVE RouterInv'
<1>1. PICK m \in Takeable("RELEASE") :
        /\ Take(m)
        /\ IF Routes(m) /\ m.buf \in Bufs(used) /\ ~ check_max_buf
             THEN /\ DropFromBl(m.pid, m.buf)
                  /\ errs' = errs \cup BlErr(m.pid, m.buf)
                  /\ rpc' = "route" /\ cur' = m /\ todo' = pl
                  /\ owed' = [r \in Client |->
                                IF r \in Readers /\ Connected(r)
                                  THEN Append(owed[r], m.blk) ELSE owed[r]]
                  /\ UNCHANGED <<shmVars, msg_count>>
             ELSE /\ release_buf(m.pid, m.buf)
                  /\ rpc' = "top"
                  /\ UNCHANGED <<cur, todo, owed>>
        /\ UNCHANGED <<ret, pl, queVars, out, qnum, clientVars>>
  BY DEF HandleRelease
<1>2. /\ m \in Message /\ AskedSize' /\ rpc \in {"scan", "wait"}
      /\ inq' \in Seq(Message) /\ mb' \in Seq(Message)
  BY <1>1, TakeType DEF RouterInv
<1>3. m.pid \in Client /\ m.blk \in Nat
  BY <1>2 DEF Message
<1>4. UNCHANGED <<ret, pl, queVars, out, qnum, clientVars>>
  BY <1>1
<1>5. CASE Routes(m) /\ m.buf \in Bufs(used) /\ ~ check_max_buf
  <2>1. /\ DropFromBl(m.pid, m.buf)
        /\ rpc' = "route" /\ cur' = m /\ todo' = pl
        /\ owed' = [r \in Client |-> IF r \in Readers /\ Connected(r)
                                       THEN Append(owed[r], m.blk) ELSE owed[r]]
        /\ UNCHANGED <<shmVars, msg_count>>
    BY <1>1, <1>5
  <2>2. bl' \in [Client -> SUBSET Addr] /\ cnt' \in [Client -> Nat] /\ Limits'
    BY <1>3, <2>1, DropFromBlStep DEF RouterInv
  <2>3. owed' \in [Client -> Seq(Nat)]
    BY <1>3, <2>1, AppendProperties DEF RouterInv, TypeOK
  <2>4. TypeOK'
    BY <1>2, <1>4, <2>1, <2>2, <2>3 DEF RouterInv, TypeOK, queVars, clientVars
  <2>5. ShmInv'
    BY <2>1, ShmSame DEF RouterInv
  <2>6. RoutedInUse' /\ SndPending'
    BY <1>5, <2>1 DEF RoutedInUse, Routing, SndPending, shmVars, Bufs
  <2>. QED BY <1>2, <2>2, <2>4, <2>5, <2>6 DEF RouterInv
<1>6. CASE ~ (Routes(m) /\ m.buf \in Bufs(used) /\ ~ check_max_buf)
  <2>1. release_buf(m.pid, m.buf) /\ rpc' = "top" /\ UNCHANGED <<cur, todo, owed>>
    BY <1>1, <1>6
  <2>2. /\ bl' \in [Client -> SUBSET Addr] /\ cnt' \in [Client -> Nat] /\ Limits'
        /\ ShmInv' /\ msg_count' \in Int
    BY <1>3, <2>1, ReleaseStep
  <2>3. TypeOK'
    BY <1>2, <1>4, <2>1, <2>2 DEF RouterInv, TypeOK, queVars, clientVars
  <2>4. RoutedInUse' /\ SndPending'
    BY <2>1 DEF RoutedInUse, Routing, SndPending
  <2>. QED BY <1>2, <2>2, <2>3, <2>4 DEF RouterInv
<1>. QED BY <1>5, <1>6

\* The head of todo is a process that is neither refused nor a writer unless passed over.
LEMMA RouteSkipStep == ASSUME RouterInv, RouteSkip PROVE RouterInv'
<1>1. ShmInv' /\ UNCHANGED shmVars
  BY ShmSame DEF RouterInv, RouteSkip
<1>2. todo' \in Seq(Client \ Strangers)
  BY TailRange DEF RouterInv, TypeOK, RouteSkip
<1>3. TypeOK'
  BY <1>2 DEF RouterInv, TypeOK, RouteSkip, plVars, queVars, clientVars
<1>4. RoutedInUse' /\ SndPending' /\ AskedSize' /\ Limits'
  BY <1>1 DEF RouterInv, RoutedInUse, Routing, SndPending, AskedSize, Limits, RouteSkip,
              shmVars, plVars, queVars
<1>. QED BY <1>1, <1>3, <1>4 DEF RouterInv

\* What send_buf sends is a number of bytes.
LEMMA SendSizeType ==
    ASSUME ShmInv, NEW b \in Bufs(used), NEW size \in Nat
    PROVE  SendSize(b, size) \in Nat
<1>1. PICK u \in used : u.buf = b
  BY DEF Bufs
<1>. DEFINE v == CHOOSE u_1 \in used : u_1.buf = b
<1>2. v \in used
  BY <1>1
<1>3. v.size \in Nat
  BY <1>2 DEF ShmInv, ShmTypeOK, Extent
<1>. HIDE DEF v
<1>4. SendSize(b, size) = IF size > v.size THEN v.size ELSE size
  BY DEF SendSize, v
<1>. QED BY <1>3, <1>4

\* send_buf gives a reader a reference and a message.
LEMMA RouteSendStep == ASSUME RouterInv, RouteSend PROVE RouterInv'
<1>. DEFINE r == Head(todo)
            m == Msg("BUFFER", r, cur.buf, SendSize(cur.buf, cur.size), cur.blk)
<1>1. /\ rpc = "route" /\ todo # << >> /\ ~ PassOver(r)
      /\ UNCHANGED <<pl, mb, inq, out, qnum, clientVars, owed>>
  BY DEF RouteSend
<1>2. r \in Client \ Strangers /\ Tail(todo) \in Seq(Client \ Strangers)
  BY <1>1, TailRange DEF RouterInv, TypeOK
<1>3. cur.buf \in Bufs(used) /\ cur \in Message
  BY <1>1 DEF RouterInv, RoutedInUse, Routing, TypeOK
<1>4. cur.buf \in Nat /\ cur.size \in Nat /\ cur.blk \in Nat
  BY <1>3 DEF Message
<1>5. cur.buf \in Addr
  BY <1>3, ShmSizeAssumption DEF Bufs, RouterInv, ShmInv, ShmTypeOK, Extent, End, Addr
<1>6. m \in Message
  BY <1>2, <1>3, <1>4, SendSizeType, MsgType DEF RouterInv
<1>7. AskedSize'
  BY <1>1 DEF RouterInv, AskedSize
<1>8. CASE r \in Readers /\ cnt[r] >= MAXSENDBUF
  <2>1. /\ rpc' = "top" /\ cur' = NoMsg(SomeClient) /\ todo' = << >>
        /\ UNCHANGED <<shmVars, ret, queVars, bl, cnt, msg_count>>
    BY <1>8 DEF RouteSend
  <2>2. ShmInv'
    BY <2>1, ShmSame DEF RouterInv
  <2>3. TypeOK'
    <3>1. todo' \in Seq(Client \ Strangers) /\ cur' \in Message
      BY <2>1, NoMsgType
    <3>2. UNCHANGED <<ret, que, que_count, bl, cnt, msg_count, pl, mb, inq, out, qnum,
                      cst, hand, mem, owed>>
      BY <1>1, <2>1 DEF queVars, clientVars
    <3>. QED BY <2>1, <3>1, <3>2 DEF RouterInv, TypeOK
  <2>. QED BY <1>7, <2>1, <2>2, <2>3
           DEF RouterInv, RoutedInUse, Routing, SndPending, Limits
<1>9. CASE ~ (r \in Readers /\ cnt[r] >= MAXSENDBUF)
  <2>1. /\ send_msg(m, msg_count, "route")
        /\ bl' = [bl EXCEPT ![r] = @ \cup {cur.buf}]
        /\ cnt' = [cnt EXCEPT ![r] = @ + 1]
        /\ shm_ref(cur.buf)
        /\ msg_count' = msg_count + 1
        /\ todo' = Tail(todo)
        /\ UNCHANGED cur
    BY <1>9 DEF RouteSend
  <2>2. ShmInv' /\ used' = used
    BY <1>3, <2>1, RefStep DEF RouterInv, shm_ref
  <2>3. \/ r \in Readers /\ cnt[r] < MAXSENDBUF
        \/ r \in Samplers /\ cnt[r] < MAXSAMPBUF
    <3>1. cnt[r] \in Nat
      BY <1>2 DEF RouterInv, TypeOK
    <3>2. r \in Readers \cup Samplers /\ ~ (r \in Samplers /\ cnt[r] >= MAXSAMPBUF)
      BY <1>1, <1>2 DEF PassOver, Client
    <3>. QED BY <1>9, <3>1, <3>2, LimitAssumption
  <2>. HIDE DEF r, m
  <2>4. /\ que' \in Seq(Message) /\ que' # << >> /\ que_count' \in Int
        /\ rpc' \in {"route", "snd"} /\ ret' = "route"
    BY <1>6, <2>1, SendMsg DEF RouterInv
  <2>5. bl \in [Client -> SUBSET Addr] /\ cnt \in [Client -> Nat] /\ msg_count \in Int
    BY DEF RouterInv, TypeOK
  <2>6. bl' \in [Client -> SUBSET Addr] /\ cnt' \in [Client -> Nat] /\ msg_count' \in Int
    BY <1>2, <1>5, <2>1, <2>5
  <2>7. TypeOK'
    BY <1>1, <1>2, <2>1, <2>4, <2>6 DEF RouterInv, TypeOK, clientVars
  <2>8. cnt'[r] = cnt[r] + 1 /\ \A q \in Client \ {r} : cnt'[q] = cnt[q]
    BY <1>2, <2>1, <2>5
  <2>9. r \notin Writers /\ (r \in Readers => r \notin Samplers)
    BY <2>3, ClientAssumption
  <2>10. cnt'[r] <= IF r \in Samplers THEN MAXSAMPBUF ELSE MAXSENDBUF
    BY <1>2, <2>3, <2>5, <2>8, <2>9, LimitAssumption
  <2>11. Limits'
    BY <2>8, <2>9, <2>10 DEF RouterInv, Limits
  <2>12. RoutedInUse' /\ SndPending'
    BY <1>3, <2>1, <2>2, <2>4 DEF RoutedInUse, SndPending, Bufs
  <2>. QED BY <1>7, <2>2, <2>7, <2>11, <2>12 DEF RouterInv
<1>. QED BY <1>8, <1>9

\* send_buf drops the reference of its own.
LEMMA RouteEndStep == ASSUME RouterInv, RouteEnd PROVE RouterInv'
<1>1. ShmInv' /\ msg_count' \in Int
  BY DropRefStep DEF RouterInv, RouteEnd
<1>2. TypeOK'
  BY <1>1, NoMsgType DEF RouterInv, TypeOK, RouteEnd, queVars, clientVars
<1>3. RoutedInUse' /\ SndPending' /\ AskedSize' /\ Limits'
  BY DEF RouterInv, RoutedInUse, Routing, SndPending, AskedSize, Limits, RouteEnd
<1>. QED BY <1>1, <1>2, <1>3 DEF RouterInv

\* The handler of DISCONNECT begins.
LEMMA BeginDisconnectStep == ASSUME RouterInv, BeginDisconnect PROVE RouterInv'
<1>1. PICK m \in Takeable("DISCONNECT") :
        /\ Take(m)
        /\ rpc' = "disc" /\ cur' = m
        /\ UNCHANGED <<shmVars, ret, todo, errs, queVars, plVars, out, qnum, clientVars, owed>>
  BY DEF BeginDisconnect
<1>2. m \in Message /\ AskedSize' /\ inq' \in Seq(Message) /\ mb' \in Seq(Message)
  BY <1>1, TakeType DEF RouterInv
<1>3. TypeOK'
  BY <1>1, <1>2 DEF RouterInv, TypeOK, plVars, queVars, clientVars
<1>4. ShmInv'
  BY <1>1, ShmSame DEF RouterInv
<1>5. RoutedInUse' /\ SndPending' /\ Limits'
  BY <1>1 DEF RouterInv, RoutedInUse, Routing, SndPending, Limits, plVars
<1>. QED BY <1>2, <1>3, <1>4, <1>5 DEF RouterInv

\* It empties the send queue of messages to the process,
LEMMA PurgeQueStep == ASSUME RouterInv, PurgeQue PROVE RouterInv'
<1>. DEFINE i == SelectInSeq(que, ToCur)
<1>1. /\ rpc = "disc" /\ \E j \in DOMAIN que : ToCur(que[j])
      /\ release_buf(cur.pid, que[i].buf) /\ que' = RemoveAt(que, i)
      /\ UNCHANGED <<rpc, ret, cur, todo, mb, que_count, pl, inq, out, qnum, clientVars, owed>>
  BY DEF PurgeQue
<1>2. i \in 1 .. Len(que)
  BY <1>1, SelectInQue DEF RouterInv
<1>. HIDE DEF i
<1>3. que' \in Seq(Message)
  BY <1>1, <1>2, RemoveAtType DEF RouterInv, TypeOK
<1>4. cur.pid \in Client
  BY DEF RouterInv, TypeOK, Message
<1>5. /\ bl' \in [Client -> SUBSET Addr] /\ cnt' \in [Client -> Nat] /\ Limits'
      /\ ShmInv' /\ msg_count' \in Int
  BY <1>1, <1>4, ReleaseStep
<1>6. TypeOK'
  BY <1>1, <1>3, <1>5 DEF RouterInv, TypeOK, clientVars
<1>7. RoutedInUse' /\ SndPending' /\ AskedSize'
  BY <1>1 DEF RouterInv, RoutedInUse, Routing, SndPending, AskedSize
<1>. QED BY <1>5, <1>6, <1>7 DEF RouterInv

\* the kernel queue,
LEMMA DrainOutStep == ASSUME RouterInv, DrainOut PROVE RouterInv'
<1>1. cur.pid \in Client /\ out \in [Client -> Seq(Message)]
  BY DEF RouterInv, TypeOK, Message
<1>2. /\ bl' \in [Client -> SUBSET Addr] /\ cnt' \in [Client -> Nat] /\ Limits'
      /\ ShmInv' /\ msg_count' \in Int
  <2>1. CASE Head(out[cur.pid]).cmd = "BUFFER"
    BY <1>1, <2>1, ReleaseStep DEF DrainOut
  <2>2. CASE Head(out[cur.pid]).cmd # "BUFFER"
    BY <2>2, ShmSame DEF DrainOut, RouterInv, TypeOK, Limits
  <2>. QED BY <2>1, <2>2
<1>3. Tail(out[cur.pid]) \in Seq(Message)
  BY <1>1, TailRange DEF DrainOut
<1>4. out' \in [Client -> Seq(Message)]
  BY <1>1, <1>3 DEF DrainOut
<1>5. qnum' \in Int /\ qnum' <= OutCap
  BY LimitAssumption DEF RouterInv, TypeOK, DrainOut
<1>6. TypeOK'
  BY <1>2, <1>4, <1>5 DEF RouterInv, TypeOK, DrainOut, queVars, clientVars
<1>7. RoutedInUse' /\ SndPending' /\ AskedSize'
  BY DEF RouterInv, RoutedInUse, Routing, SndPending, AskedSize, DrainOut
<1>. QED BY <1>2, <1>6, <1>7 DEF RouterInv

\* the list of buffers of the process,
LEMMA ReleaseAllStep == ASSUME RouterInv, ReleaseAll PROVE RouterInv'
<1>1. PICK b \in bl[cur.pid] : release_buf(cur.pid, b)
  BY DEF ReleaseAll
<1>2. cur.pid \in Client
  BY DEF RouterInv, TypeOK, Message
<1>3. /\ bl' \in [Client -> SUBSET Addr] /\ cnt' \in [Client -> Nat] /\ Limits'
      /\ ShmInv' /\ msg_count' \in Int
  BY <1>1, <1>2, ReleaseStep
<1>4. TypeOK'
  BY <1>3 DEF RouterInv, TypeOK, ReleaseAll, queVars, clientVars
<1>5. RoutedInUse' /\ SndPending' /\ AskedSize'
  BY DEF RouterInv, RoutedInUse, Routing, SndPending, AskedSize, ReleaseAll
<1>. QED BY <1>3, <1>4, <1>5 DEF RouterInv

\* and the list of processes.
LEMMA RemovePlStep == ASSUME RouterInv, RemovePl PROVE RouterInv'
<1>1. ShmInv'
  BY ShmSame DEF RouterInv, RemovePl
<1>2. pl' \in Seq(Client \ Strangers)
  BY RemoveFirstType DEF RouterInv, TypeOK, RemovePl
<1>3. owed' \in [Client -> Seq(Nat)]
  <2>1. owed \in [Client -> Seq(Nat)] /\ owed' = [owed EXCEPT ![cur.pid] = << >>]
    BY DEF RouterInv, TypeOK, RemovePl
  <2>2. cur.pid \in Client /\ << >> \in Seq(Nat)
    BY EmptySeq DEF RouterInv, TypeOK, Message
  <2>. QED BY <2>1, <2>2
<1>4. TypeOK'
  BY <1>2, <1>3, NoMsgType DEF RouterInv, TypeOK, RemovePl, queVars, clientVars
<1>5. RoutedInUse' /\ SndPending' /\ AskedSize' /\ Limits'
  BY DEF RouterInv, RoutedInUse, Routing, SndPending, AskedSize, Limits, RemovePl
<1>. QED BY <1>1, <1>4, <1>5 DEF RouterInv

\* A client that sends a typed message to the router keeps the input queue typed; only
\* a request for a buffer of positive size is a GETBUF.
LEMMA SendStep ==
    ASSUME TypeOK, AskedSize, NEW m \in Message, m.cmd = "GETBUF" => m.size > 0,
           Send(m), UNCHANGED mb
    PROVE  inq' \in Seq(Message) /\ AskedSize'
<1>1. inq' \in Seq(Message) /\ Range(inq') = Range(inq) \cup {m}
  BY AppendRange DEF TypeOK, Send
<1>. QED BY <1>1 DEF AskedSize

\* A client that takes a message leaves the queue typed.
LEMMA ReceiveStep ==
    ASSUME TypeOK, NEW p \in Client, out[p] # << >>, Receive(p)
    PROVE  /\ Head(out[p]) \in Message
           /\ out' \in [Client -> Seq(Message)]
           /\ qnum' \in Int /\ qnum' <= OutCap
<1>1. out \in [Client -> Seq(Message)]
  BY DEF TypeOK
<1>2. Head(out[p]) \in Message /\ Tail(out[p]) \in Seq(Message)
  BY <1>1, TailRange
<1>3. out' \in [Client -> Seq(Message)]
  BY <1>1, <1>2 DEF Receive
<1>4. qnum' \in Int /\ qnum' <= OutCap
  BY LimitAssumption DEF TypeOK, Receive
<1>. QED BY <1>2, <1>3, <1>4

\* What a client does changes no variable of the router; the rest is a matter of type.
LEMMA ClientFrame ==
    ASSUME RouterInv, UNCHANGED <<shmVars, routerVars>>,
           inq' \in Seq(Message), AskedSize',
           out' \in [Client -> Seq(Message)], qnum' \in Int, qnum' <= OutCap,
           cst' \in [Client -> {"off", "conn", "idle", "get", "use", "fail"}],
           hand' \in [Client -> [buf : Nat, size : Nat, blk : Nat]],
           mem' \in [Word -> Nat], owed' \in [Client -> Seq(Nat)]
    PROVE  RouterInv'
<1>1. ShmInv'
  BY ShmSame DEF RouterInv
<1>2. RoutedInUse' /\ SndPending' /\ Limits'
  BY DEF RouterInv, RoutedInUse, Routing, SndPending, Limits, Bufs,
         routerVars, plVars, queVars, shmVars
<1>3. TypeOK'
  BY DEF RouterInv, TypeOK, routerVars, plVars, queVars
<1>. QED BY <1>1, <1>2, <1>3 DEF RouterInv

\* router_connect, router_disconnect and router_request_buf.
LEMMA AskStep ==
    ASSUME RouterInv, NEW p \in Client, Connect(p) \/ RequestBuf(p) \/ Leave(p)
    PROVE  RouterInv'
<1>1. /\ UNCHANGED <<shmVars, routerVars, out, qnum, mem, owed>> /\ UNCHANGED mb
      /\ TypeOK /\ AskedSize
  BY DEF Connect, RequestBuf, Leave, RouterInv, routerVars
<1>2. inq' \in Seq(Message) /\ AskedSize'
  <2>1. CASE Connect(p)
    BY <1>1, <2>1, MsgType, SendStep DEF Connect, NoBlk
  <2>2. CASE RequestBuf(p)
    <3>1. PICK size \in Sizes : Send(Msg("GETBUF", p, 0, size, NoBlk))
      BY <2>2 DEF RequestBuf
    <3>2. size \in Nat /\ size > 0
      BY LimitAssumption
    <3>. DEFINE m == Msg("GETBUF", p, 0, size, NoBlk)
    <3>3. m \in Message /\ m.size > 0
      BY <3>2, MsgType DEF NoBlk
    <3>. HIDE DEF m
    <3>4. Send(m)
      BY <3>1 DEF m
    <3>. QED BY <1>1, <3>3, <3>4, SendStep
  <2>3. CASE Leave(p)
    BY <1>1, <2>3, MsgType, SendStep DEF Leave, NoBlk
  <2>. QED BY <2>1, <2>2, <2>3
<1>3. cst' \in [Client -> {"off", "conn", "idle", "get", "use", "fail"}]
  <2>1. cst \in [Client -> {"off", "conn", "idle", "get", "use", "fail"}]
    BY DEF RouterInv, TypeOK
  <2>2. CASE Connect(p)
    BY <2>1, <2>2 DEF Connect
  <2>3. CASE RequestBuf(p)
    BY <2>1, <2>3 DEF RequestBuf
  <2>4. CASE Leave(p)
    BY <2>1, <2>4 DEF Leave
  <2>. QED BY <2>2, <2>3, <2>4
<1>4. hand' \in [Client -> [buf : Nat, size : Nat, blk : Nat]]
  <2>1. /\ hand \in [Client -> [buf : Nat, size : Nat, blk : Nat]]
        /\ Nothing \in [buf : Nat, size : Nat, blk : Nat]
    BY DEF RouterInv, TypeOK, Nothing, NoBlk
  <2>2. hand' = hand \/ hand' = [hand EXCEPT ![p] = Nothing]
    BY DEF Connect, RequestBuf, Leave
  <2>. QED BY <2>1, <2>2
<1>5. /\ out' \in [Client -> Seq(Message)] /\ qnum' \in Int /\ qnum' <= OutCap
      /\ mem' \in [Word -> Nat] /\ owed' \in [Client -> Seq(Nat)]
  BY <1>1 DEF TypeOK
<1>. QED BY <1>1, <1>2, <1>3, <1>4, <1>5, ClientFrame

\* The two ends of router_connect.
LEMMA ConnectAnswerStep ==
    ASSUME RouterInv, NEW p \in Client, ConnectDone(p) \/ ConnectFailed(p)
    PROVE  RouterInv'
<1>1. /\ UNCHANGED <<shmVars, routerVars, inq, hand, mem, owed>> /\ UNCHANGED mb
      /\ TypeOK /\ AskedSize /\ out[p] # << >> /\ Receive(p)
  BY DEF ConnectDone, ConnectFailed, RouterInv, routerVars
<1>2. out' \in [Client -> Seq(Message)] /\ qnum' \in Int /\ qnum' <= OutCap
  BY <1>1, ReceiveStep
<1>3. inq' \in Seq(Message) /\ AskedSize'
  BY <1>1 DEF TypeOK, AskedSize
<1>4. cst' \in [Client -> {"off", "conn", "idle", "get", "use", "fail"}]
  <2>1. cst \in [Client -> {"off", "conn", "idle", "get", "use", "fail"}]
    BY DEF RouterInv, TypeOK
  <2>2. \E v \in {"fail", "idle", "get"} : cst' = [cst EXCEPT ![p] = v]
    BY DEF ConnectDone, ConnectFailed
  <2>. QED BY <2>1, <2>2
<1>5. /\ hand' \in [Client -> [buf : Nat, size : Nat, blk : Nat]]
      /\ mem' \in [Word -> Nat] /\ owed' \in [Client -> Seq(Nat)]
  BY <1>1 DEF TypeOK
<1>. QED BY <1>1, <1>2, <1>3, <1>4, <1>5, ClientFrame

\* A client receives a message: a buffer, an answer to CONNECT, or a refusal.
LEMMA ClientGetBufStep ==
    ASSUME RouterInv, NEW p \in Client, GetBuf(p) PROVE RouterInv'
<1>. DEFINE m == Head(out[p])
            H == [buf : Nat, size : Nat, blk : Nat]
<1>1. /\ UNCHANGED <<shmVars, routerVars, inq>> /\ UNCHANGED mb
      /\ TypeOK /\ AskedSize /\ out[p] # << >> /\ Receive(p)
  BY DEF GetBuf, RouterInv, routerVars
<1>2. /\ m \in Message
      /\ out' \in [Client -> Seq(Message)] /\ qnum' \in Int /\ qnum' <= OutCap
  BY <1>1, ReceiveStep
<1>3. inq' \in Seq(Message) /\ AskedSize'
  BY <1>1 DEF TypeOK, AskedSize
<1>4. /\ m.buf \in Nat /\ m.size \in Nat /\ m.blk \in Nat
  BY <1>2 DEF Message
<1>5. /\ cst \in [Client -> {"off", "conn", "idle", "get", "use", "fail"}]
      /\ hand \in [Client -> H] /\ mem \in [Word -> Nat] /\ owed \in [Client -> Seq(Nat)]
  BY DEF RouterInv, TypeOK
<1>6. NextBlk \subseteq Nat
  BY DEF NextBlk, Blk
<1>7. \/ UNCHANGED <<cst, hand, mem, owed>>
      \/ /\ \E k \in NextBlk :
              /\ hand' = [hand EXCEPT ![p] = [buf |-> m.buf, size |-> m.size, blk |-> k]]
              /\ mem' = [w \in Word |-> IF w \in WordsOf(m.buf, m.size) THEN k ELSE mem[w]]
         /\ cst' = [cst EXCEPT ![p] = "use"]
         /\ UNCHANGED owed
      \/ /\ hand' = [hand EXCEPT ![p] = [buf |-> m.buf, size |-> m.size, blk |-> m.blk]]
         /\ owed' = [owed EXCEPT ![p] = IF @ = << >> THEN @ ELSE Tail(@)]
         /\ cst' = [cst EXCEPT ![p] = "use"]
         /\ UNCHANGED mem
  BY DEF GetBuf
<1>. HIDE DEF m
<1>8. cst' \in [Client -> {"off", "conn", "idle", "get", "use", "fail"}]
  BY <1>5, <1>7
<1>9. hand' \in [Client -> H]
  <2>1. \A k \in Nat : [buf |-> m.buf, size |-> m.size, blk |-> k] \in H
    BY <1>4
  <2>2. hand' = hand \/ \E h \in H : hand' = [hand EXCEPT ![p] = h]
    BY <1>4, <1>6, <1>7, <2>1
  <2>. QED BY <1>5, <2>2
<1>10. mem' \in [Word -> Nat]
  BY <1>5, <1>6, <1>7
<1>11. owed' \in [Client -> Seq(Nat)]
  <2>1. owed[p] # << >> => Tail(owed[p]) \in Seq(Nat)
    BY <1>5, TailRange
  <2>2. owed' = owed \/ owed' = [owed EXCEPT ![p] = IF @ = << >> THEN @ ELSE Tail(@)]
    BY <1>7
  <2>. QED BY <1>5, <2>1, <2>2
<1>. QED BY <1>1, <1>2, <1>3, <1>8, <1>9, <1>10, <1>11, ClientFrame

\* A client releases the buffer it works on.
LEMMA ClientReleaseStep ==
    ASSUME RouterInv, NEW p \in Client, ReleaseBuf(p) PROVE RouterInv'
<1>1. /\ UNCHANGED <<shmVars, routerVars, out, qnum, mem, owed>> /\ UNCHANGED mb
      /\ TypeOK /\ AskedSize
  BY DEF ReleaseBuf, RouterInv, routerVars
<1>2. /\ hand \in [Client -> [buf : Nat, size : Nat, blk : Nat]]
      /\ cst \in [Client -> {"off", "conn", "idle", "get", "use", "fail"}]
      /\ Nothing \in [buf : Nat, size : Nat, blk : Nat]
  BY DEF RouterInv, TypeOK, Nothing, NoBlk
<1>3. hand[p].buf \in Nat /\ hand[p].size \in Nat /\ hand[p].blk \in Nat
  BY <1>2
<1>4. PICK size \in IF p \in Writers
                      THEN {0, hand[p].size, hand[p].size + Overrun} ELSE {0} :
        Send(Msg("RELEASE", p, hand[p].buf, size, IF size > 0 THEN hand[p].blk ELSE NoBlk))
  BY DEF ReleaseBuf
<1>5. size \in Nat /\ (IF size > 0 THEN hand[p].blk ELSE NoBlk) \in Nat
  BY <1>3, LimitAssumption DEF NoBlk
<1>. DEFINE m == Msg("RELEASE", p, hand[p].buf, size, IF size > 0 THEN hand[p].blk ELSE NoBlk)
<1>6. m \in Message /\ m.cmd # "GETBUF"
  BY <1>3, <1>5, MsgType
<1>. HIDE DEF m
<1>7. Send(m)
  BY <1>4 DEF m
<1>8. inq' \in Seq(Message) /\ AskedSize'
  BY <1>1, <1>6, <1>7, SendStep
<1>9. /\ cst' \in [Client -> {"off", "conn", "idle", "get", "use", "fail"}]
      /\ hand' \in [Client -> [buf : Nat, size : Nat, blk : Nat]]
  BY <1>2 DEF ReleaseBuf
<1>10. /\ out' \in [Client -> Seq(Message)] /\ qnum' \in Int /\ qnum' <= OutCap
       /\ mem' \in [Word -> Nat] /\ owed' \in [Client -> Seq(Nat)]
  BY <1>1 DEF TypeOK
<1>. QED BY <1>1, <1>8, <1>9, <1>10, ClientFrame

-----------------------------------------------------------------------------
\* Every step keeps the invariant.
LEMMA RouterInvStep == RouterInv /\ [Next]_vars => RouterInv'
<1>. SUFFICES ASSUME RouterInv, [Next]_vars PROVE RouterInv'
  OBVIOUS
<1>1. CASE RouterNext
  BY <1>1, ListenStep, SndOneStep, DeferStep, ConnectStep, GetBufStep, ReleaseHandlerStep,
     RouteSkipStep, RouteSendStep, RouteEndStep, BeginDisconnectStep, PurgeQueStep,
     DrainOutStep, ReleaseAllStep, RemovePlStep DEF RouterNext
<1>2. CASE \E p \in Client : ClientNext(p)
  BY <1>2, AskStep, ConnectAnswerStep, ClientGetBufStep, ClientReleaseStep DEF ClientNext
<1>3. CASE UNCHANGED vars
  <2>1. /\ UNCHANGED <<shmVars, routerVars>>
        /\ UNCHANGED <<inq, out, qnum, cst, hand, mem, owed, mb>>
    BY <1>3 DEF vars, clientVars, routerVars
  <2>2. AskedSize'
    BY <2>1 DEF RouterInv, AskedSize
  <2>. QED BY <2>1, <2>2, ClientFrame DEF RouterInv, TypeOK
<1>. QED BY <1>1, <1>2, <1>3 DEF Next

\* The state of the router is well typed whatever the clients do.
THEOREM RouterTyping == Spec => []TypeOK
<1>1. RouterInv => TypeOK
  BY DEF RouterInv
<1>. QED BY <1>1, InitInv, RouterInvStep, PTL DEF Spec

\* Whatever the clients do, the router's free and used buffers partition the segment,
\* a buffer is in use exactly while its count is positive, and shm_free_insert never
\* meets a conflict: the router as a whole keeps what the allocator promises.
THEOREM RouterMemory == Spec => [](Partition /\ Counted)
<1>1. RouterInv => Partition /\ Counted
  BY DEF RouterInv, ShmInv, Partition
<1>. QED BY <1>1, InitInv, RouterInvStep, PTL DEF Spec

\* No process is ever given more buffers than RTR_MAXWRITEBUF, RTR_MAXSAMPBUF or
\* RTR_MAXSENDBUF allow, for any limits and any number of processes.
THEOREM RouterLimits == Spec => []Limits
<1>1. RouterInv => Limits
  BY DEF RouterInv
<1>. QED BY <1>1, InitInv, RouterInvStep, PTL DEF Spec
=============================================================================
