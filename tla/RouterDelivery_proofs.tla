------------------------ MODULE RouterDelivery_proofs ------------------------
(***************************************************************************)
(* What the readers get: whatever a reader has been told of is there to be *)
(* read and has the contents its writer gave it, and a must reader gets    *)
(* every block, once and in the order of release.                          *)
(*                                                                         *)
(* The first part rests on the books (RouterBooks_proofs): all who know of *)
(* a buffer have it in their lists, so it stays in use, and the writer who *)
(* gets a buffer is alone to have it, so filling it disturbs no one        *)
(* (Contents).  The second part follows the messages from send_buf through *)
(* both queues: no step takes a block out of a must reader's way but the   *)
(* reader itself (the lemmas on InOrder).                                  *)
(***************************************************************************)
EXTENDS RouterBooks_proofs

\* The words of size bytes at b belong to the block k.
Holds(b, size, k) == \A w \in WordsOf(b, size) : mem[w] = k

\* m brings a reader part of the buffer u.
Filled(m, u) == m.size <= u.size /\ Holds(m.buf, m.size, m.blk)

\* What is said of a buffer u in use is true of it.  Readers are told of a part of it that
\* has the block, and a writer is granted all of it; ...
GrantsTrue(u) ==
    \A p \in Client : \A m \in Range(que) \cup Range(out[p]) :
      m.cmd = "BUFFER" /\ m.pid = p /\ m.buf = u.buf =>
        IF p \in Writers THEN m.size = u.size ELSE Filled(m, u)

\* ... who works on it has what it was told of, and a writer has filled all of it; ...
HandsTrue(u) ==
    \A p \in Client : cst[p] = "use" /\ hand[p].buf = u.buf =>
      Filled(hand[p], u) /\ (p \in Writers => hand[p].size = u.size)

\* ... and when it has been released, and while it is routed, it has the block.
ReleasesTrue(u) ==
    \A m \in Range(inq) \cup Range(mb) :
      m.cmd = "RELEASE" /\ m.pid \in Writers /\ m.size > 0 /\ m.buf = u.buf =>
        Holds(u.buf, u.size, m.blk)

RoutedTrue(u) == Routing /\ cur.buf = u.buf => Holds(u.buf, u.size, cur.blk)

Contents ==
    \A u \in used : GrantsTrue(u) /\ HandsTrue(u) /\ ReleasesTrue(u) /\ RoutedTrue(u)

\* The answer to a reader's CONNECT comes before any block.
AnswerAhead ==
    \A p \in Readers \cap Range(pl) : cst[p] = "conn" =>
      \/ out[p] # << >> /\ Head(out[p]).cmd = "CONNECT"
      \/ out[p] = << >> /\ \E m \in Range(que) : m.pid = p /\ m.cmd = "CONNECT"

-----------------------------------------------------------------------------
(* The order of blocks on their way                                        *)

\* A step that moves the blocks to p, but keeps their order, keeps InOrder.
LEMMA CarryOrder ==
    ASSUME NEW p, NEW t, NEW s, NEW s2, NEW g \in [BlocksTo(s, p) -> BlocksTo(s2, p)],
           \A j, k \in BlocksTo(s, p) : j < k => g[j] < g[k],
           \A k \in BlocksTo(s2, p) : \E j \in BlocksTo(s, p) : g[j] = k,
           \A j \in BlocksTo(s, p) : s2[g[j]].blk = s[j].blk,
           InOrder(t, s, p)
    PROVE  InOrder(t, s2, p)
<1>1. PICK at \in [DOMAIN t -> BlocksTo(s, p)] :
        /\ \A i, j \in DOMAIN t : i < j => at[i] < at[j]
        /\ \A k \in BlocksTo(s, p) : \E i \in DOMAIN t : at[i] = k
        /\ \A i \in DOMAIN t : s[at[i]].blk = t[i]
  BY DEF InOrder
<1>. DEFINE at2 == [i \in DOMAIN t |-> g[at[i]]]
<1>2. at2 \in [DOMAIN t -> BlocksTo(s2, p)]
  OBVIOUS
<1>3. \A i, j \in DOMAIN t : i < j => at2[i] < at2[j]
  BY <1>1
<1>4. \A k \in BlocksTo(s2, p) : \E i \in DOMAIN t : at2[i] = k
  BY <1>1
<1>5. \A i \in DOMAIN t : s2[at2[i]].blk = t[i]
  BY <1>1
<1>. QED BY <1>2, <1>3, <1>4, <1>5 DEF InOrder

\* The same messages to p in the same places.
LEMMA SameOrder ==
    ASSUME NEW p, NEW t, NEW s, NEW s2, BlocksTo(s, p) = BlocksTo(s2, p),
           \A j \in BlocksTo(s, p) : s2[j].blk = s[j].blk,
           InOrder(t, s, p)
    PROVE  InOrder(t, s2, p)
BY DEF InOrder

\* A message that brings p no block comes or goes.
LEMMA RemoveOrder ==
    ASSUME NEW p, NEW t, NEW n \in Nat, NEW s, NEW s2, DOMAIN s = 1 .. n + 1, DOMAIN s2 = 1 .. n,
           NEW i \in 1 .. n + 1, i \notin BlocksTo(s, p),
           \A j \in 1 .. n : s2[j] = s[IF j < i THEN j ELSE j + 1]
    PROVE  InOrder(t, s, p) <=> InOrder(t, s2, p)
<1>. DEFINE A == BlocksTo(s, p)
            B == BlocksTo(s2, p)
            g == [k \in A |-> IF k < i THEN k ELSE k - 1]
            h == [k \in B |-> IF k < i THEN k ELSE k + 1]
<1>1. \A k \in B : /\ k \in 1 .. n /\ h[k] \in 1 .. n + 1 /\ h[k] # i /\ s2[k] = s[h[k]]
                   /\ h[k] \in A
  BY DEF BlocksTo
<1>2. \A k \in A : k \in 1 .. n + 1 /\ k # i /\ g[k] \in 1 .. n /\ s2[g[k]] = s[k]
  <2>. SUFFICES ASSUME NEW k \in A
                PROVE  k \in 1 .. n + 1 /\ k # i /\ g[k] \in 1 .. n /\ s2[g[k]] = s[k]
    OBVIOUS
  <2>1. k \in 1 .. n + 1 /\ k # i
    BY DEF BlocksTo
  <2>2. CASE k < i
    BY <2>1, <2>2
  <2>3. CASE ~ (k < i)
    <3>1. g[k] = k - 1 /\ k - 1 \in 1 .. n /\ ~ (k - 1 < i) /\ (k - 1) + 1 = k
      BY <2>1, <2>3
    <3>. QED BY <2>1, <3>1
  <2>. QED BY <2>2, <2>3
<1>3. \A k \in A : g[k] \in B
  BY <1>2 DEF BlocksTo
<1>4. (\A k \in A : k < i => g[k] = k) /\ (\A k \in A : ~ (k < i) => g[k] = k - 1)
  OBVIOUS
<1>5. (\A k \in B : k < i => h[k] = k) /\ (\A k \in B : ~ (k < i) => h[k] = k + 1)
  OBVIOUS
<1>6. g \in [A -> B] /\ h \in [B -> A]
  BY <1>1, <1>3
<1>. HIDE DEF g, h
<1>7. \A j, k \in A : j < k => g[j] < g[k]
  BY <1>2, <1>4
<1>8. \A j, k \in B : j < k => h[j] < h[k]
  BY <1>1, <1>5
<1>9. \A k \in B : g[h[k]] = k
  BY <1>1, <1>4, <1>5
<1>10. \A k \in A : h[g[k]] = k
  BY <1>2, <1>3, <1>4, <1>5
<1>. HIDE DEF A, B
<1>11. (\A k \in B : \E j \in A : g[j] = k) /\ (\A k \in A : \E j \in B : h[j] = k)
  BY <1>6, <1>9, <1>10
<1>12. (\A j \in A : s2[g[j]].blk = s[j].blk) /\ (\A j \in B : s[h[j]].blk = s2[j].blk)
  BY <1>1, <1>2
<1>13. ASSUME InOrder(t, s, p) PROVE InOrder(t, s2, p)
  BY <1>6, <1>7, <1>11, <1>12, <1>13, CarryOrder DEF A, B
<1>14. ASSUME InOrder(t, s2, p) PROVE InOrder(t, s, p)
  BY <1>6, <1>8, <1>11, <1>12, <1>14, CarryOrder DEF A, B
<1>. QED BY <1>13, <1>14

\* A block joins the end.
LEMMA AppendOrder ==
    ASSUME NEW p, NEW t \in Seq(Nat), NEW b \in Nat, NEW n \in Nat, NEW s, NEW s2,
           DOMAIN s = 1 .. n, DOMAIN s2 = 1 .. n + 1, \A i \in 1 .. n : s2[i] = s[i],
           s2[n + 1].cmd = "BUFFER", s2[n + 1].pid = p, s2[n + 1].blk = b,
           InOrder(t, s, p)
    PROVE  InOrder(Append(t, b), s2, p)
<1>. DEFINE t2 == Append(t, b)
<1>1. /\ Len(t) \in Nat /\ DOMAIN t = 1 .. Len(t) /\ DOMAIN t2 = 1 .. Len(t) + 1
      /\ \A i \in 1 .. Len(t) : t2[i] = t[i]
      /\ t2[Len(t) + 1] = b
  BY AppendAt
<1>2. PICK at \in [DOMAIN t -> BlocksTo(s, p)] :
        /\ \A i, j \in DOMAIN t : i < j => at[i] < at[j]
        /\ \A k \in BlocksTo(s, p) : \E i \in DOMAIN t : at[i] = k
        /\ \A i \in DOMAIN t : s[at[i]].blk = t[i]
  BY DEF InOrder
<1>3. BlocksTo(s2, p) = BlocksTo(s, p) \cup {n + 1} /\ BlocksTo(s, p) \subseteq 1 .. n
  BY DEF BlocksTo
<1>. DEFINE at2 == [i \in DOMAIN t2 |-> IF i = Len(t) + 1 THEN n + 1 ELSE at[i]]
<1>. HIDE DEF t2
<1>4. /\ \A i \in DOMAIN t : at2[i] = at[i] /\ at2[i] \in 1 .. n /\ i \in DOMAIN t2
      /\ at2[Len(t) + 1] = n + 1 /\ Len(t) + 1 \in DOMAIN t2
  BY <1>1, <1>3
<1>5. at2 \in [DOMAIN t2 -> BlocksTo(s2, p)]
  BY <1>1, <1>3, <1>4
<1>. HIDE DEF at2
<1>6. \A i, j \in DOMAIN t2 : i < j => at2[i] < at2[j]
  <2>. SUFFICES ASSUME NEW i \in DOMAIN t2, NEW j \in DOMAIN t2, i < j PROVE at2[i] < at2[j]
    OBVIOUS
  <2>1. i \in DOMAIN t
    BY <1>1
  <2>2. CASE j \in DOMAIN t
    BY <1>2, <1>4, <2>1, <2>2
  <2>3. CASE j = Len(t) + 1
    BY <1>4, <2>1, <2>3
  <2>. QED BY <1>1, <2>2, <2>3
<1>7. \A k \in BlocksTo(s2, p) : \E i \in DOMAIN t2 : at2[i] = k
  BY <1>2, <1>3, <1>4
<1>8. \A i \in DOMAIN t2 : s2[at2[i]].blk = t2[i]
  <2>. SUFFICES ASSUME NEW i \in DOMAIN t2 PROVE s2[at2[i]].blk = t2[i]
    OBVIOUS
  <2>1. CASE i \in DOMAIN t
    BY <1>1, <1>2, <1>4, <2>1
  <2>2. CASE i = Len(t) + 1
    BY <1>1, <1>4, <2>2
  <2>. QED BY <1>1, <2>1, <2>2
<1>9. InOrder(t2, s2, p)
  BY <1>5, <1>6, <1>7, <1>8 DEF InOrder
<1>. QED BY <1>9 DEF t2

\* The block in front goes.
LEMMA TailOrder ==
    ASSUME NEW p, NEW t \in Seq(Nat), NEW n \in Nat, NEW s, NEW s2,
           DOMAIN s = 1 .. n + 1, DOMAIN s2 = 1 .. n, \A i \in 1 .. n : s2[i] = s[i + 1],
           s[1].cmd = "BUFFER", s[1].pid = p,
           InOrder(t, s, p)
    PROVE  t # << >> /\ InOrder(Tail(t), s2, p)
<1>1. PICK at \in [DOMAIN t -> BlocksTo(s, p)] :
        /\ \A i, j \in DOMAIN t : i < j => at[i] < at[j]
        /\ \A k \in BlocksTo(s, p) : \E i \in DOMAIN t : at[i] = k
        /\ \A i \in DOMAIN t : s[at[i]].blk = t[i]
  BY DEF InOrder
<1>2. /\ BlocksTo(s, p) \subseteq 1 .. n + 1 /\ BlocksTo(s2, p) \subseteq 1 .. n
      /\ 1 \in BlocksTo(s, p)
      /\ \A k \in 1 .. n : k \in BlocksTo(s2, p) <=> k + 1 \in BlocksTo(s, p)
  BY DEF BlocksTo
<1>3. t # << >>
  <2>1. DOMAIN t # {}
    BY <1>1, <1>2
  <2>. QED BY <2>1, EmptySeq
<1>. DEFINE t2 == Tail(t)
<1>4. /\ Len(t) \in Nat \ {0} /\ DOMAIN t = 1 .. Len(t) /\ DOMAIN t2 = 1 .. Len(t) - 1
      /\ \A i \in 1 .. Len(t) - 1 : t2[i] = t[i + 1]
  BY <1>3, TailAt
<1>. HIDE DEF t2
<1>5. \A i \in DOMAIN t : at[i] \in 1 .. n + 1
  BY <1>1, <1>2
<1>6. at[1] = 1
  <2>1. PICK i \in DOMAIN t : at[i] = 1
    BY <1>1, <1>2
  <2>2. ASSUME i # 1 PROVE FALSE
    <3>1. 1 \in DOMAIN t /\ 1 < i
      BY <1>4, <2>2
    <3>2. at[1] < at[i] /\ at[1] \in 1 .. n + 1
      BY <1>1, <1>5, <3>1
    <3>. QED BY <2>1, <3>2
  <2>. QED BY <2>1, <2>2
<1>. DEFINE at2 == [i \in DOMAIN t2 |-> at[i + 1] - 1]
<1>7. \A i \in DOMAIN t2 : i + 1 \in DOMAIN t /\ at2[i] = at[i + 1] - 1 /\ at[i + 1] \in 2 .. n + 1
  <2>. SUFFICES ASSUME NEW i \in DOMAIN t2
                PROVE  i + 1 \in DOMAIN t /\ at[i + 1] \in 2 .. n + 1
    OBVIOUS
  <2>1. 1 \in DOMAIN t /\ i + 1 \in DOMAIN t /\ 1 < i + 1
    BY <1>4
  <2>2. at[1] < at[i + 1] /\ at[i + 1] \in 1 .. n + 1
    BY <1>1, <1>5, <2>1
  <2>. QED BY <1>6, <2>1, <2>2
<1>8. \A i \in DOMAIN t2 : at2[i] \in 1 .. n /\ at2[i] + 1 = at[i + 1]
  BY <1>7
<1>. HIDE DEF at2
<1>9. \A i \in DOMAIN t2 : at2[i] \in BlocksTo(s2, p)
  BY <1>1, <1>2, <1>7, <1>8
<1>10. at2 \in [DOMAIN t2 -> BlocksTo(s2, p)]
  BY <1>9 DEF at2
<1>11. \A i, j \in DOMAIN t2 : i < j => at2[i] < at2[j]
  <2>. SUFFICES ASSUME NEW i \in DOMAIN t2, NEW j \in DOMAIN t2, i < j PROVE at2[i] < at2[j]
    OBVIOUS
  <2>1. i + 1 \in DOMAIN t /\ j + 1 \in DOMAIN t /\ i + 1 < j + 1
    BY <1>4, <1>7
  <2>2. at[i + 1] < at[j + 1]
    BY <1>1, <2>1
  <2>. QED BY <1>7, <2>2
<1>12. \A k \in BlocksTo(s2, p) : \E i \in DOMAIN t2 : at2[i] = k
  <2>. SUFFICES ASSUME NEW k \in BlocksTo(s2, p) PROVE \E i \in DOMAIN t2 : at2[i] = k
    OBVIOUS
  <2>1. k \in 1 .. n /\ k + 1 \in BlocksTo(s, p)
    BY <1>2
  <2>2. PICK i \in DOMAIN t : at[i] = k + 1
    BY <1>1, <2>1
  <2>3. i # 1
    BY <1>6, <2>1, <2>2
  <2>4. i - 1 \in DOMAIN t2 /\ (i - 1) + 1 = i
    BY <1>4, <2>3
  <2>5. at2[i - 1] = k
    BY <1>7, <2>1, <2>2, <2>4
  <2>. QED BY <2>4, <2>5
<1>13. \A i \in DOMAIN t2 : s2[at2[i]].blk = t2[i]
  <2>. SUFFICES ASSUME NEW i \in DOMAIN t2 PROVE s2[at2[i]].blk = t2[i]
    OBVIOUS
  <2>1. s2[at2[i]] = s[at[i + 1]]
    BY <1>8
  <2>. QED BY <1>1, <1>4, <1>7, <2>1
<1>14. InOrder(t2, s2, p)
  BY <1>10, <1>11, <1>12, <1>13 DEF InOrder
<1>. QED BY <1>3, <1>14 DEF t2

-----------------------------------------------------------------------------
(* The three parts of the way to a reader                                  *)

\* s is a, b and v one behind the other.
InTurn(s, a, b, v) ==
    /\ Len(a) \in Nat /\ Len(b) \in Nat /\ Len(v) \in Nat
    /\ DOMAIN s = 1 .. Len(a) + Len(b) + Len(v)
    /\ \A i \in 1 .. Len(a) + Len(b) + Len(v) :
         s[i] = IF i <= Len(a) THEN a[i]
                ELSE IF i <= Len(a) + Len(b) THEN b[i - Len(a)]
                ELSE v[i - (Len(a) + Len(b))]

\* Where the messages of the kernel queue, of the router and the blocks coming stand on the way to p.
LEMMA WayAt ==
    ASSUME NEW a \in Seq(Message), NEW b \in Seq(Message), NEW v \in Seq(Message)
    PROVE  InTurn((a \o b) \o v, a, b, v)
<1>. DEFINE c == a \o b
            s == c \o v
<1>1. Len(a) \in Nat /\ Len(b) \in Nat /\ Len(v) \in Nat
  BY LenProperties
<1>2. /\ c \in Seq(Message) /\ Len(c) = Len(a) + Len(b)
      /\ \A i \in 1 .. Len(a) + Len(b) : c[i] = IF i <= Len(a) THEN a[i] ELSE b[i - Len(a)]
  BY ConcatProperties
<1>2a. c \in Seq(Message)
  BY <1>2
<1>. HIDE DEF c
<1>3. /\ s \in Seq(Message) /\ Len(s) = Len(c) + Len(v)
      /\ \A i \in 1 .. Len(c) + Len(v) : s[i] = IF i <= Len(c) THEN c[i] ELSE v[i - Len(c)]
  BY <1>2a, ConcatProperties
<1>4. DOMAIN s = 1 .. Len(a) + Len(b) + Len(v)
  BY <1>2, <1>3, LenProperties
<1>. HIDE DEF s
<1>5. ASSUME NEW i \in 1 .. Len(a) + Len(b) + Len(v)
      PROVE  s[i] = IF i <= Len(a) THEN a[i]
                    ELSE IF i <= Len(a) + Len(b) THEN b[i - Len(a)]
                    ELSE v[i - (Len(a) + Len(b))]
  <2>1. s[i] = IF i <= Len(c) THEN c[i] ELSE v[i - Len(c)]
    BY <1>1, <1>2, <1>3
  <2>2. CASE i <= Len(c)
    BY <1>1, <1>2, <2>1, <2>2
  <2>3. CASE ~ (i <= Len(c))
    BY <1>1, <1>2, <2>1, <2>3
  <2>. QED BY <2>2, <2>3
<1>. QED BY <1>1, <1>4, <1>5 DEF InTurn, s, c

\* The reader takes a message.
LEMMA WayReceive ==
    ASSUME NEW p, NEW t \in Seq(Nat), NEW a \in Seq(Message), NEW b \in Seq(Message),
           NEW v \in Seq(Message), a # << >>, Head(a).pid = p,
           InOrder(t, (a \o b) \o v, p)
    PROVE  /\ Head(a).cmd = "BUFFER" =>
                t # << >> /\ InOrder(Tail(t), (Tail(a) \o b) \o v, p)
           /\ Head(a).cmd # "BUFFER" => InOrder(t, (Tail(a) \o b) \o v, p)
<1>. DEFINE s  == (a \o b) \o v
            s2 == (Tail(a) \o b) \o v
            n  == Len(a) + Len(b) + Len(v) - 1
<1>1. /\ Len(a) \in Nat \ {0} /\ Tail(a) \in Seq(Message) /\ Len(Tail(a)) = Len(a) - 1
      /\ \A i \in 1 .. Len(a) - 1 : Tail(a)[i] = a[i + 1]
      /\ Head(a) = a[1]
  BY TailAt
<1>2. Len(b) \in Nat /\ Len(v) \in Nat /\ n \in Nat
  BY <1>1, LenProperties
<1>3. /\ DOMAIN s = 1 .. n + 1
      /\ \A i \in 1 .. n + 1 :
           s[i] = IF i <= Len(a) THEN a[i]
                  ELSE IF i <= Len(a) + Len(b) THEN b[i - Len(a)]
                  ELSE v[i - (Len(a) + Len(b))]
  <2>1. n + 1 = Len(a) + Len(b) + Len(v)
    BY <1>1, <1>2
  <2>2. InTurn(s, a, b, v)
    BY WayAt
  <2>. QED BY <2>1, <2>2 DEF InTurn
<1>4. /\ DOMAIN s2 = 1 .. n
      /\ \A i \in 1 .. n :
           s2[i] = IF i <= Len(a) - 1 THEN Tail(a)[i]
                   ELSE IF i <= Len(a) - 1 + Len(b) THEN b[i - (Len(a) - 1)]
                   ELSE v[i - (Len(a) - 1 + Len(b))]
  <2>1. Len(a) - 1 + Len(b) + Len(v) = n
    BY <1>1, <1>2
  <2>2. InTurn(s2, Tail(a), b, v)
    BY <1>1, WayAt
  <2>. QED BY <1>1, <2>1, <2>2 DEF InTurn
<1>. HIDE DEF s, s2
<1>5. s[1] = Head(a)
  BY <1>1, <1>2, <1>3
<1>6. \A i \in 1 .. n : s2[i] = s[i + 1]
  <2>. SUFFICES ASSUME NEW i \in 1 .. n PROVE s2[i] = s[i + 1]
    OBVIOUS
  <2>1. i + 1 \in 1 .. n + 1
    BY <1>2
  <2>2. CASE i <= Len(a) - 1
    BY <1>1, <1>2, <1>3, <1>4, <2>1, <2>2
  <2>3. CASE ~ (i <= Len(a) - 1) /\ i <= Len(a) - 1 + Len(b)
    <3>1. i - (Len(a) - 1) = i + 1 - Len(a) /\ ~ (i + 1 <= Len(a)) /\ i + 1 <= Len(a) + Len(b)
      BY <1>1, <1>2, <2>3
    <3>2. s2[i] = b[i - (Len(a) - 1)]
      BY <1>4, <2>3
    <3>3. s[i + 1] = b[i + 1 - Len(a)]
      BY <1>3, <2>1, <3>1
    <3>. QED BY <3>1, <3>2, <3>3
  <2>4. CASE ~ (i <= Len(a) - 1) /\ ~ (i <= Len(a) - 1 + Len(b))
    <3>1. /\ i - (Len(a) - 1 + Len(b)) = i + 1 - (Len(a) + Len(b))
          /\ ~ (i + 1 <= Len(a)) /\ ~ (i + 1 <= Len(a) + Len(b))
      BY <1>1, <1>2, <2>4
    <3>. QED BY <1>3, <1>4, <2>1, <2>4, <3>1
  <2>. QED BY <2>2, <2>3, <2>4
<1>7. DOMAIN s = 1 .. n + 1 /\ DOMAIN s2 = 1 .. n /\ n \in Nat /\ InOrder(t, s, p)
  BY <1>2, <1>3, <1>4 DEF s
<1>. HIDE DEF n
<1>8. CASE Head(a).cmd = "BUFFER"
  <2>1. s[1].cmd = "BUFFER" /\ s[1].pid = p
    BY <1>5, <1>8
  <2>2. t # << >> /\ InOrder(Tail(t), s2, p)
    BY <1>6, <1>7, <2>1, TailOrder
  <2>. QED BY <1>8, <2>2 DEF s2
<1>9. CASE Head(a).cmd # "BUFFER"
  <2>1. 1 \in 1 .. n + 1 /\ 1 \notin BlocksTo(s, p)
    BY <1>5, <1>7, <1>9 DEF BlocksTo
  <2>2. \A j \in 1 .. n : s2[j] = s[IF j < 1 THEN j ELSE j + 1]
    BY <1>6, <1>7
  <2>3. InOrder(t, s, p) <=> InOrder(t, s2, p)
    BY <1>7, <2>1, <2>2, RemoveOrder
  <2>. QED BY <1>7, <1>9, <2>3 DEF s2
<1>. QED BY <1>8, <1>9

\* A message that brings p no block joins or leaves the queue of the router.
LEMMA WayRemove ==
    ASSUME NEW p, NEW t, NEW a \in Seq(Message), NEW b \in Seq(Message), NEW b2 \in Seq(Message),
           NEW v \in Seq(Message), NEW k \in 1 .. Len(b), ~ (b[k].cmd = "BUFFER" /\ b[k].pid = p),
           Len(b2) = Len(b) - 1, \A j \in 1 .. Len(b) - 1 : b2[j] = b[IF j < k THEN j ELSE j + 1]
    PROVE  InOrder(t, (a \o b) \o v, p) <=> InOrder(t, (a \o b2) \o v, p)
<1>. DEFINE s  == (a \o b) \o v
            s2 == (a \o b2) \o v
            n  == Len(a) + Len(b) + Len(v) - 1
            i  == Len(a) + k
<1>1. /\ Len(a) \in Nat /\ Len(b) \in Nat \ {0} /\ Len(v) \in Nat /\ n \in Nat /\ i \in 1 .. n + 1
  BY LenProperties
<1>2. /\ DOMAIN s = 1 .. n + 1
      /\ \A j \in 1 .. n + 1 :
           s[j] = IF j <= Len(a) THEN a[j]
                  ELSE IF j <= Len(a) + Len(b) THEN b[j - Len(a)]
                  ELSE v[j - (Len(a) + Len(b))]
  <2>1. n + 1 = Len(a) + Len(b) + Len(v)
    BY <1>1
  <2>2. InTurn(s, a, b, v)
    BY WayAt
  <2>. QED BY <2>1, <2>2 DEF InTurn
<1>3. /\ DOMAIN s2 = 1 .. n
      /\ \A j \in 1 .. n :
           s2[j] = IF j <= Len(a) THEN a[j]
                   ELSE IF j <= Len(a) + (Len(b) - 1) THEN b2[j - Len(a)]
                   ELSE v[j - (Len(a) + (Len(b) - 1))]
  <2>1. Len(a) + (Len(b) - 1) + Len(v) = n
    BY <1>1
  <2>2. InTurn(s2, a, b2, v)
    BY WayAt
  <2>. QED BY <2>1, <2>2 DEF InTurn
<1>. HIDE DEF s, s2
<1>4. i \notin BlocksTo(s, p)
  <2>1. s[i] = b[k]
    BY <1>1, <1>2
  <2>. QED BY <2>1 DEF BlocksTo
<1>5. \A j \in 1 .. n : s2[j] = s[IF j < i THEN j ELSE j + 1]
  <2>. SUFFICES ASSUME NEW j \in 1 .. n PROVE s2[j] = s[IF j < i THEN j ELSE j + 1]
    OBVIOUS
  <2>1. j + 1 \in 1 .. n + 1 /\ j \in 1 .. n + 1
    BY <1>1
  <2>2. CASE j <= Len(a)
    BY <1>1, <1>2, <1>3, <2>1, <2>2
  <2>3. CASE ~ (j <= Len(a)) /\ j <= Len(a) + (Len(b) - 1)
    <3>1. j - Len(a) \in 1 .. Len(b) - 1 /\ j + 1 - Len(a) = j - Len(a) + 1
          /\ (j < i <=> j - Len(a) < k) /\ ~ (j + 1 <= Len(a)) /\ j + 1 <= Len(a) + Len(b)
          /\ j <= Len(a) + Len(b)
      BY <1>1, <2>3
    <3>2. s2[j] = b[IF j - Len(a) < k THEN j - Len(a) ELSE j - Len(a) + 1]
      BY <1>3, <2>3, <3>1
    <3>3. s[j] = b[j - Len(a)] /\ s[j + 1] = b[j - Len(a) + 1]
      BY <1>2, <2>1, <2>3, <3>1
    <3>. QED BY <3>1, <3>2, <3>3
  <2>4. CASE ~ (j <= Len(a)) /\ ~ (j <= Len(a) + (Len(b) - 1))
    <3>1. /\ j - (Len(a) + (Len(b) - 1)) = j + 1 - (Len(a) + Len(b)) /\ ~ (j < i)
          /\ ~ (j + 1 <= Len(a)) /\ ~ (j + 1 <= Len(a) + Len(b))
      BY <1>1, <2>4
    <3>. QED BY <1>2, <1>3, <2>1, <2>4, <3>1
  <2>. QED BY <2>2, <2>3, <2>4
<1>. HIDE DEF n, i
<1>6. InOrder(t, s, p) <=> InOrder(t, s2, p)
  BY <1>1, <1>2, <1>3, <1>4, <1>5, RemoveOrder
<1>. QED BY <1>6 DEF s, s2

\* A message that brings p no block joins the end of the queue of the router.
LEMMA WayJoin ==
    ASSUME NEW p, NEW t, NEW a \in Seq(Message), NEW b \in Seq(Message), NEW v \in Seq(Message),
           NEW m \in Message, ~ (m.cmd = "BUFFER" /\ m.pid = p),
           InOrder(t, (a \o b) \o v, p)
    PROVE  InOrder(t, (a \o Append(b, m)) \o v, p)
<1>. DEFINE c == Append(b, m)
<1>1. /\ c \in Seq(Message) /\ Len(b) \in Nat /\ Len(c) = Len(b) + 1
      /\ \A i \in 1 .. Len(b) : c[i] = b[i]
      /\ c[Len(b) + 1] = m
  BY AppendAt
<1>. HIDE DEF c
<1>2. Len(b) + 1 \in 1 .. Len(c) /\ Len(b) = Len(c) - 1
  BY <1>1
<1>3. \A j \in 1 .. Len(c) - 1 : b[j] = c[IF j < Len(b) + 1 THEN j ELSE j + 1]
  BY <1>1
<1>4. InOrder(t, (a \o c) \o v, p) <=> InOrder(t, (a \o b) \o v, p)
  BY <1>1, <1>2, <1>3, WayRemove
<1>. QED BY <1>4 DEF c

\* que_snd: the head of the queue of the router goes to the kernel, to p or to another.
LEMMA WayHead ==
    ASSUME NEW p, NEW t, NEW a \in Seq(Message), NEW b \in Seq(Message), NEW v \in Seq(Message),
           b # << >>, InOrder(t, (a \o b) \o v, p)
    PROVE  /\ InOrder(t, (Append(a, Head(b)) \o Tail(b)) \o v, p)
           /\ Head(b).pid # p => InOrder(t, (a \o Tail(b)) \o v, p)
<1>1. /\ Tail(b) \in Seq(Message) /\ Len(b) \in Nat \ {0} /\ Len(Tail(b)) = Len(b) - 1
      /\ \A i \in 1 .. Len(b) - 1 : Tail(b)[i] = b[i + 1]
      /\ Head(b) = b[1] /\ Head(b) \in Message
  BY TailAt
<1>2. ASSUME Head(b).pid # p PROVE InOrder(t, (a \o Tail(b)) \o v, p)
  <2>1. 1 \in 1 .. Len(b) /\ ~ (b[1].cmd = "BUFFER" /\ b[1].pid = p)
    BY <1>1, <1>2
  <2>2. \A j \in 1 .. Len(b) - 1 : Tail(b)[j] = b[IF j < 1 THEN j ELSE j + 1]
    BY <1>1
  <2>3. Tail(b) \in Seq(Message) /\ Len(Tail(b)) = Len(b) - 1
    BY <1>1
  <2>4. InOrder(t, (a \o b) \o v, p) <=> InOrder(t, (a \o Tail(b)) \o v, p)
    BY <2>1, <2>2, <2>3, WayRemove
  <2>. QED BY <2>4
<1>. DEFINE a2 == Append(a, Head(b))
            b2 == Tail(b)
            s  == (a \o b) \o v
            s2 == (a2 \o b2) \o v
            n  == Len(a) + Len(b) + Len(v)
<1>3. /\ a2 \in Seq(Message) /\ Len(a) \in Nat /\ Len(a2) = Len(a) + 1
      /\ \A i \in 1 .. Len(a) : a2[i] = a[i]
      /\ a2[Len(a) + 1] = b[1]
  BY <1>1, AppendAt
<1>4. /\ b2 \in Seq(Message) /\ Len(b) \in Nat \ {0} /\ Len(b2) = Len(b) - 1
      /\ \A i \in 1 .. Len(b) - 1 : b2[i] = b[i + 1]
  BY <1>1
<1>5. Len(v) \in Nat
  BY LenProperties
<1>. HIDE DEF a2, b2
<1>6. /\ DOMAIN s = 1 .. n
      /\ \A j \in 1 .. n :
           s[j] = IF j <= Len(a) THEN a[j]
                  ELSE IF j <= Len(a) + Len(b) THEN b[j - Len(a)]
                  ELSE v[j - (Len(a) + Len(b))]
  <2>1. InTurn(s, a, b, v)
    BY WayAt
  <2>. QED BY <2>1 DEF InTurn
<1>7. /\ DOMAIN s2 = 1 .. n
      /\ \A j \in 1 .. n :
           s2[j] = IF j <= Len(a) + 1 THEN a2[j]
                   ELSE IF j <= Len(a) + Len(b) THEN b2[j - (Len(a) + 1)]
                   ELSE v[j - (Len(a) + Len(b))]
  <2>1. InTurn(s2, a2, b2, v)
    BY <1>3, <1>4, WayAt
  <2>2. Len(a2) + Len(b2) = Len(a) + Len(b) /\ Len(a2) = Len(a) + 1
    BY <1>3, <1>4
  <2>. QED BY <2>1, <2>2 DEF InTurn
<1>. HIDE DEF s, s2
<1>8. \A j \in 1 .. n : s2[j] = s[j]
  <2>. SUFFICES ASSUME NEW j \in 1 .. n PROVE s2[j] = s[j]
    OBVIOUS
  <2>1. CASE j <= Len(a)
    <3>1. j <= Len(a) + 1 /\ j \in 1 .. Len(a)
      BY <1>3, <1>4, <1>5, <2>1
    <3>2. s2[j] = a2[j] /\ s[j] = a[j]
      BY <1>6, <1>7, <2>1, <3>1
    <3>. QED BY <1>3, <3>1, <3>2
  <2>2. CASE j = Len(a) + 1
    BY <1>3, <1>4, <1>5, <1>6, <1>7, <2>2
  <2>3. CASE ~ (j <= Len(a) + 1) /\ j <= Len(a) + Len(b)
    <3>1. /\ j - (Len(a) + 1) \in 1 .. Len(b) - 1 /\ j - (Len(a) + 1) + 1 = j - Len(a)
          /\ ~ (j <= Len(a))
      BY <1>3, <1>4, <2>3
    <3>2. s2[j] = b2[j - (Len(a) + 1)]
      BY <1>7, <2>3
    <3>3. s[j] = b[j - Len(a)]
      BY <1>6, <2>3, <3>1
    <3>. QED BY <1>4, <3>1, <3>2, <3>3
  <2>4. CASE ~ (j <= Len(a) + 1) /\ ~ (j <= Len(a) + Len(b))
    <3>1. ~ (j <= Len(a))
      BY <1>3, <2>4
    <3>2. s2[j] = v[j - (Len(a) + Len(b))]
      BY <1>7, <2>4
    <3>3. s[j] = v[j - (Len(a) + Len(b))]
      BY <1>6, <2>4, <3>1
    <3>. QED BY <3>2, <3>3
  <2>. QED BY <1>3, <2>1, <2>2, <2>3, <2>4
<1>9. BlocksTo(s2, p) = BlocksTo(s, p) /\ \A j \in BlocksTo(s, p) : s2[j].blk = s[j].blk
  BY <1>6, <1>7, <1>8 DEF BlocksTo
<1>10. InOrder(t, s2, p)
  BY <1>9, SameOrder DEF s
<1>. QED BY <1>2, <1>10 DEF s2, a2, b2

\* send_buf comes to p: the message takes the place of the block that was coming.
LEMMA WayArrive ==
    ASSUME NEW p, NEW t, NEW a \in Seq(Message), NEW b \in Seq(Message),
           NEW m \in Message, NEW x \in Message,
           m.cmd = x.cmd, m.pid = x.pid, m.blk = x.blk, InOrder(t, (a \o b) \o <<x>>, p)
    PROVE  InOrder(t, (a \o Append(b, m)) \o << >>, p)
<1>. DEFINE c  == Append(b, m)
            u  == <<x>>
            e  == << >>
            s  == (a \o b) \o u
            s2 == (a \o c) \o e
            n  == Len(a) + Len(b) + 1
<1>1. /\ c \in Seq(Message) /\ Len(b) \in Nat /\ Len(c) = Len(b) + 1
      /\ \A i \in 1 .. Len(b) : c[i] = b[i]
      /\ c[Len(b) + 1] = m
  BY AppendAt
<1>2. Len(a) \in Nat
  BY LenProperties
<1>3. u \in Seq(Message) /\ Len(u) = 1 /\ u[1] = x /\ e \in Seq(Message) /\ Len(e) = 0
  OBVIOUS
<1>. HIDE DEF c, u, e
<1>4. /\ DOMAIN s = 1 .. n
      /\ \A j \in 1 .. n :
           s[j] = IF j <= Len(a) THEN a[j]
                  ELSE IF j <= Len(a) + Len(b) THEN b[j - Len(a)]
                  ELSE u[j - (Len(a) + Len(b))]
  <2>1. InTurn(s, a, b, u)
    BY <1>3, WayAt
  <2>. QED BY <1>3, <2>1 DEF InTurn
<1>5. /\ DOMAIN s2 = 1 .. n
      /\ \A j \in 1 .. n : s2[j] = IF j <= Len(a) THEN a[j] ELSE c[j - Len(a)]
  <2>1. InTurn(s2, a, c, e)
    BY <1>1, <1>3, WayAt
  <2>2. Len(a) + Len(c) + Len(e) = n /\ Len(a) + Len(c) = n
    BY <1>1, <1>2, <1>3
  <2>3. \A j \in 1 .. n : j <= n
    BY <1>1, <1>2
  <2>. QED BY <2>1, <2>2, <2>3 DEF InTurn
<1>. HIDE DEF s, s2
<1>6. \A j \in 1 .. n : s2[j].cmd = s[j].cmd /\ s2[j].pid = s[j].pid /\ s2[j].blk = s[j].blk
  <2>. SUFFICES ASSUME NEW j \in 1 .. n
                PROVE  s2[j].cmd = s[j].cmd /\ s2[j].pid = s[j].pid /\ s2[j].blk = s[j].blk
    OBVIOUS
  <2>1. CASE j <= Len(a)
    BY <1>1, <1>2, <1>4, <1>5, <2>1
  <2>2. CASE ~ (j <= Len(a)) /\ j <= Len(a) + Len(b)
    <3>1. j - Len(a) \in 1 .. Len(b)
      BY <1>1, <1>2, <2>2
    <3>2. s2[j] = c[j - Len(a)] /\ s[j] = b[j - Len(a)]
      BY <1>4, <1>5, <2>2
    <3>. QED BY <1>1, <3>1, <3>2
  <2>3. CASE j = n
    <3>1. j - Len(a) = Len(b) + 1 /\ j - (Len(a) + Len(b)) = 1
          /\ ~ (j <= Len(a)) /\ ~ (j <= Len(a) + Len(b))
      BY <1>1, <1>2, <2>3
    <3>2. s2[j] = c[j - Len(a)] /\ s[j] = u[j - (Len(a) + Len(b))]
      BY <1>4, <1>5, <3>1
    <3>3. s2[j] = m /\ s[j] = x
      BY <1>1, <1>3, <3>1, <3>2
    <3>. QED BY <3>3
  <2>4. j <= Len(a) \/ (~ (j <= Len(a)) /\ j <= Len(a) + Len(b)) \/ j = n
    BY <1>1, <1>2
  <2>. QED BY <2>1, <2>2, <2>3, <2>4
<1>7. BlocksTo(s2, p) = BlocksTo(s, p) /\ \A j \in BlocksTo(s, p) : s2[j].blk = s[j].blk
  BY <1>4, <1>5, <1>6 DEF BlocksTo
<1>8. InOrder(t, s2, p)
  BY <1>7, SameOrder DEF s, u
<1>. QED BY <1>8 DEF s2, c, e

\* A block begins its way to p.
LEMMA WayBegin ==
    ASSUME NEW p, NEW t \in Seq(Nat), NEW a \in Seq(Message), NEW b \in Seq(Message),
           NEW x \in Message, x.cmd = "BUFFER", x.pid = p, InOrder(t, (a \o b) \o << >>, p)
    PROVE  InOrder(Append(t, x.blk), (a \o b) \o <<x>>, p)
<1>. DEFINE u  == <<x>>
            e  == << >>
            s  == (a \o b) \o e
            s2 == (a \o b) \o u
            n  == Len(a) + Len(b)
<1>1. Len(a) \in Nat /\ Len(b) \in Nat /\ n \in Nat
  BY LenProperties
<1>2. u \in Seq(Message) /\ Len(u) = 1 /\ u[1] = x /\ e \in Seq(Message) /\ Len(e) = 0
  OBVIOUS
<1>3. x.blk \in Nat
  BY DEF Message
<1>. HIDE DEF u, e
<1>4. /\ DOMAIN s2 = 1 .. n + 1
      /\ \A j \in 1 .. n + 1 :
           s2[j] = IF j <= Len(a) THEN a[j]
                   ELSE IF j <= Len(a) + Len(b) THEN b[j - Len(a)] ELSE u[j - (Len(a) + Len(b))]
  <2>1. InTurn(s2, a, b, u)
    BY <1>2, WayAt
  <2>. QED BY <1>2, <2>1 DEF InTurn
<1>5. /\ DOMAIN s = 1 .. n
      /\ \A j \in 1 .. n : s[j] = IF j <= Len(a) THEN a[j] ELSE b[j - Len(a)]
  <2>1. InTurn(s, a, b, e)
    BY <1>2, WayAt
  <2>2. Len(a) + Len(b) + Len(e) = n
    BY <1>1, <1>2
  <2>3. \A j \in 1 .. n : j <= n
    BY <1>1
  <2>. QED BY <2>1, <2>2, <2>3 DEF InTurn
<1>. HIDE DEF s, s2
<1>6. s2[n + 1] = x
  <2>1. n + 1 \in 1 .. n + 1 /\ ~ (n + 1 <= Len(a)) /\ ~ (n + 1 <= Len(a) + Len(b))
        /\ n + 1 - (Len(a) + Len(b)) = 1
    BY <1>1
  <2>. QED BY <1>2, <1>4, <2>1
<1>7. \A j \in 1 .. n : s2[j] = s[j]
  <2>. SUFFICES ASSUME NEW j \in 1 .. n PROVE s2[j] = s[j]
    OBVIOUS
  <2>1. j \in 1 .. n + 1 /\ j <= Len(a) + Len(b)
    BY <1>1
  <2>. QED BY <1>4, <1>5, <2>1
<1>8. DOMAIN s = 1 .. n /\ DOMAIN s2 = 1 .. n + 1 /\ InOrder(t, s, p)
  BY <1>4, <1>5 DEF s, e
<1>. HIDE DEF n
<1>9. InOrder(Append(t, x.blk), s2, p)
  BY <1>1, <1>3, <1>6, <1>7, <1>8, AppendOrder
<1>. QED BY <1>9 DEF s2, u

\* Nothing is on its way to p.
LEMMA WayEmpty ==
    ASSUME NEW p, NEW b \in Seq(Message), \A m \in Range(b) : ~ (m.cmd = "BUFFER" /\ m.pid = p)
    PROVE  InOrder(<< >>, (<< >> \o b) \o << >>, p)
<1>. DEFINE e == << >>
            s == (e \o b) \o e
<1>1. e \in Seq(Message) /\ Len(e) = 0 /\ Len(b) \in Nat /\ DOMAIN b = 1 .. Len(b) /\ DOMAIN e = {}
  BY LenProperties
<1>. HIDE DEF e
<1>2. /\ DOMAIN s = 1 .. Len(e) + Len(b) + Len(e)
      /\ \A j \in 1 .. Len(e) + Len(b) + Len(e) :
           s[j] = IF j <= Len(e) THEN e[j]
                  ELSE IF j <= Len(e) + Len(b) THEN b[j - Len(e)] ELSE e[j - (Len(e) + Len(b))]
  <2>1. InTurn(s, e, b, e)
    BY <1>1, WayAt
  <2>. QED BY <2>1 DEF InTurn
<1>. HIDE DEF s
<1>3. \A j \in DOMAIN s : s[j] \in Range(b)
  <2>. SUFFICES ASSUME NEW j \in DOMAIN s PROVE s[j] \in Range(b)
    OBVIOUS
  <2>1. j \in 1 .. Len(b) /\ ~ (j <= Len(e)) /\ j <= Len(e) + Len(b) /\ j - Len(e) = j
    BY <1>1, <1>2
  <2>2. s[j] = b[j]
    BY <1>2, <2>1
  <2>. QED BY <1>1, <2>1, <2>2 DEF Range
<1>4. BlocksTo(s, p) = {}
  BY <1>3 DEF BlocksTo
<1>5. [i \in DOMAIN e |-> 0] \in [DOMAIN e -> BlocksTo(s, p)]
  BY <1>1
<1>6. InOrder(e, s, p)
  BY <1>1, <1>4, <1>5 DEF InOrder
<1>. QED BY <1>6 DEF s, e

-----------------------------------------------------------------------------
(* The answer to a CONNECT                                                 *)

\* que_snd hands an answer, or something else, to the kernel.
LEMMA SndOneAnswer == ASSUME AllInv, AnswerAhead, SndOne PROVE AnswerAhead'
<1>1. /\ que \in Seq(Message) /\ que # << >> /\ out \in [Client -> Seq(Message)]
      /\ que' = Tail(que) /\ UNCHANGED <<pl, cst>>
      /\ out' = [out EXCEPT ![Head(que).pid] = Append(@, Head(que))]
  BY QueueTypes DEF SndOne, AllInv, RouterInv, SndPending, plVars, clientVars
<1>2. /\ Len(que) \in Nat \ {0} /\ DOMAIN que = 1 .. Len(que) /\ Head(que) = que[1]
      /\ Head(que) \in Message /\ Range(que) = Range(que') \cup {Head(que)}
  BY <1>1, TailAt
<1>. SUFFICES ASSUME NEW p \in Readers, p \in Range(pl'), cst'[p] = "conn"
              PROVE  \/ out'[p] # << >> /\ Head(out'[p]).cmd = "CONNECT"
                     \/ out'[p] = << >> /\ \E m \in Range(que') : m.pid = p /\ m.cmd = "CONNECT"
  BY DEF AnswerAhead
<1>3. p \in Client /\ out[p] \in Seq(Message)
  BY <1>1 DEF Client
<1>4. \/ out[p] # << >> /\ Head(out[p]).cmd = "CONNECT"
      \/ out[p] = << >> /\ \E m \in Range(que) : m.pid = p /\ m.cmd = "CONNECT"
  BY <1>1 DEF AnswerAhead
<1>5. CASE Head(que).pid # p
  <2>1. out'[p] = out[p]
    BY <1>1, <1>3, <1>5
  <2>. QED BY <1>2, <1>4, <1>5, <2>1
<1>6. CASE Head(que).pid = p
  <2>1. out'[p] = Append(out[p], Head(que))
    BY <1>1, <1>3, <1>6
  <2>2. /\ out'[p] # << >>
        /\ out[p] # << >> => Head(out'[p]) = Head(out[p])
        /\ out[p] = << >> => Head(out'[p]) = Head(que)
    <3>1. /\ Len(out[p]) \in Nat /\ Len(out'[p]) = Len(out[p]) + 1 /\ out'[p] \in Seq(Message)
          /\ \A i \in 1 .. Len(out[p]) : out'[p][i] = out[p][i]
          /\ out'[p][Len(out[p]) + 1] = Head(que)
      BY <1>2, <1>3, <2>1, AppendAt
    <3>2. out'[p] # << >>
      BY <3>1, EmptySeq
    <3>3. Head(out'[p]) = out'[p][1]
      BY <3>1, <3>2, TailAt
    <3>4. ASSUME out[p] # << >> PROVE Head(out'[p]) = Head(out[p])
      BY <1>3, <3>1, <3>3, <3>4, TailAt
    <3>5. ASSUME out[p] = << >> PROVE Head(out'[p]) = Head(que)
      <4>1. Len(out[p]) = 0
        BY <3>5
      <4>. QED BY <3>1, <3>3, <4>1
    <3>. QED BY <3>2, <3>4, <3>5
  <2>3. ASSUME out[p] = << >> PROVE Head(que).cmd = "CONNECT"
    <3>1. PICK i \in DOMAIN que : que[i].pid = p /\ que[i].cmd = "CONNECT"
      BY <1>4, <2>3 DEF Range
    <3>2. \A j \in 1 .. i - 1 : que[j].pid # que[i].pid
      BY <3>1 DEF AllInv, BooksInv, Protocol, AnswerFirst
    <3>3. i = 1
      BY <1>2, <1>6, <3>1, <3>2
    <3>. QED BY <1>2, <3>1, <3>3
  <2>. QED BY <1>4, <2>2, <2>3
<1>. QED BY <1>5, <1>6

\* Steps that send nothing to, and take nothing from, a process that waits for its answer.
LEMMA AnswerStays ==
    ASSUME AnswerAhead, NEW q,
           \A p \in Readers \ {q} : p \in Range(pl') /\ cst'[p] = "conn" =>
             /\ p \in Range(pl) /\ cst[p] = "conn" /\ out'[p] = out[p]
             /\ \A m \in Range(que) : m.pid = p => m \in Range(que'),
           q \in Range(pl') => cst'[q] # "conn"
    PROVE  AnswerAhead'
BY DEF AnswerAhead

\* The disconnect handler takes a message to the process that leaves out of the queue.
LEMMA PurgeShape ==
    ASSUME AllInv, PurgeQue
    PROVE  \E i \in 1 .. Len(que) : que[i].pid = cur.pid /\ que' = RemoveAt(que, i)
<1>. DEFINE I == {i \in 1 .. Len(que) : ToCur(que[i])}
<1>0. Len(que) \in Nat /\ DOMAIN que = 1 .. Len(que)
  BY QueueTypes DEF AllInv
<1>1. I # {} /\ I \in SUBSET Nat
  BY <1>0 DEF PurgeQue
<1>2. Min(I) \in I
  BY <1>1, NatMin DEF Min
<1>3. Min(I) = SelectInSeq(que, ToCur)
  BY <1>1 DEF SelectInSeq
<1>4. que' = RemoveAt(que, Min(I))
  BY <1>3 DEF PurgeQue
<1>. QED BY <1>2, <1>4 DEF ToCur

\* No step of the router or of a client puts anything in front of an awaited answer.
LEMMA AnswerStep == ASSUME AllInv, AnswerAhead, [Next]_vars PROVE AnswerAhead'
<1>0. /\ que \in Seq(Message) /\ out \in [Client -> Seq(Message)] /\ Readers \subseteq Client
      /\ cst \in [Client -> {"off", "conn", "idle", "get", "use", "fail"}] /\ pl \in Seq(Client)
      /\ cur.pid \in Client /\ Range(pl) \subseteq Client
  BY QueueTypes, RangeOfSeq DEF AllInv, Client
<1>1. ASSUME UNCHANGED <<que, out, pl, cst>> PROVE AnswerAhead'
  BY <1>1 DEF AnswerAhead
<1>2. ASSUME Range(que) \subseteq Range(que'), UNCHANGED <<out, pl, cst>> PROVE AnswerAhead'
  BY <1>2 DEF AnswerAhead
<1>3. CASE BeginListen \/ SndFull \/ EndScan \/ Defer \/ RouteSkip \/ RouteEnd \/ BeginDisconnect
           \/ ReleaseAll \/ HandleRelease
  <2>1. UNCHANGED <<que, out, pl, cst>>
    BY <1>3 DEF BeginListen, SndFull, EndScan, Defer, RouteSkip, RouteEnd, BeginDisconnect,
                ReleaseAll, HandleRelease, queVars, plVars, clientVars
  <2>. QED BY <1>1, <2>1
<1>4. CASE SndOne
  BY <1>4, SndOneAnswer
<1>5. CASE HandleGetBuf \/ RouteSend
  <2>1. UNCHANGED <<out, pl, cst>> /\ (que' = que \/ \E m : que' = Append(que, m))
    BY <1>5 DEF HandleGetBuf, RouteSend, get_buf, send_msg, que_msg, queVars, plVars, clientVars
  <2>2. Range(que) \subseteq Range(que')
    <3>1. DOMAIN que = 1 .. Len(que) /\ Len(que) \in Nat
      BY <1>0, LenProperties
    <3>2. ASSUME NEW m, que' = Append(que, m) PROVE Range(que) \subseteq Range(que')
      BY <1>0, <3>1, <3>2 DEF Range
    <3>. QED BY <2>1, <3>2
  <2>. QED BY <1>2, <2>1, <2>2
<1>6. CASE HandleConnect
  <2>1. PICK m : /\ m \in Takeable("CONNECT") /\ Take(m)
                 /\ IF Connected(m.pid)
                      THEN UNCHANGED <<queVars, plVars>>
                      ELSE IF Accepts(m.pid)
                      THEN new_pl(m.pid) /\ que_msg(Msg("CONNECT", m.pid, 0, 0, NoBlk))
                      ELSE que_msg(Msg("REFUSE", m.pid, 0, 0, NoBlk)) /\ UNCHANGED plVars
                 /\ UNCHANGED <<out, cst>>
    BY <1>6 DEF HandleConnect, send_msg, clientVars
  <2>2. m.pid \in Client /\ m.cmd = "CONNECT"
    BY <2>1, TakeShape DEF AllInv, Takeable
  <2>3. CASE Connected(m.pid)
    BY <1>1, <2>1, <2>3 DEF queVars, plVars
  <2>4. CASE ~ Connected(m.pid) /\ ~ Accepts(m.pid)
    <3>1. PICK x \in Message : que' = Append(que, x) /\ UNCHANGED pl
      BY <2>1, <2>2, <2>4, MsgType DEF que_msg, plVars, NoBlk
    <3>2. Range(que) \subseteq Range(que')
      BY <1>0, <3>1, AppendAt
    <3>. QED BY <1>2, <2>1, <3>1, <3>2
  <2>5. CASE ~ Connected(m.pid) /\ Accepts(m.pid)
    <3>1. PICK x \in Message : /\ que' = Append(que, x) /\ pl' = Append(pl, m.pid)
                               /\ x.pid = m.pid /\ x.cmd = "CONNECT"
      <4>1. Msg("CONNECT", m.pid, 0, 0, NoBlk) \in Message
        BY <2>2, MsgType DEF NoBlk
      <4>. QED BY <2>1, <2>5, <4>1 DEF que_msg, new_pl, Msg
    <3>2. Range(que') = Range(que) \cup {x} /\ Range(pl') = Range(pl) \cup {m.pid}
      BY <1>0, <2>2, <3>1, AppendAt
    <3>3. out[m.pid] = << >>
      <4>1. \/ \E i \in DOMAIN inq : m = inq[i]
            \/ \E i \in DOMAIN mb : m = mb[i]
        BY <2>1, TakeShape DEF AllInv, Range
      <4>2. ASSUME NEW i \in DOMAIN mb, m = mb[i] PROVE FALSE
        BY <2>2, <4>2 DEF AllInv, BooksInv, Protocol, Asked, Range
      <4>. QED BY <2>2, <4>1, <4>2 DEF AllInv, BooksInv, Protocol, Newcomer
    <3>4. ASSUME NEW p \in Readers \ {m.pid}, p \in Range(pl'), cst'[p] = "conn"
          PROVE  \/ out'[p] # << >> /\ Head(out'[p]).cmd = "CONNECT"
                 \/ out'[p] = << >> /\ \E y \in Range(que') : y.pid = p /\ y.cmd = "CONNECT"
      BY <2>1, <3>2, <3>4 DEF AnswerAhead
    <3>5. out'[m.pid] = << >> /\ \E y \in Range(que') : y.pid = m.pid /\ y.cmd = "CONNECT"
      BY <2>1, <3>1, <3>2, <3>3
    <3>. QED BY <3>4, <3>5 DEF AnswerAhead
  <2>. QED BY <2>3, <2>4, <2>5
<1>7. CASE PurgeQue
  <2>1. PICK i \in 1 .. Len(que) : que[i].pid = cur.pid /\ que' = RemoveAt(que, i)
    BY <1>7, PurgeShape
  <2>2. UNCHANGED <<out, pl, cst>> /\ rpc = "disc"
    BY <1>7 DEF PurgeQue, clientVars
  <2>3. Range(que) = Range(que') \cup {que[i]}
    <3>1. que \in Seq(Message) /\ i \in 1 .. Len(que)
      BY <1>0
    <3>2. Range(que) = Range(RemoveAt(que, i)) \cup {que[i]}
      BY <3>1, RemoveAtAt
    <3>. QED BY <2>1, <3>2
  <2>4. cst[cur.pid] = "off"
    BY <2>2 DEF AllInv, BooksInv, Protocol, Leaving
  <2>. QED BY <2>1, <2>2, <2>3, <2>4, AnswerStays
<1>8. CASE DrainOut
  <2>1. UNCHANGED <<que, pl, cst>> /\ rpc = "disc" /\ out' = [out EXCEPT ![cur.pid] = Tail(@)]
    BY <1>8 DEF DrainOut, queVars, clientVars
  <2>2. cst[cur.pid] = "off"
    BY <2>1 DEF AllInv, BooksInv, Protocol, Leaving
  <2>3. \A p \in Readers \ {cur.pid} : out'[p] = out[p]
    BY <1>0, <2>1
  <2>. QED BY <2>1, <2>2, <2>3, AnswerStays
<1>9. CASE RemovePl
  <2>1. UNCHANGED <<que, out, cst>> /\ pl' = RemoveFirst(pl, cur.pid)
    BY <1>9 DEF RemovePl, queVars, clientVars
  <2>2. Range(pl') \subseteq Range(pl)
    BY <1>0, <2>1, RemoveFirstAt DEF AllInv, BooksInv, Lists
  <2>. QED BY <2>1, <2>2 DEF AnswerAhead
<1>10. ASSUME NEW q \in Client, ClientNext(q) PROVE AnswerAhead'
  <2>1. UNCHANGED <<que, pl>> /\ \A p \in Client \ {q} : cst'[p] = cst[p] /\ out'[p] = out[p]
    BY <1>0, <1>10 DEF ClientNext, Connect, ConnectDone, ConnectFailed, RequestBuf, GetBuf,
                       ReleaseBuf, Leave, Receive, routerVars, queVars, plVars
  <2>2. q \in Range(pl') => cst'[q] # "conn"
    BY <1>0, <1>10 DEF ClientNext, Connect, ConnectDone, ConnectFailed, RequestBuf, GetBuf,
                       ReleaseBuf, Leave, Receive, FreshPid, Connected, routerVars, plVars
  <2>. QED BY <1>0, <2>1, <2>2, AnswerStays
<1>11. CASE UNCHANGED vars
  BY <1>1, <1>11 DEF vars, routerVars, queVars, plVars, clientVars
<1>. QED BY <1>3, <1>4, <1>5, <1>6, <1>7, <1>8, <1>9, <1>10, <1>11 DEF Next, RouterNext

-----------------------------------------------------------------------------
(* Every block reaches its reader                                          *)

\* The sequences EveryBlock speaks of are sequences.
LEMMA EveryTypes ==
    ASSUME AllInv, NEW r \in Readers
    PROVE  /\ r \in Client /\ r \notin Writers /\ r \notin Samplers
           /\ que \in Seq(Message) /\ out \in [Client -> Seq(Message)] /\ out[r] \in Seq(Message)
           /\ Coming(r) \in Seq(Message) /\ owed \in [Client -> Seq(Nat)] /\ owed[r] \in Seq(Nat)
           /\ Msg("BUFFER", r, cur.buf, cur.size, cur.blk) \in Message
           /\ cur.buf \in Nat /\ cur.size \in Nat /\ cur.blk \in Nat /\ cur.pid \in Client
<1>1. r \in Client /\ r \notin Writers /\ r \notin Samplers
  BY ClientAssumption DEF Client
<1>2. /\ que \in Seq(Message) /\ out \in [Client -> Seq(Message)] /\ cur \in Message
      /\ owed \in [Client -> Seq(Nat)]
  BY DEF AllInv, RouterInv, TypeOK
<1>3. cur.buf \in Nat /\ cur.size \in Nat /\ cur.blk \in Nat /\ cur.pid \in Client
  BY <1>2 DEF Message
<1>4. Msg("BUFFER", r, cur.buf, cur.size, cur.blk) \in Message
  BY <1>1, <1>3, MsgType
<1>5. Coming(r) \in Seq(Message)
  BY <1>4 DEF Coming
<1>. QED BY <1>1, <1>2, <1>3, <1>4, <1>5

\* Steps that leave the way to r alone.
LEMMA EveryStays ==
    ASSUME EveryBlock, NEW r \in Readers, r \in Range(pl), ~ (rpc = "disc" /\ cur.pid = r),
           owed'[r] = owed[r], out'[r] = out[r], que' = que, Coming(r)' = Coming(r)
    PROVE  InOrder(owed[r], Way(r), r)'
<1>1. InOrder(owed[r], (out[r] \o que) \o Coming(r), r)
  BY DEF EveryBlock, Way
<1>2. InOrder(owed'[r], (out'[r] \o que') \o Coming(r)', r)
  BY <1>1
<1>. QED BY <1>2 DEF Way, InOrder, BlocksTo

\* que_snd: a message goes on its way, to a must reader or to another process.
LEMMA EverySndOne ==
    ASSUME AllInv, EveryBlock, SndOne, NEW r \in Readers, r \in Range(pl),
           ~ (rpc = "disc" /\ cur.pid = r)
    PROVE  InOrder(owed[r], Way(r), r)'
<1>1. /\ que # << >> /\ que' = Tail(que) /\ UNCHANGED <<owed, cur, todo>>
      /\ out' = [out EXCEPT ![Head(que).pid] = Append(@, Head(que))]
      /\ rpc = "snd" /\ rpc' \in {"snd", ret} /\ ret' = ret
  BY DEF SndOne, AllInv, RouterInv, SndPending
<1>2. Coming(r)' = Coming(r)
  <2>1. ret \in {"top", "scan", "route"}
    BY DEF AllInv, RouterInv, TypeOK
  <2>2. Routing' <=> Routing
    BY <1>1, <2>1 DEF Routing
  <2>. QED BY <1>1, <2>2 DEF Coming
<1>3. PICK a, b, v, t : a = out[r] /\ b = que /\ v = Coming(r) /\ t = owed[r]
  OBVIOUS
<1>4. a \in Seq(Message) /\ b \in Seq(Message) /\ v \in Seq(Message) /\ r \in Client
      /\ out \in [Client -> Seq(Message)]
  BY <1>3, EveryTypes
<1>5. InOrder(t, (a \o b) \o v, r)
  BY <1>3 DEF EveryBlock, Way
<1>6. /\ InOrder(t, (Append(a, Head(b)) \o Tail(b)) \o v, r)
      /\ Head(b).pid # r => InOrder(t, (a \o Tail(b)) \o v, r)
  BY <1>1, <1>3, <1>4, <1>5, WayHead
<1>7. out'[r] = IF Head(b).pid = r THEN Append(a, Head(b)) ELSE a
  BY <1>1, <1>3, <1>4
<1>8. InOrder(owed'[r], (out'[r] \o que') \o Coming(r)', r)
  BY <1>1, <1>2, <1>3, <1>6, <1>7
<1>. QED BY <1>8 DEF Way, InOrder, BlocksTo

\* The handlers of CONNECT and GETBUF send no block to a must reader.
LEMMA EveryAnswer ==
    ASSUME AllInv, EveryBlock, NEW r \in Readers, r \in Range(pl), ~ (rpc = "disc" /\ cur.pid = r),
           ~ Routing, ~ Routing', owed'[r] = owed[r], out'[r] = out[r],
           NEW m \in Message, ~ (m.cmd = "BUFFER" /\ m.pid = r), que' = Append(que, m)
    PROVE  InOrder(owed[r], Way(r), r)'
<1>1. Coming(r) = << >> /\ Coming(r)' = << >>
  BY DEF Coming
<1>2. PICK a, b, v, t : a = out[r] /\ b = que /\ v = Coming(r) /\ t = owed[r]
  OBVIOUS
<1>3. a \in Seq(Message) /\ b \in Seq(Message) /\ v \in Seq(Message)
  BY <1>2, EveryTypes
<1>4. InOrder(t, (a \o b) \o v, r)
  BY <1>2 DEF EveryBlock, Way
<1>5. InOrder(t, (a \o Append(b, m)) \o v, r)
  BY <1>3, <1>4, WayJoin
<1>6. InOrder(owed'[r], (out'[r] \o que') \o Coming(r)', r)
  BY <1>1, <1>2, <1>5
<1>. QED BY <1>6 DEF Way, InOrder, BlocksTo

\* A reader that connects finds nothing on its way.
LEMMA EveryConnect == ASSUME AllInv, EveryBlock, HandleConnect PROVE EveryBlock'
<1>. SUFFICES ASSUME NEW r \in Readers, r \in Range(pl'), ~ (rpc' = "disc" /\ cur'.pid = r)
              PROVE  InOrder(owed[r], Way(r), r)'
  BY DEF EveryBlock
<1>1. PICK m : /\ m \in Takeable("CONNECT") /\ Take(m)
               /\ IF Connected(m.pid)
                    THEN rpc' = "top" /\ UNCHANGED <<queVars, plVars, owed>>
                    ELSE IF Accepts(m.pid)
                    THEN /\ new_pl(m.pid)
                         /\ owed' = [owed EXCEPT ![m.pid] = << >>]
                         /\ send_msg(Msg("CONNECT", m.pid, 0, 0, NoBlk), msg_count, "top")
                    ELSE /\ send_msg(Msg("REFUSE", m.pid, 0, 0, NoBlk), msg_count, "top")
                         /\ UNCHANGED <<plVars, owed>>
               /\ UNCHANGED out
  BY DEF HandleConnect
<1>2. m.pid \in Client /\ m.cmd = "CONNECT" /\ rpc \in {"scan", "wait"}
  BY <1>1, TakeShape DEF AllInv, Takeable
<1>3. ~ Routing /\ ~ Routing' /\ rpc # "disc"
  BY <1>1, <1>2 DEF Routing, send_msg, EnterSnd
<1>4. /\ r \in Client /\ owed \in [Client -> Seq(Nat)] /\ que \in Seq(Message)
      /\ pl \in Seq(Client) /\ Coming(r) = << >> /\ Coming(r)' = << >>
  BY <1>3, EveryTypes, QueueTypes DEF AllInv, Coming
<1>5. CASE Connected(m.pid)
  <2>1. UNCHANGED <<que, pl, owed, out>>
    BY <1>1, <1>5 DEF queVars, plVars
  <2>. QED BY <1>3, <1>4, <2>1, EveryStays
<1>6. CASE ~ Connected(m.pid) /\ ~ Accepts(m.pid)
  <2>1. UNCHANGED <<pl, owed, out>> /\ que' = Append(que, Msg("REFUSE", m.pid, 0, 0, NoBlk))
    BY <1>1, <1>6 DEF plVars, send_msg, que_msg
  <2>2. /\ Msg("REFUSE", m.pid, 0, 0, NoBlk) \in Message
        /\ Msg("REFUSE", m.pid, 0, 0, NoBlk).cmd # "BUFFER"
    BY <1>2, MsgType DEF NoBlk, Msg
  <2>. QED BY <1>3, <2>1, <2>2, EveryAnswer
<1>7. CASE ~ Connected(m.pid) /\ Accepts(m.pid)
  <2>1. PICK x : x = Msg("CONNECT", m.pid, 0, 0, NoBlk)
    OBVIOUS
  <2>2. /\ UNCHANGED out /\ que' = Append(que, x) /\ pl' = Append(pl, m.pid)
        /\ owed' = [owed EXCEPT ![m.pid] = << >>]
    BY <1>1, <1>7, <2>1 DEF new_pl, send_msg, que_msg
  <2>3. x \in Message /\ x.cmd = "CONNECT"
    BY <1>2, <2>1, MsgType DEF NoBlk, Msg
  <2>4. Range(pl') = Range(pl) \cup {m.pid}
    BY <1>2, <1>4, <2>2, AppendAt
  <2>5. CASE r # m.pid
    <3>1. r \in Range(pl) /\ owed'[r] = owed[r]
      BY <1>4, <2>2, <2>4, <2>5
    <3>. QED BY <1>3, <2>2, <2>3, <3>1, EveryAnswer
  <2>6. CASE r = m.pid
    <3>1. \/ \E i \in DOMAIN inq : m = inq[i]
          \/ \E i \in DOMAIN mb : m = mb[i]
      BY <1>1, TakeShape DEF AllInv, Range
    <3>2. ASSUME NEW i \in DOMAIN mb, m = mb[i] PROVE FALSE
      BY <1>2, <3>2 DEF AllInv, BooksInv, Protocol, Asked, Range
    <3>3. out[r] = << >> /\ \A y \in Range(que) : y.pid # r
      BY <1>2, <2>6, <3>1, <3>2 DEF AllInv, BooksInv, Protocol, Newcomer
    <3>4. que' \in Seq(Message) /\ Range(que') = Range(que) \cup {x}
      BY <1>4, <2>2, <2>3, AppendAt
    <3>5. \A y \in Range(que') : ~ (y.cmd = "BUFFER" /\ y.pid = r)
      BY <2>3, <3>3, <3>4
    <3>6. InOrder(<< >>, (<< >> \o que') \o << >>, r)
      BY <3>4, <3>5, WayEmpty
    <3>7. out'[r] = << >> /\ owed'[r] = << >>
      BY <1>4, <2>2, <2>6, <3>3
    <3>8. InOrder(owed'[r], (out'[r] \o que') \o Coming(r)', r)
      BY <1>4, <3>6, <3>7
    <3>. QED BY <3>8 DEF Way, InOrder, BlocksTo
  <2>. QED BY <2>5, <2>6
<1>. QED BY <1>5, <1>6, <1>7

\* get_buf sends an answer, which brings no must reader a block.
LEMMA EveryGetBuf ==
    ASSUME AllInv, EveryBlock, HandleGetBuf, NEW r \in Readers, r \in Range(pl)
    PROVE  InOrder(owed[r], Way(r), r)'
<1>1. PICK m \in Takeable("GETBUF") :
        /\ Take(m)
        /\ IF ~ Connected(m.pid)
             THEN rpc' = "top" /\ que' = que
             ELSE IF m.pid \notin Writers \/ RoundUp(m.size) > ShmSize
             THEN send_msg(Msg("REFUSE", m.pid, 0, 0, NoBlk), msg_count, "top")
             ELSE /\ Fits(RoundUp(m.size)) # {}
                  /\ send_msg(Msg("BUFFER", m.pid, FirstFit(RoundUp(m.size)).buf, RoundUp(m.size),
                                  NoBlk), msg_count', "top")
        /\ UNCHANGED <<out, owed>>
  BY DEF HandleGetBuf, queVars, get_buf, get_shm
<1>2. /\ m \in Message /\ m.pid \in Client /\ m.size \in Nat /\ rpc \in {"scan", "wait"}
      /\ m \in Range(inq) \cup Range(mb) /\ m.cmd = "GETBUF"
  <2>1. m \in Message /\ m.pid \in Client /\ rpc \in {"scan", "wait"} /\ m.cmd = "GETBUF"
        /\ m \in Range(inq) \cup Range(mb)
    BY <1>1, TakeShape DEF AllInv, Takeable
  <2>. QED BY <2>1 DEF Message
<1>3. ~ Routing /\ ~ Routing' /\ rpc # "disc"
  BY <1>1, <1>2 DEF Routing, send_msg, EnterSnd
<1>4. Coming(r) = << >> /\ Coming(r)' = << >> /\ r \notin Writers
  BY <1>3, EveryTypes DEF Coming
<1>5. CASE que' = que
  BY <1>1, <1>3, <1>4, <1>5, EveryStays
<1>6. CASE que' = Append(que, Msg("REFUSE", m.pid, 0, 0, NoBlk))
  <2>1. /\ Msg("REFUSE", m.pid, 0, 0, NoBlk) \in Message
        /\ Msg("REFUSE", m.pid, 0, 0, NoBlk).cmd # "BUFFER"
    BY <1>2, MsgType DEF NoBlk, Msg
  <2>. QED BY <1>1, <1>3, <1>6, <2>1, EveryAnswer
<1>7. ASSUME que' # que, que' # Append(que, Msg("REFUSE", m.pid, 0, 0, NoBlk))
      PROVE  InOrder(owed[r], Way(r), r)'
  <2>. DEFINE size == RoundUp(m.size)
              x == Msg("BUFFER", m.pid, FirstFit(size).buf, size, NoBlk)
  <2>1. que' = Append(que, x) /\ m.pid \in Writers /\ Fits(size) # {}
    BY <1>1, <1>7 DEF send_msg, que_msg
  <2>2. x \in Message /\ x.pid \in Writers
    <3>1. m.size > 0
      BY <1>2 DEF AllInv, RouterInv, AskedSize
    <3>2. size \in Nat
      BY <1>2, <3>1, RoundUpType
    <3>3. FirstFit(size) \in Fits(size)
      BY <2>1, <3>2, FirstFitFits DEF AllInv, RouterInv, ShmInv
    <3>4. FirstFit(size).buf \in Nat
      BY <3>3 DEF Fits, AllInv, RouterInv, ShmInv, ShmTypeOK, Extent
    <3>. QED BY <2>1, <3>2, <3>4, <1>2, MsgType DEF NoBlk, Msg
  <2>3. ~ (x.cmd = "BUFFER" /\ x.pid = r)
    BY <1>4, <2>2
  <2>. HIDE DEF x
  <2>. QED BY <1>1, <1>3, <2>1, <2>2, <2>3, EveryAnswer
<1>. QED BY <1>5, <1>6, <1>7

\* The handler of RELEASE: the block begins its way to every must reader in the list.
LEMMA EveryRelease ==
    ASSUME AllInv, EveryBlock, HandleRelease, NEW r \in Readers, r \in Range(pl)
    PROVE  InOrder(owed[r], Way(r), r)'
<1>1. PICK m \in Takeable("RELEASE") :
        /\ Take(m)
        /\ \/ /\ rpc' = "route" /\ cur' = m /\ todo' = pl
              /\ owed' = [q \in Client |-> IF q \in Readers /\ Connected(q)
                                             THEN Append(owed[q], m.blk) ELSE owed[q]]
           \/ rpc' = "top" /\ owed' = owed
        /\ UNCHANGED <<que, out>>
  BY DEF HandleRelease, queVars
<1>2. m \in Message /\ m.buf \in Nat /\ m.size \in Nat /\ m.blk \in Nat /\ rpc \in {"scan", "wait"}
  <2>1. m \in Message /\ rpc \in {"scan", "wait"}
    BY <1>1, TakeShape DEF AllInv
  <2>. QED BY <2>1 DEF Message
<1>3. ~ Routing /\ rpc # "disc" /\ Coming(r) = << >>
  BY <1>2 DEF Routing, Coming
<1>4. CASE rpc' = "top" /\ owed' = owed
  <2>1. Coming(r)' = << >>
    BY <1>4 DEF Coming, Routing
  <2>. QED BY <1>1, <1>3, <1>4, <2>1, EveryStays
<1>5. CASE rpc' = "route" /\ cur' = m /\ todo' = pl
           /\ owed' = [q \in Client |-> IF q \in Readers /\ Connected(q)
                                          THEN Append(owed[q], m.blk) ELSE owed[q]]
  <2>1. PICK x : x = Msg("BUFFER", r, m.buf, m.size, m.blk)
    OBVIOUS
  <2>2. Coming(r)' = <<x>>
    BY <1>5, <2>1 DEF Coming, Routing
  <2>3. x \in Message /\ x.cmd = "BUFFER" /\ x.pid = r /\ x.blk = m.blk
    BY <1>2, <2>1, EveryTypes, MsgType DEF Msg
  <2>4. PICK a, b, t : a = out[r] /\ b = que /\ t = owed[r]
    OBVIOUS
  <2>5. a \in Seq(Message) /\ b \in Seq(Message) /\ t \in Seq(Nat) /\ r \in Client
    BY <2>4, EveryTypes
  <2>6. InOrder(t, (a \o b) \o << >>, r)
    BY <1>3, <2>4 DEF EveryBlock, Way
  <2>7. InOrder(Append(t, x.blk), (a \o b) \o <<x>>, r)
    BY <2>3, <2>5, <2>6, WayBegin
  <2>8. owed'[r] = Append(t, x.blk)
    BY <1>5, <2>3, <2>4, <2>5 DEF Connected
  <2>9. InOrder(owed'[r], (out'[r] \o que') \o Coming(r)', r)
    BY <1>1, <2>2, <2>4, <2>7, <2>8
  <2>. QED BY <2>9 DEF Way, InOrder, BlocksTo
<1>. QED BY <1>1, <1>4, <1>5

\* send_buf sends the block to r, or to another.
LEMMA EveryRoute ==
    ASSUME AllInv, EveryBlock, RouteSend, NEW r \in Readers, r \in Range(pl)
    PROVE  InOrder(owed[r], Way(r), r)'
<1>1. PICK q : q = Head(todo)
  OBVIOUS
<1>2. rpc = "route" /\ Routing /\ todo # << >> /\ todo \in Seq(Client)
  <2>1. rpc = "route" /\ Routing /\ todo # << >>
    BY DEF RouteSend, Routing
  <2>2. todo \in Seq(Client)
    BY SeqMonotonic DEF AllInv, RouterInv, TypeOK
  <2>. QED BY <2>1, <2>2
<1>3. /\ Range(todo) = Range(Tail(todo)) \cup {q} /\ q \in Client
      /\ Len(todo) \in Nat \ {0} /\ DOMAIN todo = 1 .. Len(todo)
      /\ DOMAIN Tail(todo) = 1 .. Len(todo) - 1 /\ q = todo[1]
      /\ \A i \in 1 .. Len(todo) - 1 : Tail(todo)[i] = todo[i + 1]
  BY <1>1, <1>2, TailAt
<1>4. q \notin Range(Tail(todo))
  <2>. SUFFICES ASSUME NEW i \in 1 .. Len(todo) - 1, Tail(todo)[i] = q PROVE FALSE
    BY <1>3 DEF Range
  <2>1. i + 1 \in DOMAIN todo /\ 1 \in DOMAIN todo /\ todo[i + 1] = todo[1] /\ i + 1 # 1
    BY <1>3
  <2>. QED BY <2>1 DEF AllInv, BooksInv, ToDo
<1>5. ~ (q \in Readers /\ cnt[q] >= MAXSENDBUF)
  <2>1. q \in Readers => cnt[q] < MAXSENDBUF
    BY <1>2, <1>3 DEF AllInv, BooksInv, ToDo
  <2>2. cnt[q] \in Nat /\ MAXSENDBUF \in Nat
    BY <1>3, LimitAssumption DEF AllInv, RouterInv, TypeOK
  <2>. QED BY <2>1, <2>2
<1>6. PICK m : m = Msg("BUFFER", q, cur.buf, SendSize(cur.buf, cur.size), cur.blk)
  OBVIOUS
<1>7. /\ que' = Append(que, m) /\ todo' = Tail(todo) /\ UNCHANGED <<cur, out, owed>>
      /\ rpc' \in {"route", "snd"} /\ ret' = "route"
  BY <1>1, <1>5, <1>6 DEF RouteSend, send_msg, que_msg, EnterSnd
<1>8. Routing'
  BY <1>7 DEF Routing
<1>9. m \in Message /\ m.cmd = "BUFFER" /\ m.pid = q /\ m.blk = cur.blk
  <2>1. cur.buf \in Nat /\ cur.size \in Nat /\ cur.blk \in Nat /\ cur.buf \in Bufs(used)
    BY <1>2, EveryTypes DEF AllInv, RouterInv, RoutedInUse
  <2>2. SendSize(cur.buf, cur.size) \in Nat
    BY <2>1, SendSizeType DEF AllInv, RouterInv
  <2>. QED BY <1>3, <1>6, <2>1, <2>2, MsgType DEF Msg
<1>10. PICK a, b, v, t : a = out[r] /\ b = que /\ v = Coming(r) /\ t = owed[r]
  OBVIOUS
<1>11. a \in Seq(Message) /\ b \in Seq(Message) /\ v \in Seq(Message) /\ r \in Client
  BY <1>10, EveryTypes
<1>12. InOrder(t, (a \o b) \o v, r)
  BY <1>2, <1>10 DEF EveryBlock, Way
<1>13. CASE q # r
  <2>1. Coming(r)' = Coming(r)
    BY <1>2, <1>3, <1>7, <1>8, <1>13 DEF Coming
  <2>2. InOrder(t, (a \o Append(b, m)) \o v, r)
    BY <1>9, <1>11, <1>12, <1>13, WayJoin
  <2>3. InOrder(owed'[r], (out'[r] \o que') \o Coming(r)', r)
    BY <1>7, <1>10, <2>1, <2>2
  <2>. QED BY <2>3 DEF Way, InOrder, BlocksTo
<1>14. CASE q = r
  <2>1. Coming(r)' = << >>
    BY <1>4, <1>7, <1>14 DEF Coming
  <2>2. PICK x : x = Msg("BUFFER", r, cur.buf, cur.size, cur.blk)
    OBVIOUS
  <2>3. x \in Message /\ x.cmd = "BUFFER" /\ x.pid = r /\ x.blk = cur.blk /\ v = <<x>>
    BY <1>2, <1>3, <1>10, <1>14, <2>2, EveryTypes DEF Msg, Coming
  <2>4. InOrder(t, (a \o Append(b, m)) \o << >>, r)
    BY <1>9, <1>11, <1>12, <1>14, <2>3, WayArrive
  <2>5. InOrder(owed'[r], (out'[r] \o que') \o Coming(r)', r)
    BY <1>7, <1>10, <2>1, <2>4
  <2>. QED BY <2>5 DEF Way, InOrder, BlocksTo
<1>. QED BY <1>13, <1>14

\* The disconnect handler takes only messages to the process that leaves.
LEMMA EveryPurge ==
    ASSUME AllInv, EveryBlock, PurgeQue, NEW r \in Readers, r \in Range(pl), cur.pid # r
    PROVE  InOrder(owed[r], Way(r), r)'
<1>1. PICK i \in 1 .. Len(que) : que[i].pid = cur.pid /\ que' = RemoveAt(que, i)
  BY PurgeShape
<1>2. UNCHANGED <<out, owed, rpc, ret, todo, cur>>
  BY DEF PurgeQue
<1>3. Coming(r)' = Coming(r)
  BY <1>2 DEF Coming, Routing
<1>4. PICK a, b, v, t, c : a = out[r] /\ b = que /\ v = Coming(r) /\ t = owed[r] /\ c = RemoveAt(que, i)
  OBVIOUS
<1>5. a \in Seq(Message) /\ b \in Seq(Message) /\ v \in Seq(Message)
  BY <1>4, EveryTypes
<1>6. InOrder(t, (a \o b) \o v, r)
  BY <1>4 DEF EveryBlock, Way
<1>7. i \in 1 .. Len(b) /\ ~ (b[i].cmd = "BUFFER" /\ b[i].pid = r)
  BY <1>1, <1>4
<1>8. /\ c \in Seq(Message) /\ Len(c) = Len(b) - 1
      /\ \A j \in 1 .. Len(b) - 1 : c[j] = b[IF j < i THEN j ELSE j + 1]
  BY <1>4, <1>5, <1>7, RemoveAtAt
<1>9. InOrder(t, (a \o c) \o v, r)
  BY <1>5, <1>6, <1>7, <1>8, WayRemove
<1>10. InOrder(owed'[r], (out'[r] \o que') \o Coming(r)', r)
  BY <1>1, <1>2, <1>3, <1>4, <1>9
<1>. QED BY <1>10 DEF Way, InOrder, BlocksTo

\* A client takes a message: a must reader that takes a block is owed one less.
LEMMA EveryReceive ==
    ASSUME AllInv, AnswerAhead, EveryBlock, NEW p \in Client,
           ConnectDone(p) \/ ConnectFailed(p) \/ GetBuf(p),
           NEW r \in Readers, r \in Range(pl), ~ (rpc = "disc" /\ cur.pid = r)
    PROVE  InOrder(owed[r], Way(r), r)'
<1>0. UNCHANGED <<que, rpc, ret, todo, cur>> /\ out[p] # << >> /\ out' = [out EXCEPT ![p] = Tail(@)]
  BY DEF ConnectDone, ConnectFailed, GetBuf, Receive, routerVars, queVars
<1>1. Coming(r)' = Coming(r)
  BY <1>0 DEF Coming, Routing
<1>2. r \in Client /\ r \notin Writers /\ out \in [Client -> Seq(Message)] /\ owed \in [Client -> Seq(Nat)]
  BY EveryTypes
<1>3. CASE p # r
  <2>1. out'[r] = out[r]
    BY <1>0, <1>2, <1>3
  <2>2. owed'[r] = owed[r]
    BY <1>2, <1>3 DEF ConnectDone, ConnectFailed, GetBuf
  <2>. QED BY <1>0, <1>1, <2>1, <2>2, EveryStays
<1>4. CASE p = r
  <2>1. PICK a, b, v, t : a = out[r] /\ b = que /\ v = Coming(r) /\ t = owed[r]
    OBVIOUS
  <2>2. a \in Seq(Message) /\ b \in Seq(Message) /\ v \in Seq(Message) /\ t \in Seq(Nat) /\ a # << >>
    BY <1>0, <1>4, <2>1, EveryTypes
  <2>3. Head(a).pid = r
    <3>1. Head(a) \in Range(a)
      BY <2>2, TailAt
    <3>. QED BY <1>2, <2>1, <3>1 DEF AllInv, BooksInv, Protocol, Answered
  <2>4. InOrder(t, (a \o b) \o v, r)
    BY <2>1 DEF EveryBlock, Way
  <2>5. /\ Head(a).cmd = "BUFFER" => t # << >> /\ InOrder(Tail(t), (Tail(a) \o b) \o v, r)
        /\ Head(a).cmd # "BUFFER" => InOrder(t, (Tail(a) \o b) \o v, r)
    BY <2>2, <2>3, <2>4, WayReceive
  <2>6. out'[r] = Tail(a)
    BY <1>0, <1>2, <1>4, <2>1
  <2>7. CASE Head(a).cmd # "BUFFER"
    <3>1. owed'[r] = t
      BY <1>4, <2>1, <2>7 DEF ConnectDone, ConnectFailed, GetBuf
    <3>2. InOrder(owed'[r], (out'[r] \o que') \o Coming(r)', r)
      BY <1>0, <1>1, <2>1, <2>5, <2>6, <2>7, <3>1
    <3>. QED BY <3>2 DEF Way, InOrder, BlocksTo
  <2>8. CASE Head(a).cmd = "BUFFER"
    <3>1. ~ ConnectDone(p)
      BY <1>4, <2>1, <2>8 DEF ConnectDone
    <3>2. ~ ConnectFailed(p)
      BY <1>0, <1>4, <2>1, <2>8 DEF ConnectFailed, AnswerAhead
    <3>3. owed'[r] = Tail(t)
      <4>1. owed' = [owed EXCEPT ![p] = IF @ = << >> THEN @ ELSE Tail(@)]
        BY <1>2, <1>4, <2>1, <2>8, <3>1, <3>2 DEF GetBuf
      <4>. QED BY <1>2, <1>4, <2>1, <2>5, <2>8, <4>1
    <3>4. InOrder(owed'[r], (out'[r] \o que') \o Coming(r)', r)
      BY <1>0, <1>1, <2>1, <2>5, <2>6, <2>8, <3>3
    <3>. QED BY <3>4 DEF Way, InOrder, BlocksTo
  <2>. QED BY <2>7, <2>8
<1>. QED BY <1>3, <1>4

\* Every step of the router and of its clients keeps the blocks of a must reader in order.
LEMMA EveryStep == ASSUME AllInv, AnswerAhead, EveryBlock, [Next]_vars PROVE EveryBlock'
<1>0. CASE HandleConnect
  BY <1>0, EveryConnect
<1>. SUFFICES ASSUME ~ HandleConnect,
                     NEW r \in Readers, r \in Range(pl'), ~ (rpc' = "disc" /\ cur'.pid = r)
              PROVE  InOrder(owed[r], Way(r), r)'
  BY <1>0 DEF EveryBlock
<1>1. r \in Client /\ r \notin Writers /\ r \notin Samplers
      /\ out \in [Client -> Seq(Message)] /\ owed \in [Client -> Seq(Nat)]
  BY EveryTypes
<1>2. CASE BeginListen \/ SndFull \/ EndScan \/ Defer \/ ReleaseAll \/ BeginDisconnect
  <2>1. UNCHANGED <<pl, out, que, owed>> /\ (~ BeginDisconnect => UNCHANGED <<cur, todo>>)
    BY <1>2 DEF BeginListen, SndFull, EndScan, Defer, ReleaseAll, BeginDisconnect, queVars, plVars
  <2>2. rpc = "disc" => rpc' = "disc" /\ cur' = cur
    BY <1>2 DEF BeginListen, SndFull, EndScan, Defer, ReleaseAll, BeginDisconnect, Take
  <2>3. Coming(r)' = Coming(r)
    <3>1. CASE BeginDisconnect
      <4>1. rpc \in {"scan", "wait"} /\ rpc' = "disc"
        BY <3>1 DEF BeginDisconnect, Take
      <4>. QED BY <4>1 DEF Coming, Routing
    <3>2. CASE ~ BeginDisconnect
      <4>1. Routing' <=> Routing
        BY <1>2, <3>2 DEF BeginListen, SndFull, EndScan, Defer, ReleaseAll, Routing, EnterSnd
      <4>. QED BY <2>1, <3>2, <4>1 DEF Coming
    <3>. QED BY <3>1, <3>2
  <2>. QED BY <2>1, <2>2, <2>3, EveryStays
<1>3. CASE RouteSkip
  <2>1. /\ rpc = "route" /\ todo # << >> /\ PassOver(Head(todo)) /\ todo' = Tail(todo)
        /\ UNCHANGED <<pl, out, que, owed, rpc, ret, cur>>
    BY <1>3 DEF RouteSkip, queVars, plVars
  <2>2. Head(todo) # r
    BY <1>1, <2>1 DEF PassOver
  <2>3. Range(todo) = Range(todo') \cup {Head(todo)}
    <3>1. todo \in Seq(Client)
      BY SeqMonotonic DEF AllInv, RouterInv, TypeOK
    <3>. QED BY <2>1, <3>1, TailAt
  <2>4. Coming(r)' = Coming(r)
    BY <2>1, <2>2, <2>3 DEF Coming, Routing
  <2>. QED BY <2>1, <2>4, EveryStays
<1>4. CASE RouteEnd
  <2>1. rpc = "route" /\ todo = << >> /\ rpc' = "top" /\ UNCHANGED <<pl, out, que, owed>>
    BY <1>4 DEF RouteEnd, queVars
  <2>2. Coming(r)' = Coming(r)
    BY <2>1 DEF Coming, Routing, Range
  <2>. QED BY <2>1, <2>2, EveryStays
<1>5. CASE SndOne
  <2>1. UNCHANGED pl /\ rpc = "snd"
    BY <1>5 DEF SndOne, plVars
  <2>. QED BY <1>5, <2>1, EverySndOne
<1>6. CASE HandleGetBuf
  <2>1. UNCHANGED pl
    BY <1>6 DEF HandleGetBuf, get_buf, plVars
  <2>. QED BY <1>6, <2>1, EveryGetBuf
<1>7. CASE HandleRelease
  <2>1. UNCHANGED pl
    BY <1>7 DEF HandleRelease
  <2>. QED BY <1>7, <2>1, EveryRelease
<1>8. CASE RouteSend
  <2>1. UNCHANGED pl
    BY <1>8 DEF RouteSend
  <2>. QED BY <1>8, <2>1, EveryRoute
<1>9. CASE PurgeQue
  <2>1. UNCHANGED <<pl, cur, rpc>> /\ rpc = "disc"
    BY <1>9 DEF PurgeQue
  <2>. QED BY <1>9, <2>1, EveryPurge
<1>10. CASE DrainOut
  <2>1. /\ UNCHANGED <<pl, cur, rpc, ret, todo, que, owed>> /\ rpc = "disc"
        /\ out' = [out EXCEPT ![cur.pid] = Tail(@)]
    BY <1>10 DEF DrainOut, queVars
  <2>2. out'[r] = out[r] /\ Coming(r)' = Coming(r)
    BY <1>1, <2>1 DEF Coming, Routing
  <2>. QED BY <2>1, <2>2, EveryStays
<1>11. CASE RemovePl
  <2>1. /\ UNCHANGED <<ret, todo, que, out>> /\ rpc = "disc" /\ rpc' = "top"
        /\ pl' = RemoveFirst(pl, cur.pid) /\ owed' = [owed EXCEPT ![cur.pid] = << >>]
    BY <1>11 DEF RemovePl, queVars
  <2>2. Range(pl') = Range(pl) \ {cur.pid}
    BY <2>1, RemoveFirstAt DEF AllInv, BooksInv, Lists, RouterInv, TypeOK
  <2>3. owed'[r] = owed[r] /\ Coming(r)' = Coming(r)
    BY <1>1, <2>1, <2>2 DEF Coming, Routing
  <2>. QED BY <2>1, <2>2, <2>3, EveryStays
<1>12. ASSUME NEW p \in Client, ClientNext(p) PROVE InOrder(owed[r], Way(r), r)'
  <2>1. UNCHANGED <<pl, que, rpc, ret, cur, todo>>
    BY <1>12 DEF ClientNext, Connect, ConnectDone, ConnectFailed, RequestBuf, GetBuf, ReleaseBuf,
                 Leave, routerVars, queVars, plVars
  <2>2. CASE ConnectDone(p) \/ ConnectFailed(p) \/ GetBuf(p)
    BY <2>1, <2>2, EveryReceive
  <2>3. CASE Connect(p) \/ RequestBuf(p) \/ ReleaseBuf(p) \/ Leave(p)
    <3>1. UNCHANGED <<out, owed>>
      BY <2>3 DEF Connect, RequestBuf, ReleaseBuf, Leave
    <3>2. Coming(r)' = Coming(r)
      BY <2>1 DEF Coming, Routing
    <3>. QED BY <2>1, <3>1, <3>2, EveryStays
  <2>. QED BY <1>12, <2>2, <2>3 DEF ClientNext
<1>13. CASE UNCHANGED vars
  <2>1. UNCHANGED <<pl, que, rpc, ret, cur, todo, out, owed>>
    BY <1>13 DEF vars, routerVars, queVars, plVars
  <2>2. Coming(r)' = Coming(r)
    BY <2>1 DEF Coming, Routing
  <2>. QED BY <2>1, <2>2, EveryStays
<1>. QED BY <1>2, <1>3, <1>4, <1>5, <1>6, <1>7, <1>8, <1>9, <1>10, <1>11, <1>12, <1>13
         DEF Next, RouterNext

-----------------------------------------------------------------------------
(* The contents of the buffers                                             *)

\* A buffer in a list is in use.
LEMMA ListedInUse ==
    ASSUME AllInv, NEW p \in Client, NEW b \in bl[p] PROVE b \in Bufs(used)
<1>1. p \in Range(pl) /\ b \in Addr
  BY DEF AllInv, BooksInv, Lists, RouterInv, TypeOK
<1>2. Holders(b) # {} /\ IsFiniteSet(Holders(b)) /\ Cardinality(Holders(b)) \in Nat
  BY <1>1, CountedSets DEF Holders, AllInv
<1>3. Cardinality(Holders(b)) > 0
  BY <1>2, FS_EmptySet
<1>4. count[b] = Cardinality(Holders(b)) + RoutingRef(b) /\ RoutingRef(b) \in Nat
  BY <1>1 DEF AllInv, BooksInv, Books, RefCount, Holders, RoutingRef
<1>5. count[b] > 0
  BY <1>2, <1>3, <1>4
<1>. QED BY <1>1, <1>5 DEF AllInv, RouterInv, ShmInv, Counted

\* Extents in use, and their words.
LEMMA UsedTypes ==
    ASSUME AllInv, NEW u \in used
    PROVE  u.buf \in Nat /\ u.size \in Nat
BY DEF AllInv, RouterInv, ShmInv, ShmTypeOK, Extent

\* The first words of a buffer that holds a block hold that block.
LEMMA PartHolds ==
    ASSUME NEW b \in Nat, NEW size \in Nat, NEW all \in Nat, size <= all, NEW k, Holds(b, all, k)
    PROVE  Holds(b, size, k)
<1>1. WordsOf(b, size) \subseteq WordsOf(b, all)
  BY DEF WordsOf, Word
<1>. QED BY <1>1 DEF Holds

\* Two buffers in use share no word.
LEMMA ApartWords ==
    ASSUME AllInv, NEW u \in used, NEW v \in used, u # v, NEW size \in Nat, size <= u.size
    PROVE  WordsOf(u.buf, size) \cap WordsOf(v.buf, v.size) = {}
<1>1. u.buf \in Nat /\ u.size \in Nat /\ v.buf \in Nat /\ v.size \in Nat
  BY UsedTypes
<1>2. ~ Overlap(u, v)
  BY DEF AllInv, RouterInv, ShmInv, Disjoint
<1>3. u.buf + u.size <= v.buf \/ v.buf + v.size <= u.buf
  BY <1>1, <1>2 DEF Overlap, End
<1>4. ASSUME NEW w \in WordsOf(u.buf, size), w \in WordsOf(v.buf, v.size) PROVE FALSE
  <2>1. /\ u.buf <= 4 * w /\ 4 * w < u.buf + size /\ v.buf <= 4 * w /\ 4 * w < v.buf + v.size
        /\ w \in Word
    BY <1>4 DEF WordsOf
  <2>2. 4 * w \in Int
    BY <2>1 DEF Word
  <2>. QED BY <1>1, <1>3, <2>1, <2>2
<1>. QED BY <1>4

\* Steps that only move or drop messages.
LEMMA ContentsMoves ==
    ASSUME Contents, used' \subseteq used, mem' = mem,
           \A p \in Client : \A m \in Range(que') \cup Range(out'[p]) :
             m.cmd = "BUFFER" /\ m.pid = p => m \in Range(que) \cup Range(out[p]),
           \A p \in Client : cst'[p] = "use" => cst[p] = "use" /\ hand'[p] = hand[p],
           \A m \in Range(inq') \cup Range(mb') :
             m.cmd = "RELEASE" => m \in Range(inq) \cup Range(mb),
           Routing' => Routing /\ cur' = cur
    PROVE  Contents'
<1>. SUFFICES ASSUME NEW u \in used'
              PROVE  (GrantsTrue(u) /\ HandsTrue(u) /\ ReleasesTrue(u) /\ RoutedTrue(u))'
  BY DEF Contents
<1>1. GrantsTrue(u) /\ HandsTrue(u) /\ ReleasesTrue(u) /\ RoutedTrue(u)
  BY DEF Contents
<1>2. \A b, size, k : Holds(b, size, k)' <=> Holds(b, size, k)
  BY DEF Holds
<1>3. GrantsTrue(u)'
  BY <1>1, <1>2 DEF GrantsTrue, Filled
<1>4. HandsTrue(u)'
  BY <1>1, <1>2 DEF HandsTrue, Filled
<1>5. ReleasesTrue(u)'
  BY <1>1, <1>2 DEF ReleasesTrue
<1>6. RoutedTrue(u)'
  BY <1>1, <1>2 DEF RoutedTrue
<1>. QED BY <1>3, <1>4, <1>5, <1>6

\* A reference less leaves no buffer in use that was not in use before.
LEMMA DropRefUsed ==
    ASSUME NEW b, DropRef(b) PROVE used' \subseteq used
BY DEF DropRef, shm_unref, shm_free_insert, shmVars

\* A queue of the kernel without its head.
LEMMA OutShrinks ==
    ASSUME AllInv, NEW q \in Client, out[q] # << >>, out' = [out EXCEPT ![q] = Tail(@)]
    PROVE  \A p \in Client : Range(out'[p]) \subseteq Range(out[p])
<1>1. out \in [Client -> Seq(Message)] /\ out[q] \in Seq(Message)
  BY QueueTypes DEF AllInv
<1>2. Range(Tail(out[q])) \subseteq Range(out[q])
  BY <1>1, TailAt
<1>. QED BY <1>1, <1>2

\* The steps of the router that only move or drop messages.
LEMMA RouterMoves ==
    ASSUME AllInv, Contents,
           \/ BeginListen \/ SndOne \/ SndFull \/ EndScan \/ Defer \/ HandleConnect \/ RouteSkip
           \/ RouteEnd \/ BeginDisconnect \/ PurgeQue \/ DrainOut \/ ReleaseAll \/ RemovePl
    PROVE  Contents'
<1>0. /\ que \in Seq(Message) /\ inq \in Seq(Message) /\ mb \in Seq(Message)
      /\ out \in [Client -> Seq(Message)] /\ cur.pid \in Client
  BY QueueTypes DEF AllInv
<1>1. UNCHANGED <<mem, cst, hand>>
  BY DEF BeginListen, SndOne, SndFull, EndScan, Defer, HandleConnect, RouteSkip, RouteEnd,
         BeginDisconnect, PurgeQue, DrainOut, ReleaseAll, RemovePl, clientVars
<1>2. used' \subseteq used
  <2>1. CASE BeginListen \/ SndOne \/ SndFull \/ EndScan \/ Defer \/ HandleConnect \/ RouteSkip
             \/ BeginDisconnect \/ RemovePl
    BY <2>1 DEF BeginListen, SndOne, SndFull, EndScan, Defer, HandleConnect, RouteSkip,
                BeginDisconnect, RemovePl, shmVars
  <2>2. CASE RouteEnd \/ PurgeQue \/ DrainOut \/ ReleaseAll
    <3>1. UNCHANGED shmVars \/ \E b : DropRef(b)
      BY <2>2 DEF RouteEnd, PurgeQue, DrainOut, ReleaseAll, release_buf
    <3>. QED BY <3>1, DropRefUsed DEF shmVars
  <2>. QED BY <2>1, <2>2
<1>3. \A m \in Range(inq') \cup Range(mb') : m \in Range(inq) \cup Range(mb)
  <2>1. CASE HandleConnect \/ BeginDisconnect
    <3>1. PICK m : Take(m)
      BY <2>1 DEF HandleConnect, BeginDisconnect
    <3>. QED BY <3>1, TakeShape DEF AllInv
  <2>2. CASE Defer
    <3>1. inq # << >> /\ mb' = Append(mb, Head(inq)) /\ inq' = Tail(inq)
      BY <2>2 DEF Defer
    <3>2. Range(inq) = Range(inq') \cup {Head(inq)} /\ Head(inq) \in Message
      BY <1>0, <3>1, TailAt
    <3>3. Range(mb') = Range(mb) \cup {Head(inq)}
      BY <1>0, <3>1, <3>2, AppendAt
    <3>. QED BY <3>2, <3>3
  <2>3. CASE BeginListen \/ SndOne \/ SndFull \/ EndScan \/ RouteSkip \/ RouteEnd \/ PurgeQue
             \/ DrainOut \/ ReleaseAll \/ RemovePl
    <3>1. UNCHANGED <<inq, mb>>
      BY <2>3 DEF BeginListen, SndOne, SndFull, EndScan, RouteSkip, RouteEnd, PurgeQue, DrainOut,
                  ReleaseAll, RemovePl
    <3>. QED BY <3>1
  <2>. QED BY <2>1, <2>2, <2>3
<1>4. Routing' => Routing /\ cur' = cur
  <2>1. CASE BeginListen \/ SndOne \/ SndFull \/ EndScan \/ Defer \/ RouteSkip \/ RouteEnd
    BY <2>1 DEF Routing, BeginListen, SndOne, SndFull, EndScan, Defer, RouteSkip, RouteEnd, EnterSnd
  <2>2. CASE HandleConnect
    <3>1. rpc' = "top" \/ (rpc' = "snd" /\ ret' = "top")
      BY <2>2 DEF HandleConnect, send_msg, EnterSnd
    <3>. QED BY <3>1 DEF Routing
  <2>3. CASE BeginDisconnect \/ PurgeQue \/ DrainOut \/ ReleaseAll \/ RemovePl
    <3>1. rpc' \in {"disc", "top"}
      BY <2>3 DEF BeginDisconnect, PurgeQue, DrainOut, ReleaseAll, RemovePl
    <3>. QED BY <3>1 DEF Routing
  <2>. QED BY <2>1, <2>2, <2>3
<1>5. \A p \in Client : \A m \in Range(que') \cup Range(out'[p]) :
        m.cmd = "BUFFER" /\ m.pid = p => m \in Range(que) \cup Range(out[p])
  <2>1. CASE SndOne
    <3>1. /\ que # << >> /\ que' = Tail(que)
          /\ out' = [out EXCEPT ![Head(que).pid] = Append(@, Head(que))]
      BY <2>1 DEF SndOne, AllInv, RouterInv, SndPending
    <3>2. Range(que) = Range(que') \cup {Head(que)} /\ Head(que) \in Message
      BY <1>0, <3>1, TailAt
    <3>3. \A p \in Client : Range(out'[p]) \subseteq Range(out[p]) \cup {Head(que)}
      <4>. SUFFICES ASSUME NEW p \in Client PROVE Range(out'[p]) \subseteq Range(out[p]) \cup {Head(que)}
        OBVIOUS
      <4>1. Range(Append(out[p], Head(que))) = Range(out[p]) \cup {Head(que)}
        BY <1>0, <3>2, AppendAt
      <4>. QED BY <1>0, <3>1, <4>1
    <3>. QED BY <3>2, <3>3
  <2>2. CASE HandleConnect
    <3>1. PICK m : /\ Take(m) /\ UNCHANGED out
                   /\ \/ que' = que
                      \/ que' = Append(que, Msg("CONNECT", m.pid, 0, 0, NoBlk))
                      \/ que' = Append(que, Msg("REFUSE", m.pid, 0, 0, NoBlk))
      BY <2>2 DEF HandleConnect, send_msg, que_msg, queVars
    <3>2. m.pid \in Client
      BY <3>1, TakeShape DEF AllInv
    <3>3. \A cmd \in {"CONNECT", "REFUSE"} :
            /\ Msg(cmd, m.pid, 0, 0, NoBlk) \in Message
            /\ Msg(cmd, m.pid, 0, 0, NoBlk).cmd # "BUFFER"
      BY <3>2, MsgType DEF Msg, NoBlk
    <3>4. que' = que \/ \E x \in Message : x.cmd # "BUFFER" /\ que' = Append(que, x)
      BY <3>1, <3>3
    <3>5. ASSUME NEW x \in Message, x.cmd # "BUFFER", que' = Append(que, x)
          PROVE  \A y \in Range(que') : y.cmd = "BUFFER" => y \in Range(que)
      <4>1. Range(que') = Range(que) \cup {x}
        BY <1>0, <3>5, AppendAt
      <4>. QED BY <3>5, <4>1
    <3>6. \A y \in Range(que') : y.cmd = "BUFFER" => y \in Range(que)
      BY <3>4, <3>5
    <3>. QED BY <3>1, <3>6
  <2>3. CASE PurgeQue
    <3>1. PICK i \in 1 .. Len(que) : que' = RemoveAt(que, i)
      BY <2>3, PurgeShape
    <3>2. Range(RemoveAt(que, i)) \subseteq Range(que)
      BY <1>0, RemoveAtAt
    <3>3. UNCHANGED out
      BY <2>3 DEF PurgeQue
    <3>. QED BY <3>1, <3>2, <3>3
  <2>4. CASE DrainOut
    <3>1. que' = que /\ out[cur.pid] # << >> /\ out' = [out EXCEPT ![cur.pid] = Tail(@)]
      BY <2>4 DEF DrainOut, queVars
    <3>. QED BY <1>0, <3>1, OutShrinks
  <2>5. CASE BeginListen \/ SndFull \/ EndScan \/ Defer \/ RouteSkip \/ RouteEnd \/ BeginDisconnect
             \/ ReleaseAll \/ RemovePl
    <3>1. UNCHANGED <<que, out>>
      BY <2>5 DEF BeginListen, SndFull, EndScan, Defer, RouteSkip, RouteEnd, BeginDisconnect,
                  ReleaseAll, RemovePl, queVars
    <3>. QED BY <3>1
  <2>. QED BY <2>1, <2>2, <2>3, <2>4, <2>5
<1>. QED BY <1>1, <1>2, <1>3, <1>4, <1>5, ContentsMoves

\* The handler of RELEASE: what is routed has been released with its contents.
LEMMA ReleaseContents == ASSUME AllInv, Contents, HandleRelease PROVE Contents'
<1>1. PICK m \in Takeable("RELEASE") :
        /\ Take(m)
        /\ \/ rpc' = "route" /\ cur' = m /\ Routes(m) /\ UNCHANGED shmVars
           \/ rpc' = "top" /\ release_buf(m.pid, m.buf)
        /\ UNCHANGED <<que, out, cst, hand, mem>>
  BY DEF HandleRelease, queVars, clientVars
<1>2. /\ m.cmd = "RELEASE" /\ m \in Range(inq) \cup Range(mb)
      /\ Range(inq') \subseteq Range(inq) /\ Range(mb') \subseteq Range(mb)
  BY <1>1, TakeShape DEF AllInv, Takeable
<1>3. CASE rpc' = "top" /\ release_buf(m.pid, m.buf)
  <2>1. used' \subseteq used
    BY <1>3, DropRefUsed DEF release_buf
  <2>2. ~ Routing'
    BY <1>3 DEF Routing
  <2>. QED BY <1>1, <1>2, <2>1, <2>2, ContentsMoves
<1>4. CASE rpc' = "route" /\ cur' = m /\ Routes(m) /\ UNCHANGED shmVars
  <2>. SUFFICES ASSUME NEW u \in used'
                PROVE  (GrantsTrue(u) /\ HandsTrue(u) /\ ReleasesTrue(u) /\ RoutedTrue(u))'
    BY DEF Contents
  <2>1. u \in used /\ mem' = mem
    BY <1>1, <1>4 DEF shmVars
  <2>2. GrantsTrue(u) /\ HandsTrue(u) /\ ReleasesTrue(u) /\ RoutedTrue(u)
    BY <2>1 DEF Contents
  <2>3. \A b, size, k : Holds(b, size, k)' <=> Holds(b, size, k)
    BY <2>1 DEF Holds
  <2>4. GrantsTrue(u)' /\ HandsTrue(u)'
    BY <1>1, <2>2, <2>3 DEF GrantsTrue, HandsTrue, Filled
  <2>5. ReleasesTrue(u)'
    BY <1>2, <2>2, <2>3 DEF ReleasesTrue
  <2>6. RoutedTrue(u)'
    BY <1>2, <1>4, <2>2, <2>3 DEF RoutedTrue, ReleasesTrue, Routes
  <2>. QED BY <2>4, <2>5, <2>6
<1>. QED BY <1>1, <1>3, <1>4

\* send_buf: a reader is told of no more than the buffer has.
LEMMA RouteContents == ASSUME AllInv, Contents, RouteSend PROVE Contents'
<1>0. PICK q : q = Head(todo)
  OBVIOUS
<1>1. rpc = "route" /\ Routing /\ todo # << >> /\ ~ PassOver(q) /\ q \in Client
  <2>1. todo \in Seq(Client)
    BY SeqMonotonic DEF AllInv, RouterInv, TypeOK
  <2>2. rpc = "route" /\ Routing /\ todo # << >> /\ ~ PassOver(q)
    BY <1>0 DEF RouteSend, Routing
  <2>. QED BY <1>0, <2>1, <2>2, TailAt
<1>2. UNCHANGED <<used, mem, cst, hand, inq, mb, out>>
  BY DEF RouteSend, shm_ref, shmVars, clientVars
<1>3. PICK x : x = Msg("BUFFER", q, cur.buf, SendSize(cur.buf, cur.size), cur.blk)
  OBVIOUS
<1>4. /\ que' = que \/ que' = Append(que, x)
      /\ Routing' => cur' = cur
  BY <1>0, <1>3 DEF RouteSend, send_msg, que_msg, queVars, Routing
<1>5. cur.buf \in Nat /\ cur.size \in Nat /\ cur.blk \in Nat /\ cur.buf \in Bufs(used)
  BY <1>1 DEF AllInv, RouterInv, RoutedInUse, TypeOK, Message
<1>6. /\ x \in Message /\ x.cmd = "BUFFER" /\ x.pid = q /\ x.buf = cur.buf /\ x.blk = cur.blk
      /\ x.size = SendSize(cur.buf, cur.size) /\ x.size \in Nat
  <2>1. SendSize(cur.buf, cur.size) \in Nat
    BY <1>5, SendSizeType DEF AllInv, RouterInv
  <2>. QED BY <1>1, <1>3, <1>5, <2>1, MsgType DEF Msg
<1>7. \A y \in Range(que') : y \in Range(que) \/ y = x
  <2>1. Range(Append(que, x)) = Range(que) \cup {x}
    BY <1>6, AppendAt DEF AllInv, RouterInv, TypeOK
  <2>. QED BY <1>4, <2>1
<1>. SUFFICES ASSUME NEW u \in used'
              PROVE  (GrantsTrue(u) /\ HandsTrue(u) /\ ReleasesTrue(u) /\ RoutedTrue(u))'
  BY DEF Contents
<1>8. GrantsTrue(u) /\ HandsTrue(u) /\ ReleasesTrue(u) /\ RoutedTrue(u) /\ u \in used
  BY <1>2 DEF Contents
<1>9. \A b, size, k : Holds(b, size, k)' <=> Holds(b, size, k)
  BY <1>2 DEF Holds
<1>10. ASSUME u.buf = x.buf PROVE Filled(x, u)
  <2>1. u.buf \in Nat /\ u.size \in Nat
    BY <1>8, UsedTypes
  <2>. DEFINE v == CHOOSE v_1 \in used : v_1.buf = cur.buf
  <2>2. v \in used /\ v.buf = u.buf
    BY <1>5, <1>6, <1>10 DEF Bufs
  <2>3. x.size <= u.size
    <3>1. x.size = IF cur.size > v.size THEN v.size ELSE cur.size
      BY <1>6 DEF SendSize, v
    <3>. HIDE DEF v
    <3>2. v = u
      BY <1>8, <2>2, SameBuf DEF AllInv, RouterInv
    <3>. QED BY <1>5, <2>1, <3>1, <3>2
  <2>4. Holds(u.buf, u.size, x.blk)
    BY <1>1, <1>6, <1>8, <1>10 DEF RoutedTrue
  <2>5. Holds(x.buf, x.size, x.blk)
    BY <1>6, <1>10, <2>1, <2>3, <2>4, PartHolds
  <2>. QED BY <2>3, <2>5 DEF Filled
<1>11. GrantsTrue(u)'
  <2>1. q \notin Writers
    BY <1>1 DEF PassOver
  <2>. SUFFICES ASSUME NEW p \in Client, NEW m \in Range(que') \cup Range(out'[p]),
                       m.cmd = "BUFFER", m.pid = p, m.buf = u.buf
                PROVE  IF p \in Writers THEN m.size = u.size ELSE Filled(m, u)'
    BY DEF GrantsTrue
  <2>2. m = x \/ m \in Range(que) \cup Range(out[p])
    BY <1>2, <1>7
  <2>3. CASE m = x
    BY <1>6, <1>9, <1>10, <2>1, <2>3 DEF Filled
  <2>4. CASE m \in Range(que) \cup Range(out[p])
    BY <1>8, <1>9, <2>4 DEF GrantsTrue, Filled
  <2>. QED BY <2>2, <2>3, <2>4
<1>12. HandsTrue(u)' /\ ReleasesTrue(u)'
  BY <1>2, <1>8, <1>9 DEF HandsTrue, ReleasesTrue, Filled
<1>13. RoutedTrue(u)'
  BY <1>1, <1>4, <1>8, <1>9 DEF RoutedTrue
<1>. QED BY <1>11, <1>12, <1>13

\* get_buf: the fresh buffer is no one's but the writer's, who is granted all of it.
LEMMA GetBufContents == ASSUME AllInv, Contents, HandleGetBuf PROVE Contents'
<1>1. PICK m \in Takeable("GETBUF") :
        /\ Take(m)
        /\ IF ~ Connected(m.pid)
             THEN rpc' = "top" /\ que' = que /\ used' = used
             ELSE IF m.pid \notin Writers \/ RoundUp(m.size) > ShmSize
             THEN send_msg(Msg("REFUSE", m.pid, 0, 0, NoBlk), msg_count, "top") /\ used' = used
             ELSE /\ get_shm(RoundUp(m.size))
                  /\ send_msg(Msg("BUFFER", m.pid, FirstFit(RoundUp(m.size)).buf, RoundUp(m.size),
                                  NoBlk), msg_count', "top")
        /\ UNCHANGED <<out, cst, hand, mem>>
  BY DEF HandleGetBuf, queVars, get_buf, shmVars, clientVars
<1>2. /\ m \in Message /\ m.pid \in Client /\ m.size \in Nat /\ m.cmd = "GETBUF"
      /\ m \in Range(inq) \cup Range(mb)
      /\ Range(inq') \subseteq Range(inq) /\ Range(mb') \subseteq Range(mb)
  <2>1. m \in Message /\ m.pid \in Client /\ m.cmd = "GETBUF" /\ m \in Range(inq) \cup Range(mb)
        /\ Range(inq') \subseteq Range(inq) /\ Range(mb') \subseteq Range(mb)
    BY <1>1, TakeShape DEF AllInv, Takeable
  <2>. QED BY <2>1 DEF Message
<1>3. ~ Routing'
  BY <1>1 DEF Routing, send_msg, EnterSnd
<1>4. que \in Seq(Message)
  BY DEF AllInv, RouterInv, TypeOK
<1>5. CASE que' = que /\ used' = used
  BY <1>1, <1>2, <1>3, <1>5, ContentsMoves
<1>6. CASE que' = Append(que, Msg("REFUSE", m.pid, 0, 0, NoBlk)) /\ used' = used
  <2>1. /\ Msg("REFUSE", m.pid, 0, 0, NoBlk) \in Message
        /\ Msg("REFUSE", m.pid, 0, 0, NoBlk).cmd # "BUFFER"
    BY <1>2, MsgType DEF NoBlk, Msg
  <2>2. \A y \in Range(que') : y.cmd = "BUFFER" => y \in Range(que)
    <3>1. Range(que') = Range(que) \cup {Msg("REFUSE", m.pid, 0, 0, NoBlk)}
      BY <1>4, <1>6, <2>1, AppendAt
    <3>. QED BY <2>1, <3>1
  <2>. QED BY <1>1, <1>2, <1>3, <1>6, <2>2, ContentsMoves
<1>7. ASSUME m.pid \in Writers, get_shm(RoundUp(m.size)),
             que' = Append(que, Msg("BUFFER", m.pid, FirstFit(RoundUp(m.size)).buf,
                                    RoundUp(m.size), NoBlk))
      PROVE  Contents'
  <2>0. PICK size, f, x : /\ size = RoundUp(m.size) /\ f = FirstFit(size)
                          /\ x = Msg("BUFFER", m.pid, f.buf, size, NoBlk)
    OBVIOUS
  <2>1. size \in Nat
    <3>1. m.size > 0
      BY <1>2 DEF AllInv, RouterInv, AskedSize
    <3>. QED BY <1>2, <2>0, <3>1, RoundUpType
  <2>2. f \in free /\ f.buf \in Nat
    <3>1. f \in Fits(size)
      BY <1>7, <2>0, <2>1, FirstFitFits DEF get_shm, AllInv, RouterInv, ShmInv
    <3>. QED BY <3>1 DEF Fits, AllInv, RouterInv, ShmInv, ShmTypeOK, Extent
  <2>3. used' = used \cup {[buf |-> f.buf, size |-> size]}
    BY <1>7, <2>0 DEF get_shm
  <2>4. f.buf \notin Bufs(used)
    <3>. SUFFICES ASSUME NEW u \in used, u.buf = f.buf PROVE FALSE
      BY DEF Bufs
    <3>1. u = f
      BY <2>2, SameBuf DEF AllInv, RouterInv
    <3>. QED BY <2>2, <3>1 DEF AllInv, RouterInv, ShmInv, Disjoint
  <2>5. \A p \in Client : f.buf \notin bl[p]
    BY <2>4, ListedInUse
  <2>6. /\ x \in Message /\ x.cmd = "BUFFER" /\ x.pid = m.pid /\ x.buf = f.buf /\ x.size = size
    BY <1>2, <2>0, <2>1, <2>2, MsgType DEF Msg, NoBlk
  <2>7. Range(que') = Range(que) \cup {x}
    BY <1>4, <1>7, <2>0, <2>6, AppendAt
  <2>8. \A b, s, k : Holds(b, s, k)' <=> Holds(b, s, k)
    BY <1>1 DEF Holds
  <2>9. ASSUME NEW u \in used
        PROVE  (GrantsTrue(u) /\ HandsTrue(u) /\ ReleasesTrue(u) /\ RoutedTrue(u))'
    <3>1. GrantsTrue(u) /\ HandsTrue(u) /\ ReleasesTrue(u) /\ RoutedTrue(u)
      BY <2>9 DEF Contents
    <3>2. u.buf # f.buf
      BY <2>4, <2>9 DEF Bufs
    <3>3. GrantsTrue(u)'
      BY <1>1, <2>6, <2>7, <2>8, <3>1, <3>2 DEF GrantsTrue, Filled
    <3>4. HandsTrue(u)'
      BY <1>1, <2>8, <3>1 DEF HandsTrue, Filled
    <3>5. ReleasesTrue(u)'
      BY <1>2, <2>8, <3>1 DEF ReleasesTrue
    <3>6. RoutedTrue(u)'
      BY <1>3 DEF RoutedTrue
    <3>. QED BY <3>3, <3>4, <3>5, <3>6
  <2>10. ASSUME NEW u, u = [buf |-> f.buf, size |-> size]
         PROVE  (GrantsTrue(u) /\ HandsTrue(u) /\ ReleasesTrue(u) /\ RoutedTrue(u))'
    <3>1. u.buf = f.buf /\ u.size = size
      BY <2>10
    <3>2. \A p \in Client : \A y \in Range(que) \cup Range(out[p]) :
            ~ (y.cmd = "BUFFER" /\ y.pid = p /\ y.buf = u.buf)
      <4>. SUFFICES ASSUME NEW p \in Client, NEW y \in Range(que) \cup Range(out[p]),
                           y.cmd = "BUFFER", y.pid = p
                    PROVE  y.buf \in bl[p]
        BY <2>5, <3>1
      <4>1. y.buf \in Granted(p) \cup Sent(p)
        BY DEF Granted, Sent, BufsIn
      <4>. QED BY <4>1 DEF AllInv, BooksInv, Tokens, Listed
    <3>3. GrantsTrue(u)'
      BY <1>1, <1>7, <2>6, <2>7, <3>1, <3>2 DEF GrantsTrue
    <3>4. HandsTrue(u)'
      <4>. SUFFICES ASSUME NEW p \in Client, cst[p] = "use", hand[p].buf = u.buf PROVE FALSE
        BY <1>1 DEF HandsTrue
      <4>1. hand[p].buf \in bl[p]
        BY DEF AllInv, BooksInv, Tokens, Listed, Working
      <4>. QED BY <2>5, <3>1, <4>1
    <3>5. ReleasesTrue(u)'
      <4>. SUFFICES ASSUME NEW y \in Range(inq) \cup Range(mb), y.cmd = "RELEASE", y.buf = u.buf,
                           y.pid \in Writers
                    PROVE  FALSE
        BY <1>2 DEF ReleasesTrue
      <4>1. y.pid \in Client
        BY DEF Client
      <4>2. y.buf \in Returned(y.pid) \cup PutOff(y.pid)
        BY DEF Returned, PutOff, BufsIn
      <4>3. y.buf \in bl[y.pid]
        BY <4>1, <4>2 DEF AllInv, BooksInv, Tokens, Listed
      <4>. QED BY <2>5, <3>1, <4>1, <4>3
    <3>6. RoutedTrue(u)'
      BY <1>3 DEF RoutedTrue
    <3>. QED BY <3>3, <3>4, <3>5, <3>6
  <2>. QED BY <2>3, <2>9, <2>10 DEF Contents
<1>. QED BY <1>1, <1>5, <1>6, <1>7 DEF send_msg, que_msg

\* router_release_buf: a writer releases what it has filled.
LEMMA ClientReleaseContents ==
    ASSUME AllInv, Contents, NEW p \in Client, ReleaseBuf(p) PROVE Contents'
<1>1. /\ cst[p] = "use" /\ UNCHANGED <<used, mb, rpc, ret, cur, que, out, mem>>
      /\ \A q \in Client : cst'[q] = "use" => cst[q] = "use" /\ hand'[q] = hand[q]
  BY DEF ReleaseBuf, AllInv, RouterInv, TypeOK, routerVars, queVars, shmVars
<1>2. PICK size \in IF p \in Writers
                      THEN {0, hand[p].size, hand[p].size + Overrun} ELSE {0} :
        inq' = Append(inq, Msg("RELEASE", p, hand[p].buf, size,
                               IF size > 0 THEN hand[p].blk ELSE NoBlk))
  BY DEF ReleaseBuf, Send
<1>3. PICK x : x = Msg("RELEASE", p, hand[p].buf, size, IF size > 0 THEN hand[p].blk ELSE NoBlk)
  OBVIOUS
<1>4. hand[p].buf \in Nat /\ hand[p].size \in Nat /\ hand[p].blk \in Nat
  BY DEF AllInv, RouterInv, TypeOK
<1>5. size \in Nat /\ (IF size > 0 THEN hand[p].blk ELSE NoBlk) \in Nat
  BY <1>4, LimitAssumption DEF NoBlk
<1>6. /\ x \in Message /\ x.pid = p /\ x.buf = hand[p].buf /\ x.size = size
      /\ x.size > 0 => x.blk = hand[p].blk
  BY <1>3, <1>4, <1>5, MsgType DEF Msg
<1>7. Range(inq') = Range(inq) \cup {x}
  BY <1>2, <1>3, <1>6, AppendAt DEF AllInv, RouterInv, TypeOK
<1>. SUFFICES ASSUME NEW u \in used'
              PROVE  (GrantsTrue(u) /\ HandsTrue(u) /\ ReleasesTrue(u) /\ RoutedTrue(u))'
  BY DEF Contents
<1>8. GrantsTrue(u) /\ HandsTrue(u) /\ ReleasesTrue(u) /\ RoutedTrue(u) /\ u \in used
  BY <1>1 DEF Contents
<1>9. \A b, s, k : Holds(b, s, k)' <=> Holds(b, s, k)
  BY <1>1 DEF Holds
<1>10. GrantsTrue(u)'
  BY <1>1, <1>8, <1>9 DEF GrantsTrue, Filled
<1>11. HandsTrue(u)'
  BY <1>1, <1>8, <1>9 DEF HandsTrue, Filled
<1>12. ReleasesTrue(u)'
  <2>. SUFFICES ASSUME NEW y \in Range(inq') \cup Range(mb'), y.cmd = "RELEASE",
                       y.pid \in Writers, y.size > 0, y.buf = u.buf
                PROVE  Holds(u.buf, u.size, y.blk)'
    BY DEF ReleasesTrue
  <2>1. CASE y = x
    <3>1. Filled(hand[p], u) /\ hand[p].size = u.size /\ y.blk = hand[p].blk /\ hand[p].buf = u.buf
      BY <1>1, <1>6, <1>8, <2>1 DEF HandsTrue
    <3>. QED BY <1>9, <3>1 DEF Filled
  <2>2. CASE y \in Range(inq) \cup Range(mb)
    BY <1>8, <1>9, <2>2 DEF ReleasesTrue
  <2>. QED BY <1>1, <1>7, <2>1, <2>2
<1>13. RoutedTrue(u)'
  BY <1>1, <1>8, <1>9 DEF RoutedTrue, Routing
<1>. QED BY <1>10, <1>11, <1>12, <1>13

\* A reader takes a buffer.
LEMMA ReaderGetContents ==
    ASSUME AllInv, Contents, NEW p \in Client \ Writers, GetBuf(p), Head(out[p]).cmd = "BUFFER"
    PROVE  Contents'
<1>1. PICK m : m = Head(out[p])
  OBVIOUS
<1>2. /\ out[p] # << >> /\ out' = [out EXCEPT ![p] = Tail(@)]
      /\ UNCHANGED <<used, mb, inq, rpc, ret, cur, que, mem>>
      /\ hand' = [hand EXCEPT ![p] = [buf |-> m.buf, size |-> m.size, blk |-> m.blk]]
      /\ cst' = [cst EXCEPT ![p] = "use"]
  BY <1>1 DEF GetBuf, Receive, routerVars, queVars, shmVars
<1>3. \A q \in Client : Range(out'[q]) \subseteq Range(out[q])
  BY <1>2, OutShrinks
<1>4. m \in Range(out[p]) /\ m.pid = p /\ m.cmd = "BUFFER"
  <2>1. m \in Range(out[p])
    BY <1>1, <1>2, TailAt DEF AllInv, RouterInv, TypeOK
  <2>. QED BY <1>1, <2>1 DEF AllInv, BooksInv, Protocol, Answered
<1>. SUFFICES ASSUME NEW u \in used'
              PROVE  (GrantsTrue(u) /\ HandsTrue(u) /\ ReleasesTrue(u) /\ RoutedTrue(u))'
  BY DEF Contents
<1>8. GrantsTrue(u) /\ HandsTrue(u) /\ ReleasesTrue(u) /\ RoutedTrue(u) /\ u \in used
  BY <1>2 DEF Contents
<1>9. \A b, s, k : Holds(b, s, k)' <=> Holds(b, s, k)
  BY <1>2 DEF Holds
<1>10. GrantsTrue(u)'
  BY <1>2, <1>3, <1>8, <1>9 DEF GrantsTrue, Filled
<1>11. HandsTrue(u)'
  <2>. SUFFICES ASSUME NEW q \in Client, cst'[q] = "use", hand'[q].buf = u.buf
                PROVE  Filled(hand[q], u)' /\ (q \in Writers => hand'[q].size = u.size)
    BY DEF HandsTrue
  <2>0. /\ cst \in [Client -> {"off", "conn", "idle", "get", "use", "fail"}]
        /\ hand \in [Client -> [buf : Nat, size : Nat, blk : Nat]]
    BY DEF AllInv, RouterInv, TypeOK
  <2>1. CASE q # p
    <3>1. cst[q] = "use" /\ hand'[q] = hand[q]
      BY <1>2, <2>0, <2>1
    <3>. QED BY <1>8, <1>9, <3>1 DEF HandsTrue, Filled
  <2>2. CASE q = p
    <3>1. hand'[q].buf = m.buf /\ hand'[q].size = m.size /\ hand'[q].blk = m.blk
      BY <1>2, <2>0, <2>2
    <3>2. Filled(m, u)
      BY <1>4, <1>8, <2>2, <3>1 DEF GrantsTrue
    <3>. QED BY <1>9, <2>2, <3>1, <3>2 DEF Filled
  <2>. QED BY <2>1, <2>2
<1>12. ReleasesTrue(u)'
  BY <1>2, <1>8, <1>9 DEF ReleasesTrue
<1>13. RoutedTrue(u)'
  BY <1>2, <1>8, <1>9 DEF RoutedTrue, Routing
<1>. QED BY <1>10, <1>11, <1>12, <1>13

\* A writer takes a buffer and fills it: no one else has been told of it.
LEMMA WriterGetContents ==
    ASSUME AllInv, Contents, NEW p \in Client, p \in Writers, GetBuf(p), Head(out[p]).cmd = "BUFFER"
    PROVE  Contents'
<1>1. PICK m : m = Head(out[p])
  OBVIOUS
<1>2. /\ out[p] # << >> /\ out' = [out EXCEPT ![p] = Tail(@)]
      /\ UNCHANGED <<used, mb, inq, rpc, ret, cur, que>>
      /\ cst' = [cst EXCEPT ![p] = "use"]
      /\ \E k \in NextBlk :
           /\ hand' = [hand EXCEPT ![p] = [buf |-> m.buf, size |-> m.size, blk |-> k]]
           /\ mem' = [w \in Word |-> IF w \in WordsOf(m.buf, m.size) THEN k ELSE mem[w]]
  BY <1>1 DEF GetBuf, Receive, routerVars, queVars, shmVars
<1>3. PICK k : /\ hand' = [hand EXCEPT ![p] = [buf |-> m.buf, size |-> m.size, blk |-> k]]
               /\ mem' = [w \in Word |-> IF w \in WordsOf(m.buf, m.size) THEN k ELSE mem[w]]
  BY <1>2
<1>4. \A q \in Client : Range(out'[q]) \subseteq Range(out[q])
  BY <1>2, OutShrinks
<1>5. m \in Range(out[p]) /\ m \in Message /\ m.pid = p /\ m.cmd = "BUFFER"
  <2>1. m \in Range(out[p]) /\ m \in Message
    BY <1>1, <1>2, TailAt DEF AllInv, RouterInv, TypeOK
  <2>. QED BY <1>1, <2>1 DEF AllInv, BooksInv, Protocol, Answered
<1>6. m.buf \in Sent(p) /\ m.buf \in bl[p]
  <2>1. m.buf \in Sent(p)
    BY <1>5 DEF Sent, BufsIn
  <2>. QED BY <2>1 DEF AllInv, BooksInv, Tokens, Listed
<1>7. PICK g \in used : g.buf = m.buf
  BY <1>6, ListedInUse DEF Bufs
<1>8. m.size = g.size /\ g.buf \in Nat /\ g.size \in Nat
  BY <1>5, <1>7, UsedTypes DEF Contents, GrantsTrue
<1>9. ASSUME NEW u \in used, u # g, NEW size \in Nat, size <= u.size, NEW j, Holds(u.buf, size, j)
      PROVE  Holds(u.buf, size, j)'
  <2>1. WordsOf(u.buf, size) \cap WordsOf(m.buf, m.size) = {}
    BY <1>7, <1>8, <1>9, ApartWords
  <2>2. WordsOf(u.buf, size) \subseteq Word
    BY DEF WordsOf
  <2>. QED BY <1>3, <1>9, <2>1, <2>2 DEF Holds
<1>10. Holds(m.buf, m.size, k)'
  <2>1. WordsOf(m.buf, m.size) \subseteq Word
    BY DEF WordsOf
  <2>. QED BY <1>3, <2>1 DEF Holds
<1>11. \A q \in Client \ {p} : m.buf \notin bl[q]
  BY <1>6 DEF AllInv, BooksInv, Lists
<1>12. /\ cst \in [Client -> {"off", "conn", "idle", "get", "use", "fail"}]
       /\ hand \in [Client -> [buf : Nat, size : Nat, blk : Nat]]
       /\ que \in Seq(Message) /\ out \in [Client -> Seq(Message)]
       /\ \A s \in Seq(Message) : \A y \in Range(s) : y \in Message
       /\ \A y \in Message : y.size \in Nat
  BY QueueTypes DEF AllInv, RouterInv, TypeOK, Message
<1>13. hand'[p] = [buf |-> m.buf, size |-> m.size, blk |-> k]
  BY <1>3, <1>12
<1>. SUFFICES ASSUME NEW u \in used'
              PROVE  (GrantsTrue(u) /\ HandsTrue(u) /\ ReleasesTrue(u) /\ RoutedTrue(u))'
  BY DEF Contents
<1>14. u \in used
  BY <1>2
<1>15. GrantsTrue(u) /\ HandsTrue(u) /\ ReleasesTrue(u) /\ RoutedTrue(u)
  BY <1>14 DEF Contents
<1>16. u.size \in Nat /\ u.buf \in Nat /\ (u.buf = m.buf <=> u = g)
  <2>1. u.buf = m.buf => u = g
    BY <1>7, <1>14, SameBuf DEF AllInv, RouterInv
  <2>. QED BY <1>7, <1>14, <2>1, UsedTypes
<1>17. GrantsTrue(u)'
  <2>. SUFFICES ASSUME NEW q \in Client, NEW y \in Range(que') \cup Range(out'[q]),
                       y.cmd = "BUFFER", y.pid = q, y.buf = u.buf
                PROVE  IF q \in Writers THEN y.size = u.size ELSE Filled(y, u)'
    BY DEF GrantsTrue
  <2>1. y \in Range(que) \cup Range(out[q]) /\ y.size \in Nat
    BY <1>2, <1>4, <1>12
  <2>2. IF q \in Writers THEN y.size = u.size ELSE Filled(y, u)
    BY <1>15, <2>1 DEF GrantsTrue
  <2>3. CASE q \notin Writers
    <3>1. y.buf \in bl[q]
      <4>1. y.buf \in Granted(q) \cup Sent(q)
        BY <2>1 DEF Granted, Sent, BufsIn
      <4>. QED BY <4>1 DEF AllInv, BooksInv, Tokens, Listed
    <3>2. u # g
      BY <1>11, <1>16, <2>3, <3>1
    <3>3. Holds(u.buf, y.size, y.blk)'
      BY <1>9, <1>14, <2>1, <2>2, <2>3, <3>2 DEF Filled
    <3>. QED BY <2>2, <2>3, <3>3 DEF Filled
  <2>. QED BY <2>2, <2>3
<1>18. HandsTrue(u)'
  <2>. SUFFICES ASSUME NEW q \in Client, cst'[q] = "use", hand'[q].buf = u.buf
                PROVE  Filled(hand[q], u)' /\ (q \in Writers => hand'[q].size = u.size)
    BY DEF HandsTrue
  <2>1. CASE q # p
    <3>1. cst[q] = "use" /\ hand'[q] = hand[q] /\ hand[q].size \in Nat
      BY <1>2, <1>3, <1>12, <2>1
    <3>2. Filled(hand[q], u) /\ (q \in Writers => hand[q].size = u.size)
      BY <1>15, <3>1 DEF HandsTrue
    <3>3. hand[q].buf \in bl[q]
      BY <3>1 DEF AllInv, BooksInv, Tokens, Listed, Working
    <3>4. u # g
      BY <1>11, <1>16, <2>1, <3>1, <3>3
    <3>5. Holds(u.buf, hand[q].size, hand[q].blk)
      BY <3>1, <3>2 DEF Filled
    <3>6. PICK s, j : s = hand[q].size /\ j = hand[q].blk
      OBVIOUS
    <3>7. Holds(u.buf, s, j)'
      BY <1>9, <1>14, <3>1, <3>2, <3>4, <3>5, <3>6 DEF Filled
    <3>. QED BY <3>1, <3>2, <3>6, <3>7 DEF Filled, Holds
  <2>2. CASE q = p
    <3>1. hand'[q].buf = m.buf /\ hand'[q].size = m.size /\ hand'[q].blk = k
      BY <1>13, <2>2
    <3>2. u = g
      BY <1>16, <3>1
    <3>3. m.size <= u.size /\ m.size = u.size
      BY <1>8, <3>2
    <3>. QED BY <1>10, <3>1, <3>3 DEF Filled, Holds
  <2>. QED BY <2>1, <2>2
<1>19. ReleasesTrue(u)'
  <2>. SUFFICES ASSUME NEW y \in Range(inq) \cup Range(mb), y.cmd = "RELEASE", y.pid \in Writers,
                       y.size > 0, y.buf = u.buf
                PROVE  Holds(u.buf, u.size, y.blk)'
    BY <1>2 DEF ReleasesTrue
  <2>1. y.pid \in Client /\ y.buf \in Returned(y.pid) \cup PutOff(y.pid)
    BY DEF Client, Returned, PutOff, BufsIn
  <2>2. y.buf # m.buf
    <3>1. y.buf \in bl[y.pid]
      BY <2>1 DEF AllInv, BooksInv, Tokens, Listed
    <3>2. y.pid = p => y.buf \notin Sent(p)
      BY <2>1 DEF AllInv, BooksInv, Tokens, Apart
    <3>. QED BY <1>6, <1>11, <2>1, <3>1, <3>2
  <2>3. Holds(u.buf, u.size, y.blk) /\ u # g /\ u.size <= u.size
    BY <1>15, <1>16, <2>2 DEF ReleasesTrue
  <2>. QED BY <1>9, <1>14, <1>16, <2>3
<1>20. RoutedTrue(u)'
  <2>. SUFFICES ASSUME Routing, cur.buf = u.buf PROVE Holds(u.buf, u.size, cur.blk)'
    BY <1>2 DEF RoutedTrue, Routing
  <2>1. cur.buf # m.buf
    BY <1>6 DEF AllInv, BooksInv, Lists
  <2>2. Holds(u.buf, u.size, cur.blk) /\ u # g /\ u.size <= u.size
    BY <1>15, <1>16, <2>1 DEF RoutedTrue
  <2>3. PICK j : j = cur.blk
    OBVIOUS
  <2>4. Holds(u.buf, u.size, j)'
    BY <1>9, <1>14, <1>16, <2>2, <2>3
  <2>. QED BY <1>2, <2>3, <2>4
<1>. QED BY <1>17, <1>18, <1>19, <1>20

\* Every step of the router and of its clients keeps the contents.
LEMMA ContentsStep == ASSUME AllInv, Contents, [Next]_vars PROVE Contents'
<1>1. CASE HandleGetBuf
  BY <1>1, GetBufContents
<1>2. CASE HandleRelease
  BY <1>2, ReleaseContents
<1>3. CASE RouteSend
  BY <1>3, RouteContents
<1>4. CASE \/ BeginListen \/ SndOne \/ SndFull \/ EndScan \/ Defer \/ HandleConnect \/ RouteSkip
           \/ RouteEnd \/ BeginDisconnect \/ PurgeQue \/ DrainOut \/ ReleaseAll \/ RemovePl
  BY <1>4, RouterMoves
<1>5. ASSUME NEW p \in Client, ClientNext(p) PROVE Contents'
  <2>0. /\ cst \in [Client -> {"off", "conn", "idle", "get", "use", "fail"}]
        /\ hand \in [Client -> [buf : Nat, size : Nat, blk : Nat]]
        /\ inq \in Seq(Message) /\ Sizes \subseteq Nat
    BY LimitAssumption DEF AllInv, RouterInv, TypeOK
  <2>1. UNCHANGED <<used, mb, rpc, ret, cur, que>>
    BY <1>5 DEF ClientNext, Connect, ConnectDone, ConnectFailed, RequestBuf, GetBuf, ReleaseBuf,
                Leave, routerVars, queVars, shmVars
  <2>2. Routing' => Routing /\ cur' = cur
    BY <2>1 DEF Routing
  <2>3. CASE ReleaseBuf(p)
    BY <2>3, ClientReleaseContents
  <2>4. CASE GetBuf(p) /\ Head(out[p]).cmd = "BUFFER"
    BY <2>4, ReaderGetContents, WriterGetContents
  <2>5. CASE ConnectDone(p) \/ ConnectFailed(p) \/ (GetBuf(p) /\ Head(out[p]).cmd # "BUFFER")
    <3>1. /\ out[p] # << >> /\ out' = [out EXCEPT ![p] = Tail(@)] /\ UNCHANGED <<inq, hand, mem>>
          /\ \A q \in Client : cst'[q] = "use" => cst[q] = "use"
      BY <2>0, <2>5 DEF ConnectDone, ConnectFailed, GetBuf, Receive
    <3>2. \A q \in Client : Range(out'[q]) \subseteq Range(out[q])
      BY <3>1, OutShrinks
    <3>. QED BY <2>1, <2>2, <3>1, <3>2, ContentsMoves
  <2>6. CASE Connect(p) \/ RequestBuf(p) \/ Leave(p)
    <3>1. /\ UNCHANGED <<out, mem>>
          /\ \A q \in Client : cst'[q] = "use" => cst[q] = "use" /\ hand'[q] = hand[q]
      BY <2>0, <2>6 DEF Connect, RequestBuf, Leave
    <3>2. PICK x \in Message : inq' = Append(inq, x) /\ x.cmd # "RELEASE"
      <4>1. \A cmd \in {"CONNECT", "GETBUF", "DISCONNECT"}, size \in Nat :
              LET x == Msg(cmd, p, 0, size, NoBlk) IN x \in Message /\ x.cmd # "RELEASE"
        BY MsgType DEF Msg, NoBlk
      <4>. QED BY <2>0, <2>6, <4>1 DEF Connect, RequestBuf, Leave, Send
    <3>3. Range(inq') = Range(inq) \cup {x}
      BY <2>0, <3>2, AppendAt
    <3>4. \A y \in Range(inq') \cup Range(mb') :
            y.cmd = "RELEASE" => y \in Range(inq) \cup Range(mb)
      BY <2>1, <3>2, <3>3
    <3>. QED BY <2>1, <2>2, <3>1, <3>4, ContentsMoves
  <2>. QED BY <1>5, <2>3, <2>4, <2>5, <2>6 DEF ClientNext
<1>6. CASE UNCHANGED vars
  <2>1. UNCHANGED <<used, mb, rpc, ret, cur, que, out, inq, cst, hand, mem>>
    BY <1>6 DEF vars, routerVars, queVars, shmVars, clientVars
  <2>2. Routing' => Routing /\ cur' = cur
    BY <2>1 DEF Routing
  <2>. QED BY <2>1, <2>2, ContentsMoves
<1>. QED BY <1>1, <1>2, <1>3, <1>4, <1>5, <1>6 DEF Next, RouterNext

-----------------------------------------------------------------------------
(* Delivery                                                                *)

\* What the invariants say holds at the start.
LEMMA DeliveryInit == Init => Contents /\ AnswerAhead /\ EveryBlock
<1>. SUFFICES ASSUME Init PROVE Contents /\ AnswerAhead /\ EveryBlock
  OBVIOUS
<1>1. used = {} /\ Range(pl) = {}
  BY DEF Init, ShmInit, Range
<1>. QED BY <1>1 DEF Contents, AnswerAhead, EveryBlock

\* A block that a reader holds is as its writer left it.
LEMMA IntactFollows == ASSUME AllInv, Contents PROVE Intact
<1>. SUFFICES ASSUME NEW p \in (Readers \cup Samplers) \cap Range(pl), NEW h \in Told(p)
              PROVE  /\ h.buf \in bl[p]
                     /\ \E u \in used : u.buf = h.buf /\ h.size <= u.size
                     /\ \A w \in WordsOf(h.buf, h.size) : mem[w] = h.blk
  BY DEF Intact
<1>1. p \in Client /\ p \notin Writers
  BY ClientAssumption DEF Client
<1>2. \/ \E m \in Range(que) \cup Range(out[p]) :
           /\ m.cmd = "BUFFER" /\ m.pid = p
           /\ h.buf = m.buf /\ h.size = m.size /\ h.blk = m.blk
      \/ cst[p] = "use" /\ h = hand[p]
  BY DEF Told
<1>3. h.buf \in Granted(p) \cup Sent(p) \cup Working(p)
  BY <1>2 DEF Granted, Sent, Working, BufsIn
<1>4. h.buf \in bl[p]
  BY <1>1, <1>3 DEF AllInv, BooksInv, Tokens, Listed
<1>5. PICK u \in used : u.buf = h.buf
  BY <1>1, <1>4, ListedInUse DEF Bufs
<1>6. Filled(h, u)
  BY <1>1, <1>2, <1>5 DEF Contents, GrantsTrue, HandsTrue, Filled
<1>. QED BY <1>4, <1>5, <1>6 DEF Filled, Holds

\* Whatever a connected reader has been told of is in use, large enough and untouched since
\* its writer released it, and a must reader gets every block released after it connected,
\* once and in the order of release, however many processes there are and whatever the
\* limits and the segment.
THEOREM RouterDelivers ==
    ASSUME OrderlyLeaving PROVE Spec => []Delivery
<1>. DEFINE Inv == Contents /\ AnswerAhead /\ EveryBlock
<1>1. Init => Inv
  BY DeliveryInit
<1>2. AllInv /\ Inv /\ [Next]_vars => Inv'
  BY ContentsStep, AnswerStep, EveryStep
<1>3. AllInv /\ Inv => Delivery
  BY IntactFollows DEF Delivery
<1>. QED BY <1>1, <1>2, <1>3, AllInvHolds, PTL DEF Spec

=============================================================================
