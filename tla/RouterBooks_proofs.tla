------------------------- MODULE RouterBooks_proofs -------------------------
(***************************************************************************)
(* The books of the router.  The reference count of a buffer, the lists of *)
(* buffers per process and the message counter agree, and the diagnostics  *)
(* of release_buf never come, for any number of processes, any segment and *)
(* any limits, as long as the processes leave in an orderly way.           *)
(*                                                                         *)
(* The argument: every message that names a buffer of a process, and the   *)
(* buffer the process is working on, is an entry of its list (Listed), and *)
(* no entry is named twice (Apart), so that a release always finds what it *)
(* releases.  That a message is never served after its sender has gone is  *)
(* the protocol of connecting and disconnecting (Protocol).                *)
(***************************************************************************)
EXTENDS Router_proofs, FiniteSetTheorems

\* The writers that never disconnect.
Stay == Writers \ MayLeave

\* A writer may leave while a release of it is put off, or while a refusal of a request of
\* it waits to be sent; the router then releases a buffer that is no longer the writer's
\* (the runs router_stale and router_refused).  Neither can happen if the writers stay, or
\* if there is no must reader to wait for and no request too large.
OrderlyLeaving ==
    \/ Writers \cap MayLeave = {}
    \/ Readers = {} /\ \A size \in Sizes : RoundUp(size) <= ShmSize

-----------------------------------------------------------------------------
(* The messages under way                                                  *)

\* What the clients send, and what the router puts off.
Asked ==
    /\ \A m \in Range(inq) :
         /\ m.cmd \in {"CONNECT", "GETBUF", "RELEASE", "DISCONNECT"}
         /\ m.cmd = "GETBUF" => m.pid \in Writers /\ m.size \in Sizes
         /\ m.cmd \in {"GETBUF", "RELEASE"} => cst[m.pid] # "conn"
    /\ \A m \in Range(mb) :
         /\ m.pid \in Writers /\ m.cmd \in {"GETBUF", "RELEASE"} /\ cst[m.pid] # "conn"
         /\ m.cmd = "GETBUF" => m.size \in Sizes
         /\ m.cmd = "RELEASE" => m.pid \in Stay

\* What the router sends: only a process in the list has been accepted ...
Answered ==
    /\ \A m \in Range(que) :
         /\ m.cmd \in {"CONNECT", "REFUSE", "BUFFER"}
         /\ m.cmd = "CONNECT" => m.pid \in Range(pl)
         /\ m.cmd = "REFUSE" => m.pid \in Strangers \cup Stay
    /\ \A p \in Client : \A m \in Range(out[p]) :
         /\ m.pid = p
         /\ m.cmd = "CONNECT" => p \in Range(pl)

\* ... and a process that has not yet had its answer has had nothing else.
AnswerFirst ==
    \A i \in DOMAIN que :
      que[i].cmd = "CONNECT" \/ (que[i].cmd = "REFUSE" /\ que[i].pid \notin Stay) =>
        /\ cst[que[i].pid] = "conn" /\ out[que[i].pid] = << >>
        /\ \A j \in 1 .. i - 1 : que[j].pid # que[i].pid

\* A writer that waits to be connected has had nothing but that answer.
WriterWaits ==
    \A w \in Writers : cst[w] = "conn" =>
      /\ \A m \in Range(que) : m.pid = w => m.cmd = "CONNECT"
      /\ \A m \in Range(out[w]) : m.cmd = "CONNECT"

\* A process that asks to be connected is unknown to the router.
Newcomer ==
    \A i \in DOMAIN inq : inq[i].cmd = "CONNECT" =>
      LET p == inq[i].pid IN
      /\ cst[p] = "conn" /\ p \notin Range(pl) /\ out[p] = << >>
      /\ \A m \in Range(que) \cup Range(mb) : m.pid # p
      /\ \A j \in DOMAIN inq : inq[j].pid = p => j = i
      /\ ~ (rpc = "disc" /\ cur.pid = p)

\* A process that has asked to be disconnected has sent nothing after that.
Leaver ==
    \A i \in DOMAIN inq : inq[i].cmd = "DISCONNECT" =>
      LET p == inq[i].pid IN
      /\ cst[p] = "off" /\ p \notin Stay
      /\ \A j \in DOMAIN inq : inq[j].pid = p => j <= i
      /\ ~ (rpc = "disc" /\ cur.pid = p)

\* So has the one the router is disconnecting.
Leaving ==
    rpc = "disc" =>
      /\ cst[cur.pid] = "off" /\ cur.pid \notin Stay
      /\ \A m \in Range(inq) : m.pid # cur.pid

\* A process that works is in the list, and a writer that stays is never turned away.
Alive ==
    \A p \in Client :
      /\ cst[p] \in {"idle", "get", "use"} => p \in Range(pl)
      /\ cst[p] = "idle" => p \in Writers
      /\ p \in Stay => cst[p] # "fail"

\* The protocol of connecting and disconnecting.
Protocol ==
    Asked /\ Answered /\ AnswerFirst /\ WriterWaits /\ Newcomer /\ Leaver /\ Leaving /\ Alive

-----------------------------------------------------------------------------
(* The buffers a process knows of                                          *)

\* The buffers in the messages cmd to or from p in a queue s.
BufsIn(s, cmd, p) == {m.buf : m \in {x \in Range(s) : x.cmd = cmd /\ x.pid = p}}

\* No two messages cmd in s name the same buffer of the same process.
Once(s, cmd) ==
    \A i, j \in DOMAIN s :
      s[i].cmd = cmd /\ s[j].cmd = cmd /\ s[i].pid = s[j].pid /\ s[i].buf = s[j].buf => i = j

\* The buffers named in messages of each kind to or from p, and the one p works on.
Granted(p)  == BufsIn(que, "BUFFER", p)
Sent(p)     == BufsIn(out[p], "BUFFER", p)
Working(p)  == IF cst[p] = "use" THEN {hand[p].buf} ELSE {}
Returned(p) == BufsIn(inq, "RELEASE", p)
PutOff(p)   == BufsIn(mb, "RELEASE", p)

\* A buffer of a process is named once in a queue, ...
Single ==
    /\ Once(que, "BUFFER") /\ Once(inq, "RELEASE") /\ Once(mb, "RELEASE")
    /\ \A p \in Client : Once(out[p], "BUFFER")

\* ... in one queue only, ...
Apart ==
    \A p \in Client :
      /\ Granted(p) \cap (Sent(p) \cup Working(p) \cup Returned(p) \cup PutOff(p)) = {}
      /\ Sent(p) \cap (Working(p) \cup Returned(p) \cup PutOff(p)) = {}
      /\ Working(p) \cap (Returned(p) \cup PutOff(p)) = {}
      /\ Returned(p) \cap PutOff(p) = {}

\* ... and is in the list of the process: a release finds what it releases.
Listed ==
    \A p \in Client :
      Granted(p) \cup Sent(p) \cup Working(p) \cup Returned(p) \cup PutOff(p) \subseteq bl[p]

Tokens == Single /\ Apart /\ Listed

-----------------------------------------------------------------------------
(* The lists                                                               *)

\* A process is listed once, one not connected has no buffers, and no one else has a buffer
\* of a writer (the writer itself has given up the one that is routed).
Lists ==
    /\ \A i, j \in DOMAIN pl : pl[i] = pl[j] => i = j
    /\ \A p \in Client \ Range(pl) : bl[p] = {}
    /\ \A w \in Writers : \A p \in Client \ {w} : bl[w] \cap bl[p] = {}
    /\ Routing => \A w \in Writers : cur.buf \notin bl[w]

\* A reader send_buf has still to look at does not have the block yet, and has room for it.
ToDo ==
    /\ ~ Routing => todo = << >>
    /\ \A i, j \in DOMAIN todo : todo[i] = todo[j] => i = j
    /\ Range(todo) \subseteq Range(pl)
    /\ Routing => \A r \in Range(todo) :
                    cur.buf \notin bl[r] /\ (r \in Readers => cnt[r] < MAXSENDBUF)

\* The inductive invariant, with RouterInv.
BooksInv == Protocol /\ Tokens /\ Lists /\ ToDo /\ Books

-----------------------------------------------------------------------------
(* Sequences                                                               *)

\* A sequence with an element added at the end, element by element.
LEMMA AppendAt ==
    ASSUME NEW S, NEW s \in Seq(S), NEW e \in S
    PROVE  /\ Append(s, e) \in Seq(S) /\ Len(s) \in Nat /\ Len(Append(s, e)) = Len(s) + 1
           /\ DOMAIN s = 1 .. Len(s) /\ DOMAIN Append(s, e) = 1 .. Len(s) + 1
           /\ \A i \in 1 .. Len(s) : Append(s, e)[i] = s[i]
           /\ Append(s, e)[Len(s) + 1] = e
           /\ Range(Append(s, e)) = Range(s) \cup {e}
BY AppendProperties, LenProperties, AppendRange

\* A sequence without its head, element by element.
LEMMA TailAt ==
    ASSUME NEW S, NEW s \in Seq(S), s # << >>
    PROVE  /\ Tail(s) \in Seq(S) /\ Len(s) \in Nat \ {0} /\ Len(Tail(s)) = Len(s) - 1
           /\ DOMAIN s = 1 .. Len(s) /\ DOMAIN Tail(s) = 1 .. Len(s) - 1
           /\ \A i \in 1 .. Len(s) - 1 : Tail(s)[i] = s[i + 1]
           /\ Head(s) = s[1] /\ Head(s) \in S
           /\ Range(s) = Range(Tail(s)) \cup {Head(s)}
<1>1. Len(s) \in Nat \ {0} /\ DOMAIN s = 1 .. Len(s)
  BY EmptySeq
<1>2. Head(s) = s[1]
  BY <1>1
<1>3. /\ Tail(s) \in Seq(S) /\ Len(Tail(s)) = Len(s) - 1
      /\ \A i \in 1 .. Len(s) - 1 : Tail(s)[i] = s[i + 1]
      /\ DOMAIN Tail(s) = 1 .. Len(s) - 1
  BY HeadTailProperties
<1>4. Range(s) \subseteq Range(Tail(s)) \cup {Head(s)}
  <2>. SUFFICES ASSUME NEW i \in 1 .. Len(s) PROVE s[i] \in Range(Tail(s)) \cup {Head(s)}
    BY <1>1 DEF Range
  <2>1. CASE i = 1
    BY <1>2, <2>1
  <2>2. CASE i # 1
    <3>1. i - 1 \in 1 .. Len(s) - 1 /\ (i - 1) + 1 = i
      BY <1>1, <2>2
    <3>2. Tail(s)[i - 1] = s[i]
      BY <1>3, <3>1
    <3>. QED BY <1>3, <3>1, <3>2 DEF Range
  <2>. QED BY <2>1, <2>2
<1>. QED BY <1>1, <1>2, <1>3, <1>4, TailRange

\* A sequence without its i-th element, element by element.
LEMMA RemoveAtAt ==
    ASSUME NEW S, NEW s \in Seq(S), NEW i \in 1 .. Len(s)
    PROVE  /\ RemoveAt(s, i) \in Seq(S) /\ Len(s) \in Nat /\ Len(RemoveAt(s, i)) = Len(s) - 1
           /\ DOMAIN s = 1 .. Len(s) /\ DOMAIN RemoveAt(s, i) = 1 .. Len(s) - 1
           /\ \A j \in 1 .. Len(s) - 1 : RemoveAt(s, i)[j] = s[IF j < i THEN j ELSE j + 1]
           /\ s[i] \in S
           /\ Range(s) = Range(RemoveAt(s, i)) \cup {s[i]}
<1>. DEFINE a == SubSeq(s, 1, i - 1)
            b == SubSeq(s, i + 1, Len(s))
            t == RemoveAt(s, i)
<1>1. Len(s) \in Nat /\ DOMAIN s = 1 .. Len(s) /\ i \in Nat /\ s[i] \in S
      /\ \A j \in 1 .. Len(s) : s[j] \in S
  BY LenProperties, ElementOfSeq
<1>2. a \in Seq(S) /\ Len(a) = i - 1 /\ \A j \in 1 .. i - 1 : a[j] = s[j]
  BY <1>1, SubSeqProperties
<1>3. b \in Seq(S) /\ Len(b) = Len(s) - i /\ \A j \in 1 .. Len(s) - i : b[j] = s[i + j]
  <2>. DEFINE m == i + 1
              n == Len(s)
  <2>1. m \in Int /\ n \in Int /\ \A k \in m .. n : s[k] \in S
    BY <1>1
  <2>2. m = i + 1 /\ n = Len(s) /\ b = SubSeq(s, m, n) /\ n \in Nat /\ i \in 1 .. n
    BY <1>1
  <2>. HIDE DEF m, n, b
  <2>3. /\ b \in Seq(S) /\ Len(b) = IF m <= n THEN n - m + 1 ELSE 0
        /\ \A j \in 1 .. n - m + 1 : b[j] = s[m + j - 1]
    BY <2>1, <2>2, SubSeqProperties
  <2>4. n - m + 1 = n - i /\ \A j \in Int : m + j - 1 = i + j
    BY <2>2
  <2>5. Len(b) = n - i
    BY <2>2, <2>3
  <2>. QED BY <2>2, <2>3, <2>4, <2>5
<1>4. t = a \o b
  BY DEF RemoveAt
<1>. HIDE DEF a, b, t
<1>5. t \in Seq(S) /\ Len(t) = Len(s) - 1
  <2>1. t \in Seq(S) /\ Len(t) = Len(a) + Len(b)
    BY <1>2, <1>3, <1>4, ConcatProperties
  <2>. QED BY <1>1, <1>2, <1>3, <2>1
<1>6. ASSUME NEW j \in 1 .. Len(s) - 1
      PROVE  t[j] = s[IF j < i THEN j ELSE j + 1]
  <2>1. t[j] = IF j <= Len(a) THEN a[j] ELSE b[j - Len(a)]
    BY <1>1, <1>2, <1>3, <1>4, ConcatProperties
  <2>2. CASE j < i
    BY <1>1, <1>2, <2>1, <2>2
  <2>3. CASE ~ (j < i)
    <3>1. j - Len(a) \in 1 .. Len(s) - i /\ i + (j - Len(a)) = j + 1 /\ ~ (j <= Len(a))
      BY <1>1, <1>2, <2>3
    <3>. QED BY <1>3, <2>1, <2>3, <3>1
  <2>. QED BY <2>2, <2>3
<1>7. DOMAIN t = 1 .. Len(s) - 1
  BY <1>5, LenProperties
<1>8. Range(s) \subseteq Range(t) \cup {s[i]}
  <2>. SUFFICES ASSUME NEW k \in 1 .. Len(s), k # i PROVE s[k] \in Range(t)
    BY <1>1 DEF Range
  <2>1. CASE k < i
    <3>1. k \in 1 .. Len(s) - 1 /\ t[k] = s[k]
      BY <1>1, <1>6, <2>1
    <3>. QED BY <1>7, <3>1 DEF Range
  <2>2. CASE ~ (k < i)
    <3>1. k - 1 \in 1 .. Len(s) - 1 /\ ~ (k - 1 < i) /\ (k - 1) + 1 = k
      BY <1>1, <2>2
    <3>2. t[k - 1] = s[k]
      BY <1>6, <3>1
    <3>. QED BY <1>7, <3>1, <3>2 DEF Range
  <2>. QED BY <2>1, <2>2
<1>9. Range(t) \subseteq Range(s)
  BY <1>1, RemoveAtType DEF t
<1>10. s[i] \in Range(s)
  BY <1>1 DEF Range
<1>11. Range(s) = Range(t) \cup {s[i]}
  BY <1>8, <1>9, <1>10
<1>12. /\ t \in Seq(S) /\ Len(s) \in Nat /\ Len(t) = Len(s) - 1
       /\ DOMAIN s = 1 .. Len(s) /\ DOMAIN t = 1 .. Len(s) - 1
       /\ \A j \in 1 .. Len(s) - 1 : t[j] = s[IF j < i THEN j ELSE j + 1]
       /\ s[i] \in S
       /\ Range(s) = Range(t) \cup {s[i]}
  BY <1>1, <1>5, <1>6, <1>7, <1>11
<1>. QED BY <1>12 DEF t

\* The process that remove_pl takes out of the list of processes, in which none is twice.
LEMMA RemoveFirstAt ==
    ASSUME NEW S, NEW s \in Seq(S), NEW e,
           \A i, j \in DOMAIN s : s[i] = s[j] => i = j
    PROVE  /\ Range(RemoveFirst(s, e)) = Range(s) \ {e}
           /\ \A i, j \in DOMAIN RemoveFirst(s, e) :
                RemoveFirst(s, e)[i] = RemoveFirst(s, e)[j] => i = j
<1>. DEFINE I == {i \in 1 .. Len(s) : s[i] = e}
<1>0. Len(s) \in Nat /\ DOMAIN s = 1 .. Len(s)
  BY LenProperties
<1>1. CASE I = {}
  <2>1. RemoveFirst(s, e) = s
    BY <1>1 DEF RemoveFirst
  <2>2. e \notin Range(s)
    BY <1>0, <1>1 DEF Range
  <2>. QED BY <2>1, <2>2
<1>2. CASE I # {}
  <2>1. Min(I) \in I
    BY <1>0, <1>2, NatMin DEF Min
  <2>. DEFINE k == Min(I)
              t == RemoveAt(s, k)
  <2>2. RemoveFirst(s, e) = t
    BY <1>2 DEF RemoveFirst, SelectInSeq
  <2>3. k \in 1 .. Len(s) /\ s[k] = e
    BY <2>1
  <2>. HIDE DEF k
  <2>4. /\ DOMAIN t = 1 .. Len(s) - 1
        /\ \A j \in 1 .. Len(s) - 1 : t[j] = s[IF j < k THEN j ELSE j + 1]
        /\ Range(s) = Range(t) \cup {e}
    BY <2>3, RemoveAtAt
  <2>. HIDE DEF t
  <2>5. e \notin Range(t)
    <3>. SUFFICES ASSUME NEW j \in 1 .. Len(s) - 1, t[j] = e PROVE FALSE
      BY <2>4 DEF Range
    <3>1. s[IF j < k THEN j ELSE j + 1] = s[k]
      BY <2>3, <2>4
    <3>2. (IF j < k THEN j ELSE j + 1) \in 1 .. Len(s) /\ (IF j < k THEN j ELSE j + 1) # k
      BY <1>0, <2>3
    <3>. QED BY <1>0, <2>3, <3>1, <3>2
  <2>6. ASSUME NEW i \in 1 .. Len(s) - 1, NEW j \in 1 .. Len(s) - 1, t[i] = t[j]
        PROVE  i = j
    <3>1. s[IF i < k THEN i ELSE i + 1] = s[IF j < k THEN j ELSE j + 1]
      BY <2>4, <2>6
    <3>2. /\ (IF i < k THEN i ELSE i + 1) \in 1 .. Len(s)
          /\ (IF j < k THEN j ELSE j + 1) \in 1 .. Len(s)
      BY <1>0, <2>3
    <3>3. (IF i < k THEN i ELSE i + 1) = (IF j < k THEN j ELSE j + 1)
      BY <1>0, <3>1, <3>2
    <3>. QED BY <1>0, <2>3, <3>3
  <2>. QED BY <2>2, <2>4, <2>5, <2>6
<1>. QED BY <1>1, <1>2

-----------------------------------------------------------------------------
(* The buffers named in a queue                                            *)

\* The buffer of p that the message m names, if it is of the kind asked for.
BufOf(m, cmd, p) == IF m.cmd = cmd /\ m.pid = p THEN {m.buf} ELSE {}

\* A message is in a queue: its buffer is among those named there.
LEMMA InBufs ==
    ASSUME NEW s, NEW cmd, NEW p, NEW b
    PROVE  b \in BufsIn(s, cmd, p) <=>
             \E i \in DOMAIN s : s[i].cmd = cmd /\ s[i].pid = p /\ s[i].buf = b
BY DEF BufsIn, Range

\* A queue with a message added at the end.
LEMMA AppendBufs ==
    ASSUME NEW s \in Seq(Message), NEW m \in Message, NEW cmd
    PROVE  \A p : BufsIn(Append(s, m), cmd, p) = BufsIn(s, cmd, p) \cup BufOf(m, cmd, p)
<1>1. Range(Append(s, m)) = Range(s) \cup {m}
  BY AppendAt
<1>. QED BY <1>1 DEF BufsIn, BufOf

\* A message that names a new buffer joins a queue.
LEMMA AppendOnce ==
    ASSUME NEW s \in Seq(Message), NEW m \in Message, NEW cmd, Once(s, cmd),
           m.cmd = cmd => m.buf \notin BufsIn(s, cmd, m.pid)
    PROVE  Once(Append(s, m), cmd)
<1>. DEFINE t == Append(s, m)
<1>1. /\ Len(s) \in Nat /\ DOMAIN s = 1 .. Len(s) /\ DOMAIN t = 1 .. Len(s) + 1
      /\ t[Len(s) + 1] = m /\ \A i \in 1 .. Len(s) : t[i] = s[i]
  BY AppendAt
<1>. HIDE DEF t
<1>2. ASSUME NEW i \in 1 .. Len(s), s[i].cmd = cmd, m.cmd = cmd, s[i].pid = m.pid, s[i].buf = m.buf
      PROVE  FALSE
  <2>1. m.buf \in BufsIn(s, cmd, m.pid)
    BY <1>1, <1>2, InBufs
  <2>. QED BY <1>2, <2>1
<1>3. ASSUME NEW i \in DOMAIN t, NEW j \in DOMAIN t,
             t[i].cmd = cmd, t[j].cmd = cmd, t[i].pid = t[j].pid, t[i].buf = t[j].buf
      PROVE  i = j
  <2>1. CASE i \in 1 .. Len(s) /\ j \in 1 .. Len(s)
    BY <1>1, <1>3, <2>1 DEF Once
  <2>2. CASE i \in 1 .. Len(s) /\ j = Len(s) + 1
    BY <1>1, <1>2, <1>3, <2>2
  <2>3. CASE i = Len(s) + 1 /\ j \in 1 .. Len(s)
    BY <1>1, <1>2, <1>3, <2>3
  <2>4. CASE i = Len(s) + 1 /\ j = Len(s) + 1
    BY <2>4
  <2>. QED BY <1>1, <2>1, <2>2, <2>3, <2>4
<1>. QED BY <1>3 DEF Once, t

\* A queue without its i-th message: the buffer it named is no longer named.
LEMMA RemoveBufs ==
    ASSUME NEW s \in Seq(Message), NEW i \in 1 .. Len(s), NEW cmd, Once(s, cmd)
    PROVE  /\ Once(RemoveAt(s, i), cmd)
           /\ \A p : BufsIn(RemoveAt(s, i), cmd, p) = BufsIn(s, cmd, p) \ BufOf(s[i], cmd, p)
<1>. DEFINE t == RemoveAt(s, i)
            at(j) == IF j < i THEN j ELSE j + 1
<1>1. /\ Len(s) \in Nat /\ DOMAIN s = 1 .. Len(s) /\ DOMAIN t = 1 .. Len(s) - 1
      /\ \A j \in 1 .. Len(s) - 1 : t[j] = s[at(j)]
      /\ Range(s) = Range(t) \cup {s[i]}
  BY RemoveAtAt
<1>2. \A j \in 1 .. Len(s) - 1 : at(j) \in 1 .. Len(s) /\ at(j) # i
  BY <1>1
<1>3. \A j, k \in 1 .. Len(s) - 1 : at(j) = at(k) => j = k
  BY <1>1
<1>. HIDE DEF t, at
<1>4. Once(t, cmd)
  <2>. SUFFICES ASSUME NEW j \in 1 .. Len(s) - 1, NEW k \in 1 .. Len(s) - 1,
                       t[j].cmd = cmd, t[k].cmd = cmd, t[j].pid = t[k].pid, t[j].buf = t[k].buf
                PROVE  j = k
    BY <1>1 DEF Once
  <2>1. at(j) = at(k)
    BY <1>1, <1>2 DEF Once
  <2>. QED BY <1>3, <2>1
<1>5. ASSUME NEW p, NEW b \in BufsIn(t, cmd, p)
      PROVE  b \in BufsIn(s, cmd, p) /\ b \notin BufOf(s[i], cmd, p)
  <2>1. PICK j \in 1 .. Len(s) - 1 : t[j].cmd = cmd /\ t[j].pid = p /\ t[j].buf = b
    BY <1>1, <1>5, InBufs
  <2>2. at(j) \in DOMAIN s /\ at(j) # i /\ s[at(j)] = t[j]
    BY <1>1, <1>2
  <2>3. b \in BufsIn(s, cmd, p)
    BY <2>1, <2>2, InBufs
  <2>4. b \notin BufOf(s[i], cmd, p)
    BY <1>1, <2>1, <2>2 DEF BufOf, Once
  <2>. QED BY <2>3, <2>4
<1>6. ASSUME NEW p, NEW b \in BufsIn(s, cmd, p), b \notin BufOf(s[i], cmd, p)
      PROVE  b \in BufsIn(t, cmd, p)
  BY <1>1, <1>6 DEF BufsIn, BufOf
<1>7. \A p : BufsIn(t, cmd, p) = BufsIn(s, cmd, p) \ BufOf(s[i], cmd, p)
  BY <1>5, <1>6
<1>. QED BY <1>4, <1>7 DEF t

\* The same for the head.
LEMMA TailBufs ==
    ASSUME NEW s \in Seq(Message), s # << >>, NEW cmd, Once(s, cmd)
    PROVE  /\ Once(Tail(s), cmd)
           /\ \A p : BufsIn(Tail(s), cmd, p) = BufsIn(s, cmd, p) \ BufOf(Head(s), cmd, p)
<1>. DEFINE t == Tail(s)
<1>1. /\ Len(s) \in Nat \ {0} /\ DOMAIN s = 1 .. Len(s) /\ DOMAIN t = 1 .. Len(s) - 1
      /\ \A j \in 1 .. Len(s) - 1 : t[j] = s[j + 1]
      /\ Head(s) = s[1] /\ Range(s) = Range(t) \cup {Head(s)}
  BY TailAt
<1>. HIDE DEF t
<1>2. \A j \in 1 .. Len(s) - 1 : j + 1 \in 1 .. Len(s) /\ j + 1 # 1
  BY <1>1
<1>4. Once(t, cmd)
  <2>. SUFFICES ASSUME NEW j \in 1 .. Len(s) - 1, NEW k \in 1 .. Len(s) - 1,
                       t[j].cmd = cmd, t[k].cmd = cmd, t[j].pid = t[k].pid, t[j].buf = t[k].buf
                PROVE  j = k
    BY <1>1 DEF Once
  <2>1. j + 1 = k + 1
    BY <1>1, <1>2 DEF Once
  <2>. QED BY <1>1, <2>1
<1>5. ASSUME NEW p, NEW b \in BufsIn(t, cmd, p)
      PROVE  b \in BufsIn(s, cmd, p) /\ b \notin BufOf(Head(s), cmd, p)
  <2>1. PICK j \in 1 .. Len(s) - 1 : t[j].cmd = cmd /\ t[j].pid = p /\ t[j].buf = b
    BY <1>1, <1>5, InBufs
  <2>2. j + 1 \in DOMAIN s /\ j + 1 # 1 /\ s[j + 1] = t[j] /\ 1 \in DOMAIN s
    BY <1>1, <1>2
  <2>3. b \in BufsIn(s, cmd, p)
    BY <2>1, <2>2, InBufs
  <2>4. b \notin BufOf(Head(s), cmd, p)
    BY <1>1, <2>1, <2>2 DEF BufOf, Once
  <2>. QED BY <2>3, <2>4
<1>6. ASSUME NEW p, NEW b \in BufsIn(s, cmd, p), b \notin BufOf(Head(s), cmd, p)
      PROVE  b \in BufsIn(t, cmd, p)
  BY <1>1, <1>6 DEF BufsIn, BufOf
<1>7. \A p : BufsIn(t, cmd, p) = BufsIn(s, cmd, p) \ BufOf(Head(s), cmd, p)
  BY <1>5, <1>6
<1>. QED BY <1>4, <1>7 DEF t

-----------------------------------------------------------------------------
(* The protocol: one lemma per kind of step                                *)

\* The types the protocol speaks of.
LEMMA QueueTypes ==
    ASSUME RouterInv
    PROVE  /\ inq \in Seq(Message) /\ mb \in Seq(Message) /\ que \in Seq(Message)
           /\ out \in [Client -> Seq(Message)] /\ pl \in Seq(Client)
           /\ cst \in [Client -> {"off", "conn", "idle", "get", "use", "fail"}]
           /\ cur \in Message /\ cur.pid \in Client
           /\ \A s \in Seq(Message) : \A m \in Range(s) : m \in Message /\ m.pid \in Client
           /\ \A s \in Seq(Message) : DOMAIN s = 1 .. Len(s) /\ Len(s) \in Nat
           /\ \A s \in Seq(Message) : \A i \in DOMAIN s :
                s[i] \in Range(s) /\ s[i] \in Message /\ s[i].pid \in Client
<1>1. \A s \in Seq(Message) : \A m \in Range(s) : m \in Message
  BY RangeOfSeq
<1>2. \A m \in Message : m.pid \in Client
  BY DEF Message
<1>3. pl \in Seq(Client)
  BY SeqMonotonic DEF RouterInv, TypeOK
<1>4. \A s \in Seq(Message) : \A i \in DOMAIN s : s[i] \in Range(s)
  BY DEF Range
<1>5. \A s \in Seq(Message) : DOMAIN s = 1 .. Len(s) /\ Len(s) \in Nat
  BY LenProperties
<1>6. /\ inq \in Seq(Message) /\ mb \in Seq(Message) /\ que \in Seq(Message)
      /\ out \in [Client -> Seq(Message)]
      /\ cst \in [Client -> {"off", "conn", "idle", "get", "use", "fail"}]
      /\ cur \in Message
  BY DEF RouterInv, TypeOK
<1>. QED BY <1>1, <1>2, <1>3, <1>4, <1>5, <1>6

\* Steps that move no message and change no list of processes.
LEMMA ProtocolSame ==
    ASSUME Protocol, UNCHANGED <<inq, mb, que, out, pl, cst>>,
           rpc' # "disc" \/ UNCHANGED <<rpc, cur>>
    PROVE  Protocol'
BY DEF Protocol, Asked, Answered, AnswerFirst, WriterWaits, Newcomer, Leaver, Leaving, Alive

\* que_snd hands a message to the kernel.
LEMMA SndOneProtocol == ASSUME RouterInv, Protocol, SndOne PROVE Protocol'
<1>. DEFINE h == Head(que)
<1>0. /\ rpc = "snd" /\ rpc' \in {"top", "scan", "route", "snd"} /\ que # << >>
      /\ que' = Tail(que) /\ out' = [out EXCEPT ![h.pid] = Append(@, h)]
      /\ UNCHANGED <<inq, mb, pl, cst, cur>>
  BY DEF RouterInv, TypeOK, SndPending, SndOne, plVars, clientVars
<1>1. /\ Len(que) \in Nat \ {0} /\ DOMAIN que = 1 .. Len(que) /\ DOMAIN que' = 1 .. Len(que) - 1
      /\ \A i \in 1 .. Len(que) - 1 : que'[i] = que[i + 1]
      /\ h = que[1] /\ h \in Message /\ Range(que) = Range(que') \cup {h}
  BY <1>0, QueueTypes, TailAt
<1>2. h.pid \in Client /\ h \in Range(que)
  BY <1>1 DEF Message
<1>. HIDE DEF h
<1>3. /\ out'[h.pid] # << >> /\ Range(out'[h.pid]) = Range(out[h.pid]) \cup {h}
      /\ \A p \in Client : p # h.pid => out'[p] = out[p]
  <2>1. out \in [Client -> Seq(Message)] /\ out[h.pid] \in Seq(Message)
    BY <1>2, QueueTypes
  <2>2. out'[h.pid] = Append(out[h.pid], h)
    BY <1>0, <1>2, <2>1
  <2>3. /\ Range(Append(out[h.pid], h)) = Range(out[h.pid]) \cup {h}
        /\ Len(Append(out[h.pid], h)) = Len(out[h.pid]) + 1
        /\ Len(out[h.pid]) \in Nat
    BY <1>1, <2>1, AppendAt
  <2>4. Append(out[h.pid], h) # << >>
    BY <2>3, EmptySeq
  <2>. QED BY <1>0, <1>2, <2>1, <2>2, <2>3, <2>4
<1>4. Asked' /\ Leaver' /\ Leaving' /\ Alive'
  BY <1>0 DEF Protocol, Asked, Leaver, Leaving, Alive
<1>5. Answered'
  <2>1. \A m \in Range(que)' : m \in Range(que)
    BY <1>1
  <2>2. \A p \in Client : \A m \in Range(out[p])' : m \in Range(out[p]) \/ (p = h.pid /\ m = h)
    BY <1>3
  <2>3. h.cmd = "CONNECT" => h.pid \in Range(pl)
    BY <1>2 DEF Protocol, Answered
  <2>4. \A p \in Client : \A m \in Range(out[p]) :
          m.pid = p /\ (m.cmd = "CONNECT" => p \in Range(pl))
    BY DEF Protocol, Answered
  <2>5. Range(pl)' = Range(pl)
    BY <1>0
  <2>6. ASSUME NEW p \in Client, NEW m \in Range(out[p])'
        PROVE  m.pid = p /\ (m.cmd = "CONNECT" => p \in Range(pl)')
    BY <2>2, <2>3, <2>4, <2>5
  <2>. QED BY <2>1, <2>5, <2>6 DEF Protocol, Answered
<1>6. AnswerFirst'
  <2>. SUFFICES ASSUME NEW i \in 1 .. Len(que) - 1,
                       \/ que'[i].cmd = "CONNECT"
                       \/ que'[i].cmd = "REFUSE" /\ que'[i].pid \notin Stay
                PROVE  /\ cst'[que'[i].pid] = "conn" /\ out'[que'[i].pid] = << >>
                       /\ \A j \in 1 .. i - 1 : que'[j].pid # que'[i].pid
    BY <1>1 DEF AnswerFirst
  <2>1. i + 1 \in DOMAIN que /\ que'[i] = que[i + 1] /\ 1 \in 1 .. (i + 1) - 1
    BY <1>1
  <2>2. /\ cst[que[i + 1].pid] = "conn" /\ out[que[i + 1].pid] = << >>
        /\ \A j \in 1 .. (i + 1) - 1 : que[j].pid # que[i + 1].pid
    BY <2>1 DEF Protocol, AnswerFirst
  <2>3. que[i + 1].pid \in Client /\ que[i + 1].pid # h.pid
    BY <1>1, <2>1, <2>2, QueueTypes
  <2>4. ASSUME NEW j \in 1 .. i - 1 PROVE que'[j].pid # que'[i].pid
    <3>1. j + 1 \in 1 .. (i + 1) - 1 /\ que'[j] = que[j + 1]
      BY <1>1
    <3>. QED BY <2>1, <2>2, <3>1
  <2>. QED BY <1>0, <1>3, <2>1, <2>2, <2>3, <2>4
<1>7. WriterWaits'
  <2>1. Writers \subseteq Client
    BY DEF Client
  <2>2. \A m \in Range(que)' : m \in Range(que)
    BY <1>1
  <2>3. \A p \in Client : \A m \in Range(out[p])' : m \in Range(out[p]) \/ (p = h.pid /\ m = h)
    BY <1>3
  <2>. QED BY <1>0, <1>2, <2>1, <2>2, <2>3 DEF Protocol, WriterWaits
<1>8. Newcomer'
  <2>1. \A m \in Range(que)' : m \in Range(que)
    BY <1>1
  <2>2. \A i \in DOMAIN inq : inq[i].pid \in Client
    BY QueueTypes
  <2>. QED BY <1>0, <1>2, <1>3, <2>1, <2>2 DEF Protocol, Newcomer
<1>. QED BY <1>4, <1>5, <1>6, <1>7, <1>8 DEF Protocol

\* A message is put off: only a writer's, and a release only if the writer stays.
LEMMA DeferProtocol == ASSUME OrderlyLeaving, RouterInv, Protocol, Defer PROVE Protocol'
<1>. DEFINE h == Head(inq)
<1>0. /\ rpc = "wait" /\ inq # << >> /\ Pends(h) /\ mb' = Append(mb, h) /\ inq' = Tail(inq)
      /\ UNCHANGED <<rpc, que, out, pl, cst, cur>>
  BY DEF Defer, plVars, queVars, clientVars
<1>1. /\ Len(inq) \in Nat \ {0} /\ DOMAIN inq = 1 .. Len(inq) /\ DOMAIN inq' = 1 .. Len(inq) - 1
      /\ \A i \in 1 .. Len(inq) - 1 : inq'[i] = inq[i + 1]
      /\ h = inq[1] /\ h \in Message /\ Range(inq) = Range(inq') \cup {h}
  BY <1>0, QueueTypes, TailAt
<1>2. Range(mb)' = Range(mb) \cup {h}
  BY <1>0, <1>1, QueueTypes, AppendAt
<1>3. h.pid \in Writers /\ h.cmd \in {"GETBUF", "RELEASE"}
  BY <1>0 DEF Pends, ReleasePends, GetBufPends
<1>4. h.cmd = "RELEASE" => h.pid \in Stay
  <2>1. h.cmd = "RELEASE" => Readers # {}
    BY <1>0 DEF Pends, ReleasePends, GetBufPends, check_max_buf
  <2>. QED BY <1>3, <2>1 DEF OrderlyLeaving, Stay
<1>. HIDE DEF h
<1>5. Asked'
  BY <1>0, <1>1, <1>2, <1>3, <1>4 DEF Protocol, Asked
<1>6. Answered' /\ AnswerFirst' /\ WriterWaits' /\ Alive'
  BY <1>0 DEF Protocol, Answered, AnswerFirst, WriterWaits, Alive
<1>7. Newcomer'
  <2>. SUFFICES ASSUME NEW i \in 1 .. Len(inq) - 1, inq'[i].cmd = "CONNECT"
                PROVE  LET p == inq'[i].pid IN
                       /\ cst'[p] = "conn" /\ p \notin Range(pl)' /\ out'[p] = << >>
                       /\ \A m \in Range(que)' \cup Range(mb)' : m.pid # p
                       /\ \A j \in 1 .. Len(inq) - 1 : inq'[j].pid = p => j = i
                       /\ ~ (rpc' = "disc" /\ cur'.pid = p)
    BY <1>1 DEF Newcomer
  <2>. DEFINE p == inq'[i].pid
  <2>1. i + 1 \in DOMAIN inq /\ inq'[i] = inq[i + 1] /\ 1 \in DOMAIN inq /\ 1 # i + 1
    BY <1>1
  <2>2. /\ cst[p] = "conn" /\ p \notin Range(pl) /\ out[p] = << >>
        /\ \A m \in Range(que) \cup Range(mb) : m.pid # p
        /\ \A j \in DOMAIN inq : inq[j].pid = p => j = i + 1
    BY <2>1 DEF Protocol, Newcomer
  <2>3. h.pid # p
    BY <1>1, <2>1, <2>2
  <2>4. ASSUME NEW j \in 1 .. Len(inq) - 1, inq'[j].pid = p PROVE j = i
    <3>1. j + 1 \in DOMAIN inq /\ inq'[j] = inq[j + 1]
      BY <1>1
    <3>2. j + 1 = i + 1
      BY <2>2, <2>4, <3>1
    <3>. QED BY <3>2
  <2>. QED BY <1>0, <1>2, <2>2, <2>3, <2>4
<1>8. Leaver'
  <2>. SUFFICES ASSUME NEW i \in 1 .. Len(inq) - 1, inq'[i].cmd = "DISCONNECT"
                PROVE  LET p == inq'[i].pid IN
                       /\ cst'[p] = "off" /\ p \notin Stay
                       /\ \A j \in 1 .. Len(inq) - 1 : inq'[j].pid = p => j <= i
                       /\ ~ (rpc' = "disc" /\ cur'.pid = p)
    BY <1>1 DEF Leaver
  <2>. DEFINE p == inq'[i].pid
  <2>1. i + 1 \in DOMAIN inq /\ inq'[i] = inq[i + 1]
    BY <1>1
  <2>2. /\ cst[p] = "off" /\ p \notin Stay
        /\ \A j \in DOMAIN inq : inq[j].pid = p => j <= i + 1
    BY <2>1 DEF Protocol, Leaver
  <2>3. ASSUME NEW j \in 1 .. Len(inq) - 1, inq'[j].pid = p PROVE j <= i
    <3>1. j + 1 \in DOMAIN inq /\ inq'[j] = inq[j + 1]
      BY <1>1
    <3>2. j + 1 <= i + 1
      BY <2>2, <2>3, <3>1
    <3>. QED BY <3>2
  <2>. QED BY <1>0, <2>2, <2>3
<1>9. Leaving'
  BY <1>0 DEF Leaving
<1>. QED BY <1>5, <1>6, <1>7, <1>8, <1>9 DEF Protocol

\* What do_listen hands to message(): a pending message or the head of the input queue,
\* which is shifted by k places.
LEMMA TakeShape ==
    ASSUME RouterInv, NEW m, Take(m)
    PROVE  /\ m \in Message /\ m.pid \in Client /\ Ready(m) /\ rpc \in {"scan", "wait"}
           /\ m \in Range(inq) \cup Range(mb)
           /\ Range(inq') \subseteq Range(inq) /\ Range(mb') \subseteq Range(mb)
           /\ \E k \in {0, 1} :
                /\ k = 1 => inq # << >> /\ m = Head(inq) /\ m = inq[1] /\ inq' = Tail(inq) /\ mb' = mb
                /\ k = 0 => /\ inq' = inq
                            /\ \E i \in 1 .. Len(mb) : m = mb[i] /\ mb' = RemoveAt(mb, i)
                /\ DOMAIN inq = 1 .. Len(inq) /\ Len(inq) \in Nat /\ Len(inq) >= k
                /\ DOMAIN inq' = 1 .. Len(inq) - k
                /\ \A i \in 1 .. Len(inq) - k : inq'[i] = inq[i + k]
<1>0. inq \in Seq(Message) /\ mb \in Seq(Message) /\ Len(inq) \in Nat /\ DOMAIN inq = 1 .. Len(inq)
  BY QueueTypes
<1>1. CASE rpc = "scan"
  <2>. DEFINE i == SelectInSeq(mb, Ready)
  <2>1. /\ \E j \in DOMAIN mb : Ready(mb[j])
        /\ m = mb[i] /\ mb' = RemoveAt(mb, i) /\ inq' = inq
    BY <1>1 DEF Take
  <2>2. i \in 1 .. Len(mb) /\ Ready(mb[i])
    BY <2>1, SelectInMb DEF RouterInv
  <2>. HIDE DEF i
  <2>3. m \in Message /\ m \in Range(mb) /\ Range(mb') \subseteq Range(mb)
    BY <1>0, <2>1, <2>2, RemoveAtAt
  <2>4. m.pid \in Client
    BY <2>3 DEF Message
  <2>5. \A j \in 1 .. Len(inq) - 0 : inq'[j] = inq[j + 0]
    BY <1>0, <2>1
  <2>6. Len(inq) - 0 = Len(inq)
    BY <1>0
  <2>7. \E k \in {0, 1} :
          /\ k = 1 => inq # << >> /\ m = Head(inq) /\ m = inq[1] /\ inq' = Tail(inq) /\ mb' = mb
          /\ k = 0 => /\ inq' = inq
                      /\ \E j \in 1 .. Len(mb) : m = mb[j] /\ mb' = RemoveAt(mb, j)
          /\ DOMAIN inq = 1 .. Len(inq) /\ Len(inq) \in Nat /\ Len(inq) >= k
          /\ DOMAIN inq' = 1 .. Len(inq) - k
          /\ \A j \in 1 .. Len(inq) - k : inq'[j] = inq[j + k]
    <3>. WITNESS 0 \in {0, 1}
    <3>. QED BY <1>0, <2>1, <2>2, <2>5, <2>6
  <2>. QED BY <1>0, <1>1, <2>1, <2>2, <2>3, <2>4, <2>7
<1>2. CASE rpc # "scan"
  <2>1. /\ rpc = "wait" /\ inq # << >> /\ Ready(Head(inq))
        /\ m = Head(inq) /\ inq' = Tail(inq) /\ mb' = mb
    BY <1>2 DEF Take
  <2>2. /\ Len(inq) >= 1 /\ DOMAIN inq' = 1 .. Len(inq) - 1
        /\ \A i \in 1 .. Len(inq) - 1 : inq'[i] = inq[i + 1]
        /\ m = inq[1] /\ m \in Message /\ Range(inq) = Range(inq') \cup {m}
    BY <1>0, <2>1, TailAt
  <2>3. m.pid \in Client
    BY <2>2 DEF Message
  <2>4. \E k \in {0, 1} :
          /\ k = 1 => inq # << >> /\ m = Head(inq) /\ m = inq[1] /\ inq' = Tail(inq) /\ mb' = mb
          /\ k = 0 => /\ inq' = inq
                      /\ \E i \in 1 .. Len(mb) : m = mb[i] /\ mb' = RemoveAt(mb, i)
          /\ DOMAIN inq = 1 .. Len(inq) /\ Len(inq) \in Nat /\ Len(inq) >= k
          /\ DOMAIN inq' = 1 .. Len(inq) - k
          /\ \A i \in 1 .. Len(inq) - k : inq'[i] = inq[i + k]
    <3>. WITNESS 1 \in {0, 1}
    <3>. QED BY <1>0, <2>1, <2>2
  <2>. QED BY <1>0, <2>1, <2>2, <2>3, <2>4
<1>. QED BY <1>1, <1>2

\* After a message has been taken, no newcomer and no leaver behind it is its sender.
LEMMA TakeOrder ==
    ASSUME RouterInv, Protocol, NEW m, Take(m)
    PROVE  /\ \A i \in DOMAIN inq' : inq'[i].cmd = "CONNECT" =>
                LET p == inq'[i].pid IN
                /\ p \in Client /\ p # m.pid
                /\ cst[p] = "conn" /\ p \notin Range(pl) /\ out[p] = << >>
                /\ \A x \in Range(que) \cup Range(mb') : x.pid # p
                /\ \A j \in DOMAIN inq' : inq'[j].pid = p => j = i
           /\ \A i \in DOMAIN inq' : inq'[i].cmd = "DISCONNECT" =>
                LET p == inq'[i].pid IN
                /\ cst[p] = "off" /\ p \notin Stay
                /\ \A j \in DOMAIN inq' : inq'[j].pid = p => j <= i
           /\ m.cmd = "CONNECT" =>
                /\ cst[m.pid] = "conn" /\ m.pid \notin Range(pl) /\ out[m.pid] = << >>
                /\ \A x \in Range(que) \cup Range(mb') : x.pid # m.pid
           /\ m.cmd \in {"GETBUF", "RELEASE"} => cst[m.pid] # "conn"
           /\ m.cmd = "DISCONNECT" =>
                /\ cst[m.pid] = "off" /\ m.pid \notin Stay
                /\ \A x \in Range(inq') : x.pid # m.pid
                /\ \A i \in DOMAIN inq' : inq'[i].cmd \in {"CONNECT", "DISCONNECT"} => inq'[i].pid # m.pid
<1>1. PICK k \in {0, 1} :
        /\ k = 1 => m = inq[1] /\ mb' = mb
        /\ k = 0 => m \in Range(mb)
        /\ DOMAIN inq = 1 .. Len(inq) /\ Len(inq) \in Nat /\ Len(inq) >= k
        /\ DOMAIN inq' = 1 .. Len(inq) - k
        /\ \A i \in 1 .. Len(inq) - k : inq'[i] = inq[i + k]
  <2>1. \A i \in 1 .. Len(mb) : mb[i] \in Range(mb)
    BY QueueTypes
  <2>. QED BY TakeShape, <2>1
<1>2. /\ Range(inq') \subseteq Range(inq) /\ Range(mb') \subseteq Range(mb)
      /\ m \in Range(inq) \cup Range(mb) /\ m.pid \in Client
  BY TakeShape
<1>3. \A i \in DOMAIN inq' : i + k \in DOMAIN inq /\ inq'[i] = inq[i + k]
  BY <1>1
<1>4. k = 1 => 1 \in DOMAIN inq
  BY <1>1
<1>5. ASSUME NEW i \in DOMAIN inq', inq'[i].cmd = "CONNECT"
      PROVE  LET p == inq'[i].pid IN
             /\ p \in Client /\ p # m.pid
             /\ cst[p] = "conn" /\ p \notin Range(pl) /\ out[p] = << >>
             /\ \A x \in Range(que) \cup Range(mb') : x.pid # p
             /\ \A j \in DOMAIN inq' : inq'[j].pid = p => j = i
  <2>. DEFINE p == inq'[i].pid
  <2>1. i + k \in DOMAIN inq /\ inq'[i] = inq[i + k] /\ i \in Nat \ {0} /\ p \in Client
    BY <1>1, <1>3, QueueTypes
  <2>2. /\ cst[p] = "conn" /\ p \notin Range(pl) /\ out[p] = << >>
        /\ \A x \in Range(que) \cup Range(mb) : x.pid # p
        /\ \A j \in DOMAIN inq : inq[j].pid = p => j = i + k
    BY <1>5, <2>1 DEF Protocol, Newcomer
  <2>3. p # m.pid
    <3>1. CASE k = 0
      BY <1>1, <2>2, <3>1
    <3>2. CASE k = 1
      BY <1>1, <1>4, <2>1, <2>2, <3>2
    <3>. QED BY <3>1, <3>2
  <2>4. ASSUME NEW j \in DOMAIN inq', inq'[j].pid = p PROVE j = i
    <3>1. j + k = i + k /\ j \in Nat /\ i \in Nat
      BY <1>1, <1>3, <2>1, <2>2, <2>4
    <3>. QED BY <3>1
  <2>. QED BY <1>2, <2>1, <2>2, <2>3, <2>4
<1>6. ASSUME NEW i \in DOMAIN inq', inq'[i].cmd = "DISCONNECT"
      PROVE  LET p == inq'[i].pid IN
             /\ cst[p] = "off" /\ p \notin Stay
             /\ \A j \in DOMAIN inq' : inq'[j].pid = p => j <= i
  <2>. DEFINE p == inq'[i].pid
  <2>1. i + k \in DOMAIN inq /\ inq'[i] = inq[i + k] /\ i \in Nat \ {0}
    BY <1>1, <1>3
  <2>2. /\ cst[p] = "off" /\ p \notin Stay
        /\ \A j \in DOMAIN inq : inq[j].pid = p => j <= i + k
    BY <1>6, <2>1 DEF Protocol, Leaver
  <2>3. ASSUME NEW j \in DOMAIN inq', inq'[j].pid = p PROVE j <= i
    <3>1. j + k <= i + k /\ j \in Nat /\ i \in Nat
      BY <1>1, <1>3, <2>1, <2>2, <2>3
    <3>. QED BY <3>1
  <2>. QED BY <2>2, <2>3
<1>7. m.cmd \in {"CONNECT", "DISCONNECT"} => k = 1
  BY <1>1 DEF Protocol, Asked
<1>8. m.cmd = "CONNECT" =>
        /\ cst[m.pid] = "conn" /\ m.pid \notin Range(pl) /\ out[m.pid] = << >>
        /\ \A x \in Range(que) \cup Range(mb') : x.pid # m.pid
  BY <1>1, <1>4, <1>7 DEF Protocol, Newcomer
<1>9. m.cmd \in {"GETBUF", "RELEASE"} => cst[m.pid] # "conn"
  BY <1>2 DEF Protocol, Asked
<1>10. ASSUME m.cmd = "DISCONNECT"
       PROVE  /\ cst[m.pid] = "off" /\ m.pid \notin Stay
              /\ \A x \in Range(inq') : x.pid # m.pid
              /\ \A i \in DOMAIN inq' :
                   inq'[i].cmd \in {"CONNECT", "DISCONNECT"} => inq'[i].pid # m.pid
  <2>1. k = 1 /\ m = inq[1] /\ 1 \in DOMAIN inq
    BY <1>1, <1>4, <1>7, <1>10
  <2>2. /\ cst[m.pid] = "off" /\ m.pid \notin Stay
        /\ \A j \in DOMAIN inq : inq[j].pid = m.pid => j <= 1
    BY <1>10, <2>1 DEF Protocol, Leaver
  <2>3. ASSUME NEW i \in DOMAIN inq' PROVE inq'[i].pid # m.pid
    <3>1. i + 1 \in DOMAIN inq /\ inq'[i] = inq[i + 1] /\ i \in Nat \ {0} /\ ~ (i + 1 <= 1)
      BY <1>1, <1>3, <2>1
    <3>. QED BY <2>2, <3>1
  <2>. QED BY <2>2, <2>3 DEF Range
<1>. QED BY <1>5, <1>6, <1>8, <1>9, <1>10

\* A handler that answers the sender of its message, or nobody.
LEMMA HandlerProtocol ==
    ASSUME RouterInv, Protocol, NEW m, Take(m), UNCHANGED <<cst, out>>, rpc' # "disc",
           \/ Range(pl') = Range(pl)
           \/ Range(pl') = Range(pl) \cup {m.pid},
           \/ que' = que
           \/ \E x \in Message :
                /\ que' = Append(que, x) /\ x.pid = m.pid
                /\ \/ x.cmd = "BUFFER" /\ m.cmd = "GETBUF"
                   \/ x.cmd = "CONNECT" /\ m.cmd = "CONNECT" /\ m.pid \in Range(pl')
                   \/ x.cmd = "REFUSE" /\ m.cmd = "CONNECT" /\ m.pid \in Strangers
                   \/ x.cmd = "REFUSE" /\ m.cmd = "GETBUF" /\ m.pid \in Stay
    PROVE  Protocol'
<1>1. /\ Range(inq') \subseteq Range(inq) /\ Range(mb') \subseteq Range(mb)
      /\ m \in Range(inq) \cup Range(mb) /\ m.pid \in Client
  BY TakeShape
<1>2. /\ \A i \in DOMAIN inq' : inq'[i].cmd = "CONNECT" =>
           LET p == inq'[i].pid IN
           /\ p \in Client /\ p # m.pid
           /\ cst[p] = "conn" /\ p \notin Range(pl) /\ out[p] = << >>
           /\ \A x \in Range(que) \cup Range(mb') : x.pid # p
           /\ \A j \in DOMAIN inq' : inq'[j].pid = p => j = i
      /\ \A i \in DOMAIN inq' : inq'[i].cmd = "DISCONNECT" =>
           LET p == inq'[i].pid IN
           /\ cst[p] = "off" /\ p \notin Stay
           /\ \A j \in DOMAIN inq' : inq'[j].pid = p => j <= i
      /\ m.cmd = "CONNECT" =>
           /\ cst[m.pid] = "conn" /\ m.pid \notin Range(pl) /\ out[m.pid] = << >>
           /\ \A x \in Range(que) \cup Range(mb') : x.pid # m.pid
      /\ m.cmd \in {"GETBUF", "RELEASE"} => cst[m.pid] # "conn"
  BY TakeOrder
<1>3. /\ \A x \in Range(que) : x \in Range(que')
      /\ \A x \in Range(que') : x \in Range(que) \/ x.pid = m.pid
  <2>1. CASE que' = que
    BY <2>1
  <2>2. CASE \E x \in Message : que' = Append(que, x) /\ x.pid = m.pid
    <3>1. PICK x \in Message : que' = Append(que, x) /\ x.pid = m.pid
      BY <2>2
    <3>2. Range(que') = Range(que) \cup {x}
      BY <3>1, QueueTypes, AppendAt
    <3>. QED BY <3>1, <3>2
  <2>. QED BY <2>1, <2>2
<1>4. Asked'
  BY <1>1 DEF Protocol, Asked
<1>5. Leaver' /\ Leaving'
  BY <1>2 DEF Leaver, Leaving
<1>6. Newcomer'
  BY <1>2, <1>3 DEF Newcomer
<1>7. Alive'
  BY DEF Protocol, Alive
<1>8. Answered' /\ AnswerFirst' /\ WriterWaits'
  <2>0. /\ Range(pl) \subseteq Range(pl') /\ Writers \cap Strangers = {} /\ Stay \subseteq Writers
    BY ClientAssumption DEF Stay
  <2>1. CASE que' = que
    BY <2>0, <2>1 DEF Protocol, Answered, AnswerFirst, WriterWaits
  <2>2. CASE que' # que
    <3>1. PICK x \in Message :
            /\ que' = Append(que, x) /\ x.pid = m.pid
            /\ \/ x.cmd = "BUFFER" /\ m.cmd = "GETBUF"
               \/ x.cmd = "CONNECT" /\ m.cmd = "CONNECT" /\ m.pid \in Range(pl')
               \/ x.cmd = "REFUSE" /\ m.cmd = "CONNECT" /\ m.pid \in Strangers
               \/ x.cmd = "REFUSE" /\ m.cmd = "GETBUF" /\ m.pid \in Stay
      BY <2>2
    <3>2. /\ Len(que) \in Nat /\ DOMAIN que = 1 .. Len(que) /\ DOMAIN que' = 1 .. Len(que) + 1
          /\ \A i \in 1 .. Len(que) : que'[i] = que[i]
          /\ que'[Len(que) + 1] = x /\ Range(que') = Range(que) \cup {x}
      BY <3>1, QueueTypes, AppendAt
    <3>3. Answered'
      BY <2>0, <3>1, <3>2 DEF Protocol, Answered
    <3>4. WriterWaits'
      <4>1. x.pid \in Writers /\ cst[x.pid] = "conn" => x.cmd = "CONNECT"
        BY <1>2, <2>0, <3>1
      <4>2. \A w \in Writers : cst[w] = "conn" =>
              /\ \A y \in Range(que) : y.pid = w => y.cmd = "CONNECT"
              /\ \A y \in Range(out[w]) : y.cmd = "CONNECT"
        BY DEF Protocol, WriterWaits
      <4>3. \A y \in Range(que') : y \in Range(que) \/ y = x
        BY <3>2
      <4>. QED BY <4>1, <4>2, <4>3 DEF WriterWaits
    <3>5. ASSUME NEW i \in 1 .. Len(que),
                 \/ que'[i].cmd = "CONNECT"
                 \/ que'[i].cmd = "REFUSE" /\ que'[i].pid \notin Stay
          PROVE  /\ cst'[que'[i].pid] = "conn" /\ out'[que'[i].pid] = << >>
                 /\ \A j \in 1 .. i - 1 : que'[j].pid # que'[i].pid
      <4>1. que'[i] = que[i] /\ i \in DOMAIN que /\ \A j \in 1 .. i - 1 : que'[j] = que[j]
        BY <3>2
      <4>. QED BY <3>5, <4>1 DEF Protocol, AnswerFirst
    <3>6. ASSUME x.cmd = "CONNECT" \/ (x.cmd = "REFUSE" /\ x.pid \notin Stay)
          PROVE  /\ cst'[x.pid] = "conn" /\ out'[x.pid] = << >>
                 /\ \A j \in 1 .. Len(que) : que'[j].pid # x.pid
      <4>1. m.cmd = "CONNECT"
        BY <3>1, <3>6
      <4>2. \A j \in 1 .. Len(que) : que'[j] \in Range(que)
        BY <3>2 DEF Range
      <4>. QED BY <1>2, <3>1, <4>1, <4>2
    <3>7. AnswerFirst'
      <4>. SUFFICES ASSUME NEW i \in 1 .. Len(que) + 1,
                           \/ que'[i].cmd = "CONNECT"
                           \/ que'[i].cmd = "REFUSE" /\ que'[i].pid \notin Stay
                    PROVE  /\ cst'[que'[i].pid] = "conn" /\ out'[que'[i].pid] = << >>
                           /\ \A j \in 1 .. i - 1 : que'[j].pid # que'[i].pid
        BY <3>2 DEF AnswerFirst
      <4>1. CASE i \in 1 .. Len(que)
        BY <3>5, <4>1
      <4>2. CASE i = Len(que) + 1
        <5>1. i - 1 = Len(que) /\ que'[i] = x
          BY <3>2, <4>2
        <5>. QED BY <3>6, <5>1
      <4>. QED BY <3>2, <4>1, <4>2
    <3>. QED BY <3>3, <3>4, <3>7
  <2>. QED BY <2>1, <2>2
<1>. QED BY <1>4, <1>5, <1>6, <1>7, <1>8 DEF Protocol

\* The disconnect handler begins: the sender has nothing else under way.
LEMMA BeginDisconnectProtocol ==
    ASSUME RouterInv, Protocol, BeginDisconnect PROVE Protocol'
<1>1. PICK m \in Takeable("DISCONNECT") :
        /\ Take(m) /\ rpc' = "disc" /\ cur' = m
        /\ UNCHANGED <<que, pl, out, cst>>
  BY DEF BeginDisconnect, queVars, plVars, clientVars
<1>2. m.cmd = "DISCONNECT"
  BY DEF Takeable
<1>3. Range(inq') \subseteq Range(inq) /\ Range(mb') \subseteq Range(mb)
  BY <1>1, TakeShape
<1>4. /\ \A i \in DOMAIN inq' : inq'[i].cmd = "CONNECT" =>
           LET p == inq'[i].pid IN
           /\ p # m.pid
           /\ cst[p] = "conn" /\ p \notin Range(pl) /\ out[p] = << >>
           /\ \A x \in Range(que) \cup Range(mb') : x.pid # p
           /\ \A j \in DOMAIN inq' : inq'[j].pid = p => j = i
      /\ \A i \in DOMAIN inq' : inq'[i].cmd = "DISCONNECT" =>
           LET p == inq'[i].pid IN
           /\ cst[p] = "off" /\ p \notin Stay
           /\ \A j \in DOMAIN inq' : inq'[j].pid = p => j <= i
      /\ cst[m.pid] = "off" /\ m.pid \notin Stay
      /\ \A x \in Range(inq') : x.pid # m.pid
      /\ \A i \in DOMAIN inq' : inq'[i].cmd \in {"CONNECT", "DISCONNECT"} => inq'[i].pid # m.pid
  BY <1>1, <1>2, TakeOrder
<1>5. Asked' /\ Answered' /\ AnswerFirst' /\ WriterWaits' /\ Alive'
  BY <1>1, <1>3 DEF Protocol, Asked, Answered, AnswerFirst, WriterWaits, Alive
<1>6. Newcomer'
  BY <1>1, <1>4 DEF Newcomer
<1>7. Leaver'
  BY <1>1, <1>4 DEF Leaver
<1>8. Leaving'
  BY <1>1, <1>4 DEF Leaving
<1>. QED BY <1>5, <1>6, <1>7, <1>8 DEF Protocol

\* send_buf queues a message for a process of the list.
LEMMA RouteSendProtocol ==
    ASSUME RouterInv, Protocol, ToDo, RouteSend PROVE Protocol'
<1>. DEFINE r == Head(todo)
            x == Msg("BUFFER", r, cur.buf, SendSize(cur.buf, cur.size), cur.blk)
<1>1. /\ rpc = "route" /\ rpc' \in {"top", "route", "snd"} /\ todo # << >> /\ ~ PassOver(r)
      /\ UNCHANGED <<pl, mb, inq, out, cst>>
      /\ que' = que \/ que' = Append(que, x)
  BY DEF RouteSend, send_msg, que_msg, EnterSnd, clientVars, queVars
<1>2. r \in Range(pl) /\ r \notin Writers /\ r \in Client
  <2>1. r \in Range(todo) /\ r \in Client
    BY <1>1, TailRange DEF RouterInv, TypeOK
  <2>. QED BY <1>1, <2>1 DEF ToDo, PassOver
<1>3. x \in Message /\ x.cmd = "BUFFER" /\ x.pid = r
  <2>1. cur.buf \in Bufs(used) /\ cur \in Message
    BY <1>1 DEF RouterInv, RoutedInUse, Routing, TypeOK
  <2>2. cur.buf \in Nat /\ cur.size \in Nat /\ cur.blk \in Nat
    BY <2>1 DEF Message
  <2>3. SendSize(cur.buf, cur.size) \in Nat
    BY <2>1, <2>2, SendSizeType DEF RouterInv
  <2>. QED BY <1>2, <2>2, <2>3, MsgType DEF Msg
<1>. HIDE DEF r, x
<1>4. CASE que' = que
  BY <1>1, <1>4, ProtocolSame
<1>5. CASE que' = Append(que, x)
  <2>1. /\ Len(que) \in Nat /\ DOMAIN que = 1 .. Len(que) /\ DOMAIN que' = 1 .. Len(que) + 1
        /\ \A i \in 1 .. Len(que) : que'[i] = que[i]
        /\ que'[Len(que) + 1] = x /\ Range(que') = Range(que) \cup {x}
    BY <1>3, <1>5, QueueTypes, AppendAt
  <2>2. Asked' /\ Leaver' /\ Leaving' /\ Alive'
    BY <1>1 DEF Protocol, Asked, Leaver, Leaving, Alive
  <2>3. Answered'
    BY <1>1, <1>3, <2>1 DEF Protocol, Answered
  <2>4. WriterWaits'
    <3>1. \A y \in Range(que') : y \in Range(que) \/ y.pid \notin Writers
      BY <1>2, <1>3, <2>1
    <3>. QED BY <1>1, <3>1 DEF Protocol, WriterWaits
  <2>5. Newcomer'
    <3>1. \A y \in Range(que') : y \in Range(que) \/ y.pid \in Range(pl)
      BY <1>2, <1>3, <2>1
    <3>. QED BY <1>1, <3>1 DEF Protocol, Newcomer
  <2>6. AnswerFirst'
    <3>. SUFFICES ASSUME NEW i \in 1 .. Len(que) + 1,
                         \/ que'[i].cmd = "CONNECT"
                         \/ que'[i].cmd = "REFUSE" /\ que'[i].pid \notin Stay
                  PROVE  /\ cst'[que'[i].pid] = "conn" /\ out'[que'[i].pid] = << >>
                         /\ \A j \in 1 .. i - 1 : que'[j].pid # que'[i].pid
      BY <2>1 DEF AnswerFirst
    <3>1. i \in 1 .. Len(que)
      BY <1>3, <2>1
    <3>2. que'[i] = que[i] /\ i \in DOMAIN que /\ \A j \in 1 .. i - 1 : que'[j] = que[j]
      BY <2>1, <3>1
    <3>. QED BY <1>1, <3>2 DEF Protocol, AnswerFirst
  <2>. QED BY <2>2, <2>3, <2>4, <2>5, <2>6 DEF Protocol
<1>. QED BY <1>1, <1>4, <1>5

\* The disconnect handler takes a message out of the send queue.
LEMMA PurgeQueProtocol == ASSUME RouterInv, Protocol, PurgeQue PROVE Protocol'
<1>. DEFINE k == SelectInSeq(que, ToCur)
            at(j) == IF j < k THEN j ELSE j + 1
<1>1. /\ \E j \in DOMAIN que : ToCur(que[j]) /\ que' = RemoveAt(que, k)
      /\ UNCHANGED <<rpc, cur, mb, pl, inq, out, cst>>
  BY DEF PurgeQue, clientVars
<1>2. k \in 1 .. Len(que)
  BY <1>1, SelectInQue DEF RouterInv, PurgeQue
<1>. HIDE DEF k
<1>3. /\ Len(que) \in Nat /\ DOMAIN que = 1 .. Len(que) /\ DOMAIN que' = 1 .. Len(que) - 1
      /\ \A j \in 1 .. Len(que) - 1 : que'[j] = que[at(j)]
      /\ Range(que') \subseteq Range(que)
  BY <1>1, <1>2, QueueTypes, RemoveAtAt
<1>4. Asked' /\ Answered' /\ WriterWaits' /\ Newcomer' /\ Leaver' /\ Leaving' /\ Alive'
  BY <1>1, <1>3 DEF Protocol, Asked, Answered, WriterWaits, Newcomer, Leaver, Leaving, Alive
<1>5. AnswerFirst'
  <2>. SUFFICES ASSUME NEW i \in 1 .. Len(que) - 1,
                       \/ que'[i].cmd = "CONNECT"
                       \/ que'[i].cmd = "REFUSE" /\ que'[i].pid \notin Stay
                PROVE  /\ cst'[que'[i].pid] = "conn" /\ out'[que'[i].pid] = << >>
                       /\ \A j \in 1 .. i - 1 : que'[j].pid # que'[i].pid
    BY <1>3 DEF AnswerFirst
  <2>1. at(i) \in DOMAIN que /\ que'[i] = que[at(i)]
    BY <1>2, <1>3
  <2>2. /\ cst[que[at(i)].pid] = "conn" /\ out[que[at(i)].pid] = << >>
        /\ \A j \in 1 .. at(i) - 1 : que[j].pid # que[at(i)].pid
    BY <2>1 DEF Protocol, AnswerFirst
  <2>3. ASSUME NEW j \in 1 .. i - 1 PROVE que'[j].pid # que'[i].pid
    <3>1. at(j) \in 1 .. at(i) - 1 /\ que'[j] = que[at(j)]
      BY <1>2, <1>3
    <3>. QED BY <2>1, <2>2, <3>1
  <2>. QED BY <1>1, <2>1, <2>2, <2>3
<1>. QED BY <1>4, <1>5 DEF Protocol

\* A message is taken from the kernel's queue of p: by the disconnect handler or by p.
LEMMA OutTail ==
    ASSUME RouterInv, Protocol, NEW p \in Client, out[p] # << >>,
           out' = [out EXCEPT ![p] = Tail(@)]
    PROVE  /\ \A q \in Client : Range(out'[q]) \subseteq Range(out[q])
           /\ \A q \in Client : out[q] = << >> => out'[q] = << >> /\ q # p
           /\ \A i \in DOMAIN que :
                que[i].cmd = "CONNECT" \/ (que[i].cmd = "REFUSE" /\ que[i].pid \notin Stay) =>
                  que[i].pid # p /\ que[i].pid \in Client
           /\ \A i \in DOMAIN inq : inq[i].cmd = "CONNECT" => inq[i].pid # p /\ inq[i].pid \in Client
<1>1. out \in [Client -> Seq(Message)] /\ out[p] \in Seq(Message)
  BY QueueTypes
<1>2. Range(Tail(out[p])) \subseteq Range(out[p])
  BY <1>1, TailRange
<1>3. \A q \in Client : Range(out'[q]) \subseteq Range(out[q])
  BY <1>1, <1>2
<1>4. \A q \in Client : out[q] = << >> => out'[q] = << >> /\ q # p
  BY <1>1
<1>. QED BY <1>3, <1>4, QueueTypes DEF Protocol, AnswerFirst, Newcomer

\* DISCONNECT takes a message to the process from the kernel queue.
LEMMA DrainOutProtocol == ASSUME RouterInv, Protocol, DrainOut PROVE Protocol'
<1>1. /\ rpc = "disc" /\ out[cur.pid] # << >> /\ out' = [out EXCEPT ![cur.pid] = Tail(@)]
      /\ UNCHANGED <<rpc, cur, mb, que, pl, inq, cst>> /\ cur.pid \in Client
  BY QueueTypes DEF DrainOut, queVars, clientVars
<1>2. /\ \A q \in Client : Range(out'[q]) \subseteq Range(out[q])
      /\ \A q \in Client : out[q] = << >> => out'[q] = << >>
      /\ \A i \in DOMAIN que :
           que[i].cmd = "CONNECT" \/ (que[i].cmd = "REFUSE" /\ que[i].pid \notin Stay) =>
             que[i].pid \in Client
      /\ \A i \in DOMAIN inq : inq[i].cmd = "CONNECT" => inq[i].pid \in Client
  BY <1>1, OutTail
<1>3. Asked' /\ Leaver' /\ Leaving' /\ Alive'
  BY <1>1 DEF Protocol, Asked, Leaver, Leaving, Alive
<1>4. Answered'
  BY <1>1, <1>2 DEF Protocol, Answered
<1>5. AnswerFirst'
  BY <1>1, <1>2 DEF Protocol, AnswerFirst
<1>6. WriterWaits'
  <2>1. Writers \subseteq Client
    BY DEF Client
  <2>. QED BY <1>1, <1>2, <2>1 DEF Protocol, WriterWaits
<1>7. Newcomer'
  BY <1>1, <1>2 DEF Protocol, Newcomer
<1>. QED BY <1>3, <1>4, <1>5, <1>6, <1>7 DEF Protocol

\* The process leaves the list: nothing under way is for it.
LEMMA RemovePlProtocol == ASSUME RouterInv, Protocol, Lists, RemovePl PROVE Protocol'
<1>1. /\ rpc = "disc" /\ rpc' = "top" /\ pl' = RemoveFirst(pl, cur.pid)
      /\ \A i \in DOMAIN que : que[i].pid # cur.pid /\ out[cur.pid] = << >>
      /\ UNCHANGED <<mb, que, inq, out, cst>>
  BY DEF RemovePl, ToCur, queVars, clientVars
<1>2. Range(pl') = Range(pl) \ {cur.pid}
  BY <1>1, QueueTypes, RemoveFirstAt DEF Lists
<1>3. /\ cst[cur.pid] = "off" /\ cur.pid \in Client
      /\ \A m \in Range(que) : m.pid # cur.pid
      /\ out[cur.pid] = << >>
  BY <1>1, QueueTypes DEF Protocol, Leaving, Range, RemovePl
<1>4. Asked' /\ AnswerFirst' /\ WriterWaits' /\ Leaver' /\ Leaving'
  BY <1>1 DEF Protocol, Asked, AnswerFirst, WriterWaits, Leaver, Leaving
<1>5. Answered'
  <2>1. \A m \in Range(out[cur.pid]) : FALSE
    BY <1>3 DEF Range
  <2>. QED BY <1>1, <1>2, <1>3, <2>1 DEF Protocol, Answered
<1>6. Newcomer' /\ Alive'
  BY <1>1, <1>2, <1>3 DEF Protocol, Newcomer, Alive
<1>. QED BY <1>4, <1>5, <1>6 DEF Protocol

\* A process the router knows nothing of asks to be connected.
LEMMA ConnectProtocol ==
    ASSUME RouterInv, Protocol, NEW p \in Client, Connect(p) PROVE Protocol'
<1>. DEFINE m == Msg("CONNECT", p, 0, 0, NoBlk)
<1>1. /\ cst[p] = "off" /\ inq' = Append(inq, m) /\ cst' = [cst EXCEPT ![p] = "conn"]
      /\ p \notin Range(pl) /\ out[p] = << >> /\ ~ (rpc = "disc" /\ cur.pid = p)
      /\ \A x \in Range(inq) \cup Range(mb) \cup Range(que) : x.pid # p
      /\ UNCHANGED <<rpc, cur, mb, que, pl, out>>
  BY DEF Connect, FreshPid, Connected, Send, routerVars, queVars, plVars
<1>2. m \in Message /\ m.cmd = "CONNECT" /\ m.pid = p
  BY MsgType DEF Msg, NoBlk
<1>. HIDE DEF m
<1>3. /\ Len(inq) \in Nat /\ DOMAIN inq = 1 .. Len(inq) /\ DOMAIN inq' = 1 .. Len(inq) + 1
      /\ \A i \in 1 .. Len(inq) : inq'[i] = inq[i] /\ inq[i] \in Range(inq)
      /\ inq'[Len(inq) + 1] = m /\ Range(inq') = Range(inq) \cup {m}
  BY <1>1, <1>2, QueueTypes, AppendAt
<1>4. cst'[p] = "conn" /\ \A q \in Client : q # p => cst'[q] = cst[q]
  BY <1>1, QueueTypes
<1>5. Asked'
  BY <1>1, <1>2, <1>3, <1>4, QueueTypes DEF Protocol, Asked
<1>6. Answered'
  BY <1>1 DEF Protocol, Answered
<1>7. AnswerFirst'
  <2>1. \A i \in DOMAIN que : que[i].pid \in Client /\ que[i].pid # p
    BY <1>1, QueueTypes
  <2>. QED BY <1>1, <1>4, <2>1 DEF Protocol, AnswerFirst
<1>8. WriterWaits'
  <2>1. \A x \in Range(out[p]) : FALSE
    BY <1>1 DEF Range
  <2>2. Writers \subseteq Client
    BY DEF Client
  <2>. QED BY <1>1, <1>4, <2>1, <2>2 DEF Protocol, WriterWaits
<1>9. Newcomer'
  <2>. SUFFICES ASSUME NEW i \in 1 .. Len(inq) + 1, inq'[i].cmd = "CONNECT"
                PROVE  LET q == inq'[i].pid IN
                       /\ cst'[q] = "conn" /\ q \notin Range(pl)' /\ out'[q] = << >>
                       /\ \A x \in Range(que)' \cup Range(mb)' : x.pid # q
                       /\ \A j \in 1 .. Len(inq) + 1 : inq'[j].pid = q => j = i
                       /\ ~ (rpc' = "disc" /\ cur'.pid = q)
    BY <1>3 DEF Newcomer
  <2>1. CASE i = Len(inq) + 1
    BY <1>1, <1>2, <1>3, <1>4, <2>1
  <2>2. CASE i \in 1 .. Len(inq)
    <3>1. /\ inq'[i] = inq[i] /\ inq[i].pid # p /\ inq[i].pid \in Client
      BY <1>1, <1>3, <2>2, QueueTypes
    <3>2. ASSUME NEW j \in 1 .. Len(inq) + 1, inq'[j].pid = inq[i].pid PROVE j = i
      <4>1. j \in 1 .. Len(inq)
        BY <1>2, <1>3, <3>1, <3>2
      <4>. QED BY <1>3, <2>2, <3>1, <3>2, <4>1 DEF Protocol, Newcomer
    <3>3. /\ cst[inq[i].pid] = "conn" /\ inq[i].pid \notin Range(pl) /\ out[inq[i].pid] = << >>
          /\ \A x \in Range(que) \cup Range(mb) : x.pid # inq[i].pid
          /\ ~ (rpc = "disc" /\ cur.pid = inq[i].pid)
      BY <1>3, <2>2, <3>1 DEF Protocol, Newcomer
    <3>. QED BY <1>1, <1>4, <3>1, <3>2, <3>3
  <2>. QED BY <1>3, <2>1, <2>2
<1>10. Leaver'
  <2>. SUFFICES ASSUME NEW i \in 1 .. Len(inq) + 1, inq'[i].cmd = "DISCONNECT"
                PROVE  LET q == inq'[i].pid IN
                       /\ cst'[q] = "off" /\ q \notin Stay
                       /\ \A j \in 1 .. Len(inq) + 1 : inq'[j].pid = q => j <= i
                       /\ ~ (rpc' = "disc" /\ cur'.pid = q)
    BY <1>3 DEF Leaver
  <2>1. i \in 1 .. Len(inq)
    BY <1>2, <1>3
  <2>2. inq'[i] = inq[i] /\ inq[i].pid # p /\ inq[i].pid \in Client
    BY <1>1, <1>3, <2>1, QueueTypes
  <2>3. ASSUME NEW j \in 1 .. Len(inq) + 1, inq'[j].pid = inq[i].pid PROVE j <= i
    <3>1. j \in 1 .. Len(inq)
      BY <1>2, <1>3, <2>2, <2>3
    <3>. QED BY <1>3, <2>1, <2>2, <2>3, <3>1 DEF Protocol, Leaver
  <2>. QED BY <1>1, <1>3, <1>4, <2>1, <2>2, <2>3 DEF Protocol, Leaver
<1>11. Leaving'
  BY <1>1, <1>2, <1>3, <1>4, QueueTypes DEF Protocol, Leaving
<1>12. Alive'
  BY <1>1, <1>4 DEF Protocol, Alive
<1>. QED BY <1>5, <1>6, <1>7, <1>8, <1>9, <1>10, <1>11, <1>12 DEF Protocol

\* A connected process sends a request, a release or its last message.
LEMMA ClientSend ==
    ASSUME RouterInv, Protocol, NEW p \in Client, NEW m \in Message,
           NEW v \in {"off", "idle", "get", "fail"},
           cst[p] \in {"idle", "get", "use", "fail"},
           cst' = [cst EXCEPT ![p] = v], inq' = Append(inq, m), m.pid = p,
           UNCHANGED <<rpc, cur, mb, que, pl, out>>,
           m.cmd \in {"GETBUF", "RELEASE", "DISCONNECT"},
           m.cmd = "GETBUF" => p \in Writers /\ m.size \in Sizes,
           m.cmd = "DISCONNECT" => v = "off" /\ p \notin Stay,
           v \in {"idle", "get", "use"} => cst[p] \in {"idle", "get", "use"},
           v = "idle" => p \in Writers,
           v = "fail" => p \notin Stay
    PROVE  Protocol'
<1>1. /\ Len(inq) \in Nat /\ DOMAIN inq = 1 .. Len(inq) /\ DOMAIN inq' = 1 .. Len(inq) + 1
      /\ \A i \in 1 .. Len(inq) : inq'[i] = inq[i] /\ inq[i] \in Range(inq)
      /\ inq'[Len(inq) + 1] = m /\ Range(inq') = Range(inq) \cup {m}
  BY QueueTypes, AppendAt
<1>2. cst'[p] = v /\ \A q \in Client : q # p => cst'[q] = cst[q]
  BY QueueTypes
<1>3. Asked'
  <2>1. \A x \in Range(inq) \cup Range(mb) : x.pid \in Client
    BY QueueTypes
  <2>2. \A q \in Client : cst[q] # "conn" => cst'[q] # "conn"
    BY <1>2
  <2>3. /\ m.cmd \in {"CONNECT", "GETBUF", "RELEASE", "DISCONNECT"}
        /\ m.cmd = "GETBUF" => m.pid \in Writers /\ m.size \in Sizes
        /\ cst'[m.pid] # "conn"
    BY <1>2
  <2>4. /\ \A x \in Range(inq) :
             /\ x.cmd \in {"CONNECT", "GETBUF", "RELEASE", "DISCONNECT"}
             /\ x.cmd = "GETBUF" => x.pid \in Writers /\ x.size \in Sizes
             /\ x.cmd \in {"GETBUF", "RELEASE"} => cst'[x.pid] # "conn"
    BY <2>1, <2>2 DEF Protocol, Asked
  <2>5. \A x \in Range(mb) :
         /\ x.pid \in Writers /\ x.cmd \in {"GETBUF", "RELEASE"} /\ cst'[x.pid] # "conn"
         /\ x.cmd = "GETBUF" => x.size \in Sizes
         /\ x.cmd = "RELEASE" => x.pid \in Stay
    BY <2>1, <2>2 DEF Protocol, Asked
  <2>6. \A x \in Range(inq') : x \in Range(inq) \/ x = m
    BY <1>1
  <2>. QED BY <2>3, <2>4, <2>5, <2>6 DEF Asked
<1>4. Answered'
  BY DEF Protocol, Answered
<1>5. AnswerFirst'
  <2>1. \A i \in DOMAIN que : que[i].pid \in Client
    BY QueueTypes
  <2>2. \A q \in Client : cst[q] = "conn" => cst'[q] = "conn"
    BY <1>2
  <2>. QED BY <2>1, <2>2 DEF Protocol, AnswerFirst
<1>6. WriterWaits'
  <2>1. \A q \in Client : cst'[q] = "conn" => cst[q] = "conn"
    BY <1>2
  <2>2. Writers \subseteq Client
    BY DEF Client
  <2>. QED BY <2>1, <2>2 DEF Protocol, WriterWaits
<1>7. Newcomer'
  <2>. SUFFICES ASSUME NEW i \in 1 .. Len(inq) + 1, inq'[i].cmd = "CONNECT"
                PROVE  LET q == inq'[i].pid IN
                       /\ cst'[q] = "conn" /\ q \notin Range(pl)' /\ out'[q] = << >>
                       /\ \A x \in Range(que)' \cup Range(mb)' : x.pid # q
                       /\ \A j \in 1 .. Len(inq) + 1 : inq'[j].pid = q => j = i
                       /\ ~ (rpc' = "disc" /\ cur'.pid = q)
    BY <1>1 DEF Newcomer
  <2>1. i \in 1 .. Len(inq)
    BY <1>1
  <2>2. inq'[i] = inq[i] /\ inq[i].pid \in Client /\ cst[inq[i].pid] = "conn"
    BY <1>1, <2>1, QueueTypes DEF Protocol, Newcomer
  <2>3. inq[i].pid # p /\ cst'[inq[i].pid] = "conn"
    BY <1>2, <2>2
  <2>4. ASSUME NEW j \in 1 .. Len(inq) + 1, inq'[j].pid = inq[i].pid PROVE j = i
    <3>1. j \in 1 .. Len(inq)
      BY <1>1, <2>3, <2>4
    <3>. QED BY <1>1, <2>1, <2>2, <2>4, <3>1 DEF Protocol, Newcomer
  <2>5. /\ inq[i].pid \notin Range(pl) /\ out[inq[i].pid] = << >>
        /\ \A x \in Range(que) \cup Range(mb) : x.pid # inq[i].pid
        /\ ~ (rpc = "disc" /\ cur.pid = inq[i].pid)
    BY <1>1, <2>1, <2>2 DEF Protocol, Newcomer
  <2>. QED BY <2>2, <2>3, <2>4, <2>5
<1>8. Leaver'
  <2>. SUFFICES ASSUME NEW i \in 1 .. Len(inq) + 1, inq'[i].cmd = "DISCONNECT"
                PROVE  LET q == inq'[i].pid IN
                       /\ cst'[q] = "off" /\ q \notin Stay
                       /\ \A j \in 1 .. Len(inq) + 1 : inq'[j].pid = q => j <= i
                       /\ ~ (rpc' = "disc" /\ cur'.pid = q)
    BY <1>1 DEF Leaver
  <2>1. CASE i \in 1 .. Len(inq)
    <3>1. /\ inq'[i] = inq[i] /\ inq[i].pid \in Client /\ cst[inq[i].pid] = "off"
          /\ inq[i].pid \notin Stay /\ ~ (rpc = "disc" /\ cur.pid = inq[i].pid)
      BY <1>1, <2>1, QueueTypes DEF Protocol, Leaver
    <3>2. inq[i].pid # p /\ cst'[inq[i].pid] = "off"
      BY <1>2, <3>1
    <3>3. ASSUME NEW j \in 1 .. Len(inq) + 1, inq'[j].pid = inq[i].pid PROVE j <= i
      <4>1. j \in 1 .. Len(inq)
        BY <1>1, <3>2, <3>3
      <4>. QED BY <1>1, <2>1, <3>1, <3>3, <4>1 DEF Protocol, Leaver
    <3>. QED BY <3>1, <3>2, <3>3
  <2>2. CASE i = Len(inq) + 1
    <3>1. inq'[i] = m /\ \A j \in 1 .. Len(inq) + 1 : j <= i
      BY <1>1, <2>2
    <3>2. ~ (rpc = "disc" /\ cur.pid = p)
      BY DEF Protocol, Leaving
    <3>. QED BY <1>2, <3>1, <3>2
  <2>. QED BY <1>1, <2>1, <2>2
<1>9. Leaving'
  <2>1. rpc = "disc" => cur.pid # p
    BY DEF Protocol, Leaving
  <2>. QED BY <1>1, <1>2, <2>1, QueueTypes DEF Protocol, Leaving
<1>10. Alive'
  BY <1>2 DEF Protocol, Alive
<1>. QED BY <1>3, <1>4, <1>5, <1>6, <1>7, <1>8, <1>9, <1>10 DEF Protocol

\* A process takes a message of its own.
LEMMA ClientReceive ==
    ASSUME RouterInv, Protocol, NEW p \in Client, NEW v, out[p] # << >>,
           cst[p] \in {"conn", "get"}, v \in {"idle", "get", "use", "fail"},
           cst' = [cst EXCEPT ![p] = v], out' = [out EXCEPT ![p] = Tail(@)],
           UNCHANGED <<rpc, cur, mb, que, pl, inq>>,
           v \in {"idle", "get", "use"} => p \in Range(pl),
           v = "idle" => p \in Writers,
           v = "fail" => p \notin Stay
    PROVE  Protocol'
<1>1. /\ \A q \in Client : Range(out'[q]) \subseteq Range(out[q])
      /\ \A q \in Client : out[q] = << >> => out'[q] = << >> /\ q # p
      /\ \A i \in DOMAIN que :
           que[i].cmd = "CONNECT" \/ (que[i].cmd = "REFUSE" /\ que[i].pid \notin Stay) =>
             que[i].pid # p /\ que[i].pid \in Client
      /\ \A i \in DOMAIN inq : inq[i].cmd = "CONNECT" => inq[i].pid # p /\ inq[i].pid \in Client
  BY OutTail
<1>2. cst'[p] = v /\ \A q \in Client : q # p => cst'[q] = cst[q]
  BY QueueTypes
<1>3. Asked'
  <2>1. \A x \in Range(inq) \cup Range(mb) : x.pid \in Client
    BY QueueTypes
  <2>2. \A q \in Client : cst[q] # "conn" => cst'[q] # "conn"
    BY <1>2
  <2>. QED BY <2>1, <2>2 DEF Protocol, Asked
<1>4. Answered'
  BY <1>1 DEF Protocol, Answered
<1>5. AnswerFirst'
  BY <1>1, <1>2 DEF Protocol, AnswerFirst
<1>6. WriterWaits'
  <2>1. \A q \in Client : cst'[q] = "conn" => cst[q] = "conn"
    BY <1>2
  <2>2. Writers \subseteq Client
    BY DEF Client
  <2>. QED BY <1>1, <2>1, <2>2 DEF Protocol, WriterWaits
<1>7. Newcomer'
  BY <1>1, <1>2 DEF Protocol, Newcomer
<1>8. Leaver' /\ Leaving'
  <2>1. \A q \in Client : cst[q] = "off" => cst'[q] = "off"
    BY <1>2
  <2>2. \A i \in DOMAIN inq : inq[i].pid \in Client /\ cur.pid \in Client
    BY QueueTypes
  <2>. QED BY <2>1, <2>2, QueueTypes DEF Protocol, Leaver, Leaving
<1>9. Alive'
  BY <1>2 DEF Protocol, Alive
<1>. QED BY <1>3, <1>4, <1>5, <1>6, <1>7, <1>8, <1>9 DEF Protocol

\* The handlers of CONNECT, GETBUF and RELEASE.
LEMMA HandlersProtocol ==
    ASSUME OrderlyLeaving, RouterInv, Protocol, HandleConnect \/ HandleGetBuf \/ HandleRelease
    PROVE  Protocol'
<1>1. CASE HandleConnect
  <2>1. PICK m \in Takeable("CONNECT") :
          /\ Take(m) /\ UNCHANGED <<cst, out>> /\ rpc' \in {"top", "snd"}
          /\ \/ UNCHANGED <<pl, que>>
             \/ /\ m.pid \notin Strangers
                /\ pl' = Append(pl, m.pid) /\ que' = Append(que, Msg("CONNECT", m.pid, 0, 0, NoBlk))
             \/ /\ m.pid \in Strangers
                /\ pl' = pl /\ que' = Append(que, Msg("REFUSE", m.pid, 0, 0, NoBlk))
    BY <1>1 DEF HandleConnect, Accepts, new_pl, send_msg, que_msg, EnterSnd, queVars, plVars,
                clientVars
  <2>2. m.cmd = "CONNECT" /\ m.pid \in Client /\ pl \in Seq(Client)
    BY <2>1, TakeShape, QueueTypes DEF Takeable
  <2>3. \A cmd \in {"CONNECT", "REFUSE"} :
          LET x == Msg(cmd, m.pid, 0, 0, NoBlk) IN x \in Message /\ x.cmd = cmd /\ x.pid = m.pid
    BY <2>2, MsgType DEF Msg, NoBlk
  <2>4. pl' = Append(pl, m.pid) => Range(pl') = Range(pl) \cup {m.pid}
    BY <2>2, AppendAt
  <2>5. Range(pl') = Range(pl) \/ Range(pl') = Range(pl) \cup {m.pid}
    BY <2>1, <2>4
  <2>6. \/ que' = que
        \/ \E x \in Message :
             /\ que' = Append(que, x) /\ x.pid = m.pid
             /\ \/ x.cmd = "CONNECT" /\ m.cmd = "CONNECT" /\ m.pid \in Range(pl')
                \/ x.cmd = "REFUSE" /\ m.cmd = "CONNECT" /\ m.pid \in Strangers
    BY <2>1, <2>2, <2>3, <2>4
  <2>. QED BY <2>1, <2>5, <2>6, HandlerProtocol
<1>2. CASE HandleGetBuf
  <2>1. PICK m \in Takeable("GETBUF") :
          /\ Take(m) /\ UNCHANGED <<cst, out, pl>> /\ rpc' \in {"top", "snd"}
          /\ \/ UNCHANGED que
             \/ /\ m.pid \notin Writers \/ RoundUp(m.size) > ShmSize
                /\ que' = Append(que, Msg("REFUSE", m.pid, 0, 0, NoBlk))
             \/ /\ RoundUp(m.size) <= ShmSize
                /\ Fits(RoundUp(m.size)) # {}
                /\ que' = Append(que, Msg("BUFFER", m.pid, FirstFit(RoundUp(m.size)).buf,
                                          RoundUp(m.size), NoBlk))
    <3>1. \A m : RoundUp(m.size) \in Int => (RoundUp(m.size) <= ShmSize <=> ~ (RoundUp(m.size) > ShmSize))
      BY ShmSizeAssumption
    <3>2. \A m \in Message : RoundUp(m.size) \in Int
      BY DEF Message, RoundUp
    <3>3. \A m \in Takeable("GETBUF") : m \in Message
      BY QueueTypes DEF Takeable
    <3>. QED BY <1>2, <3>1, <3>2, <3>3 DEF HandleGetBuf, get_buf, get_shm, send_msg, que_msg, EnterSnd,
                queVars, plVars, clientVars
  <2>2. m.cmd = "GETBUF" /\ m \in Message /\ m.pid \in Client /\ m \in Range(inq) \cup Range(mb)
    BY <2>1, TakeShape DEF Takeable
  <2>3. m.pid \in Writers /\ m.size \in Sizes /\ RoundUp(m.size) \in Nat /\ m.size \in Nat \ {0}
    <3>1. m.pid \in Writers /\ m.size \in Sizes
      BY <2>2 DEF Protocol, Asked
    <3>2. m.size \in Nat \ {0}
      BY <3>1, LimitAssumption
    <3>. QED BY <3>1, <3>2, RoundUpType
  <2>4. RoundUp(m.size) > ShmSize => m.pid \in Stay
    BY <2>3, ShmSizeAssumption DEF OrderlyLeaving, Stay
  <2>5. LET x == Msg("REFUSE", m.pid, 0, 0, NoBlk) IN x \in Message /\ x.cmd = "REFUSE" /\ x.pid = m.pid
    BY <2>2, MsgType DEF Msg, NoBlk
  <2>6. ASSUME Fits(RoundUp(m.size)) # {}
        PROVE  LET x == Msg("BUFFER", m.pid, FirstFit(RoundUp(m.size)).buf, RoundUp(m.size), NoBlk)
               IN  x \in Message /\ x.cmd = "BUFFER" /\ x.pid = m.pid
    <3>1. RoundUp(m.size) > 0
      BY <2>3 DEF RoundUp
    <3>2. FirstFit(RoundUp(m.size)).buf \in Nat
      BY <2>3, <2>6, FirstFitFits DEF RouterInv, ShmInv, ShmTypeOK, Extent, Fits
    <3>. QED BY <2>2, <2>3, <3>2, MsgType DEF Msg, NoBlk
  <2>7. \/ que' = que
        \/ \E x \in Message :
             /\ que' = Append(que, x) /\ x.pid = m.pid
             /\ \/ x.cmd = "BUFFER" /\ m.cmd = "GETBUF"
                \/ x.cmd = "REFUSE" /\ m.cmd = "GETBUF" /\ m.pid \in Stay
    BY <2>1, <2>2, <2>3, <2>4, <2>5, <2>6
  <2>. QED BY <2>1, <2>7, HandlerProtocol
<1>3. CASE HandleRelease
  <2>1. PICK m \in Takeable("RELEASE") :
          Take(m) /\ UNCHANGED <<cst, out, pl, que>> /\ rpc' \in {"top", "route"}
    BY <1>3 DEF HandleRelease, queVars, clientVars
  <2>. QED BY <2>1, HandlerProtocol
<1>. QED BY <1>1, <1>2, <1>3

-----------------------------------------------------------------------------
(* The buffers of a process: one lemma per kind of step                    *)

\* Steps that move no message.
LEMMA TokensSame ==
    ASSUME Tokens, UNCHANGED <<inq, mb, que, out, cst, hand, bl>> PROVE Tokens'
<1>1. Single'
  BY DEF Tokens, Single
<1>2. \A p \in Client :
        /\ Granted(p)' = Granted(p) /\ Sent(p)' = Sent(p) /\ Working(p)' = Working(p)
        /\ Returned(p)' = Returned(p) /\ PutOff(p)' = PutOff(p) /\ bl'[p] = bl[p]
  BY DEF Granted, Sent, Working, Returned, PutOff
<1>3. Apart' /\ Listed'
  BY <1>2 DEF Tokens, Apart, Listed
<1>. QED BY <1>1, <1>3 DEF Tokens

\* que_snd hands a message to the kernel.
LEMMA SndOneTokens == ASSUME RouterInv, Tokens, SndOne PROVE Tokens'
<1>0. PICK h : h = Head(que)
  OBVIOUS
<1>. DEFINE d(p) == BufOf(h, "BUFFER", p)
<1>1. /\ que # << >> /\ que' = Tail(que) /\ out' = [out EXCEPT ![h.pid] = Append(@, h)]
      /\ UNCHANGED <<inq, mb, cst, hand, bl>>
  BY <1>0 DEF RouterInv, SndPending, SndOne, plVars, clientVars
<1>2. /\ que \in Seq(Message) /\ out \in [Client -> Seq(Message)]
      /\ h \in Message /\ h = que[1] /\ 1 \in DOMAIN que
  BY <1>0, <1>1, QueueTypes, TailAt
<1>3. h.pid \in Client
  BY <1>2 DEF Message
<1>4. Once(que, "BUFFER")' /\ \A p : BufsIn(que, "BUFFER", p)' = BufsIn(que, "BUFFER", p) \ d(p)
  BY <1>0, <1>1, <1>2, TailBufs DEF Tokens, Single
<1>5. \A p \in Client : d(p) \subseteq Granted(p)
  BY <1>2, InBufs DEF BufOf, Granted
<1>6. \A p \in Client : Sent(p)' = Sent(p) \cup d(p)
  <2>1. ASSUME NEW p \in Client, p # h.pid PROVE Sent(p)' = Sent(p) \cup d(p)
    BY <1>1, <1>2, <2>1 DEF Sent, BufOf
  <2>2. out'[h.pid] = Append(out[h.pid], h) /\ out[h.pid] \in Seq(Message)
    BY <1>1, <1>2, <1>3
  <2>3. Sent(h.pid)' = Sent(h.pid) \cup d(h.pid)
    BY <1>2, <2>2, AppendBufs DEF Sent
  <2>. QED BY <2>1, <2>3
<1>7. \A p \in Client : Once(out[p], "BUFFER")'
  <2>1. out'[h.pid] = Append(out[h.pid], h) /\ out[h.pid] \in Seq(Message)
    BY <1>1, <1>2, <1>3
  <2>2. h.cmd = "BUFFER" => h.buf \notin BufsIn(out[h.pid], "BUFFER", h.pid)
    BY <1>3, <1>5 DEF Tokens, Apart, Sent, BufOf
  <2>3. Once(out[h.pid], "BUFFER")'
    BY <1>2, <1>3, <2>1, <2>2, AppendOnce DEF Tokens, Single
  <2>4. \A p \in Client : p # h.pid => out'[p] = out[p]
    BY <1>1, <1>2
  <2>. QED BY <2>3, <2>4 DEF Tokens, Single
<1>8. \A p \in Client :
        /\ Granted(p)' = Granted(p) \ d(p) /\ Working(p)' = Working(p)
        /\ Returned(p)' = Returned(p) /\ PutOff(p)' = PutOff(p) /\ bl'[p] = bl[p]
  BY <1>1, <1>4 DEF Granted, Working, Returned, PutOff
<1>. HIDE DEF d
<1>9. Apart' /\ Listed'
  BY <1>5, <1>6, <1>8 DEF Tokens, Apart, Listed
<1>10. Single'
  BY <1>1, <1>4, <1>7 DEF Tokens, Single
<1>. QED BY <1>9, <1>10 DEF Tokens

\* A message is put off.
LEMMA DeferTokens == ASSUME RouterInv, Tokens, Defer PROVE Tokens'
<1>0. PICK h : h = Head(inq)
  OBVIOUS
<1>. DEFINE d(p) == BufOf(h, "RELEASE", p)
<1>1. /\ inq # << >> /\ inq' = Tail(inq) /\ mb' = Append(mb, h)
      /\ UNCHANGED <<que, out, cst, hand, bl>>
  BY <1>0 DEF Defer, queVars, plVars, clientVars
<1>2. /\ inq \in Seq(Message) /\ mb \in Seq(Message)
      /\ h \in Message /\ h = inq[1] /\ 1 \in DOMAIN inq
  BY <1>0, <1>1, QueueTypes, TailAt
<1>3. h.pid \in Client
  BY <1>2 DEF Message
<1>4. Once(inq, "RELEASE")' /\ \A p : BufsIn(inq, "RELEASE", p)' = BufsIn(inq, "RELEASE", p) \ d(p)
  BY <1>0, <1>1, <1>2, TailBufs DEF Tokens, Single
<1>5. \A p \in Client : d(p) \subseteq Returned(p)
  BY <1>2, InBufs DEF BufOf, Returned
<1>6. \A p : BufsIn(mb, "RELEASE", p)' = BufsIn(mb, "RELEASE", p) \cup d(p)
  BY <1>1, <1>2, AppendBufs
<1>7. Once(mb, "RELEASE")'
  <2>1. h.cmd = "RELEASE" => h.buf \notin BufsIn(mb, "RELEASE", h.pid)
    BY <1>3, <1>5 DEF Tokens, Apart, PutOff, BufOf
  <2>. QED BY <1>1, <1>2, <2>1, AppendOnce DEF Tokens, Single
<1>8. \A p \in Client :
        /\ Granted(p)' = Granted(p) /\ Sent(p)' = Sent(p) /\ Working(p)' = Working(p)
        /\ Returned(p)' = Returned(p) \ d(p) /\ PutOff(p)' = PutOff(p) \cup d(p) /\ bl'[p] = bl[p]
  BY <1>1, <1>4, <1>6 DEF Granted, Sent, Working, Returned, PutOff
<1>. HIDE DEF d
<1>9. Apart' /\ Listed'
  BY <1>5, <1>8 DEF Tokens, Apart, Listed
<1>10. Single'
  BY <1>1, <1>4, <1>7 DEF Tokens, Single
<1>. QED BY <1>9, <1>10 DEF Tokens

\* The message a handler takes names its buffer no longer.
LEMMA TakeBufs ==
    ASSUME RouterInv, Tokens, NEW m, Take(m)
    PROVE  /\ Once(inq, "RELEASE")' /\ Once(mb, "RELEASE")'
           /\ \A p \in Client :
                /\ Returned(p)' \subseteq Returned(p) /\ PutOff(p)' \subseteq PutOff(p)
                /\ BufOf(m, "RELEASE", p) \subseteq Returned(p) \cup PutOff(p)
                /\ BufOf(m, "RELEASE", p) \cap (Returned(p)' \cup PutOff(p)') = {}
<1>. DEFINE d(p) == BufOf(m, "RELEASE", p)
<1>0. inq \in Seq(Message) /\ mb \in Seq(Message) /\ DOMAIN inq = 1 .. Len(inq) /\ DOMAIN mb = 1 .. Len(mb)
  BY QueueTypes
<1>1. \/ inq # << >> /\ m = Head(inq) /\ m = inq[1] /\ inq' = Tail(inq) /\ mb' = mb /\ Len(inq) >= 1
      \/ inq' = inq /\ \E i \in 1 .. Len(mb) : m = mb[i] /\ mb' = RemoveAt(mb, i)
  BY TakeShape
<1>2. CASE inq # << >> /\ m = Head(inq) /\ m = inq[1] /\ inq' = Tail(inq) /\ mb' = mb /\ Len(inq) >= 1
  <2>1. Once(inq, "RELEASE")' /\ \A p : BufsIn(inq, "RELEASE", p)' = BufsIn(inq, "RELEASE", p) \ d(p)
    BY <1>0, <1>2, TailBufs DEF Tokens, Single
  <2>2. 1 \in DOMAIN inq
    BY <1>2, QueueTypes
  <2>3. \A p \in Client : d(p) \subseteq Returned(p)
    BY <1>2, <2>2, InBufs DEF BufOf, Returned
  <2>4. \A p \in Client : Returned(p)' = Returned(p) \ d(p) /\ PutOff(p)' = PutOff(p)
    BY <1>2, <2>1 DEF Returned, PutOff
  <2>5. Once(mb, "RELEASE")'
    BY <1>2 DEF Tokens, Single
  <2>6. \A p \in Client : Returned(p) \cap PutOff(p) = {}
    BY DEF Tokens, Apart
  <2>. QED BY <2>1, <2>3, <2>4, <2>5, <2>6
<1>3. CASE inq' = inq /\ \E i \in 1 .. Len(mb) : m = mb[i] /\ mb' = RemoveAt(mb, i)
  <2>1. PICK i \in 1 .. Len(mb) : m = mb[i] /\ mb' = RemoveAt(mb, i)
    BY <1>3
  <2>2. Once(mb, "RELEASE")' /\ \A p : BufsIn(mb, "RELEASE", p)' = BufsIn(mb, "RELEASE", p) \ d(p)
    BY <1>0, <2>1, RemoveBufs DEF Tokens, Single
  <2>3. \A p \in Client : d(p) \subseteq PutOff(p)
    BY <1>0, <2>1, InBufs DEF BufOf, PutOff
  <2>4. \A p \in Client : Returned(p)' = Returned(p) /\ PutOff(p)' = PutOff(p) \ d(p)
    BY <1>3, <2>2 DEF Returned, PutOff
  <2>5. Once(inq, "RELEASE")'
    BY <1>3 DEF Tokens, Single
  <2>6. \A p \in Client : Returned(p) \cap PutOff(p) = {}
    BY DEF Tokens, Apart
  <2>. QED BY <2>2, <2>3, <2>4, <2>5, <2>6
<1>. QED BY <1>1, <1>2, <1>3

\* A handler that hands out no buffer and takes none back but the one its message names.
LEMMA HandlerTokens ==
    ASSUME RouterInv, Tokens, NEW m, Take(m), UNCHANGED <<out, cst, hand>>,
           \/ que' = que
           \/ \E x \in Message : que' = Append(que, x) /\ x.cmd # "BUFFER",
           \A p \in Client : bl[p] \ BufOf(m, "RELEASE", p) \subseteq bl'[p]
    PROVE  Tokens'
<1>1. /\ Once(inq, "RELEASE")' /\ Once(mb, "RELEASE")'
      /\ \A p \in Client :
           /\ Returned(p)' \subseteq Returned(p) /\ PutOff(p)' \subseteq PutOff(p)
           /\ BufOf(m, "RELEASE", p) \subseteq Returned(p) \cup PutOff(p)
           /\ BufOf(m, "RELEASE", p) \cap (Returned(p)' \cup PutOff(p)') = {}
  BY TakeBufs
<1>2. Once(que, "BUFFER")' /\ \A p \in Client : Granted(p)' = Granted(p)
  <2>1. CASE que' = que
    BY <2>1 DEF Granted, Tokens, Single
  <2>2. CASE que' # que
    <3>1. PICK x \in Message : que' = Append(que, x) /\ x.cmd # "BUFFER"
      BY <2>2
    <3>2. \A p : BufOf(x, "BUFFER", p) = {}
      BY <3>1 DEF BufOf
    <3>3. \A p : BufsIn(que, "BUFFER", p)' = BufsIn(que, "BUFFER", p)
      <4>1. \A p : BufsIn(que, "BUFFER", p)' = BufsIn(que, "BUFFER", p) \cup BufOf(x, "BUFFER", p)
        BY <3>1, AppendBufs, QueueTypes
      <4>. QED BY <3>2, <4>1
    <3>4. Once(que, "BUFFER")'
      BY <3>1, AppendOnce, QueueTypes DEF Tokens, Single
    <3>. QED BY <3>3, <3>4 DEF Granted
  <2>. QED BY <2>1, <2>2
<1>3. \A p \in Client : Sent(p)' = Sent(p) /\ Working(p)' = Working(p)
  BY DEF Sent, Working
<1>4. Apart' /\ Listed'
  BY <1>1, <1>2, <1>3 DEF Tokens, Apart, Listed
<1>5. Single'
  BY <1>1, <1>2 DEF Tokens, Single
<1>. QED BY <1>4, <1>5 DEF Tokens

\* A buffer that q does not have is handed out to q.
LEMMA GrantTokens ==
    ASSUME RouterInv, Tokens, NEW x \in Message, x.cmd = "BUFFER", x.pid \in Client,
           que' = Append(que, x), x.buf \notin bl[x.pid],
           bl' = [bl EXCEPT ![x.pid] = @ \cup {x.buf}], UNCHANGED <<out, cst, hand>>,
           Once(inq, "RELEASE")', Once(mb, "RELEASE")',
           \A p \in Client : Returned(p)' \subseteq Returned(p) /\ PutOff(p)' \subseteq PutOff(p)
    PROVE  Tokens'
<1>1. bl \in [Client -> SUBSET Addr]
  BY DEF RouterInv, TypeOK
<1>. DEFINE d(p) == BufOf(x, "BUFFER", p)
<1>2. \A p : BufsIn(que, "BUFFER", p)' = BufsIn(que, "BUFFER", p) \cup d(p)
  BY AppendBufs, QueueTypes
<1>3. \A p \in Client : d(p) \cap bl[p] = {} /\ bl'[p] = bl[p] \cup d(p)
  BY <1>1 DEF BufOf
<1>4. Once(que, "BUFFER")'
  <2>1. x.buf \notin BufsIn(que, "BUFFER", x.pid)
    BY DEF Tokens, Listed, Granted
  <2>. QED BY <2>1, AppendOnce, QueueTypes DEF Tokens, Single
<1>5. \A p \in Client : /\ Granted(p)' = Granted(p) \cup d(p)
                        /\ Sent(p)' = Sent(p) /\ Working(p)' = Working(p)
  BY <1>2 DEF Granted, Sent, Working
<1>. HIDE DEF d
<1>6. Apart' /\ Listed'
  BY <1>3, <1>5 DEF Tokens, Apart, Listed
<1>7. Single'
  BY <1>4 DEF Tokens, Single
<1>. QED BY <1>6, <1>7 DEF Tokens

\* The disconnect handler takes back the buffer of a message that is still queued.
LEMMA PurgeQueTokens ==
    ASSUME RouterInv, Tokens, NEW k \in 1 .. Len(que), que' = RemoveAt(que, k),
           UNCHANGED <<inq, mb, out, cst, hand>>,
           \A p \in Client : bl'[p] = bl[p] \ BufOf(que[k], "BUFFER", p)
    PROVE  Tokens'
<1>0. PICK m : m = que[k]
  OBVIOUS
<1>. DEFINE d(p) == BufOf(m, "BUFFER", p)
<1>1. que \in Seq(Message) /\ DOMAIN que = 1 .. Len(que)
  BY QueueTypes
<1>2. Once(que, "BUFFER")' /\ \A p : BufsIn(que, "BUFFER", p)' = BufsIn(que, "BUFFER", p) \ d(p)
  BY <1>0, <1>1, RemoveBufs DEF Tokens, Single
<1>3. \A p \in Client : d(p) \subseteq Granted(p)
  BY <1>0, <1>1, InBufs DEF BufOf, Granted
<1>4. \A p \in Client :
        /\ Granted(p)' = Granted(p) \ d(p) /\ Sent(p)' = Sent(p) /\ Working(p)' = Working(p)
        /\ Returned(p)' = Returned(p) /\ PutOff(p)' = PutOff(p) /\ bl'[p] = bl[p] \ d(p)
  BY <1>0, <1>2 DEF Granted, Sent, Working, Returned, PutOff
<1>. HIDE DEF d
<1>5. Apart' /\ Listed'
  BY <1>3, <1>4 DEF Tokens, Apart, Listed
<1>6. Single'
  BY <1>2 DEF Tokens, Single
<1>. QED BY <1>5, <1>6 DEF Tokens

\* A message leaves the kernel's queue of q: its buffer is taken back by the disconnect
\* handler, or becomes the one q works on.
LEMMA ReceiveTokens ==
    ASSUME RouterInv, Tokens, NEW q \in Client, out[q] # << >>, NEW m, m = Head(out[q]), m.pid = q,
           out' = [out EXCEPT ![q] = Tail(@)], UNCHANGED <<inq, mb, que>>,
           \/ /\ \A p \in Client : bl'[p] = bl[p] \ BufOf(m, "BUFFER", p)
              /\ UNCHANGED <<cst, hand>>
           \/ /\ \A p \in Client : Working(p)' \subseteq Working(p) \cup BufOf(m, "BUFFER", p)
              /\ UNCHANGED bl
    PROVE  Tokens'
<1>. DEFINE d(p) == BufOf(m, "BUFFER", p)
<1>1. /\ out \in [Client -> Seq(Message)] /\ out[q] \in Seq(Message)
      /\ m = out[q][1] /\ 1 \in DOMAIN out[q] /\ out'[q] = Tail(out[q])
      /\ \A p \in Client : p # q => out'[p] = out[p]
  <2>1. out \in [Client -> Seq(Message)] /\ out[q] \in Seq(Message)
    BY QueueTypes
  <2>. QED BY <2>1, TailAt
<1>2. /\ Once(Tail(out[q]), "BUFFER")
      /\ \A p : BufsIn(Tail(out[q]), "BUFFER", p) = BufsIn(out[q], "BUFFER", p) \ d(p)
  BY <1>1, TailBufs DEF Tokens, Single
<1>3. \A p \in Client : d(p) \subseteq Sent(p)
  BY <1>1, InBufs DEF BufOf, Sent
<1>4. \A p \in Client : Sent(p)' = Sent(p) \ d(p)
  <2>1. Sent(q)' = Sent(q) \ d(q)
    BY <1>1, <1>2 DEF Sent
  <2>2. ASSUME NEW p \in Client, p # q PROVE Sent(p)' = Sent(p) \ d(p)
    BY <1>1, <2>2 DEF Sent, BufOf
  <2>. QED BY <2>1, <2>2
<1>5. \A p \in Client :
        /\ Granted(p)' = Granted(p) /\ Returned(p)' = Returned(p) /\ PutOff(p)' = PutOff(p)
  BY DEF Granted, Returned, PutOff
<1>6. Single'
  BY <1>1, <1>2 DEF Tokens, Single
<1>. HIDE DEF d
<1>7. Apart' /\ Listed'
  <2>1. CASE /\ \A p \in Client : bl'[p] = bl[p] \ d(p)
             /\ UNCHANGED <<cst, hand>>
    <3>1. \A p \in Client : Working(p)' = Working(p)
      BY <2>1 DEF Working
    <3>. QED BY <1>3, <1>4, <1>5, <2>1, <3>1 DEF Tokens, Apart, Listed
  <2>2. CASE /\ \A p \in Client : Working(p)' \subseteq Working(p) \cup d(p)
             /\ UNCHANGED bl
    BY <1>3, <1>4, <1>5, <2>2 DEF Tokens, Apart, Listed
  <2>. QED BY <2>1, <2>2 DEF d
<1>. QED BY <1>6, <1>7 DEF Tokens

\* The disconnect handler takes back a buffer that is named nowhere.
LEMMA ReleaseAllTokens ==
    ASSUME Tokens, UNCHANGED <<inq, mb, que, out, cst, hand>>, NEW q \in Client,
           \A p \in Client : p # q => bl'[p] = bl[p],
           Granted(q) = {}, Sent(q) = {}, Working(q) = {}, Returned(q) = {}, PutOff(q) = {}
    PROVE  Tokens'
<1>1. Single'
  BY DEF Tokens, Single
<1>2. \A p \in Client :
        /\ Granted(p)' = Granted(p) /\ Sent(p)' = Sent(p) /\ Working(p)' = Working(p)
        /\ Returned(p)' = Returned(p) /\ PutOff(p)' = PutOff(p)
  BY DEF Granted, Sent, Working, Returned, PutOff
<1>3. Apart' /\ Listed'
  BY <1>2 DEF Tokens, Apart, Listed
<1>. QED BY <1>1, <1>3 DEF Tokens

\* A process sends a message; a buffer it releases is the one it worked on.
LEMMA SendTokens ==
    ASSUME RouterInv, Tokens, NEW m \in Message, inq' = Append(inq, m), m.pid \in Client,
           UNCHANGED <<mb, que, out, bl>>,
           \A p \in Client : Working(p)' \subseteq Working(p) \ BufOf(m, "RELEASE", p),
           BufOf(m, "RELEASE", m.pid) \subseteq Working(m.pid)
    PROVE  Tokens'
<1>. DEFINE d(p) == BufOf(m, "RELEASE", p)
<1>1. \A p : BufsIn(inq, "RELEASE", p)' = BufsIn(inq, "RELEASE", p) \cup d(p)
  BY AppendBufs, QueueTypes
<1>2. \A p \in Client : d(p) \subseteq Working(p)
  BY DEF BufOf
<1>3. Once(inq, "RELEASE")'
  <2>1. m.cmd = "RELEASE" => m.buf \notin BufsIn(inq, "RELEASE", m.pid)
    BY <1>2 DEF Tokens, Apart, Returned, BufOf
  <2>. QED BY <2>1, AppendOnce, QueueTypes DEF Tokens, Single
<1>4. \A p \in Client :
        /\ Granted(p)' = Granted(p) /\ Sent(p)' = Sent(p)
        /\ Returned(p)' = Returned(p) \cup d(p) /\ PutOff(p)' = PutOff(p)
  BY <1>1 DEF Granted, Sent, Returned, PutOff
<1>. HIDE DEF d
<1>5. \A p \in Client : Working(p)' \subseteq Working(p) \ d(p)
  BY DEF d
<1>6. Apart' /\ Listed'
  BY <1>2, <1>4, <1>5 DEF Tokens, Apart, Listed
<1>7. Single'
  BY <1>3 DEF Tokens, Single
<1>. QED BY <1>6, <1>7 DEF Tokens

-----------------------------------------------------------------------------
(* The books                                                               *)

\* Steps that leave the books alone.
LEMMA BooksSame ==
    ASSUME Lists, ToDo, Books, Routing' <=> Routing, Routing => cur' = cur,
           UNCHANGED <<count, bl, cnt, msg_count, errs, pl, todo>>
    PROVE  Lists' /\ ToDo' /\ Books'
<1>1. Lists'
  BY DEF Lists
<1>2. ToDo'
  BY DEF ToDo
<1>3. \A b \in Addr : RoutingRef(b)' = RoutingRef(b)
  BY DEF RoutingRef
<1>4. Held' = Held
  BY DEF Held
<1>5. RefCount' /\ Ledger' /\ NeverComeHere'
  BY <1>3, <1>4 DEF Books, RefCount, Ledger, NeverComeHere
<1>. QED BY <1>1, <1>2, <1>5 DEF Books

\* What a client does is not in the books.
LEMMA ClientBooks ==
    ASSUME BooksInv, NEW p \in Client, ClientNext(p) PROVE Lists' /\ ToDo' /\ Books'
<1>1. UNCHANGED <<shmVars, routerVars>>
  BY DEF ClientNext, Connect, ConnectDone, ConnectFailed, RequestBuf, GetBuf, ReleaseBuf, Leave
<1>2. UNCHANGED <<rpc, ret, cur, count, bl, cnt, msg_count, errs, pl, todo>>
  BY <1>1 DEF shmVars, routerVars, plVars
<1>3. Routing' <=> Routing
  BY <1>2 DEF Routing
<1>. QED BY <1>2, <1>3, BooksSame DEF BooksInv

\* The two ends of router_connect, and router_get_buf.
LEMMA ClientReceives ==
    ASSUME RouterInv, BooksInv, NEW p \in Client,
           ConnectDone(p) \/ ConnectFailed(p) \/ GetBuf(p)
    PROVE  Protocol' /\ Tokens'
<1>1. PICK m : m = Head(out[p])
  OBVIOUS
<1>2. /\ out[p] # << >> /\ out' = [out EXCEPT ![p] = Tail(@)] /\ cst[p] \in {"conn", "get"}
      /\ UNCHANGED <<rpc, cur, mb, que, pl, inq, bl>>
  BY DEF ConnectDone, ConnectFailed, GetBuf, Receive, routerVars, queVars, plVars
<1>3. m \in Range(out[p]) /\ m.pid = p /\ (m.cmd = "CONNECT" => p \in Range(pl))
  <2>1. out[p] \in Seq(Message)
    BY QueueTypes
  <2>2. m \in Range(out[p])
    BY <1>1, <1>2, <2>1, TailRange
  <2>. QED BY <2>2 DEF BooksInv, Protocol, Answered
<1>4. cst \in [Client -> {"off", "conn", "idle", "get", "use", "fail"}]
      /\ hand \in [Client -> [buf : Nat, size : Nat, blk : Nat]]
  BY DEF RouterInv, TypeOK
<1>5. PICK v \in {"idle", "get", "use", "fail"} :
        /\ cst' = [cst EXCEPT ![p] = v]
        /\ v \in {"idle", "get", "use"} => p \in Range(pl)
        /\ v = "idle" => p \in Writers
        /\ v = "fail" => p \notin Stay
        /\ v = "use" => m.cmd = "BUFFER" /\ hand'[p].buf = m.buf
        /\ \A q \in Client : q # p => hand'[q] = hand[q]
  <2>1. CASE ConnectDone(p)
    <3>1. m.cmd = "CONNECT" /\ hand' = hand
          /\ cst' = [cst EXCEPT ![p] = IF p \in Writers THEN "idle" ELSE "get"]
      BY <1>1, <2>1 DEF ConnectDone
    <3>. QED BY <1>3, <3>1
  <2>2. CASE ConnectFailed(p)
    <3>1. m.cmd # "CONNECT" /\ cst[p] = "conn" /\ hand' = hand
          /\ cst' = [cst EXCEPT ![p] = "fail"]
      BY <1>1, <2>2 DEF ConnectFailed
    <3>2. p \notin Stay
      BY <1>3, <3>1 DEF Stay, BooksInv, Protocol, WriterWaits
    <3>. QED BY <3>1, <3>2
  <2>3. CASE GetBuf(p)
    <3>1. cst[p] = "get" /\ p \in Range(pl)
      BY <2>3 DEF GetBuf, BooksInv, Protocol, Alive
    <3>2. CASE m.cmd # "BUFFER"
      <4>1. UNCHANGED <<cst, hand>>
        BY <1>1, <2>3, <3>2 DEF GetBuf
      <4>2. cst' = [cst EXCEPT ![p] = "get"]
        BY <1>4, <3>1, <4>1
      <4>. QED BY <3>1, <4>1, <4>2
    <3>3. CASE m.cmd = "BUFFER"
      <4>1. /\ cst' = [cst EXCEPT ![p] = "use"]
            /\ \E k : hand' = [hand EXCEPT ![p] = [buf |-> m.buf, size |-> m.size, blk |-> k]]
        BY <1>1, <2>3, <3>3 DEF GetBuf
      <4>2. hand'[p].buf = m.buf /\ \A q \in Client : q # p => hand'[q] = hand[q]
        BY <1>4, <4>1
      <4>. QED BY <3>1, <3>3, <4>1, <4>2
    <3>. QED BY <3>2, <3>3
  <2>. QED BY <2>1, <2>2, <2>3
<1>6. Protocol'
  BY <1>2, <1>5, ClientReceive DEF BooksInv
<1>7. \A q \in Client : Working(q)' \subseteq Working(q) \cup BufOf(m, "BUFFER", q)
  <2>1. cst'[p] = v /\ \A q \in Client : q # p => cst'[q] = cst[q]
    BY <1>4, <1>5
  <2>2. ASSUME NEW q \in Client, q # p PROVE Working(q)' = Working(q)
    BY <1>5, <2>1, <2>2 DEF Working
  <2>3. Working(p)' \subseteq BufOf(m, "BUFFER", p)
    BY <1>3, <1>5, <2>1 DEF Working, BufOf
  <2>. QED BY <2>2, <2>3
<1>8. Tokens'
  BY <1>1, <1>2, <1>3, <1>7, ReceiveTokens DEF BooksInv
<1>. QED BY <1>6, <1>8

\* router_connect, router_request_buf, router_release_buf and router_disconnect send.
LEMMA ClientSends ==
    ASSUME RouterInv, BooksInv, NEW p \in Client,
           Connect(p) \/ RequestBuf(p) \/ ReleaseBuf(p) \/ Leave(p)
    PROVE  Protocol' /\ Tokens'
<1>0. /\ cst \in [Client -> {"off", "conn", "idle", "get", "use", "fail"}]
      /\ hand \in [Client -> [buf : Nat, size : Nat, blk : Nat]]
  BY DEF RouterInv, TypeOK
<1>1. UNCHANGED <<rpc, cur, mb, que, pl, out, bl>>
  BY DEF Connect, RequestBuf, ReleaseBuf, Leave, routerVars, queVars, plVars
<1>2. \E m \in Message : \E v \in {"off", "conn", "idle", "get", "fail"} :
        /\ inq' = Append(inq, m) /\ m.pid = p /\ cst' = [cst EXCEPT ![p] = v]
        /\ \A q \in Client : q # p => hand'[q] = hand[q]
        /\ BufOf(m, "RELEASE", p) \subseteq Working(p)
        /\ \/ Connect(p)
           \/ /\ cst[p] \in {"idle", "get", "use", "fail"} /\ v # "conn"
              /\ m.cmd \in {"GETBUF", "RELEASE", "DISCONNECT"}
              /\ m.cmd = "GETBUF" => p \in Writers /\ m.size \in Sizes
              /\ m.cmd = "DISCONNECT" => v = "off" /\ p \notin Stay
              /\ v \in {"idle", "get", "use"} => cst[p] \in {"idle", "get", "use"}
              /\ v = "idle" => p \in Writers
              /\ v = "fail" => p \notin Stay
  <2>1. CASE Connect(p)
    <3>. DEFINE m == Msg("CONNECT", p, 0, 0, NoBlk)
    <3>1. m \in Message /\ m.pid = p /\ BufOf(m, "RELEASE", p) = {}
      BY MsgType DEF Msg, NoBlk, BufOf
    <3>2. inq' = Append(inq, m) /\ cst' = [cst EXCEPT ![p] = "conn"] /\ hand' = hand
      BY <2>1 DEF Connect, Send
    <3>. QED BY <2>1, <3>1, <3>2
  <2>2. CASE RequestBuf(p)
    <3>1. PICK size \in Sizes : Send(Msg("GETBUF", p, 0, size, NoBlk))
      BY <2>2 DEF RequestBuf
    <3>2. size \in Nat
      BY LimitAssumption
    <3>. DEFINE m == Msg("GETBUF", p, 0, size, NoBlk)
    <3>3. m \in Message /\ m.pid = p /\ m.cmd = "GETBUF" /\ m.size \in Sizes
          /\ BufOf(m, "RELEASE", p) = {}
      BY <3>2, MsgType DEF Msg, NoBlk, BufOf
    <3>4. cst[p] = "idle" /\ p \in Writers /\ hand' = hand /\ inq' = Append(inq, m)
      BY <2>2, <3>1 DEF RequestBuf, BooksInv, Protocol, Alive, Send
    <3>. HIDE DEF m
    <3>5. \E v \in {"get", "idle", "fail"} :
            cst' = [cst EXCEPT ![p] = v] /\ (v = "fail" => p \notin Stay)
      <4>1. cst = [cst EXCEPT ![p] = "idle"]
        BY <1>0, <3>4
      <4>. QED BY <2>2, <4>1 DEF RequestBuf, Quits, Stay
    <3>. QED BY <3>3, <3>4, <3>5
  <2>3. CASE ReleaseBuf(p)
    <3>1. PICK size \in Nat, k \in Nat : Send(Msg("RELEASE", p, hand[p].buf, size, k))
      <4>1. PICK size \in IF p \in Writers
                            THEN {0, hand[p].size, hand[p].size + Overrun} ELSE {0} :
              Send(Msg("RELEASE", p, hand[p].buf, size, IF size > 0 THEN hand[p].blk ELSE NoBlk))
        BY <2>3 DEF ReleaseBuf
      <4>2. size \in Nat /\ (IF size > 0 THEN hand[p].blk ELSE NoBlk) \in Nat
        BY <1>0, LimitAssumption DEF NoBlk
      <4>. QED BY <4>1, <4>2
    <3>. DEFINE m == Msg("RELEASE", p, hand[p].buf, size, k)
    <3>2. m \in Message /\ m.pid = p /\ m.cmd = "RELEASE" /\ m.buf = hand[p].buf
      BY <1>0, <3>1, MsgType DEF Msg
    <3>3. inq' = Append(inq, m)
      BY <3>1 DEF Send
    <3>. HIDE DEF m
    <3>4. cst[p] = "use" /\ BufOf(m, "RELEASE", p) \subseteq Working(p)
      BY <2>3, <3>2 DEF ReleaseBuf, BufOf, Working
    <3>5. /\ cst' = [cst EXCEPT ![p] = IF p \in Writers THEN "idle" ELSE "get"]
          /\ \A q \in Client : q # p => hand'[q] = hand[q]
      BY <1>0, <2>3 DEF ReleaseBuf
    <3>. QED BY <3>2, <3>3, <3>4, <3>5
  <2>4. CASE Leave(p)
    <3>. DEFINE m == Msg("DISCONNECT", p, 0, 0, NoBlk)
    <3>1. m \in Message /\ m.pid = p /\ m.cmd = "DISCONNECT" /\ BufOf(m, "RELEASE", p) = {}
      BY MsgType DEF Msg, NoBlk, BufOf
    <3>2. /\ inq' = Append(inq, m) /\ cst' = [cst EXCEPT ![p] = "off"]
          /\ \A q \in Client : q # p => hand'[q] = hand[q]
      BY <1>0, <2>4 DEF Leave, Send
    <3>3. cst[p] \in {"idle", "get", "use", "fail"} /\ p \notin Stay
      BY <2>4 DEF Leave, Quits, Stay, BooksInv, Protocol, Alive
    <3>. HIDE DEF m
    <3>. QED BY <3>1, <3>2, <3>3
  <2>. QED BY <2>1, <2>2, <2>3, <2>4
<1>3. PICK m \in Message, v \in {"off", "conn", "idle", "get", "fail"} :
        /\ inq' = Append(inq, m) /\ m.pid = p /\ cst' = [cst EXCEPT ![p] = v]
        /\ \A q \in Client : q # p => hand'[q] = hand[q]
        /\ BufOf(m, "RELEASE", p) \subseteq Working(p)
        /\ \/ Connect(p)
           \/ /\ cst[p] \in {"idle", "get", "use", "fail"} /\ v # "conn"
              /\ m.cmd \in {"GETBUF", "RELEASE", "DISCONNECT"}
              /\ m.cmd = "GETBUF" => p \in Writers /\ m.size \in Sizes
              /\ m.cmd = "DISCONNECT" => v = "off" /\ p \notin Stay
              /\ v \in {"idle", "get", "use"} => cst[p] \in {"idle", "get", "use"}
              /\ v = "idle" => p \in Writers
              /\ v = "fail" => p \notin Stay
  BY <1>2
<1>4. Protocol'
  <2>1. CASE Connect(p)
    BY <2>1, ConnectProtocol DEF BooksInv
  <2>2. CASE ~ Connect(p)
    <3>1. /\ cst[p] \in {"idle", "get", "use", "fail"} /\ v \in {"off", "idle", "get", "fail"}
          /\ m.cmd \in {"GETBUF", "RELEASE", "DISCONNECT"}
          /\ m.cmd = "GETBUF" => p \in Writers /\ m.size \in Sizes
          /\ m.cmd = "DISCONNECT" => v = "off" /\ p \notin Stay
          /\ v \in {"idle", "get", "use"} => cst[p] \in {"idle", "get", "use"}
          /\ v = "idle" => p \in Writers
          /\ v = "fail" => p \notin Stay
      BY <1>3, <2>2
    <3>2. inq' = Append(inq, m) /\ m.pid = p /\ cst' = [cst EXCEPT ![p] = v]
      BY <1>3
    <3>3. Protocol
      BY DEF BooksInv
    <3>. QED BY <1>1, <3>1, <3>2, <3>3, ClientSend
  <2>. QED BY <2>1, <2>2
<1>5. \A q \in Client : Working(q)' \subseteq Working(q) \ BufOf(m, "RELEASE", q)
  <2>1. cst'[p] = v /\ \A q \in Client : q # p => cst'[q] = cst[q]
    BY <1>0, <1>3
  <2>2. Working(p)' = {}
    BY <2>1 DEF Working
  <2>3. ASSUME NEW q \in Client, q # p
        PROVE  Working(q)' = Working(q) /\ BufOf(m, "RELEASE", q) = {}
    BY <1>3, <2>1, <2>3 DEF Working, BufOf
  <2>. QED BY <2>2, <2>3
<1>6. Tokens'
  BY <1>1, <1>3, <1>5, SendTokens DEF BooksInv
<1>. QED BY <1>4, <1>6

\* The processes that have b in their list.
Holders(b) == {p \in Range(pl) : b \in bl[p]}

\* The sets that are counted are finite.
LEMMA CountedSets ==
    ASSUME RouterInv
    PROVE  /\ Range(pl) \subseteq Client /\ bl \in [Client -> SUBSET Addr]
           /\ \A p \in Client : IsFiniteSet(bl[p]) /\ Cardinality(bl[p]) \in Nat
           /\ \A b : IsFiniteSet(Holders(b)) /\ Cardinality(Holders(b)) \in Nat
           /\ IsFiniteSet(Held) /\ Cardinality(Held) \in Nat
<1>1. Range(pl) \subseteq Client /\ bl \in [Client -> SUBSET Addr]
  BY QueueTypes, RangeOfSeq DEF RouterInv, TypeOK
<1>2. IsFiniteSet(Range(pl))
  BY <1>1, ClientAssumption, FS_Subset
<1>3. IsFiniteSet(Addr)
  BY ShmSizeAssumption, FS_Interval DEF Addr
<1>4. \A p \in Client : IsFiniteSet(bl[p])
  BY <1>1, <1>3, FS_Subset
<1>5. ASSUME NEW b PROVE IsFiniteSet(Holders(b))
  <2>1. Holders(b) \subseteq Range(pl)
    BY DEF Holders
  <2>. QED BY <1>2, <2>1, FS_Subset
<1>6. IsFiniteSet(Range(pl) \X Addr)
  BY <1>2, <1>3, FS_Product
<1>7. IsFiniteSet(Held)
  <2>1. Held \subseteq Range(pl) \X Addr
    BY DEF Held
  <2>. QED BY <1>6, <2>1, FS_Subset
<1>. QED BY <1>1, <1>4, <1>5, <1>7, FS_CardinalityType

\* A buffer is added to the list of q.
LEMMA AddHolder ==
    ASSUME RouterInv, NEW q \in Range(pl), NEW b \in Addr, b \notin bl[q],
           bl' = [bl EXCEPT ![q] = @ \cup {b}], pl' = pl
    PROVE  /\ Cardinality(Holders(b)') = Cardinality(Holders(b)) + 1
           /\ \A c : c # b => Holders(c)' = Holders(c)
           /\ Cardinality(Held') = Cardinality(Held) + 1
           /\ Cardinality(bl'[q]) = Cardinality(bl[q]) + 1
           /\ \A p \in Client : bl'[p] = IF p = q THEN bl[q] \cup {b} ELSE bl[p]
<1>1. /\ q \in Client /\ bl \in [Client -> SUBSET Addr] /\ Range(pl) \subseteq Client
      /\ IsFiniteSet(bl[q]) /\ IsFiniteSet(Holders(b)) /\ IsFiniteSet(Held)
  BY CountedSets
<1>2. \A p \in Client : bl'[p] = IF p = q THEN bl[q] \cup {b} ELSE bl[p]
  BY <1>1
<1>3. Cardinality(bl'[q]) = Cardinality(bl[q]) + 1
  BY <1>1, <1>2, FS_AddElement
<1>4. \A c : Holders(c)' = IF c = b THEN Holders(c) \cup {q} ELSE Holders(c)
  BY <1>1, <1>2 DEF Holders
<1>5. q \notin Holders(b)
  BY DEF Holders
<1>6. Cardinality(Holders(b)') = Cardinality(Holders(b)) + 1
  BY <1>1, <1>4, <1>5, FS_AddElement
<1>7. Held' = Held \cup {<<q, b>>} /\ <<q, b>> \notin Held
  <2>1. \A h \in Range(pl) \X Addr : h[1] \in Range(pl) /\ h[2] \in Addr /\ h = <<h[1], h[2]>>
    OBVIOUS
  <2>2. \A p \in Range(pl), c \in Addr : c \in bl'[p] <=> (c \in bl[p] \/ (p = q /\ c = b))
    BY <1>1, <1>2
  <2>3. ASSUME NEW h \in Range(pl) \X Addr
        PROVE  h \in Held' <=> h \in Held \cup {<<q, b>>}
    <3>1. h \in Held' <=> h[2] \in bl'[h[1]]
      BY DEF Held
    <3>2. h \in Held <=> h[2] \in bl[h[1]]
      BY DEF Held
    <3>3. h = <<q, b>> <=> h[1] = q /\ h[2] = b
      BY <2>1
    <3>. QED BY <2>1, <2>2, <3>1, <3>2, <3>3
  <2>4. Held \subseteq Range(pl) \X Addr /\ Held' \subseteq Range(pl) \X Addr
    BY DEF Held
  <2>5. <<q, b>> \in Range(pl) \X Addr /\ <<q, b>> \notin Held
    BY DEF Held
  <2>. QED BY <2>3, <2>4, <2>5
<1>8. Cardinality(Held') = Cardinality(Held) + 1
  BY <1>1, <1>7, FS_AddElement
<1>. QED BY <1>2, <1>3, <1>4, <1>6, <1>8

\* A buffer is taken from the list of q.
LEMMA DropHolder ==
    ASSUME RouterInv, NEW q \in Range(pl), NEW b \in bl[q],
           bl' = [bl EXCEPT ![q] = @ \ {b}], pl' = pl
    PROVE  /\ Cardinality(Holders(b)') = Cardinality(Holders(b)) - 1
           /\ Cardinality(Holders(b)) \in Nat \ {0}
           /\ \A c : c # b => Holders(c)' = Holders(c)
           /\ Cardinality(Held') = Cardinality(Held) - 1
           /\ Cardinality(bl'[q]) = Cardinality(bl[q]) - 1
           /\ Cardinality(bl[q]) \in Nat \ {0}
           /\ \A p \in Client : bl'[p] = IF p = q THEN bl[q] \ {b} ELSE bl[p]
<1>1. /\ q \in Client /\ bl \in [Client -> SUBSET Addr] /\ Range(pl) \subseteq Client
      /\ IsFiniteSet(bl[q]) /\ IsFiniteSet(Holders(b)) /\ IsFiniteSet(Held) /\ b \in Addr
      /\ Cardinality(bl[q]) \in Nat /\ Cardinality(Holders(b)) \in Nat
  BY CountedSets
<1>2. \A p \in Client : bl'[p] = IF p = q THEN bl[q] \ {b} ELSE bl[p]
  BY <1>1
<1>3. Cardinality(bl'[q]) = Cardinality(bl[q]) - 1 /\ Cardinality(bl[q]) # 0
  <2>1. bl'[q] = bl[q] \ {b}
    BY <1>1, <1>2
  <2>. QED BY <1>1, <2>1, FS_RemoveElement, FS_EmptySet
<1>4. \A c : Holders(c)' = IF c = b THEN Holders(c) \ {q} ELSE Holders(c)
  BY <1>1, <1>2 DEF Holders
<1>5. q \in Holders(b)
  BY DEF Holders
<1>6. Cardinality(Holders(b)') = Cardinality(Holders(b)) - 1 /\ Cardinality(Holders(b)) # 0
  BY <1>1, <1>4, <1>5, FS_RemoveElement, FS_EmptySet
<1>7. Held' = Held \ {<<q, b>>} /\ <<q, b>> \in Held
  <2>1. \A h \in Range(pl) \X Addr : h[1] \in Range(pl) /\ h[2] \in Addr /\ h = <<h[1], h[2]>>
    OBVIOUS
  <2>2. \A p \in Range(pl), c \in Addr : c \in bl'[p] <=> (c \in bl[p] /\ ~ (p = q /\ c = b))
    BY <1>1, <1>2
  <2>3. ASSUME NEW h \in Range(pl) \X Addr
        PROVE  h \in Held' <=> h \in Held \ {<<q, b>>}
    <3>1. h \in Held' <=> h[2] \in bl'[h[1]]
      BY DEF Held
    <3>2. h \in Held <=> h[2] \in bl[h[1]]
      BY DEF Held
    <3>3. h = <<q, b>> <=> h[1] = q /\ h[2] = b
      BY <2>1
    <3>. QED BY <2>1, <2>2, <3>1, <3>2, <3>3
  <2>4. Held \subseteq Range(pl) \X Addr /\ Held' \subseteq Range(pl) \X Addr
    BY DEF Held
  <2>5. <<q, b>> \in Range(pl) \X Addr /\ <<q, b>> \in Held
    BY <1>1 DEF Held
  <2>. QED BY <2>3, <2>4, <2>5
<1>8. Cardinality(Held') = Cardinality(Held) - 1
  <2>1. PICK h : h = <<q, b>>
    OBVIOUS
  <2>2. Held' = Held \ {h} /\ h \in Held
    BY <1>7, <2>1
  <2>3. Cardinality(Held \ {h}) = Cardinality(Held) - 1
    BY <1>1, <2>2, FS_RemoveElement
  <2>. QED BY <2>2, <2>3
<1>. QED BY <1>1, <1>2, <1>3, <1>4, <1>6, <1>8

\* release_buf of a buffer that the process has, when nothing is routed.
LEMMA ReleaseBooks ==
    ASSUME RouterInv, Lists, ToDo, Books, NEW q \in Range(pl), NEW b \in bl[q],
           release_buf(q, b), ~ Routing, ~ Routing', UNCHANGED <<pl, todo>>
    PROVE  /\ Lists' /\ ToDo' /\ Books'
           /\ bl' = [bl EXCEPT ![q] = @ \ {b}]
<1>1. /\ q \in Client /\ b \in Addr /\ bl \in [Client -> SUBSET Addr]
      /\ cnt \in [Client -> Nat] /\ count \in [Addr -> Nat] /\ msg_count \in Int
      /\ Range(pl) \subseteq Client
  BY CountedSets DEF RouterInv, TypeOK, ShmInv, ShmTypeOK
<1>2. /\ bl' = [bl EXCEPT ![q] = @ \ {b}]
      /\ cnt' = [cnt EXCEPT ![q] = IF @ > 0 THEN @ - 1 ELSE 0]
      /\ BlErr(q, b) = {}
  BY DEF release_buf, DropFromBl, InBl, Connected, BlErr
<1>3. /\ Cardinality(Holders(b)') = Cardinality(Holders(b)) - 1
      /\ Cardinality(Holders(b)) \in Nat \ {0}
      /\ \A c : c # b => Holders(c)' = Holders(c)
      /\ Cardinality(Held') = Cardinality(Held) - 1
      /\ Cardinality(bl'[q]) = Cardinality(bl[q]) - 1
      /\ Cardinality(bl[q]) \in Nat \ {0}
      /\ \A p \in Client : bl'[p] = IF p = q THEN bl[q] \ {b} ELSE bl[p]
  BY <1>2, DropHolder
<1>4. \A c \in Addr : count[c] = Cardinality(Holders(c)) /\ RoutingRef(c)' = 0
  <2>1. \A c \in Addr : RoutingRef(c) = 0 /\ RoutingRef(c)' = 0
    BY DEF RoutingRef
  <2>2. \A c \in Addr : Cardinality(Holders(c)) \in Nat
    BY CountedSets
  <2>. QED BY <2>1, <2>2 DEF Books, RefCount, Holders
<1>5. b \in Bufs(used)
  <2>1. count[b] > 0
    BY <1>1, <1>3, <1>4
  <2>. QED BY <1>1, <2>1 DEF RouterInv, ShmInv, Counted
<1>6. /\ count' = [count EXCEPT ![b] = IF @ > 1 THEN @ - 1 ELSE 0]
      /\ msg_count' = msg_count - 1
      /\ errs' = errs
  BY <1>2, <1>5 DEF release_buf, DropRef, shm_unref, UsedErr
<1>7. RefCount'
  <2>. SUFFICES ASSUME NEW c \in Addr
                PROVE  count'[c] = Cardinality(Holders(c)') + RoutingRef(c)'
    BY DEF RefCount, Holders
  <2>1. CASE c = b
    BY <1>1, <1>3, <1>4, <1>6, <2>1
  <2>2. CASE c # b
    BY <1>1, <1>3, <1>4, <1>6, <2>2, CountedSets
  <2>. QED BY <2>1, <2>2
<1>8. Ledger'
  <2>1. /\ \A p \in Range(pl) : cnt[p] = Cardinality(bl[p])
        /\ msg_count = Cardinality(Held) /\ Cardinality(Held) \in Nat
    BY CountedSets DEF Books, Ledger
  <2>2. ASSUME NEW p \in Range(pl) PROVE cnt'[p] = Cardinality(bl'[p])
    BY <1>1, <1>2, <1>3, <2>1
  <2>3. msg_count' = Cardinality(Held')
    BY <1>3, <1>6, <2>1
  <2>. QED BY <1>1, <1>3, <1>6, <2>2, <2>3 DEF Ledger
<1>9. NeverComeHere'
  BY <1>6 DEF Books, NeverComeHere
<1>10. Lists'
  <2>1. \A p \in Client : bl'[p] \subseteq bl[p]
    BY <1>3
  <2>2. Writers \subseteq Client
    BY DEF Client
  <2>. QED BY <2>1, <2>2 DEF Lists
<1>11. ToDo'
  BY DEF ToDo
<1>. QED BY <1>2, <1>7, <1>8, <1>9, <1>10, <1>11 DEF Books

\* What goes to the routing: the writer's entry becomes the reference of the router.
LEMMA RouteBooks ==
    ASSUME RouterInv, Lists, ToDo, Books, NEW m \in Message, m.pid \in Writers,
           m.pid \in Range(pl), m.buf \in bl[m.pid], ~ check_max_buf, ~ Routing,
           DropFromBl(m.pid, m.buf), errs' = errs \cup BlErr(m.pid, m.buf),
           rpc' = "route", cur' = m, todo' = pl, UNCHANGED <<pl, count, msg_count>>
    PROVE  Lists' /\ ToDo' /\ Books'
<1>0. PICK q, b : q = m.pid /\ b = m.buf
  OBVIOUS
<1>1. /\ q \in Client /\ q \in Range(pl) /\ q \in Writers /\ b \in bl[q]
      /\ b \in Addr /\ bl \in [Client -> SUBSET Addr]
      /\ cnt \in [Client -> Nat] /\ count \in [Addr -> Nat] /\ msg_count \in Int
      /\ Range(pl) \subseteq Client
  BY <1>0, CountedSets DEF RouterInv, TypeOK, ShmInv, ShmTypeOK
<1>2. /\ bl' = [bl EXCEPT ![q] = @ \ {b}]
      /\ cnt' = [cnt EXCEPT ![q] = IF @ > 0 THEN @ - 1 ELSE 0]
      /\ errs' = errs
  BY <1>0, <1>1 DEF DropFromBl, InBl, Connected, BlErr
<1>3. /\ Cardinality(Holders(b)') = Cardinality(Holders(b)) - 1
      /\ Cardinality(Holders(b)) \in Nat \ {0}
      /\ \A c : c # b => Holders(c)' = Holders(c)
      /\ Cardinality(Held') = Cardinality(Held) - 1
      /\ Cardinality(bl'[q]) = Cardinality(bl[q]) - 1
      /\ Cardinality(bl[q]) \in Nat \ {0}
      /\ \A p \in Client : bl'[p] = IF p = q THEN bl[q] \ {b} ELSE bl[p]
  BY <1>1, <1>2, DropHolder
<1>4. \A c \in Addr : /\ count[c] = Cardinality(Holders(c))
                      /\ RoutingRef(c)' = IF c = b THEN 1 ELSE 0
  <2>1. \A c \in Addr : RoutingRef(c) = 0
    BY DEF RoutingRef
  <2>2. \A c \in Addr : Cardinality(Holders(c)) \in Nat
    BY CountedSets
  <2>3. \A c \in Addr : RoutingRef(c)' = IF c = b THEN 1 ELSE 0
    BY <1>0 DEF RoutingRef, Routing
  <2>. QED BY <2>1, <2>2, <2>3 DEF Books, RefCount, Holders
<1>5. RefCount'
  <2>. SUFFICES ASSUME NEW c \in Addr
                PROVE  count'[c] = Cardinality(Holders(c)') + RoutingRef(c)'
    BY DEF RefCount, Holders
  <2>1. CASE c = b
    BY <1>1, <1>3, <1>4, <2>1
  <2>2. CASE c # b
    BY <1>1, <1>3, <1>4, <2>2, CountedSets
  <2>. QED BY <2>1, <2>2
<1>6. Ledger'
  <2>1. /\ \A p \in Range(pl) : cnt[p] = Cardinality(bl[p])
        /\ msg_count = Cardinality(Held) /\ Cardinality(Held) \in Nat
    BY CountedSets DEF Books, Ledger
  <2>2. ASSUME NEW p \in Range(pl) PROVE cnt'[p] = Cardinality(bl'[p])
    BY <1>1, <1>2, <1>3, <2>1
  <2>3. msg_count' = Cardinality(Held') + 1
    BY <1>3, <2>1
  <2>. QED BY <2>2, <2>3 DEF Ledger, Routing
<1>7. NeverComeHere'
  BY <1>2 DEF Books, NeverComeHere
<1>8. Writers \subseteq Client /\ Writers \cap Readers = {}
  BY ClientAssumption DEF Client
<1>9. Lists'
  <2>1. \A p \in Client : bl'[p] \subseteq bl[p]
    BY <1>3
  <2>2. \A w \in Writers : b \notin bl'[w]
    BY <1>1, <1>3, <1>8 DEF Lists
  <2>. QED BY <1>0, <1>8, <2>1, <2>2 DEF Lists
<1>10. ToDo'
  <2>1. \A r \in Range(pl) : b \notin bl'[r]
    BY <1>1, <1>3 DEF Lists
  <2>2. \A r \in Range(pl) : r \in Readers => cnt'[r] < MAXSENDBUF
    <3>1. \A r \in Readers : r # q
      BY <1>1, <1>8
    <3>2. \A r \in Range(pl) : r \in Readers => ~ (cnt[r] >= MAXSENDBUF)
      BY DEF check_max_buf, Connected
    <3>. QED BY <1>1, <1>2, <3>1, <3>2, LimitAssumption
  <2>. QED BY <1>0, <2>1, <2>2 DEF ToDo, Lists, Routing
<1>. QED BY <1>5, <1>6, <1>7, <1>9, <1>10 DEF Books

\* Nothing is routed while the router scans, waits or serves a disconnect.
LEMMA NotRouting == ASSUME rpc \in {"scan", "wait", "disc", "top"} PROVE ~ Routing
BY DEF Routing

\* RTR_CONNECT: a newcomer has an empty list.
LEMMA ConnectBooks ==
    ASSUME RouterInv, BooksInv, HandleConnect PROVE Tokens' /\ Lists' /\ ToDo' /\ Books'
<1>1. PICK m \in Takeable("CONNECT") :
        /\ Take(m) /\ UNCHANGED <<cst, out, hand, count, errs, todo, cur, msg_count>>
        /\ rpc' \in {"top", "snd"} /\ (rpc' = "snd" => ret' = "top")
        /\ \/ UNCHANGED <<que, pl, bl, cnt>>
           \/ /\ pl' = Append(pl, m.pid) /\ que' = Append(que, Msg("CONNECT", m.pid, 0, 0, NoBlk))
              /\ bl' = [bl EXCEPT ![m.pid] = {}] /\ cnt' = [cnt EXCEPT ![m.pid] = 0]
           \/ /\ UNCHANGED <<pl, bl, cnt>>
              /\ que' = Append(que, Msg("REFUSE", m.pid, 0, 0, NoBlk))
  BY DEF HandleConnect, Accepts, new_pl, send_msg, que_msg, EnterSnd, queVars, plVars,
         clientVars, shmVars
<1>2. /\ m.cmd = "CONNECT" /\ m.pid \in Client /\ pl \in Seq(Client) /\ rpc \in {"scan", "wait"}
  BY <1>1, TakeShape, QueueTypes DEF Takeable
<1>3. m.pid \notin Range(pl) /\ bl[m.pid] = {}
  <2>1. m.pid \notin Range(pl)
    BY <1>1, <1>2, TakeOrder DEF BooksInv
  <2>. QED BY <1>2, <2>1 DEF BooksInv, Lists
<1>4. bl \in [Client -> SUBSET Addr] /\ cnt \in [Client -> Nat] /\ bl' = bl
  <2>1. bl \in [Client -> SUBSET Addr] /\ cnt \in [Client -> Nat]
    BY DEF RouterInv, TypeOK
  <2>2. [bl EXCEPT ![m.pid] = {}] = bl
    BY <1>2, <1>3, <2>1
  <2>. QED BY <1>1, <2>1, <2>2
<1>5. ~ Routing /\ ~ Routing'
  BY <1>1, <1>2 DEF Routing
<1>6. Tokens'
  <2>1. \A cmd \in {"CONNECT", "REFUSE"} :
          LET x == Msg(cmd, m.pid, 0, 0, NoBlk) IN x \in Message /\ x.cmd # "BUFFER"
    BY <1>2, MsgType DEF Msg, NoBlk
  <2>2. \/ que' = que
        \/ \E x \in Message : que' = Append(que, x) /\ x.cmd # "BUFFER"
    BY <1>1, <2>1
  <2>3. \A p \in Client : bl[p] \ BufOf(m, "RELEASE", p) \subseteq bl'[p]
    BY <1>4
  <2>. QED BY <1>1, <2>2, <2>3, HandlerTokens DEF BooksInv
<1>7. CASE pl' = pl /\ cnt' = cnt
  BY <1>1, <1>4, <1>5, <1>7, BooksSame, <1>6 DEF BooksInv
<1>8. CASE pl' = Append(pl, m.pid) /\ cnt' = [cnt EXCEPT ![m.pid] = 0]
  <2>1. /\ Len(pl) \in Nat /\ DOMAIN pl = 1 .. Len(pl) /\ DOMAIN pl' = 1 .. Len(pl) + 1
        /\ \A i \in 1 .. Len(pl) : pl'[i] = pl[i] /\ pl[i] \in Range(pl)
        /\ pl'[Len(pl) + 1] = m.pid /\ Range(pl') = Range(pl) \cup {m.pid}
    <3>1. \A i \in 1 .. Len(pl) : pl[i] \in Range(pl)
      BY <1>2 DEF Range
    <3>. QED BY <1>2, <1>8, <3>1, AppendAt
  <2>2. \A c : Holders(c)' = Holders(c)
    BY <1>3, <1>4, <2>1 DEF Holders
  <2>3. Held' = Held
    <3>1. ASSUME NEW h PROVE h \in Held' <=> h \in Held
      BY <1>3, <1>4, <2>1 DEF Held
    <3>. QED BY <3>1
  <2>4. \A c \in Addr : RoutingRef(c) = 0 /\ RoutingRef(c)' = 0
    BY <1>5 DEF RoutingRef
  <2>5. RefCount'
    <3>1. \A c \in Addr : count[c] = Cardinality(Holders(c)) + RoutingRef(c)
      BY DEF BooksInv, Books, RefCount, Holders
    <3>2. \A c \in Addr : count'[c] = Cardinality(Holders(c)') + RoutingRef(c)'
      BY <1>1, <2>2, <2>4, <3>1
    <3>. QED BY <3>2 DEF RefCount, Holders
  <2>6. Ledger'
    <3>1. cnt'[m.pid] = 0 /\ Cardinality(bl'[m.pid]) = 0
      BY <1>2, <1>3, <1>4, <1>8, FS_EmptySet
    <3>2. \A p \in Range(pl) : cnt'[p] = cnt[p]
      BY <1>2, <1>3, <1>4, <1>8, RangeOfSeq
    <3>. QED BY <1>1, <1>4, <1>5, <2>1, <2>3, <3>1, <3>2 DEF BooksInv, Books, Ledger
  <2>7. Lists'
    <3>1. \A i, j \in 1 .. Len(pl) + 1 : pl'[i] = pl'[j] => i = j
      <4>1. \A i, j \in 1 .. Len(pl) : pl[i] = pl[j] => i = j
        BY <2>1 DEF BooksInv, Lists
      <4>2. \A i \in 1 .. Len(pl) + 1 : i \in 1 .. Len(pl) \/ i = Len(pl) + 1
        BY <2>1
      <4>. QED BY <1>3, <2>1, <4>1, <4>2
    <3>. QED BY <1>4, <1>5, <2>1, <3>1 DEF BooksInv, Lists
  <2>8. ToDo'
    BY <1>1, <1>5, <2>1 DEF BooksInv, ToDo
  <2>9. NeverComeHere'
    BY <1>1 DEF BooksInv, Books, NeverComeHere
  <2>. QED BY <1>6, <2>5, <2>6, <2>7, <2>8, <2>9 DEF Books
<1>. QED BY <1>1, <1>7, <1>8

\* RTR_GETBUF: the buffer get_shm cuts from a free extent is in no list.
LEMMA GetBufBooks ==
    ASSUME RouterInv, BooksInv, HandleGetBuf PROVE Tokens' /\ Lists' /\ ToDo' /\ Books'
<1>1. PICK m \in Takeable("GETBUF") :
        LET p    == m.pid
            size == RoundUp(m.size)
        IN
        /\ Take(m)
        /\ IF ~ Connected(p)
             THEN rpc' = "top" /\ UNCHANGED <<shmVars, ret, queVars, plVars>>
             ELSE IF p \notin Writers \/ size > ShmSize
             THEN /\ send_msg(Msg("REFUSE", p, 0, 0, NoBlk), msg_count, "top")
                  /\ UNCHANGED <<shmVars, plVars>>
             ELSE /\ get_buf(p, size)
                  /\ send_msg(Msg("BUFFER", p, FirstFit(size).buf, size, NoBlk), msg_count', "top")
        /\ UNCHANGED <<cur, todo, errs, out, qnum, clientVars, owed>>
  BY DEF HandleGetBuf
<1>2. /\ m.cmd = "GETBUF" /\ m \in Message /\ m.pid \in Client /\ rpc \in {"scan", "wait"}
      /\ m.size \in Nat \ {0}
  <2>1. /\ m.cmd = "GETBUF" /\ m \in Message /\ m.pid \in Client /\ rpc \in {"scan", "wait"}
        /\ m \in Range(inq) \cup Range(mb)
    BY <1>1, TakeShape DEF Takeable
  <2>. QED BY <2>1 DEF RouterInv, AskedSize, Message
<1>3. ~ Routing /\ ~ Routing'
  BY <1>1, <1>2 DEF Routing, send_msg, EnterSnd
<1>4. UNCHANGED <<cur, todo, errs, out, cst, hand>>
  BY <1>1 DEF clientVars
<1>5. CASE UNCHANGED <<shmVars, plVars>>
  <2>1. UNCHANGED <<count, pl, bl, cnt, msg_count>>
    BY <1>5 DEF shmVars, plVars
  <2>2. \/ que' = que
        \/ \E x \in Message : que' = Append(que, x) /\ x.cmd # "BUFFER"
    <3>1. LET x == Msg("REFUSE", m.pid, 0, 0, NoBlk) IN x \in Message /\ x.cmd # "BUFFER"
      BY <1>2, MsgType DEF Msg, NoBlk
    <3>2. CASE get_buf(m.pid, RoundUp(m.size))
      <4>1. msg_count' = msg_count + 1 /\ msg_count \in Int
        BY <3>2 DEF get_buf, RouterInv, TypeOK
      <4>. QED BY <2>1, <4>1
    <3>. QED BY <1>1, <3>1, <3>2 DEF send_msg, que_msg, queVars
  <2>3. Tokens'
    BY <1>1, <1>4, <2>1, <2>2, HandlerTokens DEF BooksInv
  <2>. QED BY <1>3, <1>4, <2>1, <2>3, BooksSame DEF BooksInv
<1>6. CASE ~ UNCHANGED <<shmVars, plVars>>
  <2>0. PICK q, size : q = m.pid /\ size = RoundUp(m.size)
    OBVIOUS
  <2>1. /\ q \in Range(pl) /\ q \in Writers /\ q \in Client /\ size \in Nat \ {0}
        /\ get_shm(size)
        /\ bl' = [bl EXCEPT ![q] = @ \cup {FirstFit(size).buf}]
        /\ cnt' = [cnt EXCEPT ![q] = @ + 1]
        /\ msg_count' = msg_count + 1 /\ pl' = pl
        /\ que' = Append(que, Msg("BUFFER", q, FirstFit(size).buf, size, NoBlk))
    BY <1>1, <1>2, <1>6, <2>0, RoundUpType DEF Connected, get_buf, send_msg, que_msg, plVars
  <2>2. PICK b : b = FirstFit(size).buf
    OBVIOUS
  <2>3. /\ FirstFit(size) \in free /\ b \in Nat /\ b \in Addr
    <3>1. FirstFit(size) \in free
      BY <2>1, FirstFitFits DEF RouterInv, ShmInv, Fits, get_shm
    <3>2. /\ FirstFit(size) \in Extent /\ FirstFit(size).size > 0
          /\ FirstFit(size).buf + FirstFit(size).size <= ShmSize
      BY <3>1 DEF RouterInv, ShmInv, ShmTypeOK, End
    <3>. HIDE DEF FirstFit
    <3>. QED BY <2>2, <3>1, <3>2, ShmSizeAssumption DEF Extent, Addr
  <2>4. b \notin Bufs(used)
    <3>. SUFFICES ASSUME NEW u \in used, u.buf = b PROVE FALSE
      BY DEF Bufs
    <3>1. u = FirstFit(size)
      BY <2>2, <2>3, SameBuf DEF RouterInv
    <3>. QED BY <2>3, <3>1 DEF RouterInv, ShmInv, Disjoint
  <2>5. count \in [Addr -> Nat] /\ count[b] = 0
    BY <2>3, <2>4 DEF RouterInv, ShmInv, ShmTypeOK, Counted
  <2>6. count' = [count EXCEPT ![b] = 1]
    <3>1. count' = [count EXCEPT ![b] = (IF FirstFit(size).size = size THEN count[b] ELSE 0) + 1]
      BY <2>1, <2>2 DEF get_shm
    <3>. QED BY <2>5, <3>1
  <2>7. \A c \in Addr : count[c] = Cardinality(Holders(c)) /\ RoutingRef(c)' = 0
    <3>1. \A c \in Addr : RoutingRef(c) = 0 /\ RoutingRef(c)' = 0
      BY <1>3 DEF RoutingRef
    <3>2. \A c \in Addr : Cardinality(Holders(c)) \in Nat
      BY CountedSets
    <3>. QED BY <3>1, <3>2 DEF BooksInv, Books, RefCount, Holders
  <2>8. \A p \in Client : b \notin bl[p]
    <3>1. Holders(b) = {}
      BY <2>3, <2>5, <2>7, CountedSets, FS_EmptySet
    <3>. QED BY <3>1 DEF Holders, BooksInv, Lists
  <2>9. /\ Cardinality(Holders(b)') = Cardinality(Holders(b)) + 1
        /\ \A c : c # b => Holders(c)' = Holders(c)
        /\ Cardinality(Held') = Cardinality(Held) + 1
        /\ Cardinality(bl'[q]) = Cardinality(bl[q]) + 1
        /\ \A p \in Client : bl'[p] = IF p = q THEN bl[q] \cup {b} ELSE bl[p]
    BY <2>1, <2>2, <2>3, <2>8, AddHolder
  <2>10. RefCount'
    <3>. SUFFICES ASSUME NEW c \in Addr
                  PROVE  count'[c] = Cardinality(Holders(c)') + RoutingRef(c)'
      BY DEF RefCount, Holders
    <3>1. CASE c = b
      BY <2>3, <2>5, <2>6, <2>7, <2>9, <3>1
    <3>2. CASE c # b
      BY <2>3, <2>5, <2>6, <2>7, <2>9, <3>2
    <3>. QED BY <3>1, <3>2
  <2>11. Ledger'
    <3>1. /\ \A p \in Range(pl) : cnt[p] = Cardinality(bl[p])
          /\ msg_count = Cardinality(Held) /\ Cardinality(Held) \in Nat
          /\ cnt \in [Client -> Nat] /\ Range(pl) \subseteq Client
      BY <1>3, CountedSets DEF BooksInv, Books, Ledger, RouterInv, TypeOK
    <3>2. ASSUME NEW p \in Range(pl) PROVE cnt'[p] = Cardinality(bl'[p])
      BY <2>1, <2>9, <3>1
    <3>3. msg_count' = Cardinality(Held') + 0
      BY <2>1, <2>9, <3>1
    <3>. QED BY <1>3, <2>1, <3>2, <3>3 DEF Ledger
  <2>12. Lists'
    <3>1. Writers \subseteq Client
      BY DEF Client
    <3>2. \A w \in Writers : \A p \in Client \ {w} : bl'[w] \cap bl'[p] = {}
      BY <2>8, <2>9, <3>1 DEF BooksInv, Lists
    <3>. QED BY <1>3, <2>1, <2>9, <3>2 DEF BooksInv, Lists
  <2>13. ToDo'
    BY <1>3, <1>4, <2>1 DEF BooksInv, ToDo
  <2>14. NeverComeHere'
    BY <1>4 DEF BooksInv, Books, NeverComeHere
  <2>15. Tokens'
    <3>1. PICK x : x = Msg("BUFFER", q, b, size, NoBlk)
      OBVIOUS
    <3>2. x \in Message /\ x.cmd = "BUFFER" /\ x.pid = q /\ x.buf = b
      BY <2>1, <2>3, <3>1, MsgType DEF Msg, NoBlk
    <3>3. /\ que' = Append(que, x) /\ bl' = [bl EXCEPT ![x.pid] = @ \cup {x.buf}]
          /\ x.buf \notin bl[x.pid]
      BY <2>1, <2>2, <2>8, <3>1, <3>2
    <3>4. /\ Once(inq, "RELEASE")' /\ Once(mb, "RELEASE")'
          /\ \A p \in Client : Returned(p)' \subseteq Returned(p) /\ PutOff(p)' \subseteq PutOff(p)
      BY <1>1, TakeBufs DEF BooksInv
    <3>. QED BY <1>4, <2>1, <3>2, <3>3, <3>4, GrantTokens DEF BooksInv
  <2>. QED BY <2>10, <2>11, <2>12, <2>13, <2>14, <2>15 DEF Books
<1>. QED BY <1>5, <1>6

\* RTR_RELEASE: the buffer a process releases is in its list.
LEMMA ReleaseHandlerBooks ==
    ASSUME RouterInv, BooksInv, HandleRelease PROVE Tokens' /\ Lists' /\ ToDo' /\ Books'
<1>1. PICK m \in Takeable("RELEASE") :
        /\ Take(m)
        /\ \/ /\ m.pid \in Writers /\ ~ check_max_buf
              /\ DropFromBl(m.pid, m.buf)
              /\ errs' = errs \cup BlErr(m.pid, m.buf)
              /\ rpc' = "route" /\ cur' = m /\ todo' = pl
              /\ UNCHANGED <<count, msg_count>>
           \/ /\ release_buf(m.pid, m.buf)
              /\ rpc' = "top"
              /\ UNCHANGED <<cur, todo>>
        /\ UNCHANGED <<pl, que, out, cst, hand>>
  BY DEF HandleRelease, Routes, queVars, clientVars, shmVars
<1>2. m.cmd = "RELEASE" /\ m \in Message /\ m.pid \in Client /\ rpc \in {"scan", "wait"}
  BY <1>1, TakeShape DEF Takeable
<1>3. m.buf \in bl[m.pid] /\ m.pid \in Range(pl)
  <2>1. BufOf(m, "RELEASE", m.pid) \subseteq Returned(m.pid) \cup PutOff(m.pid)
    BY <1>1, <1>2, TakeBufs DEF BooksInv
  <2>2. m.buf \in bl[m.pid]
    BY <1>2, <2>1 DEF BufOf, BooksInv, Tokens, Listed
  <2>. QED BY <1>2, <2>2 DEF BooksInv, Lists
<1>4. ~ Routing
  BY <1>2, NotRouting
<1>5. /\ Lists' /\ ToDo' /\ Books'
      /\ bl' = [bl EXCEPT ![m.pid] = @ \ {m.buf}]
  <2>1. CASE rpc' = "route"
    <3>1. /\ m.pid \in Writers /\ ~ check_max_buf
          /\ DropFromBl(m.pid, m.buf)
          /\ errs' = errs \cup BlErr(m.pid, m.buf)
          /\ rpc' = "route" /\ cur' = m /\ todo' = pl
          /\ UNCHANGED <<pl, count, msg_count>>
      BY <1>1, <2>1
    <3>2. bl' = [bl EXCEPT ![m.pid] = @ \ {m.buf}]
      BY <1>3, <3>1 DEF DropFromBl, InBl, Connected
    <3>. QED BY <1>2, <1>3, <1>4, <3>1, <3>2, RouteBooks DEF BooksInv
  <2>2. CASE rpc' # "route"
    <3>1. release_buf(m.pid, m.buf) /\ rpc' = "top" /\ UNCHANGED <<pl, todo>>
      BY <1>1, <2>2
    <3>2. ~ Routing'
      BY <3>1 DEF Routing
    <3>. QED BY <1>3, <1>4, <3>1, <3>2, ReleaseBooks DEF BooksInv
  <2>. QED BY <2>1, <2>2
<1>6. \A p \in Client : bl[p] \ BufOf(m, "RELEASE", p) \subseteq bl'[p]
  <2>1. bl \in [Client -> SUBSET Addr]
    BY DEF RouterInv, TypeOK
  <2>. QED BY <1>2, <1>5, <2>1 DEF BufOf
<1>7. Tokens'
  BY <1>1, <1>6, HandlerTokens DEF BooksInv
<1>. QED BY <1>5, <1>7

\* send_buf passes over a process.
LEMMA RouteSkipBooks ==
    ASSUME RouterInv, BooksInv, RouteSkip PROVE BooksInv'
<1>1. /\ rpc = "route" /\ todo # << >> /\ todo' = Tail(todo)
      /\ UNCHANGED <<rpc, ret, cur, mb, errs, que, pl, bl, cnt, msg_count, inq, out, cst, hand, count>>
  BY DEF RouteSkip, queVars, plVars, clientVars, shmVars
<1>2. Protocol'
  BY <1>1, ProtocolSame DEF BooksInv
<1>3. Tokens'
  BY <1>1, TokensSame DEF BooksInv
<1>4. Routing /\ Routing'
  BY <1>1 DEF Routing
<1>5. /\ Len(todo) \in Nat \ {0} /\ DOMAIN todo = 1 .. Len(todo) /\ DOMAIN todo' = 1 .. Len(todo) - 1
      /\ \A i \in 1 .. Len(todo) - 1 : todo'[i] = todo[i + 1]
      /\ Range(todo') \subseteq Range(todo)
  BY <1>1, TailAt DEF RouterInv, TypeOK
<1>6. ToDo'
  <2>1. \A i, j \in 1 .. Len(todo) - 1 : todo'[i] = todo'[j] => i = j
    <3>1. \A i \in 1 .. Len(todo) - 1 : i + 1 \in DOMAIN todo
      BY <1>5
    <3>2. \A i, j \in 1 .. Len(todo) - 1 : todo'[i] = todo'[j] => i + 1 = j + 1
      BY <1>5, <3>1 DEF BooksInv, ToDo
    <3>. QED BY <1>5, <3>2
  <2>. QED BY <1>1, <1>4, <1>5, <2>1 DEF BooksInv, ToDo
<1>7. Lists' /\ Books'
  <2>1. Lists'
    BY <1>1, <1>4 DEF BooksInv, Lists
  <2>2. \A b \in Addr : RoutingRef(b)' = RoutingRef(b)
    BY <1>1, <1>4 DEF RoutingRef
  <2>3. Held' = Held
    BY <1>1 DEF Held
  <2>. QED BY <1>1, <1>4, <2>1, <2>2, <2>3 DEF BooksInv, Books, RefCount, Ledger, NeverComeHere
<1>. QED BY <1>2, <1>3, <1>6, <1>7 DEF BooksInv

\* send_buf sends to a reader that does not have the buffer.
LEMMA RouteSendBooks ==
    ASSUME RouterInv, BooksInv, RouteSend PROVE BooksInv'
<1>0. PICK r, b : r = Head(todo) /\ b = cur.buf
  OBVIOUS
<1>1. /\ rpc = "route" /\ todo # << >> /\ ~ PassOver(r)
      /\ UNCHANGED <<pl, mb, inq, out, cst, hand>>
  BY <1>0 DEF RouteSend, clientVars
<1>2. /\ Len(todo) \in Nat \ {0} /\ DOMAIN todo = 1 .. Len(todo)
      /\ DOMAIN Tail(todo) = 1 .. Len(todo) - 1
      /\ \A i \in 1 .. Len(todo) - 1 : Tail(todo)[i] = todo[i + 1]
      /\ r = todo[1] /\ r \in Client /\ Range(todo) = Range(Tail(todo)) \cup {r}
  BY <1>0, <1>1, TailAt DEF RouterInv, TypeOK
<1>3. Routing
  BY <1>1 DEF Routing
<1>4. r \in Range(pl) /\ r \notin Writers /\ b \notin bl[r] /\ (r \in Readers => cnt[r] < MAXSENDBUF)
  <2>1. r \in Range(todo)
    BY <1>2
  <2>. QED BY <1>0, <1>1, <1>3, <2>1 DEF BooksInv, ToDo, PassOver
<1>5. cnt \in [Client -> Nat] /\ count \in [Addr -> Nat] /\ msg_count \in Int /\ b \in Addr
      /\ b \in Bufs(used) /\ Range(pl) \subseteq Client /\ cur \in Message
  <2>1. b \in Bufs(used)
    BY <1>0, <1>3 DEF RouterInv, RoutedInUse
  <2>2. b \in Addr
    BY <2>1, ShmSizeAssumption DEF Bufs, Addr, RouterInv, ShmInv, ShmTypeOK, Extent, End
  <2>. QED BY <2>1, <2>2, CountedSets DEF RouterInv, TypeOK, ShmInv, ShmTypeOK
<1>6. ~ (r \in Readers /\ cnt[r] >= MAXSENDBUF)
  BY <1>2, <1>4, <1>5, LimitAssumption
<1>7. /\ que' = Append(que, Msg("BUFFER", r, b, SendSize(b, cur.size), cur.blk))
      /\ rpc' \in {"route", "snd"} /\ ret' = "route"
      /\ bl' = [bl EXCEPT ![r] = @ \cup {b}]
      /\ cnt' = [cnt EXCEPT ![r] = @ + 1]
      /\ errs' = errs \cup IF b \in bl[r] THEN {"twice in pl->bl"} ELSE {}
      /\ count' = [count EXCEPT ![b] = @ + 1]
      /\ msg_count' = msg_count + 1
      /\ todo' = Tail(todo) /\ cur' = cur
  BY <1>0, <1>6 DEF RouteSend, send_msg, que_msg, EnterSnd, shm_ref
<1>8. Routing' /\ errs' = errs
  BY <1>4, <1>7 DEF Routing
<1>9. /\ Cardinality(Holders(b)') = Cardinality(Holders(b)) + 1
      /\ \A c : c # b => Holders(c)' = Holders(c)
      /\ Cardinality(Held') = Cardinality(Held) + 1
      /\ Cardinality(bl'[r]) = Cardinality(bl[r]) + 1
      /\ \A p \in Client : bl'[p] = IF p = r THEN bl[r] \cup {b} ELSE bl[p]
  BY <1>1, <1>4, <1>5, <1>7, AddHolder
<1>10. RefCount'
  <2>. SUFFICES ASSUME NEW c \in Addr
                PROVE  count'[c] = Cardinality(Holders(c)') + RoutingRef(c)'
    BY DEF RefCount, Holders
  <2>1. RoutingRef(c)' = RoutingRef(c) /\ RoutingRef(c) \in Nat
    BY <1>3, <1>7, <1>8 DEF RoutingRef
  <2>2. count[c] = Cardinality(Holders(c)) + RoutingRef(c) /\ Cardinality(Holders(c)) \in Nat
    BY CountedSets DEF BooksInv, Books, RefCount, Holders
  <2>3. CASE c = b
    <3>1. count'[c] = count[c] + 1
      BY <1>5, <1>7, <2>3
    <3>2. Cardinality(Holders(c)') = Cardinality(Holders(c)) + 1
      BY <1>9, <2>3
    <3>. QED BY <2>1, <2>2, <3>1, <3>2
  <2>4. CASE c # b
    BY <1>5, <1>7, <1>9, <2>1, <2>2, <2>4
  <2>. QED BY <2>3, <2>4
<1>11. Ledger'
  <2>1. /\ \A p \in Range(pl) : cnt[p] = Cardinality(bl[p])
        /\ msg_count = Cardinality(Held) + 1 /\ Cardinality(Held) \in Nat
    BY <1>3, CountedSets DEF BooksInv, Books, Ledger
  <2>2. ASSUME NEW p \in Range(pl) PROVE cnt'[p] = Cardinality(bl'[p])
    BY <1>5, <1>7, <1>9, <2>1
  <2>3. msg_count' = Cardinality(Held') + 1
    BY <1>7, <1>9, <2>1
  <2>. QED BY <1>1, <1>8, <2>2, <2>3 DEF Ledger
<1>12. Lists'
  <2>1. Writers \subseteq Client
    BY DEF Client
  <2>2. \A w \in Writers : bl'[w] = bl[w] /\ b \notin bl[w]
    BY <1>0, <1>3, <1>4, <1>9, <2>1 DEF BooksInv, Lists
  <2>3. \A w \in Writers : \A p \in Client \ {w} : bl'[w] \cap bl'[p] = {}
    BY <1>9, <2>2 DEF BooksInv, Lists
  <2>. QED BY <1>0, <1>1, <1>4, <1>7, <1>9, <2>2, <2>3 DEF BooksInv, Lists
<1>13. ToDo'
  <2>1. \A i \in 1 .. Len(todo) - 1 : i + 1 \in DOMAIN todo /\ 1 \in DOMAIN todo /\ i + 1 # 1
    BY <1>2
  <2>2. \A i, j \in 1 .. Len(todo) - 1 : todo'[i] = todo'[j] => i = j
    <3>1. \A i, j \in 1 .. Len(todo) - 1 : todo'[i] = todo'[j] => i + 1 = j + 1
      BY <1>2, <1>7, <2>1 DEF BooksInv, ToDo
    <3>. QED BY <1>2, <3>1
  <2>3. \A i \in 1 .. Len(todo) - 1 : todo'[i] # r
    BY <1>2, <1>7, <2>1 DEF BooksInv, ToDo
  <2>4. r \notin Range(todo')
    BY <1>2, <1>7, <2>3 DEF Range
  <2>5. \A x \in Range(todo') : x \in Range(todo) /\ x # r /\ x \in Range(pl) /\ x \in Client
    BY <1>2, <1>5, <1>7, <2>4 DEF BooksInv, ToDo
  <2>6. \A x \in Range(todo') : b \notin bl'[x] /\ cnt'[x] = cnt[x]
    BY <1>0, <1>3, <1>5, <1>7, <1>9, <2>5 DEF BooksInv, ToDo
  <2>. QED BY <1>0, <1>1, <1>2, <1>3, <1>7, <1>8, <2>2, <2>5, <2>6 DEF BooksInv, ToDo
<1>14. NeverComeHere'
  BY <1>8 DEF BooksInv, Books, NeverComeHere
<1>15. Tokens'
  <2>1. PICK x : x = Msg("BUFFER", r, b, SendSize(b, cur.size), cur.blk)
    OBVIOUS
  <2>2. x \in Message /\ x.cmd = "BUFFER" /\ x.pid = r /\ x.buf = b
    <3>1. b \in Nat /\ cur.size \in Nat /\ cur.blk \in Nat
      BY <1>0, <1>5 DEF Message
    <3>2. SendSize(b, cur.size) \in Nat
      BY <1>5, <3>1, SendSizeType DEF RouterInv
    <3>. QED BY <1>2, <2>1, <3>1, <3>2, MsgType DEF Msg
  <2>3. /\ que' = Append(que, x) /\ bl' = [bl EXCEPT ![x.pid] = @ \cup {x.buf}]
        /\ x.buf \notin bl[x.pid] /\ x.pid \in Client
    BY <1>2, <1>4, <1>7, <2>1, <2>2
  <2>4. /\ Once(inq, "RELEASE")' /\ Once(mb, "RELEASE")'
        /\ \A p \in Client : Returned(p)' \subseteq Returned(p) /\ PutOff(p)' \subseteq PutOff(p)
    BY <1>1 DEF BooksInv, Tokens, Single, Returned, PutOff
  <2>. QED BY <1>1, <2>2, <2>3, <2>4, GrantTokens DEF BooksInv
<1>16. Protocol'
  BY RouteSendProtocol DEF BooksInv
<1>. QED BY <1>10, <1>11, <1>12, <1>13, <1>14, <1>15, <1>16 DEF BooksInv, Books

\* The router drops the reference it had while it routed.
LEMMA RouteEndBooks ==
    ASSUME RouterInv, BooksInv, RouteEnd PROVE BooksInv'
<1>0. PICK b : b = cur.buf
  OBVIOUS
<1>1. /\ rpc = "route" /\ todo = << >> /\ DropRef(b) /\ rpc' = "top"
      /\ UNCHANGED <<todo, mb, errs, que, pl, bl, cnt, inq, out, cst, hand>>
  BY <1>0 DEF RouteEnd, queVars, clientVars
<1>2. Routing /\ ~ Routing'
  BY <1>1 DEF Routing
<1>3. Protocol' /\ Tokens'
  BY <1>1, ProtocolSame, TokensSame DEF BooksInv
<1>4. count \in [Addr -> Nat] /\ msg_count \in Int /\ b \in Addr /\ b \in Bufs(used)
  <2>1. b \in Bufs(used)
    BY <1>0, <1>2 DEF RouterInv, RoutedInUse
  <2>2. b \in Addr
    BY <2>1, ShmSizeAssumption DEF Bufs, Addr, RouterInv, ShmInv, ShmTypeOK, Extent, End
  <2>. QED BY <2>1, <2>2 DEF RouterInv, TypeOK, ShmInv, ShmTypeOK
<1>5. /\ count' = [count EXCEPT ![b] = IF @ > 1 THEN @ - 1 ELSE 0]
      /\ msg_count' = msg_count - 1
  BY <1>1, <1>4 DEF DropRef, shm_unref
<1>6. Held' = Held /\ \A c : Holders(c)' = Holders(c)
  BY <1>1 DEF Held, Holders
<1>7. RefCount'
  <2>. SUFFICES ASSUME NEW c \in Addr
                PROVE  count'[c] = Cardinality(Holders(c)') + RoutingRef(c)'
    BY DEF RefCount, Holders
  <2>1. RoutingRef(c)' = 0 /\ RoutingRef(c) = IF c = b THEN 1 ELSE 0
    BY <1>0, <1>2 DEF RoutingRef
  <2>2. count[c] = Cardinality(Holders(c)) + RoutingRef(c) /\ Cardinality(Holders(c)) \in Nat
    BY CountedSets DEF BooksInv, Books, RefCount, Holders
  <2>. QED BY <1>4, <1>5, <1>6, <2>1, <2>2
<1>8. Ledger'
  <2>1. msg_count = Cardinality(Held) + 1 /\ Cardinality(Held) \in Nat
    BY <1>2, CountedSets DEF BooksInv, Books, Ledger
  <2>2. msg_count' = Cardinality(Held') + 0
    BY <1>5, <1>6, <2>1
  <2>. QED BY <1>1, <1>2, <2>2 DEF BooksInv, Books, Ledger
<1>9. Lists' /\ ToDo' /\ NeverComeHere'
  BY <1>1, <1>2 DEF BooksInv, Lists, ToDo, Books, NeverComeHere
<1>. QED BY <1>3, <1>7, <1>8, <1>9 DEF BooksInv, Books

\* The disconnect handler: what is queued for a process that leaves is a buffer of it.
LEMMA PurgeQueBooks ==
    ASSUME RouterInv, BooksInv, PurgeQue PROVE BooksInv'
<1>0. PICK k : k = SelectInSeq(que, ToCur)
  OBVIOUS
<1>1. /\ rpc = "disc" /\ \E j \in DOMAIN que : ToCur(que[j])
      /\ release_buf(cur.pid, que[k].buf) /\ que' = RemoveAt(que, k)
      /\ UNCHANGED <<rpc, ret, cur, todo, mb, pl, inq, out, cst, hand>>
  BY <1>0 DEF PurgeQue, clientVars
<1>2. k \in 1 .. Len(que) /\ ToCur(que[k])
  <2>. DEFINE I == {i \in 1 .. Len(que) : ToCur(que[i])}
  <2>1. Len(que) \in Nat /\ DOMAIN que = 1 .. Len(que)
    BY QueueTypes
  <2>2. I # {} /\ I \in SUBSET Nat
    BY <1>1, <2>1
  <2>3. Min(I) \in I
    BY <2>2, NatMin DEF Min
  <2>. QED BY <1>0, <2>2, <2>3 DEF SelectInSeq
<1>3. que[k] \in Range(que) /\ que[k].pid = cur.pid /\ cur.pid \in Client /\ k \in DOMAIN que
  BY <1>2, QueueTypes DEF ToCur
<1>4. que[k].cmd = "BUFFER"
  <2>1. cst[cur.pid] = "off" /\ cur.pid \notin Stay
    BY <1>1 DEF BooksInv, Protocol, Leaving
  <2>2. que[k].cmd \in {"CONNECT", "REFUSE", "BUFFER"}
    BY <1>3 DEF BooksInv, Protocol, Answered
  <2>3. ~ (que[k].cmd = "CONNECT" \/ (que[k].cmd = "REFUSE" /\ que[k].pid \notin Stay))
    BY <1>3, <2>1 DEF BooksInv, Protocol, AnswerFirst
  <2>. QED BY <1>3, <2>1, <2>2, <2>3
<1>5. que[k].buf \in bl[cur.pid] /\ cur.pid \in Range(pl)
  <2>1. que[k].buf \in Granted(cur.pid)
    BY <1>3, <1>4, InBufs DEF Granted
  <2>2. que[k].buf \in bl[cur.pid]
    BY <1>3, <2>1 DEF BooksInv, Tokens, Listed
  <2>. QED BY <1>3, <2>2 DEF BooksInv, Lists
<1>6. ~ Routing /\ ~ Routing'
  BY <1>1 DEF Routing
<1>7. /\ Lists' /\ ToDo' /\ Books'
      /\ bl' = [bl EXCEPT ![cur.pid] = @ \ {que[k].buf}]
  BY <1>1, <1>5, <1>6, ReleaseBooks DEF BooksInv
<1>8. \A p \in Client : bl'[p] = bl[p] \ BufOf(que[k], "BUFFER", p)
  <2>1. bl \in [Client -> SUBSET Addr]
    BY DEF RouterInv, TypeOK
  <2>. QED BY <1>3, <1>4, <1>7, <2>1 DEF BufOf
<1>9. Tokens'
  BY <1>1, <1>2, <1>8, PurgeQueTokens DEF BooksInv
<1>10. Protocol'
  BY PurgeQueProtocol DEF BooksInv
<1>. QED BY <1>7, <1>9, <1>10 DEF BooksInv

\* DISCONNECT takes a message to the process from the kernel queue, and drops its reference.
LEMMA DrainOutBooks ==
    ASSUME RouterInv, BooksInv, DrainOut PROVE BooksInv'
<1>0. PICK q, m : q = cur.pid /\ m = Head(out[cur.pid])
  OBVIOUS
<1>1. /\ rpc = "disc" /\ out[q] # << >> /\ out' = [out EXCEPT ![q] = Tail(@)]
      /\ IF m.cmd = "BUFFER" THEN release_buf(q, m.buf)
           ELSE UNCHANGED <<count, bl, cnt, msg_count, errs>>
      /\ UNCHANGED <<rpc, ret, cur, todo, mb, que, pl, inq, cst, hand>>
  BY <1>0 DEF DrainOut, queVars, clientVars, shmVars
<1>2. q \in Client /\ m = Head(out[q]) /\ m \in Range(out[q])
  <2>1. q \in Client /\ out[q] \in Seq(Message)
    BY <1>0, QueueTypes
  <2>. QED BY <1>0, <1>1, <2>1, TailRange
<1>3. m.pid = q
  BY <1>2 DEF BooksInv, Protocol, Answered
<1>4. ~ Routing /\ ~ Routing'
  BY <1>1 DEF Routing
<1>5. bl \in [Client -> SUBSET Addr]
  BY DEF RouterInv, TypeOK
<1>6. /\ Lists' /\ ToDo' /\ Books'
      /\ \A p \in Client : bl'[p] = bl[p] \ BufOf(m, "BUFFER", p)
  <2>1. CASE m.cmd = "BUFFER"
    <3>1. m.buf \in Sent(q)
      BY <1>2, <1>3, <2>1 DEF Sent, BufsIn
    <3>2. m.buf \in bl[q] /\ q \in Range(pl)
      BY <1>2, <3>1 DEF BooksInv, Tokens, Listed, Lists
    <3>3. /\ Lists' /\ ToDo' /\ Books'
          /\ bl' = [bl EXCEPT ![q] = @ \ {m.buf}]
      BY <1>1, <1>4, <2>1, <3>2, ReleaseBooks DEF BooksInv
    <3>. QED BY <1>2, <1>3, <1>5, <2>1, <3>3 DEF BufOf
  <2>2. CASE m.cmd # "BUFFER"
    <3>1. UNCHANGED <<count, bl, cnt, msg_count, errs, pl, todo>>
      BY <1>1, <2>2
    <3>2. Lists' /\ ToDo' /\ Books'
      BY <1>4, <3>1, BooksSame DEF BooksInv
    <3>. QED BY <2>2, <3>1, <3>2 DEF BufOf
  <2>. QED BY <2>1, <2>2
<1>7. Tokens'
  BY <1>1, <1>2, <1>3, <1>6, ReceiveTokens DEF BooksInv
<1>8. Protocol'
  BY DrainOutProtocol DEF BooksInv
<1>. QED BY <1>6, <1>7, <1>8 DEF BooksInv

\* pl_release_buf_all: no message names a buffer of the process any more.
LEMMA ReleaseAllBooks ==
    ASSUME RouterInv, BooksInv, ReleaseAll PROVE BooksInv'
<1>0. PICK q : q = cur.pid
  OBVIOUS
<1>1. /\ rpc = "disc" /\ out[q] = << >> /\ q \in Range(pl)
      /\ \A i \in DOMAIN que : que[i].pid # q
      /\ UNCHANGED <<rpc, ret, cur, todo, mb, que, pl, inq, out, cst, hand>>
  BY <1>0 DEF ReleaseAll, ToCur, Connected, queVars, clientVars
<1>2. PICK b \in bl[q] : release_buf(q, b)
  BY <1>0 DEF ReleaseAll
<1>3. ~ Routing /\ ~ Routing'
  BY <1>1 DEF Routing
<1>4. /\ Lists' /\ ToDo' /\ Books' /\ bl' = [bl EXCEPT ![q] = @ \ {b}]
  BY <1>1, <1>2, <1>3, ReleaseBooks DEF BooksInv
<1>5. Granted(q) = {} /\ Sent(q) = {} /\ Working(q) = {} /\ Returned(q) = {} /\ PutOff(q) = {}
  <2>1. cst[q] = "off" /\ q \notin Stay /\ \A m \in Range(inq) : m.pid # q
    BY <1>0, <1>1 DEF BooksInv, Protocol, Leaving
  <2>2. \A m \in Range(mb) : m.cmd = "RELEASE" => m.pid # q
    BY <2>1 DEF BooksInv, Protocol, Asked
  <2>3. Granted(q) = {}
    BY <1>1 DEF Granted, BufsIn, Range
  <2>4. Sent(q) = {}
    BY <1>1 DEF Sent, BufsIn, Range
  <2>5. Working(q) = {}
    BY <2>1 DEF Working
  <2>6. Returned(q) = {} /\ PutOff(q) = {}
    BY <2>1, <2>2 DEF Returned, PutOff, BufsIn
  <2>. QED BY <2>3, <2>4, <2>5, <2>6
<1>6. q \in Client /\ \A p \in Client : p # q => bl'[p] = bl[p]
  BY <1>0, <1>4, QueueTypes DEF RouterInv, TypeOK
<1>7. Tokens'
  BY <1>1, <1>5, <1>6, ReleaseAllTokens DEF BooksInv
<1>8. Protocol'
  BY <1>1, ProtocolSame DEF BooksInv
<1>. QED BY <1>4, <1>7, <1>8 DEF BooksInv

\* remove_pl: the process that leaves the list has no buffer.
LEMMA RemovePlBooks ==
    ASSUME RouterInv, BooksInv, RemovePl PROVE BooksInv'
<1>0. PICK q : q = cur.pid
  OBVIOUS
<1>1. /\ rpc = "disc" /\ rpc' = "top" /\ pl' = RemoveFirst(pl, q)
      /\ q \notin Range(pl) \/ bl[q] = {}
      /\ UNCHANGED <<count, todo, mb, errs, que, bl, cnt, msg_count, inq, out, cst, hand>>
  BY <1>0 DEF RemovePl, Connected, queVars, clientVars, shmVars
<1>2. /\ Range(pl') = Range(pl) \ {q}
      /\ \A i, j \in DOMAIN pl' : pl'[i] = pl'[j] => i = j
  <2>1. pl \in Seq(Client) /\ \A i, j \in DOMAIN pl : pl[i] = pl[j] => i = j
    BY QueueTypes DEF BooksInv, Lists
  <2>2. /\ Range(RemoveFirst(pl, q)) = Range(pl) \ {q}
        /\ \A i, j \in DOMAIN RemoveFirst(pl, q) :
             RemoveFirst(pl, q)[i] = RemoveFirst(pl, q)[j] => i = j
    BY <2>1, RemoveFirstAt
  <2>. QED BY <1>1, <2>2
<1>3. q \in Client /\ bl[q] = {}
  BY <1>0, <1>1, QueueTypes DEF BooksInv, Lists
<1>4. ~ Routing /\ ~ Routing'
  BY <1>1 DEF Routing
<1>5. \A c : Holders(c)' = Holders(c)
  BY <1>1, <1>2, <1>3 DEF Holders
<1>6. Held' = Held
  <2>1. ASSUME NEW h PROVE h \in Held' <=> h \in Held
    BY <1>1, <1>2, <1>3 DEF Held
  <2>. QED BY <2>1
<1>7. RefCount'
  <2>1. \A c \in Addr : RoutingRef(c)' = RoutingRef(c)
    BY <1>4 DEF RoutingRef
  <2>2. \A c \in Addr : count[c] = Cardinality(Holders(c)) + RoutingRef(c)
    BY DEF BooksInv, Books, RefCount, Holders
  <2>3. \A c \in Addr : count'[c] = Cardinality(Holders(c)') + RoutingRef(c)'
    BY <1>1, <1>5, <2>1, <2>2
  <2>. QED BY <2>3 DEF RefCount, Holders
<1>8. Ledger'
  BY <1>1, <1>2, <1>4, <1>6 DEF BooksInv, Books, Ledger
<1>9. Lists'
  <2>1. \A p \in Client \ Range(pl') : bl'[p] = {}
    BY <1>1, <1>2, <1>3 DEF BooksInv, Lists
  <2>. QED BY <1>1, <1>2, <1>4, <2>1 DEF BooksInv, Lists
<1>10. ToDo'
  <2>1. todo = << >> /\ Range(todo) = {}
    BY <1>4 DEF BooksInv, ToDo, Range
  <2>. QED BY <1>1, <1>4, <2>1 DEF ToDo
<1>11. NeverComeHere'
  BY <1>1 DEF BooksInv, Books, NeverComeHere
<1>12. Tokens'
  BY <1>1, TokensSame DEF BooksInv
<1>13. Protocol'
  BY RemovePlProtocol DEF BooksInv
<1>. QED BY <1>7, <1>8, <1>9, <1>10, <1>11, <1>12, <1>13 DEF BooksInv, Books

\* The rest of do_listen: nothing in the books changes.
LEMMA ListenBooks ==
    ASSUME OrderlyLeaving, RouterInv, BooksInv,
           BeginListen \/ SndOne \/ SndFull \/ EndScan \/ Defer \/ BeginDisconnect
    PROVE  BooksInv'
<1>1. UNCHANGED <<count, bl, cnt, msg_count, errs, pl, todo, cst, hand>>
  BY DEF BeginListen, SndOne, SndFull, EndScan, Defer, BeginDisconnect, plVars, shmVars, clientVars
<1>2. (Routing' <=> Routing) /\ (Routing => cur' = cur)
  <2>1. CASE BeginListen \/ SndOne \/ SndFull \/ EndScan \/ Defer
    BY <2>1 DEF Routing, BeginListen, SndOne, SndFull, EndScan, Defer, EnterSnd, RouterInv, TypeOK
  <2>2. CASE BeginDisconnect
    <3>1. PICK m : Take(m) /\ rpc' = "disc"
      BY <2>2 DEF BeginDisconnect
    <3>2. rpc \in {"scan", "wait"}
      BY <3>1, TakeShape
    <3>. QED BY <3>1, <3>2 DEF Routing
  <2>. QED BY <2>1, <2>2
<1>3. Lists' /\ ToDo' /\ Books'
  BY <1>1, <1>2, BooksSame DEF BooksInv
<1>4. CASE BeginListen \/ SndFull \/ EndScan
  <2>1. UNCHANGED <<inq, mb, que, out, cur>> /\ rpc' # "disc"
    BY <1>4 DEF BeginListen, SndFull, EndScan, EnterSnd, queVars, RouterInv, TypeOK
  <2>2. Protocol' /\ Tokens'
    BY <1>1, <2>1, ProtocolSame, TokensSame DEF BooksInv
  <2>. QED BY <1>3, <2>2 DEF BooksInv
<1>5. CASE SndOne
  BY <1>3, <1>5, SndOneProtocol, SndOneTokens DEF BooksInv
<1>6. CASE Defer
  BY <1>3, <1>6, DeferProtocol, DeferTokens DEF BooksInv
<1>7. CASE BeginDisconnect
  <2>1. PICK m : Take(m) /\ UNCHANGED <<que, out>>
    BY <1>7 DEF BeginDisconnect, queVars
  <2>2. Tokens'
    BY <1>1, <2>1, HandlerTokens DEF BooksInv
  <2>. QED BY <1>3, <1>7, <2>2, BeginDisconnectProtocol DEF BooksInv
<1>. QED BY <1>4, <1>5, <1>6, <1>7

-----------------------------------------------------------------------------
\* The books are right in the beginning.
LEMMA BooksInit == Init => BooksInv
<1>. SUFFICES ASSUME Init PROVE BooksInv
  OBVIOUS
<1>1. /\ rpc = "top" /\ pl = << >> /\ que = << >> /\ mb = << >> /\ inq = << >> /\ todo = << >>
      /\ \A p \in Client : bl[p] = {} /\ out[p] = << >> /\ cst[p] = "off" /\ cnt[p] = 0
      /\ msg_count = 0 /\ errs = {} /\ \A b \in Addr : count[b] = 0
  BY DEF Init, ShmInit
<1>2. Range(pl) = {} /\ Range(que) = {} /\ Range(mb) = {} /\ Range(inq) = {} /\ Range(todo) = {}
      /\ \A p \in Client : Range(out[p]) = {}
  BY <1>1 DEF Range
<1>3. DOMAIN pl = {} /\ DOMAIN que = {} /\ DOMAIN mb = {} /\ DOMAIN inq = {} /\ DOMAIN todo = {}
      /\ \A p \in Client : DOMAIN out[p] = {}
  BY <1>1
<1>4. ~ Routing
  BY <1>1 DEF Routing
<1>5. Writers \subseteq Client
  BY DEF Client
<1>6. Protocol
  BY <1>1, <1>2, <1>3, <1>5 DEF Protocol, Asked, Answered, AnswerFirst, WriterWaits, Newcomer, Leaver,
                         Leaving, Alive
<1>7. Tokens
  <2>1. Single
    BY <1>3 DEF Single, Once
  <2>2. \A p \in Client : /\ Granted(p) = {} /\ Sent(p) = {} /\ Working(p) = {}
                          /\ Returned(p) = {} /\ PutOff(p) = {}
    BY <1>1, <1>2 DEF Granted, Sent, Working, Returned, PutOff, BufsIn
  <2>. QED BY <2>1, <2>2 DEF Tokens, Apart, Listed
<1>8. Lists /\ ToDo
  BY <1>1, <1>2, <1>3, <1>4, <1>5 DEF Lists, ToDo
<1>9. Books
  <2>1. Held = {} /\ \A b : {p \in Range(pl) : b \in bl[p]} = {}
    BY <1>2 DEF Held
  <2>2. RefCount /\ Ledger
    <3>1. Cardinality(Held) = 0 /\ \A b : Cardinality({p \in Range(pl) : b \in bl[p]}) = 0
      BY <2>1, FS_EmptySet
    <3>2. \A b \in Addr : RoutingRef(b) = 0
      BY <1>4 DEF RoutingRef
    <3>3. RefCount
      BY <1>1, <3>1, <3>2 DEF RefCount
    <3>4. Ledger
      BY <1>1, <1>2, <1>4, <3>1 DEF Ledger
    <3>. QED BY <3>3, <3>4
  <2>. QED BY <1>1, <2>2 DEF Books, NeverComeHere
<1>. QED BY <1>6, <1>7, <1>8, <1>9 DEF BooksInv

\* Every step keeps the books.
LEMMA BooksStep ==
    ASSUME OrderlyLeaving, RouterInv, BooksInv, [Next]_vars PROVE BooksInv'
<1>1. CASE HandleConnect \/ HandleGetBuf \/ HandleRelease
  BY <1>1, HandlersProtocol, ConnectBooks, GetBufBooks, ReleaseHandlerBooks DEF BooksInv
<1>2. CASE RouterNext /\ ~ (HandleConnect \/ HandleGetBuf \/ HandleRelease)
  BY <1>2, ListenBooks, RouteSkipBooks, RouteSendBooks, RouteEndBooks, PurgeQueBooks,
     DrainOutBooks, ReleaseAllBooks, RemovePlBooks DEF RouterNext
<1>3. ASSUME NEW p \in Client, ClientNext(p) PROVE BooksInv'
  <2>1. Protocol' /\ Tokens'
    BY <1>3, ClientReceives, ClientSends DEF ClientNext
  <2>. QED BY <1>3, <2>1, ClientBooks DEF BooksInv
<1>4. CASE UNCHANGED vars
  <2>1. UNCHANGED <<inq, mb, que, out, pl, cst, hand, bl, rpc, ret, cur, count, cnt, msg_count,
                    errs, todo>>
    BY <1>4 DEF vars, routerVars, plVars, queVars, clientVars, shmVars
  <2>2. Routing' <=> Routing
    BY <2>1 DEF Routing
  <2>. QED BY <2>1, <2>2, ProtocolSame, TokensSame, BooksSame DEF BooksInv
<1>. QED BY <1>1, <1>2, <1>3, <1>4 DEF Next

-----------------------------------------------------------------------------
(* What follows from the books                                             *)

\* A released block is a writer's, and has a positive size; what is routed is a writer's.
Released ==
    /\ \A m \in Range(inq) \cup Range(mb) :
         m.cmd = "RELEASE" /\ m.blk # NoBlk => m.pid \in Writers /\ m.size > 0
    /\ Routing => cur.pid \in Writers

\* Every step keeps what is said of releases.
LEMMA ReleasedStep ==
    ASSUME RouterInv, Released, [Next]_vars PROVE Released'
<1>1. ASSUME Range(inq') \cup Range(mb') \subseteq Range(inq) \cup Range(mb),
             Routing' => Routing /\ cur' = cur
      PROVE  Released'
  BY <1>1 DEF Released
<1>2. CASE HandleConnect \/ HandleGetBuf \/ BeginDisconnect
  <2>1. PICK m : Take(m) /\ rpc' \in {"top", "snd", "disc"} /\ (rpc' = "snd" => ret' = "top")
    BY <1>2 DEF HandleConnect, HandleGetBuf, BeginDisconnect, send_msg, EnterSnd
  <2>2. ~ Routing'
    BY <2>1 DEF Routing
  <2>. QED BY <1>1, <2>1, <2>2, TakeShape
<1>3. CASE HandleRelease
  <2>1. PICK m : /\ Take(m)
                 /\ (rpc' = "route" /\ cur' = m /\ m.pid \in Writers) \/ rpc' = "top"
    BY <1>3 DEF HandleRelease, Routes
  <2>2. Routing' => cur'.pid \in Writers
    BY <2>1 DEF Routing
  <2>3. Range(inq') \subseteq Range(inq) /\ Range(mb') \subseteq Range(mb)
    BY <2>1, TakeShape
  <2>. QED BY <2>2, <2>3 DEF Released
<1>4. CASE Defer
  <2>1. /\ inq # << >> /\ mb' = Append(mb, Head(inq)) /\ inq' = Tail(inq)
        /\ UNCHANGED <<rpc, ret, cur>>
    BY <1>4 DEF Defer
  <2>2. Range(inq) = Range(inq') \cup {Head(inq)} /\ Head(inq) \in Message
    BY <2>1, QueueTypes, TailAt
  <2>3. Range(mb') = Range(mb) \cup {Head(inq)}
    BY <2>1, <2>2, QueueTypes, AppendAt
  <2>4. Routing' => Routing /\ cur' = cur
    BY <2>1 DEF Routing
  <2>. QED BY <1>1, <2>2, <2>3, <2>4
<1>5. CASE BeginListen \/ SndOne \/ SndFull \/ EndScan \/ RouteSkip \/ RouteSend \/ RouteEnd
           \/ PurgeQue \/ DrainOut \/ ReleaseAll \/ RemovePl
  <2>1. UNCHANGED <<inq, mb>>
    BY <1>5 DEF BeginListen, SndOne, SndFull, EndScan, RouteSkip, RouteSend, RouteEnd, PurgeQue,
                DrainOut, ReleaseAll, RemovePl
  <2>2. CASE BeginListen \/ SndOne \/ SndFull \/ EndScan \/ RouteSkip
    <3>1. Routing' => Routing /\ cur' = cur
      BY <2>2 DEF Routing, BeginListen, SndOne, SndFull, EndScan, RouteSkip, EnterSnd
    <3>. QED BY <1>1, <2>1, <3>1
  <2>3. CASE RouteSend \/ RouteEnd \/ PurgeQue \/ DrainOut \/ ReleaseAll \/ RemovePl
    <3>1. Routing' => Routing /\ cur' = cur
      BY <2>3 DEF Routing, RouteSend, RouteEnd, PurgeQue, DrainOut, ReleaseAll, RemovePl, send_msg,
                  EnterSnd
    <3>. QED BY <1>1, <2>1, <3>1
  <2>. QED BY <1>5, <2>2, <2>3
<1>6. ASSUME NEW p \in Client, ClientNext(p) PROVE Released'
  <2>1. UNCHANGED <<mb, rpc, ret, cur>>
    BY <1>6 DEF ClientNext, Connect, ConnectDone, ConnectFailed, RequestBuf, GetBuf, ReleaseBuf,
                Leave, routerVars
  <2>2. Routing' => Routing /\ cur' = cur
    BY <2>1 DEF Routing
  <2>3. CASE inq' = inq
    BY <1>1, <2>1, <2>2, <2>3
  <2>4. CASE ReleaseBuf(p)
    <3>1. PICK size \in IF p \in Writers
                          THEN {0, hand[p].size, hand[p].size + Overrun} ELSE {0} :
            inq' = Append(inq, Msg("RELEASE", p, hand[p].buf, size,
                                   IF size > 0 THEN hand[p].blk ELSE NoBlk))
      BY <2>4 DEF ReleaseBuf, Send
    <3>2. PICK m : m = Msg("RELEASE", p, hand[p].buf, size, IF size > 0 THEN hand[p].blk ELSE NoBlk)
      OBVIOUS
    <3>3. hand[p].buf \in Nat /\ hand[p].size \in Nat /\ hand[p].blk \in Nat
      BY DEF RouterInv, TypeOK
    <3>4. size \in Nat /\ (IF size > 0 THEN hand[p].blk ELSE NoBlk) \in Nat
      BY <3>3, LimitAssumption DEF NoBlk
    <3>5. m \in Message /\ m.pid = p /\ m.size = size /\ (m.blk # NoBlk => size > 0)
      BY <3>2, <3>3, <3>4, MsgType DEF Msg
    <3>6. m.blk # NoBlk => m.pid \in Writers /\ m.size > 0
      BY <3>1, <3>5
    <3>7. Range(inq') = Range(inq) \cup {m}
      BY <3>1, <3>2, <3>5, QueueTypes, AppendAt
    <3>. QED BY <2>1, <2>2, <3>6, <3>7 DEF Released
  <2>5. CASE Connect(p) \/ RequestBuf(p) \/ Leave(p)
    <3>1. PICK m \in Message : inq' = Append(inq, m) /\ m.cmd # "RELEASE"
      <4>1. \A cmd \in {"CONNECT", "GETBUF", "DISCONNECT"}, size \in Nat :
              LET m == Msg(cmd, p, 0, size, NoBlk) IN m \in Message /\ m.cmd # "RELEASE"
        BY MsgType DEF Msg, NoBlk
      <4>2. Sizes \subseteq Nat
        BY LimitAssumption
      <4>. QED BY <2>5, <4>1, <4>2 DEF Connect, RequestBuf, Leave, Send
    <3>2. Range(inq') = Range(inq) \cup {m}
      BY <3>1, QueueTypes, AppendAt
    <3>. QED BY <2>1, <2>2, <3>1, <3>2 DEF Released
  <2>. QED BY <1>6, <2>3, <2>4, <2>5 DEF ClientNext, ConnectDone, ConnectFailed, GetBuf
<1>7. CASE UNCHANGED vars
  <2>1. UNCHANGED <<inq, mb, rpc, ret, cur>>
    BY <1>7 DEF vars, routerVars
  <2>2. Routing' => Routing /\ cur' = cur
    BY <2>1 DEF Routing
  <2>. QED BY <1>1, <2>1, <2>2
<1>. QED BY <1>2, <1>3, <1>4, <1>5, <1>6, <1>7 DEF Next, RouterNext

\* Nothing is released in the beginning.
LEMMA ReleasedInit == Init => Released
BY DEF Init, Released, Routing, Range

\* The invariants together.
AllInv == RouterInv /\ BooksInv /\ Released

\* The inductive invariant holds in every state.
LEMMA AllInvHolds ==
    ASSUME OrderlyLeaving PROVE Spec => []AllInv
<1>1. Init => AllInv
  BY InitInv, BooksInit, ReleasedInit DEF AllInv
<1>2. AllInv /\ [Next]_vars => AllInv'
  BY RouterInvStep, BooksStep, ReleasedStep DEF AllInv
<1>. QED BY <1>1, <1>2, PTL DEF Spec

\* The books of the router are right in every state, whatever the processes, the limits and
\* the sizes: every reference count is the number of lists that have the buffer (and the
\* router's own reference while it routes), every count of buffers and the message counter
\* are right, and the diagnostics of release_buf and send_buf never come.  The hypothesis
\* is needed: the runs router_stale and router_refused break it and lose the books.
THEOREM RouterBooks ==
    ASSUME OrderlyLeaving PROVE Spec => []Books
<1>1. AllInv => Books
  BY DEF AllInv, BooksInv
<1>. QED BY <1>1, AllInvHolds, PTL

\* A buffer that a writer is filling is in its list and in no other, and has one reference:
\* the router has not freed it, handed it out again or sent it to a reader.
THEOREM RouterExclusive ==
    ASSUME OrderlyLeaving PROVE Spec => []Exclusive
<1>1. ASSUME AllInv PROVE Exclusive
  <2>. SUFFICES ASSUME NEW p \in Writers \cap Range(pl), cst[p] = "use"
                PROVE  hand[p].buf \in bl[p] /\ count[hand[p].buf] = 1
    BY DEF Exclusive
  <2>1. p \in Client /\ p \in Writers
    BY DEF Client
  <2>2. PICK b : b = hand[p].buf
    OBVIOUS
  <2>3. b \in bl[p] /\ b \in Addr
    <3>1. b \in Working(p)
      BY <2>2 DEF Working
    <3>. QED BY <1>1, <2>1, <3>1 DEF AllInv, BooksInv, Tokens, Listed, RouterInv, TypeOK
  <2>4. Holders(b) = {p}
    <3>1. \A q \in Client : q # p => b \notin bl[q]
      BY <1>1, <2>1, <2>3 DEF AllInv, BooksInv, Lists
    <3>2. Range(pl) \subseteq Client
      BY <1>1, CountedSets DEF AllInv
    <3>. QED BY <2>3, <3>1, <3>2 DEF Holders
  <2>5. RoutingRef(b) = 0
    BY <1>1, <2>1, <2>3 DEF AllInv, BooksInv, Lists, RoutingRef
  <2>6. Cardinality({p}) = 1
    BY FS_Singleton
  <2>7. count[b] = 1
    BY <1>1, <2>3, <2>4, <2>5, <2>6 DEF AllInv, BooksInv, Books, RefCount, Holders
  <2>. QED BY <2>2, <2>3, <2>7
<1>. QED BY <1>1, AllInvHolds, PTL

\* The only message a handler takes from the queues is its own.
LEMMA TakeOne ==
    ASSUME RouterInv, NEW m, Take(m)
    PROVE  \A x \in (Range(inq) \cup Range(mb)) \ (Range(inq') \cup Range(mb')) : x = m
<1>0. inq \in Seq(Message) /\ mb \in Seq(Message)
  BY QueueTypes
<1>1. \/ inq # << >> /\ m = Head(inq) /\ inq' = Tail(inq) /\ mb' = mb
      \/ inq' = inq /\ \E i \in 1 .. Len(mb) : m = mb[i] /\ mb' = RemoveAt(mb, i)
  BY TakeShape
<1>2. CASE inq # << >> /\ m = Head(inq) /\ inq' = Tail(inq) /\ mb' = mb
  <2>1. Range(inq) = Range(inq') \cup {m}
    BY <1>0, <1>2, TailAt
  <2>. QED BY <1>2, <2>1
<1>3. CASE inq' = inq /\ \E i \in 1 .. Len(mb) : m = mb[i] /\ mb' = RemoveAt(mb, i)
  <2>1. PICK i \in 1 .. Len(mb) : m = mb[i] /\ mb' = RemoveAt(mb, i)
    BY <1>3
  <2>2. Range(mb) = Range(mb') \cup {m}
    BY <1>0, <2>1, RemoveAtAt
  <2>. QED BY <1>3, <2>2
<1>. QED BY <1>1, <1>2, <1>3

\* The handler of RTR_RELEASE routes every block.
LEMMA BlockRouted ==
    ASSUME AllInv, HandleRelease,
           NEW x \in (Range(inq) \cup Range(mb)) \ (Range(inq') \cup Range(mb')), x.blk # NoBlk
    PROVE  Routing' /\ cur' = x
<1>1. PICK m \in Takeable("RELEASE") :
        /\ Take(m)
        /\ Routes(m) /\ m.buf \in Bufs(used) /\ ~ check_max_buf => rpc' = "route" /\ cur' = m
  BY DEF HandleRelease
<1>2. x = m
  BY <1>1, TakeOne DEF AllInv
<1>3. /\ m.cmd = "RELEASE" /\ m \in Range(inq) \cup Range(mb) /\ m \in Message
      /\ m.pid \in Client /\ Ready(m)
  BY <1>1, TakeShape DEF AllInv, Takeable
<1>4. m.pid \in Writers /\ m.size > 0
  BY <1>2, <1>3 DEF AllInv, Released
<1>5. m.buf \in bl[m.pid] /\ m.pid \in Range(pl) /\ m.buf \in Addr
  <2>1. BufOf(m, "RELEASE", m.pid) \subseteq Returned(m.pid) \cup PutOff(m.pid)
    BY <1>1, <1>3, TakeBufs DEF AllInv, BooksInv
  <2>2. m.buf \in bl[m.pid]
    BY <1>3, <2>1 DEF BufOf, AllInv, BooksInv, Tokens, Listed
  <2>. QED BY <1>3, <2>2 DEF AllInv, BooksInv, Lists, RouterInv, TypeOK
<1>6. m.buf \in Bufs(used)
  <2>1. Holders(m.buf) # {} /\ IsFiniteSet(Holders(m.buf)) /\ Cardinality(Holders(m.buf)) \in Nat
    BY <1>5, CountedSets DEF Holders, AllInv
  <2>2. Cardinality(Holders(m.buf)) > 0
    BY <2>1, FS_EmptySet
  <2>3. /\ count[m.buf] = Cardinality(Holders(m.buf)) + RoutingRef(m.buf)
        /\ RoutingRef(m.buf) \in Nat
    BY <1>5 DEF AllInv, BooksInv, Books, RefCount, Holders, RoutingRef
  <2>4. count[m.buf] > 0
    BY <2>1, <2>2, <2>3
  <2>. QED BY <1>5, <2>4 DEF AllInv, RouterInv, ShmInv, Counted
<1>7. ~ check_max_buf
  BY <1>3, <1>4, <1>5 DEF Ready, Pends, ReleasePends, Connected
<1>. QED BY <1>1, <1>2, <1>4, <1>5, <1>6, <1>7 DEF Routes, Connected, Routing

\* A block a writer has released leaves the queues of the router only to be routed: no
\* handler drops it, whoever leaves or is full meanwhile.
THEOREM RouterKeepsBlocks ==
    ASSUME OrderlyLeaving PROVE Spec => NoBlockLost
<1>1. ASSUME AllInv, [Next]_vars
      PROVE  [\A k \in Unrouted \ Unrouted' : Routing' /\ cur'.blk = k]_vars
  <2>. SUFFICES ASSUME NEW k \in Unrouted \ Unrouted' PROVE Routing' /\ cur'.blk = k
    OBVIOUS
  <2>1. PICK x \in (Range(inq) \cup Range(mb)) \ (Range(inq') \cup Range(mb')) :
          x.cmd = "RELEASE" /\ x.blk = k /\ k # NoBlk
    BY DEF Unrouted, BlksOf
  <2>2. CASE HandleRelease
    BY <1>1, <2>1, <2>2, BlockRouted
  <2>3. CASE HandleConnect \/ HandleGetBuf \/ BeginDisconnect
    <3>1. PICK m : Take(m) /\ m.cmd # "RELEASE"
      BY <2>3 DEF HandleConnect, HandleGetBuf, BeginDisconnect, Takeable
    <3>. QED BY <1>1, <2>1, <3>1, TakeOne DEF AllInv
  <2>4. CASE Defer
    <3>1. inq # << >> /\ mb' = Append(mb, Head(inq)) /\ inq' = Tail(inq)
      BY <2>4 DEF Defer
    <3>2. inq \in Seq(Message) /\ mb \in Seq(Message)
      BY <1>1, QueueTypes DEF AllInv
    <3>3. Range(inq) = Range(inq') \cup {Head(inq)} /\ Head(inq) \in Message
      BY <3>1, <3>2, TailAt
    <3>4. Range(mb') = Range(mb) \cup {Head(inq)}
      BY <3>1, <3>2, <3>3, AppendAt
    <3>. QED BY <2>1, <3>3, <3>4
  <2>5. CASE UNCHANGED <<inq, mb>>
    BY <2>1, <2>5
  <2>6. ASSUME NEW p \in Client, ClientNext(p) PROVE FALSE
    <3>1. UNCHANGED mb /\ (inq' = inq \/ \E m : inq' = Append(inq, m))
      BY <2>6 DEF ClientNext, Connect, ConnectDone, ConnectFailed, RequestBuf, GetBuf, ReleaseBuf,
                  Leave, Send, routerVars
    <3>2. x \in Range(inq) => x \in Range(inq')
      <4>1. inq \in Seq(Message) /\ Len(inq) \in Nat /\ DOMAIN inq = 1 .. Len(inq)
        BY <1>1, QueueTypes DEF AllInv
      <4>2. ASSUME NEW m, inq' = Append(inq, m) PROVE x \in Range(inq) => x \in Range(inq')
        BY <4>1, <4>2 DEF Range
      <4>. QED BY <3>1, <4>2
    <3>. QED BY <2>1, <3>1, <3>2
  <2>7. CASE RouterNext /\ ~ HandleRelease /\ ~ Defer
             /\ ~ (HandleConnect \/ HandleGetBuf \/ BeginDisconnect)
    <3>1. UNCHANGED <<inq, mb>>
      BY <2>7 DEF RouterNext, BeginListen, SndOne, SndFull, EndScan, RouteSkip, RouteSend, RouteEnd,
                  PurgeQue, DrainOut, ReleaseAll, RemovePl
    <3>. QED BY <2>5, <3>1
  <2>8. CASE UNCHANGED vars
    BY <2>5, <2>8 DEF vars, routerVars
  <2>. QED BY <1>1, <2>2, <2>3, <2>4, <2>6, <2>7, <2>8 DEF Next
<1>2. AllInv /\ [Next]_vars => [\A k \in Unrouted \ Unrouted' : Routing' /\ cur'.blk = k]_vars
  BY <1>1
<1>. QED BY <1>2, AllInvHolds, PTL DEF Spec, NoBlockLost

-----------------------------------------------------------------------------
\* While a block is routed to r, neither r nor the writer that released it has the buffer
\* in its list: a count is at most the number of processes.
LEMMA RoutedBelowMax ==
    ASSUME AllInv, rpc = "route", NEW r \in Client \ Writers, cur.buf \notin bl[r]
    PROVE  count[cur.buf] < MaxCount
<1>0. PICK b, w : b = cur.buf /\ w = cur.pid
  OBVIOUS
<1>1. Routing /\ w \in Writers /\ w \in Client /\ w # r
  BY <1>0 DEF Routing, AllInv, Released, Client
<1>2. b \in Addr
  <2>1. b \in Bufs(used)
    BY <1>0, <1>1 DEF AllInv, RouterInv, RoutedInUse
  <2>. QED BY <2>1, ShmSizeAssumption DEF Bufs, Addr, AllInv, RouterInv, ShmInv, ShmTypeOK, Extent, End
<1>. DEFINE H == Holders(b)
<1>3. IsFiniteSet(H) /\ Cardinality(H) \in Nat /\ H \subseteq Client
  BY CountedSets DEF AllInv, Holders
<1>4. w \notin H /\ r \notin H
  BY <1>0, <1>1 DEF AllInv, BooksInv, Lists, Holders
<1>. HIDE DEF H
<1>5. IsFiniteSet(H \cup {w}) /\ Cardinality(H \cup {w}) = Cardinality(H) + 1
  BY <1>3, <1>4, FS_AddElement
<1>6. Cardinality((H \cup {w}) \cup {r}) = Cardinality(H) + 2
  <2>1. r \notin H \cup {w}
    BY <1>1, <1>4
  <2>2. Cardinality((H \cup {w}) \cup {r}) = Cardinality(H \cup {w}) + 1
    BY <1>5, <2>1, FS_AddElement
  <2>. QED BY <1>3, <1>5, <2>2
<1>7. Cardinality((H \cup {w}) \cup {r}) <= Cardinality(Client)
  <2>1. (H \cup {w}) \cup {r} \subseteq Client
    BY <1>1, <1>3
  <2>. QED BY <2>1, ClientAssumption, FS_Subset
<1>8. Cardinality(Client) <= MaxCount /\ Cardinality(Client) \in Nat
  BY ClientAssumption, FS_CardinalityType
<1>9. count[b] = Cardinality(H) + 1
  <2>1. RoutingRef(b) = 1
    BY <1>0, <1>1 DEF RoutingRef
  <2>. QED BY <1>2, <2>1 DEF AllInv, BooksInv, Books, RefCount, Holders, H
<1>. QED BY <1>0, <1>3, <1>6, <1>7, <1>8, <1>9, MaxCountAssumption

\* Dropping a reference is a release of the allocator.
LEMMA DropRefShm == ASSUME NEW b, DropRef(b) PROVE [ShmNext]_shmVars
BY DEF DropRef, ShmNext, ShmUnref

\* The router uses the allocator as the allocator is meant to be used: every step of the
\* router takes a buffer, a reference or a release of a buffer in use, or leaves the
\* allocator alone, so that all that is proved of ShmSpec holds of the router's segment.
THEOREM RouterUsesShm ==
    ASSUME OrderlyLeaving PROVE Spec => ShmSpec
<1>1. Init => ShmInit
  BY DEF Init
<1>2. ASSUME AllInv, [Next]_vars PROVE [ShmNext]_shmVars
  <2>1. CASE HandleGetBuf
    <3>1. CASE UNCHANGED shmVars
      BY <3>1
    <3>2. CASE ~ UNCHANGED shmVars
      <4>1. PICK m \in Takeable("GETBUF") :
              Take(m) /\ get_shm(RoundUp(m.size)) /\ ~ (RoundUp(m.size) > ShmSize)
        BY <2>1, <3>2 DEF HandleGetBuf, get_buf
      <4>2. m.size \in Nat \ {0}
        <5>1. m \in Message /\ m.cmd = "GETBUF" /\ m \in Range(inq) \cup Range(mb)
          BY <1>2, <4>1, TakeShape DEF Takeable, AllInv
        <5>. QED BY <1>2, <5>1 DEF AllInv, RouterInv, AskedSize, Message
      <4>3. m.size \in 1 .. ShmSize
        <5>1. RoundUp(m.size) \in Nat /\ m.size <= RoundUp(m.size)
          BY <4>2, RoundUpType
        <5>. QED BY <4>1, <4>2, <5>1, ShmSizeAssumption
      <4>. QED BY <4>1, <4>3 DEF ShmNext, ShmGet
    <3>. QED BY <3>1, <3>2
  <2>2. CASE HandleRelease
    <3>1. UNCHANGED shmVars \/ \E b : DropRef(b)
      BY <2>2 DEF HandleRelease, release_buf
    <3>. QED BY <3>1, DropRefShm
  <2>3. CASE RouteEnd \/ PurgeQue \/ DrainOut \/ ReleaseAll
    <3>1. UNCHANGED shmVars \/ \E b : DropRef(b)
      BY <2>3 DEF RouteEnd, PurgeQue, DrainOut, ReleaseAll, release_buf
    <3>. QED BY <3>1, DropRefShm
  <2>4. CASE RouteSend
    <3>1. CASE UNCHANGED shmVars
      BY <3>1
    <3>2. CASE ~ UNCHANGED shmVars
      <4>1. PICK r : /\ r = Head(todo) /\ rpc = "route" /\ todo # << >> /\ ~ PassOver(r)
                     /\ shm_ref(cur.buf)
        BY <2>4, <3>2 DEF RouteSend
      <4>2. r \in Client \ Writers /\ cur.buf \notin bl[r] /\ cur.buf \in Bufs(used)
        <5>1. r \in Range(todo) /\ r \in Client /\ Routing
          BY <1>2, <4>1, TailRange DEF AllInv, RouterInv, TypeOK, Routing
        <5>. QED BY <1>2, <4>1, <5>1 DEF AllInv, BooksInv, ToDo, PassOver, RouterInv, RoutedInUse
      <4>3. count[cur.buf] < MaxCount
        BY <1>2, <4>1, <4>2, RoutedBelowMax
      <4>. QED BY <4>1, <4>2, <4>3 DEF ShmNext, ShmRef
    <3>. QED BY <3>1, <3>2
  <2>5. CASE BeginListen \/ SndOne \/ SndFull \/ EndScan \/ Defer \/ HandleConnect \/ RouteSkip
             \/ BeginDisconnect \/ RemovePl
    BY <2>5 DEF BeginListen, SndOne, SndFull, EndScan, Defer, HandleConnect, RouteSkip,
                BeginDisconnect, RemovePl
  <2>6. ASSUME NEW p \in Client, ClientNext(p) PROVE UNCHANGED shmVars
    BY <2>6 DEF ClientNext, Connect, ConnectDone, ConnectFailed, RequestBuf, GetBuf, ReleaseBuf, Leave
  <2>7. CASE UNCHANGED vars
    BY <2>7 DEF vars
  <2>. QED BY <1>2, <2>1, <2>2, <2>3, <2>4, <2>5, <2>6, <2>7 DEF Next, RouterNext
<1>3. AllInv /\ [Next]_vars => [ShmNext]_shmVars
  BY <1>2
<1>. QED BY <1>1, <1>3, AllInvHolds, PTL DEF Spec, ShmSpec
=============================================================================
