------------------------------- MODULE Router -------------------------------
(***************************************************************************)
(* The router (router/src/listen.c) with the client library it serves      *)
(* (router/src/router_lib.c), talking over two System V message queues and *)
(* one shared memory segment.                                              *)
(*                                                                         *)
(* A writer asks for a buffer (GETBUF), fills it and releases it; the      *)
(* router sends the buffer to every reader, and frees it when the last of  *)
(* them has released it.  Must readers get every block; sampling readers   *)
(* are skipped when they lag.  A message the router cannot serve yet waits *)
(* in the list of pending messages, a message it cannot send yet in a      *)
(* queue of its own.                                                       *)
(*                                                                         *)
(* The router is one process, so a handler is cut into several steps only  *)
(* where the clients can see or change something meanwhile: at each msgsnd *)
(* of que_snd and at each msgrcv and release_buf of the DISCONNECT         *)
(* handler.  Allocation failures of malloc are not modelled.               *)
(***************************************************************************)
EXTENDS ShmAlloc, Sequences, SequencesExt

CONSTANTS
    Writers,         \* processes that connect with O_WRONLY
    Readers,         \* processes that connect with O_RDONLY (must readers)
    Samplers,        \* processes that connect with O_SAMPLE
    Strangers,       \* processes whose flag or library version is not accepted
    MayLeave,        \* processes that may disconnect (or be ended by a signal)
    Sizes,           \* buffer sizes the writers ask for
    Overrun,         \* bytes by which a writer may overstate the size it releases
    MAXSAMPBUF, MAXSENDBUF, MAXWRITEBUF,    \* the limits of router_priv.h
    NumMsgLimit,     \* max_num_msg
    InCap, OutCap,   \* messages the kernel keeps in msg_id_in and msg_id_out
    MaxReq,          \* bound: requests of one writer under way
    MaxDrift         \* bound: how far que_count may run ahead of the queue

Client == Writers \cup Readers \cup Samplers \cup Strangers

ASSUME ClientAssumption ==
    /\ IsFiniteSet(Client) /\ Client # {}
    /\ Writers \cap (Readers \cup Samplers \cup Strangers) = {}
    /\ Readers \cap (Samplers \cup Strangers) = {}
    /\ Samplers \cap Strangers = {}
    /\ MayLeave \subseteq Client
    /\ Cardinality(Client) <= MaxCount

ASSUME LimitAssumption ==
    /\ Sizes \subseteq Nat \ {0}
    /\ Overrun \in Nat
    /\ MAXSAMPBUF \in Nat \ {0} /\ MAXSENDBUF \in Nat \ {0} /\ MAXWRITEBUF \in Nat \ {0}
    /\ NumMsgLimit \in Nat \ {0} /\ InCap \in Nat \ {0} /\ OutCap \in Nat \ {0}
    /\ MaxReq \in Nat \ {0} /\ MaxDrift \in Nat

VARIABLES
    \* the router process
    rpc,        \* where in do_listen and message the router is
    ret,        \* where it goes on when que_snd returns
    cur,        \* the message whose handler is under way (RELEASE, DISCONNECT)
    todo,       \* the processes send_buf has still to look at
    pl,         \* the list of connected processes, in order of connection
    bl,         \* per process: the buffers in its bl list
    cnt,        \* per process: pl->cnt
    msg_count,
    que,        \* que_head: messages waiting for room in msg_id_out
    que_count,
    mb,         \* mb_head: the pending messages
    errs,       \* the diagnostics of release_buf
    \* the kernel
    inq,        \* msg_id_in: messages to the router
    out,        \* msg_id_out: per process, the messages of its type
    qnum,       \* msg_qnum of msg_id_out
    \* the clients
    cst,        \* where in the library a client is
    hand,       \* the buffer a client is working on
    mem,        \* the block each word of the segment belongs to
    \* history
    owed        \* per must reader: the blocks routed to it and not yet received

queVars    == <<que, que_count>>
plVars     == <<pl, bl, cnt, msg_count>>
routerVars == <<rpc, ret, cur, todo, mb, errs, queVars, plVars>>
clientVars == <<cst, hand, mem>>
vars       == <<shmVars, routerVars, inq, out, qnum, clientVars, owed>>

-----------------------------------------------------------------------------
\* A message: cmd, the client it is from or to, arg[0] (buf or size), arg[1]
\* (size), and the block the buffer holds (what the size bytes at buf contain).
Msg(cmd, p, buf, size, blk) ==
    [cmd |-> cmd, pid |-> p, buf |-> buf, size |-> size, blk |-> blk]

\* A block is a number; one in use is never used again (a history value: the
\* programs write whatever data they have).
Blk == 1 .. (ShmSize \div 4 + 1)
NoBlk == 0
Nothing == [buf |-> 0, size |-> 0, blk |-> NoBlk]

Word == 0 .. (ShmSize \div 4 - 1)
WordsOf(buf, size) == {w \in Word : buf <= 4 * w /\ 4 * w < buf + size}

BlksOf(S) == {m.blk : m \in S}

LiveBlk ==
    BlksOf(Range(inq) \cup Range(mb) \cup Range(que) \cup {cur}
             \cup UNION {Range(out[p]) : p \in Client} \cup Range(hand))
      \cup UNION {Range(owed[p]) : p \in Client}

NoMsg(p) == Msg("NONE", p, 0, 0, NoBlk)
SomeClient == CHOOSE p \in Client : TRUE

-----------------------------------------------------------------------------
Init ==
    /\ ShmInit
    /\ rpc = "top" /\ ret = "scan"
    /\ cur = NoMsg(SomeClient)
    /\ todo = << >>
    /\ pl = << >>
    /\ bl = [p \in Client |-> {}]
    /\ cnt = [p \in Client |-> 0]
    /\ msg_count = 0
    /\ que = << >> /\ que_count = 0
    /\ mb = << >>
    /\ errs = {}
    /\ inq = << >>
    /\ out = [p \in Client |-> << >>]
    /\ qnum = 0
    /\ cst = [p \in Client |-> "off"]
    /\ hand = [p \in Client |-> Nothing]
    /\ mem = [w \in Word |-> NoBlk]
    /\ owed = [p \in Client |-> << >>]

-----------------------------------------------------------------------------
(* Sending: que_msg, que_snd, send_msg                                     *)

Connected(p) == p \in Range(pl)

\* que_snd begins: it returns at once at the message limit or with nothing to send.
EnterSnd(q, mc, qc, cont) ==
    /\ rpc' = IF q = << >> \/ mc - qc >= NumMsgLimit THEN cont ELSE "snd"
    /\ ret' = cont

\* A fault: the message is put in front of those that wait.
que_msg_InFront(m) ==
    /\ que' = <<m>> \o que
    /\ que_count' = que_count + 1

\* que_msg: the message joins the end of the queue.
que_msg(m) ==
    /\ que' = Append(que, m)
    /\ que_count' = que_count + 1

\* send_msg: que_msg, then que_snd.  mc is msg_count when send_msg is called.
send_msg(m, mc, cont) ==
    /\ que_msg(m)
    /\ EnterSnd(que', mc, que_count', cont)

\* One round of the loop of que_snd: the head of the queue goes to the kernel.
SndOne ==
    /\ rpc = "snd"
    /\ qnum < OutCap
    /\ LET m == Head(que) IN out' = [out EXCEPT ![m.pid] = Append(@, m)]
    /\ qnum' = qnum + 1
    /\ que' = Tail(que)
    /\ que_count' = que_count - 1
    /\ rpc' = IF Len(que) = 1 THEN ret ELSE "snd"
    /\ UNCHANGED <<shmVars, ret, cur, todo, plVars, mb, errs, inq, clientVars, owed>>

\* msgsnd fails with EAGAIN: the rest stays queued.
SndFull ==
    /\ rpc = "snd"
    /\ qnum >= OutCap
    /\ rpc' = ret
    /\ UNCHANGED <<shmVars, ret, cur, todo, plVars, queVars, mb, errs, inq, out, qnum,
                   clientVars, owed>>

-----------------------------------------------------------------------------
(* do_listen: que_snd, then the pending messages, then the input queue     *)

BeginListen ==
    /\ rpc = "top"
    /\ EnterSnd(que, msg_count, que_count, "scan")
    /\ UNCHANGED <<shmVars, cur, todo, plVars, queVars, mb, errs, inq, out, qnum,
                   clientVars, owed>>

\* check_max_buf: some must reader has all the buffers it may have.
check_max_buf == \E p \in Readers : Connected(p) /\ cnt[p] >= MAXSENDBUF

\* A fault: a release does not wait for must readers.
ReleasePends_Never(m) == m.cmd = "RELEASE" /\ FALSE

ReleasePends(m) == m.cmd = "RELEASE" /\ check_max_buf

\* A fault: a writer has no limit.
GetBufPends_NoLimit(m) ==
    m.cmd = "GETBUF" /\ RoundUp(m.size) <= ShmSize /\ Fits(RoundUp(m.size)) = {}

\* get_buf returns 2: the writer has all the buffers it may have, or none is free.
GetBufPends(m) ==
    /\ m.cmd = "GETBUF"
    /\ \/ cnt[m.pid] >= MAXWRITEBUF
       \/ RoundUp(m.size) <= ShmSize /\ Fits(RoundUp(m.size)) = {}

\* The messages message() answers with 1 (pending), without any effect.
Pends(m) ==
    /\ Connected(m.pid) /\ m.pid \in Writers
    /\ ReleasePends(m) \/ GetBufPends(m)

Ready(m) == ~ Pends(m)

\* A fault: the pending messages are not tried.
EndScan_NoRetry ==
    /\ rpc = "scan"
    /\ rpc' = "wait"
    /\ UNCHANGED <<shmVars, ret, cur, todo, plVars, queVars, mb, errs, inq, out, qnum,
                   clientVars, owed>>

\* The pending messages are tried from the head; if none can be served the router
\* waits for a new message.
EndScan ==
    /\ rpc = "scan"
    /\ \A m \in Range(mb) : Pends(m)
    /\ rpc' = "wait"
    /\ UNCHANGED <<shmVars, ret, cur, todo, plVars, queVars, mb, errs, inq, out, qnum,
                   clientVars, owed>>

\* A new message that cannot be served yet joins the pending list.
Defer ==
    /\ rpc = "wait"
    /\ inq # << >>
    /\ Pends(Head(inq))
    /\ mb' = Append(mb, Head(inq))
    /\ inq' = Tail(inq)
    /\ UNCHANGED <<shmVars, rpc, ret, cur, todo, plVars, queVars, errs, out, qnum,
                   clientVars, owed>>

\* The router takes the message m: the first pending one it can serve, else a new one.
Take(m) ==
    \/ /\ rpc = "scan"
       /\ \E i \in DOMAIN mb : Ready(mb[i])
       /\ LET i == SelectInSeq(mb, Ready) IN m = mb[i] /\ mb' = RemoveAt(mb, i)
       /\ UNCHANGED inq
    \/ /\ rpc = "wait"
       /\ inq # << >>
       /\ Ready(Head(inq))
       /\ m = Head(inq)
       /\ inq' = Tail(inq)
       /\ UNCHANGED mb

Takeable(cmd) == {m \in Range(mb) \cup Range(inq) : m.cmd = cmd}

-----------------------------------------------------------------------------
(* release_buf                                                             *)

InBl(p, b) == Connected(p) /\ b \in bl[p]

\* pl_remove_buf and the decrement of cnt; BlErr is the diagnostic, if any.
DropFromBl(p, b) ==
    IF InBl(p, b)
      THEN /\ bl' = [bl EXCEPT ![p] = @ \ {b}]
           /\ cnt' = [cnt EXCEPT ![p] = IF @ > 0 THEN @ - 1 ELSE 0]
      ELSE UNCHANGED <<bl, cnt>>

BlErr(p, b) == IF Connected(p) /\ b \notin bl[p] THEN {"not in pl->bl"} ELSE {}

\* A fault: the buffer is not given back.
DropRef_NoFree(b) ==
    IF b \in Bufs(used)
      THEN /\ count' = [count EXCEPT ![b] = @ - 1]
           /\ used' = IF count[b] > 1 THEN used ELSE {u \in used : u.buf # b}
           /\ msg_count' = msg_count - 1
           /\ UNCHANGED <<free, shmErrs>>
      ELSE UNCHANGED <<shmVars, msg_count>>

\* Drop the reference of a buffer and count the message as done.
DropRef(b) ==
    IF b \in Bufs(used)
      THEN /\ shm_unref(b)
           /\ msg_count' = msg_count - 1
      ELSE UNCHANGED <<shmVars, msg_count>>

UsedErr(b) == IF b \in Bufs(used) THEN {} ELSE {"not in shm_used"}

\* release_buf(pid, buf, size) when nothing is routed.
release_buf(p, b) ==
    /\ DropFromBl(p, b)
    /\ DropRef(b)
    /\ errs' = errs \cup BlErr(p, b) \cup UsedErr(b)

-----------------------------------------------------------------------------
(* message(): one action per command                                       *)

\* A fault: neither the flag nor the version is looked at.
Accepts_All(p) == p \in Client

\* RTR_CONNECT.  A process that is already connected gets no answer at all.
Accepts(p) == p \notin Strangers

new_pl(p) ==
    /\ pl' = Append(pl, p)
    /\ bl' = [bl EXCEPT ![p] = {}]
    /\ cnt' = [cnt EXCEPT ![p] = 0]
    /\ UNCHANGED msg_count

HandleConnect ==
    \E m \in Takeable("CONNECT") :
      /\ Take(m)
      /\ IF Connected(m.pid)
           THEN rpc' = "top" /\ UNCHANGED <<ret, queVars, plVars, owed>>
           ELSE IF Accepts(m.pid)
           THEN /\ new_pl(m.pid)
                /\ owed' = [owed EXCEPT ![m.pid] = << >>]
                /\ send_msg(Msg("CONNECT", m.pid, 0, 0, NoBlk), msg_count, "top")
           ELSE /\ send_msg(Msg("REFUSE", m.pid, 0, 0, NoBlk), msg_count, "top")
                /\ UNCHANGED <<plVars, owed>>
      /\ UNCHANGED <<shmVars, cur, todo, errs, out, qnum, clientVars>>

\* get_buf when there is a buffer: the writer has its first reference.
get_buf(p, size) ==
    /\ get_shm(size)
    /\ bl' = [bl EXCEPT ![p] = @ \cup {FirstFit(size).buf}]
    /\ cnt' = [cnt EXCEPT ![p] = @ + 1]
    /\ msg_count' = msg_count + 1
    /\ UNCHANGED pl

\* RTR_GETBUF: get_buf and its answer.
HandleGetBuf ==
    \E m \in Takeable("GETBUF") :
      LET p    == m.pid
          size == RoundUp(m.size)
      IN
      /\ Take(m)
      /\ IF ~ Connected(p)
           THEN rpc' = "top" /\ UNCHANGED <<shmVars, ret, queVars, plVars>>
           ELSE IF p \notin Writers \/ size > ShmSize
           THEN /\ send_msg(Msg("REFUSE", p, 0, 0, NoBlk), msg_count, "top")
                /\ UNCHANGED <<shmVars, plVars>>
           ELSE /\ get_buf(p, size)
                /\ send_msg(Msg("BUFFER", p, FirstFit(size).buf, size, NoBlk), msg_count', "top")
      /\ UNCHANGED <<cur, todo, errs, out, qnum, clientVars, owed>>

\* RTR_RELEASE.  A writer's block of positive size is routed before the writer's
\* own reference is dropped; anything else just drops the reference.  send_buf tests
\* for a full must reader once more, and would let the block go unrouted.
Routes(m) == Connected(m.pid) /\ m.pid \in Writers /\ m.size > 0

HandleRelease ==
    \E m \in Takeable("RELEASE") :
      /\ Take(m)
      /\ IF Routes(m) /\ m.buf \in Bufs(used) /\ ~ check_max_buf
           THEN /\ DropFromBl(m.pid, m.buf)
                /\ errs' = errs \cup BlErr(m.pid, m.buf)
                /\ rpc' = "route" /\ cur' = m /\ todo' = pl
                /\ owed' = [r \in Client |->
                              IF r \in Readers /\ Connected(r)
                                THEN Append(owed[r], m.blk) ELSE owed[r]]
                /\ UNCHANGED <<shmVars, msg_count>>
           ELSE /\ release_buf(m.pid, m.buf)
                /\ rpc' = "top"
                /\ UNCHANGED <<cur, todo, owed>>
      /\ UNCHANGED <<ret, pl, queVars, out, qnum, clientVars>>

\* Faults: sampling readers have no limit; blocks go to writers too.
PassOver_NoLimit(p) == p \in Writers
PassOver_Writers(p) == p \in Samplers /\ cnt[p] >= MAXSAMPBUF

\* send_buf, one process of the list: writers and full samplers are passed over.
PassOver(p) == p \in Writers \/ (p \in Samplers /\ cnt[p] >= MAXSAMPBUF)

SendSize(b, size) ==
    LET room == (CHOOSE u \in used : u.buf = b).size IN IF size > room THEN room ELSE size

\* A fault: passing over one process ends the loop.
RouteSkip_Break ==
    /\ rpc = "route"
    /\ todo # << >>
    /\ PassOver(Head(todo))
    /\ todo' = << >>
    /\ UNCHANGED <<shmVars, rpc, ret, cur, mb, errs, queVars, plVars, inq, out, qnum,
                   clientVars, owed>>

RouteSkip ==
    /\ rpc = "route"
    /\ todo # << >>
    /\ PassOver(Head(todo))
    /\ todo' = Tail(todo)
    /\ UNCHANGED <<shmVars, rpc, ret, cur, mb, errs, queVars, plVars, inq, out, qnum,
                   clientVars, owed>>

\* send_buf, one reader: the buffer is sent and the reader's reference counted.
\* (The books are kept after send_msg in the code; nobody else reads them.)  At a
\* full must reader ("Nerver Come Here") the code gives up.
RouteSend ==
    /\ rpc = "route"
    /\ todo # << >>
    /\ ~ PassOver(Head(todo))
    /\ LET r == Head(todo) IN
       IF r \in Readers /\ cnt[r] >= MAXSENDBUF
         THEN /\ errs' = errs \cup {"buffer lost"}
              /\ rpc' = "top" /\ cur' = NoMsg(SomeClient)
              /\ todo' = << >>
              /\ UNCHANGED <<shmVars, ret, queVars, bl, cnt, msg_count>>
         ELSE /\ send_msg(Msg("BUFFER", r, cur.buf, SendSize(cur.buf, cur.size), cur.blk),
                          msg_count, "route")
              /\ bl' = [bl EXCEPT ![r] = @ \cup {cur.buf}]
              /\ cnt' = [cnt EXCEPT ![r] = @ + 1]
              /\ errs' = errs \cup IF cur.buf \in bl[r] THEN {"twice in pl->bl"} ELSE {}
              /\ shm_ref(cur.buf)
              /\ msg_count' = msg_count + 1
              /\ todo' = Tail(todo)
              /\ UNCHANGED cur
    /\ UNCHANGED <<pl, mb, inq, out, qnum, clientVars, owed>>

\* The rest of release_buf: now the writer's own reference goes.
RouteEnd ==
    /\ rpc = "route"
    /\ todo = << >>
    /\ DropRef(cur.buf)
    /\ rpc' = "top" /\ cur' = NoMsg(SomeClient)
    /\ UNCHANGED <<ret, todo, mb, errs, queVars, pl, bl, cnt, inq, out, qnum,
                   clientVars, owed>>

\* RTR_DISCONNECT.  First the messages to the process that are still queued ...
BeginDisconnect ==
    \E m \in Takeable("DISCONNECT") :
      /\ Take(m)
      /\ rpc' = "disc" /\ cur' = m
      /\ UNCHANGED <<shmVars, ret, todo, errs, queVars, plVars, out, qnum, clientVars, owed>>

ToCur(m) == m.pid = cur.pid

\* ... are taken out (whatever they are, and without counting que_count down), ...
PurgeQue ==
    /\ rpc = "disc"
    /\ \E i \in DOMAIN que : ToCur(que[i])
    /\ LET i == SelectInSeq(que, ToCur) IN
         /\ release_buf(cur.pid, que[i].buf)
         /\ que' = RemoveAt(que, i)
    /\ UNCHANGED <<rpc, ret, cur, todo, mb, que_count, pl, inq, out, qnum, clientVars, owed>>

\* ... then those the kernel still has (no message in msg_id_in is of the type the
\* next loop of the code asks for: clients send to RTR_MTYPE_ROUTER), ...
DrainOut ==
    /\ rpc = "disc"
    /\ \A i \in DOMAIN que : ~ ToCur(que[i])
    /\ out[cur.pid] # << >>
    /\ IF Head(out[cur.pid]).cmd = "BUFFER"
         THEN release_buf(cur.pid, Head(out[cur.pid]).buf)
         ELSE UNCHANGED <<shmVars, bl, cnt, msg_count, errs>>
    /\ out' = [out EXCEPT ![cur.pid] = Tail(@)]
    /\ qnum' = qnum - 1
    /\ UNCHANGED <<rpc, ret, cur, todo, mb, queVars, pl, inq, clientVars, owed>>

\* ... then the buffers the process still has (pl_release_buf_all), ...
ReleaseAll ==
    /\ rpc = "disc"
    /\ \A i \in DOMAIN que : ~ ToCur(que[i])
    /\ out[cur.pid] = << >>
    /\ Connected(cur.pid)
    /\ \E b \in bl[cur.pid] : release_buf(cur.pid, b)
    /\ UNCHANGED <<rpc, ret, cur, todo, mb, queVars, pl, inq, out, qnum, clientVars, owed>>

\* A fault: remove_pl forgets the buffers the process still has.
RemovePl_KeepBufs ==
    /\ rpc = "disc"
    /\ \A i \in DOMAIN que : ~ ToCur(que[i])
    /\ out[cur.pid] = << >>
    /\ pl' = RemoveFirst(pl, cur.pid)
    /\ owed' = [owed EXCEPT ![cur.pid] = << >>]
    /\ rpc' = "top" /\ cur' = NoMsg(SomeClient)
    /\ UNCHANGED <<shmVars, ret, todo, mb, errs, queVars, bl, cnt, msg_count, inq, out, qnum,
                   clientVars>>

\* ... and last its entry in the list (remove_pl).
RemovePl ==
    /\ rpc = "disc"
    /\ \A i \in DOMAIN que : ~ ToCur(que[i])
    /\ out[cur.pid] = << >>
    /\ ~ Connected(cur.pid) \/ bl[cur.pid] = {}
    /\ pl' = RemoveFirst(pl, cur.pid)
    /\ owed' = [owed EXCEPT ![cur.pid] = << >>]
    /\ rpc' = "top" /\ cur' = NoMsg(SomeClient)
    /\ UNCHANGED <<shmVars, ret, todo, mb, errs, queVars, bl, cnt, msg_count, inq, out, qnum,
                   clientVars>>

-----------------------------------------------------------------------------
(* The clients: router_lib.c, called the way the tools call it             *)

\* msgsnd to the router; it blocks while the queue is full.
Send(m) == Len(inq) < InCap /\ inq' = Append(inq, m)

\* msgrcv of the messages to p.
Receive(p) ==
    /\ out' = [out EXCEPT ![p] = Tail(@)]
    /\ qnum' = qnum - 1

\* The router has nothing left of an earlier process with this pid.
FreshPid(p) ==
    /\ ~ Connected(p)
    /\ out[p] = << >>
    /\ \A m \in Range(inq) \cup Range(mb) \cup Range(que) : m.pid # p
    /\ ~ (rpc = "disc" /\ cur.pid = p)

\* router_connect sends its request ...
Connect(p) ==
    /\ cst[p] = "off"
    /\ FreshPid(p)
    /\ Send(Msg("CONNECT", p, 0, 0, NoBlk))
    /\ cst' = [cst EXCEPT ![p] = "conn"]
    /\ UNCHANGED <<shmVars, routerVars, out, qnum, hand, mem, owed>>

\* ... and the answer is RTR_CONNECT, ...
ConnectDone(p) ==
    /\ cst[p] = "conn"
    /\ out[p] # << >>
    /\ Head(out[p]).cmd = "CONNECT"
    /\ Receive(p)
    /\ cst' = [cst EXCEPT ![p] = IF p \in Writers THEN "idle" ELSE "get"]
    /\ UNCHANGED <<shmVars, routerVars, inq, hand, mem, owed>>

\* ... or anything else, upon which the library disconnects.
ConnectFailed(p) ==
    /\ cst[p] = "conn"
    /\ out[p] # << >>
    /\ Head(out[p]).cmd # "CONNECT"
    /\ Receive(p)
    /\ cst' = [cst EXCEPT ![p] = "fail"]
    /\ UNCHANGED <<shmVars, routerVars, inq, hand, mem, owed>>

\* The processes that may end now (MaxDrift bounds the runs of disconnections).
Quits(p) == p \in MayLeave /\ que_count - Len(que) <= MaxDrift

\* router_request_buf.  Its local `res' is tested uninitialised after the message
\* is sent: the call returns 0, sends once more (while MaxReq allows), or reports a
\* failure, upon which the program ends (if it may leave).
Requests(p) == {i \in DOMAIN inq : inq[i].pid = p /\ inq[i].cmd = "GETBUF"}
Deferred(p) == {i \in DOMAIN mb : mb[i].pid = p /\ mb[i].cmd = "GETBUF"}

Requested(p) == Cardinality(Requests(p)) + Cardinality(Deferred(p))

RequestBuf(p) ==
    /\ cst[p] = "idle"
    /\ Requested(p) < MaxReq
    /\ \E size \in Sizes : Send(Msg("GETBUF", p, 0, size, NoBlk))
    /\ \/ cst' = [cst EXCEPT ![p] = "get"]
       \/ Requested(p) + 1 < MaxReq /\ UNCHANGED cst
       \/ Quits(p) /\ cst' = [cst EXCEPT ![p] = "fail"]
    /\ UNCHANGED <<shmVars, routerVars, out, qnum, hand, mem, owed>>

\* router_get_buf.  Whatever is not RTR_BUFFER is ignored, and the call waits on.
\* A writer then puts its next block into the buffer.
NextBlk == {k \in Blk \ LiveBlk : \A j \in Blk \ LiveBlk : k <= j}

GetBuf(p) ==
    /\ cst[p] = "get"
    /\ out[p] # << >>
    /\ Receive(p)
    /\ LET m == Head(out[p]) IN
       \/ /\ m.cmd # "BUFFER"
          /\ UNCHANGED <<cst, hand, mem, owed>>
       \/ /\ m.cmd = "BUFFER" /\ p \in Writers
          /\ \E k \in NextBlk :
               /\ hand' = [hand EXCEPT ![p] = [buf |-> m.buf, size |-> m.size, blk |-> k]]
               /\ mem' = [w \in Word |-> IF w \in WordsOf(m.buf, m.size) THEN k ELSE mem[w]]
          /\ cst' = [cst EXCEPT ![p] = "use"]
          /\ UNCHANGED owed
       \/ /\ m.cmd = "BUFFER" /\ p \notin Writers
          /\ hand' = [hand EXCEPT ![p] = [buf |-> m.buf, size |-> m.size, blk |-> m.blk]]
          /\ owed' = [owed EXCEPT ![p] = IF @ = << >> THEN @ ELSE Tail(@)]
          /\ cst' = [cst EXCEPT ![p] = "use"]
          /\ UNCHANGED mem
    /\ UNCHANGED <<shmVars, routerVars, inq>>

\* router_release_buf: a writer states how much of the buffer it filled.
ReleaseBuf(p) ==
    /\ cst[p] = "use"
    /\ \E size \in IF p \in Writers
                     THEN {0, hand[p].size, hand[p].size + Overrun} ELSE {0} :
         Send(Msg("RELEASE", p, hand[p].buf, size,
                  IF size > 0 THEN hand[p].blk ELSE NoBlk))
    /\ cst' = [cst EXCEPT ![p] = IF p \in Writers THEN "idle" ELSE "get"]
    /\ hand' = [hand EXCEPT ![p] = Nothing]
    /\ UNCHANGED <<shmVars, routerVars, out, qnum, mem, owed>>

\* router_disconnect, called after a failure, by the program, or by the signal handler
\* cleanup, which router_connect installs once it has succeeded.
Leave(p) ==
    /\ \/ cst[p] = "fail"
       \/ cst[p] \in {"idle", "get", "use"} /\ Quits(p)
    /\ Send(Msg("DISCONNECT", p, 0, 0, NoBlk))
    /\ cst' = [cst EXCEPT ![p] = "off"]
    /\ hand' = [hand EXCEPT ![p] = Nothing]
    /\ UNCHANGED <<shmVars, routerVars, out, qnum, mem, owed>>

-----------------------------------------------------------------------------
RouterNext ==
    \/ BeginListen \/ SndOne \/ SndFull \/ EndScan \/ Defer
    \/ HandleConnect \/ HandleGetBuf \/ HandleRelease
    \/ RouteSkip \/ RouteSend \/ RouteEnd
    \/ BeginDisconnect \/ PurgeQue \/ DrainOut \/ ReleaseAll \/ RemovePl

ClientNext(p) ==
    \/ Connect(p) \/ ConnectDone(p) \/ ConnectFailed(p)
    \/ RequestBuf(p) \/ GetBuf(p) \/ ReleaseBuf(p) \/ Leave(p)

Next == RouterNext \/ \E p \in Client : ClientNext(p)

Spec == Init /\ [][Next]_vars

\* The router process runs while it has something to do.  A writer or a must reader
\* that waits for a message takes it when it comes, and releases the buffer it is
\* working on; the kernel lets blocked senders through in turn, so a send is not
\* overtaken forever.  Nothing is assumed of sampling readers: they may stop for good.
FairSpec ==
    /\ Spec
    /\ WF_vars(RouterNext)
    /\ \A p \in Writers \cup Readers :
         /\ WF_vars(ConnectDone(p))
         /\ WF_vars(GetBuf(p))
         /\ SF_vars(ReleaseBuf(p))

-----------------------------------------------------------------------------
\* The router is between the start of send_buf and the end of release_buf.
Routing == rpc = "route" \/ (rpc = "snd" /\ ret = "route")

RoutingRef(b) == IF Routing /\ cur.buf = b THEN 1 ELSE 0

\* The pairs <<process, buffer>> the lists pl->bl record.
Held == {h \in Range(pl) \X Addr : h[2] \in bl[h[1]]}

Message == [cmd : {"CONNECT", "REFUSE", "BUFFER", "RELEASE", "GETBUF", "DISCONNECT", "NONE"},
            pid : Client, buf : Nat, size : Nat, blk : Nat]

\* The type of the router's state.
TypeOK ==
    /\ rpc \in {"top", "snd", "scan", "wait", "route", "disc"}
    /\ ret \in {"top", "scan", "route"}
    /\ cur \in Message
    /\ todo \in Seq(Client \ Strangers) /\ pl \in Seq(Client \ Strangers)
    /\ bl \in [Client -> SUBSET Addr]
    /\ cnt \in [Client -> Nat]
    /\ msg_count \in Int /\ que_count \in Int
    /\ que \in Seq(Message) /\ mb \in Seq(Message) /\ inq \in Seq(Message)
    /\ out \in [Client -> Seq(Message)]
    /\ qnum \in Int /\ qnum <= OutCap
    /\ cst \in [Client -> {"off", "conn", "idle", "get", "use", "fail"}]
    /\ hand \in [Client -> [buf : Nat, size : Nat, blk : Nat]]
    /\ mem \in [Word -> Nat]
    /\ owed \in [Client -> Seq(Nat)]

\* shm->count ("number of reference count") is the number of processes whose list
\* has the buffer, plus the writer's own reference while its block is routed.
RefCount ==
    \A b \in Addr : count[b] = Cardinality({p \in Range(pl) : b \in bl[p]}) + RoutingRef(b)

\* pl->cnt ("number of buffers currently grabbing") is the length of pl->bl, and
\* msg_count the number of entries of all the lists.
Ledger ==
    /\ \A p \in Range(pl) : cnt[p] = Cardinality(bl[p])
    /\ msg_count = Cardinality(Held) + (IF Routing THEN 1 ELSE 0)

\* No process is given more buffers than router_priv.h says.
Limits ==
    \A p \in Client :
      cnt[p] <= IF p \in Writers THEN MAXWRITEBUF
                ELSE IF p \in Samplers THEN MAXSAMPBUF ELSE MAXSENDBUF

\* The buffers a reader has been told of: those in messages to it and in its hand.
Told(p) ==
    {[buf |-> m.buf, size |-> m.size, blk |-> m.blk] :
        m \in {m \in Range(out[p]) \cup Range(que) : m.pid = p /\ m.cmd = "BUFFER"}}
      \cup (IF cst[p] = "use" THEN {hand[p]} ELSE {})

\* Whatever a connected reader has been told of is a buffer in its list, does not reach
\* beyond the buffer, and still holds the block the writer released: no buffer is
\* freed, handed out or overwritten under a reader.
Intact ==
    \A p \in (Readers \cup Samplers) \cap Range(pl) : \A h \in Told(p) :
      /\ h.buf \in bl[p]
      /\ \E u \in used : u.buf = h.buf /\ h.size <= u.size
      /\ \A w \in WordsOf(h.buf, h.size) : mem[w] = h.blk

\* The same for a writer that is filling a buffer: no one else may have it.
Exclusive ==
    \A p \in Writers \cap Range(pl) : cst[p] = "use" =>
      /\ hand[p].buf \in bl[p]
      /\ count[hand[p].buf] = 1

\* The places in s of the messages that bring p a block.
BlocksTo(s, p) == {k \in DOMAIN s : s[k].cmd = "BUFFER" /\ s[k].pid = p}

\* t lists the blocks of the messages to p in s, each once and in the order of s.
InOrder(t, s, p) ==
    \E at \in [DOMAIN t -> BlocksTo(s, p)] :
      /\ \A i, j \in DOMAIN t : i < j => at[i] < at[j]
      /\ \A k \in BlocksTo(s, p) : \E i \in DOMAIN t : at[i] = k
      /\ \A i \in DOMAIN t : s[at[i]].blk = t[i]

\* The block that is being routed, if send_buf has not come to r.
Coming(r) ==
    IF Routing /\ r \in Range(todo)
      THEN <<Msg("BUFFER", r, cur.buf, cur.size, cur.blk)>> ELSE << >>

\* What is on its way to r: messages in the kernel, messages that wait for room there.
Way(r) == (out[r] \o que) \o Coming(r)

\* A must reader gets every block released after it connected, once and in the
\* order of release: what is on its way to it is what it is owed.
EveryBlock ==
    \A r \in Readers \cap Range(pl) :
      ~ (rpc = "disc" /\ cur.pid = r) => InOrder(owed[r], Way(r), r)

\* The diagnostics of release_buf and pl_remove_buf ("never come here") never come.
NeverComeHere == errs = {}

\* The books of the router are right: reference counts, counts of buffers and messages, and
\* none of the diagnostics that say otherwise.
Books == RefCount /\ Ledger /\ NeverComeHere

\* What a reader is told of is there to be read, and a must reader is told of every block.
Delivery == Intact /\ EveryBlock

\* The blocks writers have released that the router has not yet looked at.
Unrouted == BlksOf({m \in Range(inq) \cup Range(mb) : m.cmd = "RELEASE"}) \ {NoBlk}

\* A released block is not dropped: it leaves the queues only to be routed.
NoBlockLost == [][\A k \in Unrouted \ Unrouted' : Routing' /\ cur'.blk = k]_vars

\* The inductive invariant of the proofs: it holds whatever the clients do, even when
\* they leave with messages pending.  A buffer is in use while it is routed, and
\* que_snd runs only with something to send.
RoutedInUse == Routing => cur.buf \in Bufs(used)
SndPending  == rpc = "snd" => que # << >>
AskedSize   == \A m \in Range(inq) \cup Range(mb) : m.cmd = "GETBUF" => m.size > 0

RouterInv == TypeOK /\ ShmInv /\ RoutedInUse /\ SndPending /\ AskedSize /\ Limits

\* router_get_buf returns: a writer that waits for a buffer gets one.
GetBufReturns == \A p \in Writers : cst[p] = "get" ~> cst[p] # "get"

\* A block that is routed to a must reader is received by it in the end, even if
\* sampling readers have stopped with their buffers and messages.
Delivered == \A r \in Readers : \A k \in Blk :
    k \in Range(owed[r]) ~> k \notin Range(owed[r])

\* A pending release is served in the end.
Served == \A k \in Blk : k \in Unrouted ~> k \notin Unrouted
=============================================================================
