------------------------------- MODULE GrSend -------------------------------
(***************************************************************************)
(* The sending half of the GR collector (gr/collect_tcp.c): one thread per *)
(* connection takes blocks from the ring buffer and sends them.            *)
(*                                                                         *)
(* The threads do not use the descriptor they are created with: all of     *)
(* them use the global connfd, which the next accept overwrites.  So a     *)
(* thread's next read or write goes to the connection accepted last.       *)
(*                                                                         *)
(* A block is [kind, seq]: its kind, which collect_tcp recognises from its *)
(* first words, and its place in the stream of blocks (a history value).   *)
(***************************************************************************)
EXTENDS Naturals, FiniteSets, Sequences, SequencesExt

CONSTANTS
    Clients,      \* connections, in no particular order
    MaxBlocks,    \* bound: blocks put into the ring
    MaxQueNum     \* max_que_num

VARIABLES
    ring,      \* the ring buffer
    put,       \* number of blocks put so far
    connfd,    \* the global descriptor: the connection accepted last
    conn,      \* per connection: none, open, closed (by the client)
    th,        \* per connection: where its thread is
    ver,       \* per thread: client_ver
    cver,      \* per connection: the version the client asks for
    info1,     \* connections whose info1 nobody has read
    buf,       \* per thread: the block in its buf
    cnt,       \* per thread: i, the number of the block
    scl,       \* per thread: block_scaler_count
    replies,   \* per connection: words the client sent and nobody read
    got,       \* per connection: what was written to it
    up         \* the process lives (SIGPIPE is not ignored)

threadVars == <<th, ver, buf, cnt, scl>>
sendVars   == <<ring, put, connfd, conn, threadVars, cver, info1, replies, got, up>>

None == "none"
Kinds == {"start", "scaler", "data", "end"}
NoBlk == [kind |-> None, seq |-> 0, num |-> 0]

SendInit ==
    /\ ring = << >> /\ put = 0
    /\ connfd = None
    /\ conn = [c \in Clients |-> None]
    /\ th = [c \in Clients |-> None]
    /\ ver = [c \in Clients |-> 2]
    /\ cver = [c \in Clients |-> 2] /\ info1 = {}
    /\ buf = [c \in Clients |-> NoBlk]
    /\ cnt = [c \in Clients |-> 0]
    /\ scl = [c \in Clients |-> 0]
    /\ replies = [c \in Clients |-> 0]
    /\ got = [c \in Clients |-> << >>]
    /\ up = TRUE

\* The readout (GrReadout) puts a block.
PutBlock ==
    /\ put < MaxBlocks /\ Len(ring) < MaxQueNum /\ up
    /\ \E k \in Kinds : ring' = Append(ring, [kind |-> k, seq |-> put + 1, num |-> 0])
    /\ put' = put + 1
    /\ UNCHANGED <<connfd, conn, threadVars, cver, info1, replies, got, up>>

-----------------------------------------------------------------------------
\* collect_tcp_serv: a client connects, connfd is overwritten, a thread started.  The
\* client sends its version (info1) at once.
collect_tcp_serv(c) ==
    /\ conn[c] = None /\ up
    /\ conn' = [conn EXCEPT ![c] = "open"]
    /\ connfd' = c
    /\ th' = [th EXCEPT ![c] = "hello"]
    /\ \E v \in 1 .. 3 : cver' = [cver EXCEPT ![c] = v]
    /\ info1' = info1 \cup {c}
    /\ UNCHANGED <<ring, put, ver, buf, cnt, scl, replies, got, up>>

Item(what, n, blk) == [what |-> what, n |-> n, blk |-> blk]

\* A write to the current connection.  If the client has closed it, the data vanish,
\* or SIGPIPE ends the process.
Write(x) ==
    IF conn[connfd] = "open"
      THEN got' = [got EXCEPT ![connfd] = Append(@, x)] /\ UNCHANGED up
      ELSE UNCHANGED got /\ up' \in BOOLEAN

\* The thread reads info1 and answers with info2, both on the current connection.  A
\* client that is gone, or of a version too high, ends the thread.
Hello(c) ==
    /\ th[c] = "hello" /\ up
    /\ conn[connfd] = "closed" \/ connfd \in info1
    /\ ver' = [ver EXCEPT ![c] = cver[connfd]]
    /\ th' = [th EXCEPT ![c] = IF conn[connfd] = "closed" \/ cver[connfd] > 2 THEN "gone" ELSE "get"]
    /\ info1' = info1 \ {connfd}
    /\ UNCHANGED <<ring, put, connfd, conn, cver, buf, cnt, scl, replies, got, up>>

\* The count of scaler blocks after block b (an unsigned short).
NextScl(b, n) ==
    CASE b.kind = "scaler" -> (n + 1) % 65536
      [] b.kind = "end" -> 0
      [] OTHER -> n

\* encode_scl_blk puts the count into the header of a scaler block.
encode_scl_blk(b, n) == IF b.kind = "scaler" THEN [b EXCEPT !.num = n] ELSE b

\* get_rb_data; a scaler block is encoded.
GetBlock(c) ==
    /\ th[c] = "get" /\ up
    /\ ring # << >>
    /\ ring' = Tail(ring)
    /\ buf' = [buf EXCEPT ![c] = encode_scl_blk(Head(ring), scl[c])]
    /\ scl' = [scl EXCEPT ![c] = NextScl(Head(ring), @)]
    /\ th' = [th EXCEPT ![c] = IF ver[c] = 2 THEN "header" ELSE "data"]
    /\ UNCHANGED <<put, connfd, conn, ver, cver, info1, cnt, replies, got, up>>

\* Version 2 writes info3 (count and size) first.
WriteHeader(c) ==
    /\ th[c] = "header" /\ up
    /\ Write(Item("header", cnt[c], NoBlk))
    /\ th' = [th EXCEPT ![c] = "data"]
    /\ UNCHANGED <<ring, put, connfd, conn, ver, cver, info1, buf, cnt, scl, replies>>

\* The block.  For version 1 its size is compared with a variable that was never set,
\* so that the block may be cut (or not be sent at all).
WriteData(c) ==
    /\ th[c] = "data" /\ up
    /\ \/ Write(Item("block", cnt[c], buf[c]))
       \/ ver[c] = 1 /\ Write(Item("cut", cnt[c], buf[c]))
    /\ th' = [th EXCEPT ![c] = "reply"]
    /\ UNCHANGED <<ring, put, connfd, conn, ver, cver, info1, buf, cnt, scl, replies>>

\* A fault: the reply is not waited for.
ReadReply_NoWait(c) ==
    /\ th[c] = "reply" /\ up
    /\ th' = [th EXCEPT ![c] = "get"]
    /\ buf' = [buf EXCEPT ![c] = NoBlk]
    /\ cnt' = [cnt EXCEPT ![c] = @ + 1]
    /\ UNCHANGED <<ring, put, connfd, conn, ver, cver, info1, scl, replies, got, up>>

\* The reply is read from the current connection, even if what comes there is the info1
\* of a new client.  On an error the thread goes on with the next block; at end of file
\* read returns 0 and the loop goes on for ever: no step.
ReadReply(c) ==
    /\ th[c] = "reply" /\ up
    /\ \/ /\ connfd \in info1
          /\ info1' = info1 \ {connfd}
          /\ UNCHANGED replies
       \/ /\ connfd \notin info1 /\ replies[connfd] > 0
          /\ replies' = [replies EXCEPT ![connfd] = @ - 1]
          /\ UNCHANGED info1
       \/ conn[connfd] = "closed" /\ UNCHANGED <<replies, info1>>
    /\ th' = [th EXCEPT ![c] = "get"]
    /\ buf' = [buf EXCEPT ![c] = NoBlk]
    /\ cnt' = [cnt EXCEPT ![c] = @ + 1]
    /\ UNCHANGED <<ring, put, connfd, conn, ver, cver, scl, got, up>>

-----------------------------------------------------------------------------
\* The client answers every block it has got in full, ...
Blocks(s) == LET IsBlock(x) == x.what # "header" IN SelectSeq(s, IsBlock)

VARIABLE acked    \* per connection: replies the client has sent

Reply(c) ==
    /\ conn[c] = "open"
    /\ acked[c] < Len(Blocks(got[c]))
    /\ acked' = [acked EXCEPT ![c] = @ + 1]
    /\ replies' = [replies EXCEPT ![c] = @ + 1]
    /\ UNCHANGED <<ring, put, connfd, conn, threadVars, cver, info1, got, up>>

\* ... or goes away.
Close(c) ==
    /\ conn[c] = "open"
    /\ conn' = [conn EXCEPT ![c] = "closed"]
    /\ UNCHANGED <<ring, put, connfd, threadVars, cver, info1, replies, got, up, acked>>

collect_tcp(c) ==
    Hello(c) \/ GetBlock(c) \/ WriteHeader(c) \/ WriteData(c) \/ ReadReply(c)

SendNext ==
    \/ (PutBlock \/ \E c \in Clients : collect_tcp_serv(c) \/ collect_tcp(c)) /\ UNCHANGED acked
    \/ \E c \in Clients : Reply(c) \/ Close(c)

allVars == <<sendVars, acked>>

SendSpec == SendInit /\ acked = [c \in Clients |-> 0] /\ [][SendNext]_allVars

-----------------------------------------------------------------------------
\* The type of the sender's state.
SendTypeOK ==
    /\ Len(ring) <= MaxQueNum /\ put \in 0 .. MaxBlocks
    /\ connfd \in Clients \cup {None}
    /\ \A c \in Clients :
         /\ conn[c] \in {None, "open", "closed"}
         /\ th[c] \in {None, "hello", "get", "header", "data", "reply", "gone"}
         /\ ver[c] \in 1 .. 3 /\ cver[c] \in 1 .. 3 /\ cnt[c] \in 0 .. MaxBlocks /\ scl[c] \in 0 .. 65535
         /\ replies[c] \in Nat /\ acked[c] \in 0 .. MaxBlocks
    /\ up \in BOOLEAN

SeqNos(s) == [k \in DOMAIN s |-> s[k].blk.seq]

\* There was no second connection: connfd is still the descriptor of the first.
Alone(c) == \A d \in Clients : conn[d] # None => d = c

\* Nothing is lost on a connection that is open and the only one: what was put is what the
\* client got, what is in the thread's hand, and what is still in the ring.
Accounted ==
    \A c \in Clients : conn[c] = "open" /\ Alone(c) =>
      SeqNos(Blocks(got[c]))
        \o (IF th[c] \in {"header", "data"} THEN <<buf[c].seq>> ELSE << >>)
        \o [k \in DOMAIN ring |-> ring[k].seq] = [k \in 1 .. put |-> k]

\* Where block n is: on which connection and at which place, or in the hand of which thread.
Places(n) ==
    {<<c, k>> \in Clients \X (1 .. 2 * MaxBlocks) : k \in DOMAIN got[c] /\ got[c][k].blk.seq = n}
    \cup {<<c, "hand">> : c \in {d \in Clients : th[d] \in {"header", "data"} /\ buf[d].seq = n}}
    \cup {<<"ring", k>> : k \in {j \in DOMAIN ring : ring[j].seq = n}}

\* With several connections a block goes to any one of them, but to one only; none is lost
\* while no client has closed.
SharedOut ==
    \A n \in 1 .. put :
      /\ Cardinality(Places(n)) <= 1
      /\ Places(n) = {} => \E c \in Clients : conn[c] = "closed"

\* On the wire a version 2 client, if its is the only connection, sees header and block by turns,
\* the header with the "total count of the sent blocks" (router.h).
HeaderCounts ==
    \A c \in Clients : cver[c] = 2 /\ Alone(c) => \A k \in DOMAIN got[c] :
      IF k % 2 = 1 THEN got[c][k] = Item("header", k \div 2, NoBlk)
                   ELSE got[c][k].what = "block"

\* The scaler blocks of every run are numbered from 0, on the only connection.
ScalerNumbers ==
    \A c \in Clients : Alone(c) => LET b == Blocks(got[c]) IN
      \A k \in DOMAIN b : b[k].blk.kind = "scaler" =>
        LET Since == {j \in 1 .. k - 1 : b[j].blk.kind = "scaler"
                                         /\ \A i \in j .. k : b[i].blk.kind # "end"}
        IN  b[k].blk.num = Cardinality(Since)

\* The sender waits for the reply to a block before it sends the next one; each thread that
\* writes to a connection may be one block ahead.
OneAhead ==
    \A c \in Clients : Len(Blocks(got[c])) <= acked[c] + Cardinality({d \in Clients : conn[d] # None})
=============================================================================
