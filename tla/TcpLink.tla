------------------------------ MODULE TcpLink ------------------------------
(***************************************************************************)
(* One connection of the network tools (router/tools): a server that sends *)
(* blocks, router_tcp (a child process, from a router or from a .bld file) *)
(* or tcp_send (from a growing file), and one of the programs that receive *)
(* them.  The protocol is                                                  *)
(*                                                                         *)
(*     client  info1 -->            version, router, mode                  *)
(*             <-- info2            result, block size (version 1)         *)
(*             <-- info3, block     (version 1: a block of BlkSize)        *)
(*             reply -->            0, or -1 to give up                    *)
(*                                                                         *)
(* tcp_router and tcp_save send PreAcks replies in advance, so the server  *)
(* runs that many blocks ahead of them.                                    *)
(*                                                                         *)
(* The stream to the client is a sequence of units.  A header (info2,      *)
(* info3) is two units, of which the first has the fields; a block of size *)
(* s is s units.  A read takes the units that are there, so what the       *)
(* server writes in pieces is read in pieces.                              *)
(***************************************************************************)
EXTENDS Integers, Sequences, SequencesExt, FiniteSetsExt, TLC

CONSTANTS
    Server,        \* a name in DOMAIN Servers
    Program,       \* the client: a name in DOMAIN Profiles
    FromFile,      \* the client asks for a .bld file (tcp_cat)
    Sizes,         \* bound: sizes of the blocks of the source (of tcp_send: how many)
    BlkSize,       \* the fixed block size of version 1
    Limit,         \* 0x100000: the largest size tcp_router believes
    PreAcks,       \* 20: replies sent in advance
    SockBuf,       \* units that fit between the two processes
    SplitHeaders,  \* whether a header may arrive in two pieces
    Faults         \* subset of FaultKinds: what may go wrong

FaultKinds == {"refuse", "interrupt", "kill client", "kill server", "source", "sink"}

VARIABLES
    sp, cp,        \* where the server and the client are
    sNet, cNet,    \* what each of them sees of the connection
    s2c, c2s,      \* units, and replies (or info1), on their way
    wbuf,          \* what the server still has to write of its message
    blk,           \* number of the block the server took from its source
    mem,           \* the block buffer of tcp_send, which is never cleared
    held,          \* the server has a buffer of the router
    reply,         \* the server's variable of that name
    released,      \* blocks the server is done with
    hdr, count,    \* the client's header struct and its count
    data,          \* what the client has read of the block
    want,          \* its bufsize
    out,           \* the blocks it has passed on
    ahead          \* replies it still sends in advance

netVars == <<sNet, cNet, s2c, c2s>>
srvVars == <<sp, wbuf, blk, mem, held, reply, released>>
cliVars == <<cp, hdr, count, data, want, out, ahead>>
linkVars == <<netVars, srvVars, cliVars>>

-----------------------------------------------------------------------------
(* What distinguishes the clients.
     ver          the version they ask for
     pre          whether they acknowledge in advance
     adv2, adv3   whether a second read of info2, info3 continues behind the first
     eof3, eofD   what end of file does while info3, or a block, is read:
                  "leave" the loop, "spin" (read again), "keep" what is there
                  "stale", go on with the header of the block before
     skip0        whether no block is read when the size is 0
     sink         whether blocks go to a router
     fixed        whether every block that is passed on has BlkSize units, and
                  what is done with another size: "pad", or "force" it to be BlkSize *)
tcp_router_open == [ver |-> 2, pre |-> TRUE, adv2 |-> FALSE]
tcp_router_loop == [adv3 |-> TRUE, eof3 |-> "spin", eofD |-> "spin", skip0 |-> TRUE, sink |-> TRUE]

tcp_save_open == [ver |-> 2, pre |-> TRUE, adv2 |-> TRUE]
tcp_save_loop == [adv3 |-> TRUE, eof3 |-> "spin", eofD |-> "keep", skip0 |-> FALSE, sink |-> FALSE]

tcp_cat_open == [ver |-> 2, pre |-> FALSE, adv2 |-> FALSE]
tcp_cat_loop == [adv3 |-> FALSE, eof3 |-> "leave", eofD |-> "leave", skip0 |-> FALSE, sink |-> FALSE]

tcp_dump_open == [ver |-> 2, pre |-> FALSE, adv2 |-> FALSE]
tcp_dump_loop == [adv3 |-> FALSE, eof3 |-> "leave", eofD |-> "leave", skip0 |-> FALSE, sink |-> FALSE]

\* tcplib, used by tcp_read: what was read of a block is a block, unless nothing was.
tcp_open == [ver |-> 1, pre |-> FALSE, adv2 |-> FALSE]
tcp_get_buf == [adv3 |-> FALSE, eof3 |-> "leave", eofD |-> "keep", skip0 |-> FALSE, sink |-> FALSE]

tcp_cat_v1 == [ver |-> 1, pre |-> FALSE, adv2 |-> FALSE, adv3 |-> FALSE,
               eof3 |-> "leave", eofD |-> "leave", skip0 |-> FALSE, sink |-> FALSE]

\* tcp_router before version 3.
tcp_router_2010_open == [ver |-> 2, pre |-> TRUE, adv2 |-> FALSE]
tcp_router_2010_loop == [adv3 |-> TRUE, eof3 |-> "stale", eofD |-> "keep", skip0 |-> FALSE, sink |-> TRUE,
                         fixed |-> "pad"]

tcp_router_2011_open == [ver |-> 2, pre |-> TRUE, adv2 |-> FALSE]
tcp_router_2011_loop == [adv3 |-> TRUE, eof3 |-> "stale", eofD |-> "keep", skip0 |-> FALSE, sink |-> TRUE,
                         fixed |-> "force"]

Profiles == [tcp_router |-> tcp_router_open @@ tcp_router_loop,
             tcp_save   |-> tcp_save_open @@ tcp_save_loop,
             tcp_cat    |-> tcp_cat_open @@ tcp_cat_loop,
             tcp_dump   |-> tcp_dump_open @@ tcp_dump_loop,
             tcp_read   |-> tcp_open @@ tcp_get_buf,
             tcp_cat_v1 |-> tcp_cat_v1,
             tcp_router_2010 |-> tcp_router_2010_open @@ tcp_router_2010_loop,
             tcp_router_2011 |-> tcp_router_2011_open @@ tcp_router_2011_loop]

P == Profiles[Program] @@ [fixed |-> "no"]

(* What distinguishes the servers.
     speaks   the versions they know
     source   where blocks come from
     files    whether .bld files are sent
     warns    whether a client of another version is served all the same      *)
router_tcp == [speaks |-> {1, 2}, source |-> "router", files |-> TRUE, warns |-> FALSE]

router_tcp_bak_open == [speaks |-> {1, 2}, files |-> FALSE, warns |-> FALSE]
router_tcp_bak_loop == [source |-> "router"]

tcp_send == [speaks |-> {1}, source |-> "stream", files |-> FALSE, warns |-> FALSE]

tcp_send_2014_open == [files |-> FALSE]
tcp_send_2014_loop == [speaks |-> {2}, source |-> "stream", warns |-> TRUE]

Servers == [router_tcp |-> router_tcp, router_tcp_bak |-> router_tcp_bak_open @@ router_tcp_bak_loop,
            tcp_send |-> tcp_send, tcp_send_2014 |-> tcp_send_2014_open @@ tcp_send_2014_loop]

S == Servers[Server]

-----------------------------------------------------------------------------
(* Units *)
Unit(t, n, k) == [t |-> t, n |-> n, k |-> k]
Header(t, n, rest) == <<Unit(t, n, 1), Unit(t, rest, 2)>>
Block(n, s) == [k \in 1 .. s |-> Unit("data", n, k)]
Zero == Unit("data", 0, 0)
Zeros(s) == [k \in 1 .. s |-> Zero]
Junk == Unit("junk", 0, 0)

E_NOERR == 0
E_VERSION == 1
E_NODEV == 3
Info1 == 1            \* in c2s, before any reply
Gone == {"fin", "dead"}

LinkInit ==
    /\ sp = "accept" /\ cp = "open"
    /\ sNet = "up" /\ cNet = "up"
    /\ s2c = << >> /\ c2s = << >>
    /\ wbuf = << >> /\ blk = 0 /\ mem = [k \in 1 .. BlkSize |-> Junk]
    /\ held = FALSE /\ released = 0
    /\ reply \in {0, -1}
    /\ hdr = <<Junk, Junk>> /\ count = 0 /\ data = << >> /\ want = BlkSize
    /\ out = << >> /\ ahead = 0

-----------------------------------------------------------------------------
(* The connection, as either side sees it: "up"; "fin", the other side has *)
(* closed it and has read everything; "rst", it closed with data unread;   *)
(* "dead", the reset was reported.  A write after "fin" is lost and brings *)
(* a reset back; on "rst" the call fails; on "dead" it raises SIGPIPE.     *)
SawClose(net, unread) ==
    IF net = "up" THEN IF unread THEN "rst" ELSE "fin" ELSE net

\* The server's socket is closed.  If replies are unread the connection is reset, and
\* of the units on their way only some have arrived.
SrvClose ==
    /\ sp' = "closed" /\ held' = FALSE
    /\ sNet' = "dead"
    /\ cNet' = SawClose(cNet, c2s # << >>)
    /\ \E k \in 0 .. Len(s2c) : (c2s # << >> \/ k = Len(s2c)) /\ s2c' = SubSeq(s2c, 1, k)
    /\ c2s' = << >> /\ wbuf' = << >>

CliClose ==
    /\ cp' = "closed"
    /\ cNet' = "dead"
    /\ sNet' = SawClose(sNet, s2c # << >>)
    /\ s2c' = << >>
    /\ UNCHANGED c2s

-----------------------------------------------------------------------------
(* The server *)

\* The loop of the parent process: a connection is accepted, a child serves it.
AcceptLoop ==
    /\ sp = "accept" /\ cp # "open"
    /\ sp' = "info1"
    /\ UNCHANGED <<netVars, wbuf, blk, mem, held, reply, released, cliVars>>

\* info1 is read; a client that is gone ends the process.
ReadInfo1 ==
    /\ sp = "info1"
    /\ \/ /\ c2s # << >>
          /\ c2s' = Tail(c2s)
          /\ sp' = "connect"
          /\ UNCHANGED <<sNet, cNet, s2c, wbuf, held>>
       \/ /\ c2s = << >> /\ sNet # "up"
          /\ SrvClose
    /\ UNCHANGED <<blk, mem, reply, released, cliVars>>

VersionOK == P.ver \in S.speaks

\* Without files ".bld" is the name of a router nobody has.
NoDevice == S.source = "router" /\ IF FromFile THEN ~S.files ELSE "refuse" \in Faults

\* Refused: only info2.result is set, the rest is what was on the stack.
Refuse ==
    /\ sp = "connect"
    /\ (~VersionOK /\ ~S.warns) \/ NoDevice
    /\ \E rest \in {0, 9} :
          wbuf' = Header("info2", IF VersionOK THEN E_NODEV ELSE E_VERSION, rest)
    /\ sp' = "refuse"
    /\ UNCHANGED <<netVars, blk, mem, held, reply, released, cliVars>>

\* Accepted: the router is connected (not for a file) and info2 is sent; tcp_send_2014
\* sends a refusal first if it does not know the version.
Accept ==
    /\ sp = "connect"
    /\ VersionOK \/ S.warns
    /\ ~(FromFile /\ NoDevice)
    /\ wbuf' = (IF VersionOK THEN << >> ELSE Header("info2", E_VERSION, 0)) \o Header("info2", E_NOERR, 0)
    /\ sp' = "hello"
    /\ UNCHANGED <<netVars, blk, mem, held, reply, released, cliVars>>

\* What a call of write covers: the units of the same struct or buffer.
SameWrite(u, v) == u.t = v.t /\ (u.t = "data" => u.n = v.n)

\* How much arrives at once.
Piece == IF wbuf[1].t \in {"info2", "info3"} /\ ~SplitHeaders THEN 2 ELSE 1

After == CASE sp = "hello" -> "get" [] sp = "send" -> "reply" [] sp = "last" -> "wait" [] OTHER -> sp

\* A piece of the message leaves.  An error is only reported; SIGPIPE is caught by the
\* handler of router_connect, which disconnects, and ends the process.
SrvWrite ==
    /\ sp \in {"hello", "send", "refuse", "last"} /\ wbuf # << >>
    /\ \/ /\ sNet = "up" /\ Len(s2c) + Piece <= SockBuf
          /\ s2c' = s2c \o SubSeq(wbuf, 1, Piece)
          /\ wbuf' = SubSeq(wbuf, Piece + 1, Len(wbuf))
          /\ sp' = IF wbuf' = << >> THEN After ELSE sp
          /\ UNCHANGED <<sNet, cNet, c2s, held>>
       \/ /\ sNet \in {"fin", "rst"}
          /\ sNet' \in IF sNet = "fin" THEN Gone ELSE {"dead"}
          /\ wbuf' = SelectSeq(wbuf, LAMBDA u : ~SameWrite(u, wbuf[1]))
          /\ sp' = IF wbuf' = << >> THEN After ELSE sp
          /\ UNCHANGED <<cNet, s2c, c2s, held>>
       \/ /\ sNet = "dead"
          /\ SrvClose
    /\ UNCHANGED <<blk, mem, reply, released, cliVars>>

\* After a refusal the connection is closed.
RefuseDone ==
    /\ sp = "refuse" /\ wbuf = << >>
    /\ SrvClose
    /\ UNCHANGED <<blk, mem, reply, released, cliVars>>

\* What is written for block n of size s.  Version 1 always sends BlkSize units.
Message(n, s) ==
    IF P.ver = 2 THEN Header("info3", s, 0) \o Block(n, s)
    ELSE IF s > BlkSize THEN Block(n, BlkSize) ELSE Block(n, s) \o Zeros(BlkSize - s)

\* A block is taken from the router or read from the file.
GetBlock ==
    /\ sp = "get" /\ S.source = "router"
    /\ blk < Len(Sizes)
    /\ blk' = blk + 1
    /\ held' = ~FromFile
    /\ wbuf' = Message(blk + 1, Sizes[blk + 1])
    /\ sp' = "send"
    /\ UNCHANGED <<netVars, mem, reply, released, cliVars>>

\* The file ends, or is damaged; the router is gone.
SourceEnds ==
    /\ sp = "get" /\ S.source = "router"
    /\ (FromFile /\ blk = Len(Sizes)) \/ "source" \in Faults
    /\ SrvClose
    /\ UNCHANGED <<blk, mem, reply, released, cliVars>>

\* tcp_send, get_buf: the file may end (for now) anywhere, and then the function returns
\* before it reaches the loop that clears the rest of the buffer.
get_buf ==
    /\ sp = "get" /\ Server = "tcp_send"
    /\ \/ /\ blk < Len(Sizes)
          /\ \E s \in 1 .. BlkSize :
                mem' = [k \in 1 .. BlkSize |-> IF k <= s THEN Unit("data", blk + 1, k) ELSE mem[k]]
          /\ blk' = blk + 1
          /\ wbuf' = mem' /\ sp' = "send"
          /\ UNCHANGED <<netVars, held>>
       \/ SrvClose /\ UNCHANGED <<blk, mem>>
    /\ UNCHANGED <<reply, released, cliVars>>

\* tcp_send of 2014 sends a header and as much as there is, and a header with size 0 at
\* the end, for which it expects no reply: it waits until the client closes.
get_buf_2014 ==
    /\ sp = "get" /\ Server = "tcp_send_2014"
    /\ \/ /\ blk < Len(Sizes)
          /\ blk' = blk + 1
          /\ \E s \in 1 .. BlkSize : wbuf' = Header("info3", s, 0) \o Block(blk + 1, s)
          /\ sp' = "send"
       \/ /\ wbuf' = Header("info3", 0, 0)
          /\ sp' = "last" /\ UNCHANGED blk
    /\ UNCHANGED <<netVars, mem, held, reply, released, cliVars>>

\* Anything that is read, the end of file too, ends the wait.
WaitForClose ==
    /\ sp = "wait" /\ (c2s # << >> \/ sNet # "up")
    /\ SrvClose
    /\ UNCHANGED <<blk, mem, reply, released, cliVars>>

\* The reply is read.  On an error the loop is left and reply keeps its value; at end
\* of file read returns 0 for ever (SrvSpins).  Then the block is released, or after a
\* negative reply (version 2) the router is disconnected and the process ends.
ReadReply ==
    /\ sp = "reply"
    /\ \/ c2s # << >> /\ reply' = c2s[1] /\ sNet' = sNet /\ c2s' = Tail(c2s)
       \/ c2s = << >> /\ sNet = "rst" /\ UNCHANGED <<reply, c2s>> /\ sNet' = "dead"
    /\ IF reply' = 0 \/ P.ver = 1 \/ S.source = "stream"
         THEN /\ held' = FALSE /\ released' = released + 1 /\ sp' = "get"
              /\ UNCHANGED <<cNet, s2c, wbuf>>
         ELSE /\ held' = FALSE /\ sp' = "closed" /\ wbuf' = << >>
              /\ cNet' = SawClose(cNet, c2s' # << >>)
              /\ UNCHANGED <<s2c, released>>
    /\ UNCHANGED <<blk, mem, cliVars>>

SrvSpins ==
    /\ sp = "reply" /\ c2s = << >> /\ sNet \in Gone
    /\ UNCHANGED linkVars

\* The server is killed; between writes, or in the middle of one.
SrvKilled ==
    /\ "kill server" \in Faults /\ sp \notin {"accept", "closed"}
    /\ SrvClose
    /\ UNCHANGED <<blk, mem, reply, released, cliVars>>

-----------------------------------------------------------------------------
(* The client *)

\* The client connects and sends info1.
Connect ==
    /\ cp = "open"
    /\ cp' = "info2"
    /\ c2s' = <<Info1>>
    /\ UNCHANGED <<sNet, cNet, s2c, srvVars, hdr, count, data, want, out, ahead>>

Available(n) == SubSeq(s2c, 1, Min({n, Len(s2c)}))

\* The header after a read of the units us: a read that does not advance writes over
\* what is there.
Placed(us, adv) ==
    LET base == IF adv THEN count ELSE 0
    IN  [i \in 1 .. 2 |-> IF i \in base + 1 .. base + Len(us) THEN us[i - base] ELSE hdr[i]]

\* A header is read, as far as it has arrived.
ReadHeader(adv) ==
    LET us == Available(2 - count)
    IN  /\ us # << >>
        /\ hdr' = Placed(us, adv)
        /\ count' = count + Len(us)
        /\ s2c' = SubSeq(s2c, Len(us) + 1, Len(s2c))

AtEof == s2c = << >> /\ cNet \in Gone
AtReset == s2c = << >> /\ cNet = "rst"

Info2Adv == P.adv2

\* info2 is read: an error reply, end of file or a reset end the program.
ReadInfo2 ==
    /\ cp = "info2"
    /\ \/ /\ ReadHeader(Info2Adv)
          /\ count' < 2
          /\ UNCHANGED <<cp, cNet, sNet, c2s, want, ahead>>
       \/ /\ ReadHeader(Info2Adv)
          /\ count' = 2 /\ hdr'[1].n = E_NOERR
          /\ want' = IF hdr'[1].k = 1 THEN BlkSize ELSE 0
          /\ ahead' = IF P.pre THEN PreAcks ELSE 0
          /\ cp' = "ahead"
          /\ UNCHANGED <<cNet, sNet, c2s>>
       \/ /\ s2c # << >> /\ LET us == Available(2 - count)
                            IN  count + Len(us) = 2 /\ Placed(us, Info2Adv)[1].n # E_NOERR
          /\ CliClose
          /\ UNCHANGED <<hdr, count, want, ahead>>
       \/ /\ AtEof \/ AtReset
          /\ CliClose
          /\ UNCHANGED <<hdr, count, want, ahead>>
    /\ UNCHANGED <<srvVars, data, out>>

\* A reply is written: lost if the server is gone, and then the connection is reset.
CliWrite ==
    /\ cNet \in {"up", "fin"}
    /\ c2s' = IF cNet = "up" THEN Append(c2s, 0) ELSE c2s
    /\ cNet' = IF cNet = "up" THEN "up" ELSE "dead"
    /\ UNCHANGED <<sNet, s2c>>

\* A write on a connection that was reset ends the program.
CliWriteFails ==
    /\ cp \in {"ahead", "ack"} /\ cNet \in {"rst", "dead"}
    /\ cp = "ahead" => ahead > 0
    /\ CliClose
    /\ UNCHANGED <<srvVars, hdr, count, data, want, out, ahead>>

\* The start of the loop over the blocks; version 1 has no header.
Loop == IF P.ver = 2 THEN "info3" ELSE "data"

SendAhead ==
    /\ cp = "ahead"
    /\ IF ahead > 0 THEN CliWrite /\ ahead' = ahead - 1 /\ UNCHANGED cp
                    ELSE cp' = Loop /\ UNCHANGED <<netVars, ahead>>
    /\ count' = 0 /\ hdr' = <<Junk, Junk>>
    /\ UNCHANGED <<srvVars, data, want, out>>

Info3Adv == P.adv3

\* The block size a client takes from info3; junk may be anything.  tcp_router does not
\* believe a size above Limit and goes on with a small one.
SizesIn(h) == IF h.t = "info3" /\ h.k = 1 THEN {h.n} ELSE 0 .. Limit
BufSize(s) == CASE P.fixed = "force" -> BlkSize
                [] P.fixed = "pad" -> s
                [] OTHER -> IF P.sink /\ s > Limit THEN 1 ELSE s

ReadInfo3 ==
    /\ cp = "info3"
    /\ \/ /\ ReadHeader(Info3Adv)
          /\ IF count' < 2 THEN UNCHANGED <<cp, want>>
             ELSE \E s \in SizesIn(hdr'[1]) :
                     /\ want' = BufSize(s)
                     /\ cp' = IF want' = 0 /\ P.skip0 THEN "ack"
                              ELSE IF P.sink THEN "request" ELSE "data"
          /\ UNCHANGED <<cNet, sNet, c2s>>
       \/ /\ AtEof /\ P.eof3 = "stale"
          /\ \E s \in SizesIn(hdr[1]) : want' = BufSize(s)
          /\ cp' = "request"
          /\ UNCHANGED <<netVars, hdr, count>>
       \/ /\ AtReset \/ (AtEof /\ P.eof3 = "leave")
          /\ CliClose
          /\ UNCHANGED <<hdr, count, want>>
    /\ UNCHANGED <<srvVars, data, out, ahead>>

\* tcp_router asks its router for a buffer and waits for it; an error leaves the loop.
RequestBuf ==
    /\ cp = "request"
    /\ \/ (P.fixed = "pad" => want <= BlkSize) /\ cp' = "data" /\ UNCHANGED netVars
       \/ /\ "sink" \in Faults \/ (P.fixed = "pad" /\ want > BlkSize)
          /\ CliClose
    /\ UNCHANGED <<srvVars, hdr, count, data, want, out, ahead>>

EofInBlock == P.eofD

\* The block is read.  A read of no bytes (want is 0) returns 0 like end of file.
ReadBlock ==
    /\ cp = "data"
    /\ LET us == Available(want - Len(data))
           eof == AtEof \/ want = 0
           closes == \/ AtReset /\ want # 0
                     \/ eof /\ EofInBlock = "leave"
                     \/ eof /\ EofInBlock = "keep" /\ P.ver = 1 /\ data = << >>
       IN  \/ /\ us # << >>
              /\ data' = data \o us
              /\ s2c' = SubSeq(s2c, Len(us) + 1, Len(s2c))
              /\ cp' = IF Len(data') = want THEN "output" ELSE cp
              /\ UNCHANGED <<sNet, cNet, c2s>>
           \/ /\ us = << >> /\ closes
              /\ CliClose /\ UNCHANGED data
           \/ /\ us = << >> /\ eof /\ ~closes /\ EofInBlock = "keep"
              /\ cp' = "output" /\ UNCHANGED <<netVars, data>>
    /\ UNCHANGED <<srvVars, hdr, count, want, out, ahead>>

\* End of file while tcp_router or tcp_save reads: it reads again, for ever.
CliSpins ==
    /\ AtEof
    /\ (cp = "info3" /\ P.eof3 = "spin") \/ (cp = "data" /\ EofInBlock = "spin")
    /\ UNCHANGED linkVars

Padded(b) == IF P.fixed = "no" THEN b ELSE b \o Zeros(BlkSize - Len(b))

\* The block, want units of it, goes to the file, the terminal or the local router.
Output ==
    /\ cp = "output"
    /\ out' = Append(out, Padded(data \o [k \in 1 .. want - Len(data) |-> Junk]))
    /\ cp' = "ack"
    /\ UNCHANGED <<netVars, srvVars, hdr, count, data, want, ahead>>


\* A fault: no reply is sent.
Acknowledge_Not ==
    /\ cp = "ack"
    /\ cp' = Loop /\ count' = 0 /\ data' = << >>
    /\ UNCHANGED <<netVars, srvVars, hdr, want, out, ahead>>

Acknowledge ==
    /\ cp = "ack"
    /\ CliWrite
    /\ cp' = Loop /\ count' = 0 /\ data' = << >>
    /\ UNCHANGED <<srvVars, hdr, want, out, ahead>>

\* tcp_cat is interrupted while it receives: its handler sends -1 and shuts the
\* connection down (so the server sees an end of file even if data are unread).
Interrupted ==
    /\ "interrupt" \in Faults /\ Program = "tcp_cat"
    /\ cp \in {"info3", "data", "output", "ack"}
    /\ cp' = "closed" /\ cNet' = "dead"
    /\ sNet' \in IF sNet = "up" THEN Gone ELSE {sNet}
    /\ s2c' = << >>
    /\ c2s' = IF sNet = "up" THEN Append(c2s, -1) ELSE c2s
    /\ UNCHANGED <<srvVars, hdr, count, data, want, out, ahead>>

\* The client is killed by a signal it does not catch.
CliKilled ==
    /\ "kill client" \in Faults /\ cp \notin {"open", "closed"}
    /\ CliClose
    /\ UNCHANGED <<srvVars, hdr, count, data, want, out, ahead>>

-----------------------------------------------------------------------------
SrvStep == \/ AcceptLoop \/ ReadInfo1 \/ Refuse \/ Accept \/ SrvWrite \/ RefuseDone
           \/ GetBlock \/ get_buf \/ get_buf_2014 \/ WaitForClose \/ ReadReply
CliStep == \/ Connect \/ ReadInfo2 \/ SendAhead \/ CliWriteFails \/ ReadInfo3 \/ RequestBuf
           \/ ReadBlock \/ Output \/ Acknowledge

LinkNext == \/ SrvStep \/ SourceEnds \/ SrvSpins \/ SrvKilled
            \/ CliStep \/ CliSpins \/ Interrupted \/ CliKilled

LinkSpec == LinkInit /\ [][LinkNext]_linkVars

-----------------------------------------------------------------------------
Units == [t : {"info2", "info3", "data", "junk"}, n : Nat, k : Nat]

\* Every variable has its type; the stream never holds more than fits.
LinkTypeOK ==
    /\ sp \in {"accept", "info1", "connect", "refuse", "hello", "get", "send", "reply",
              "last", "wait", "closed"}
    /\ cp \in {"open", "info2", "ahead", "info3", "request", "data", "output", "ack", "closed"}
    /\ {sNet, cNet} \subseteq {"up", "fin", "rst", "dead"}
    /\ s2c \in Seq(Units) /\ Len(s2c) <= SockBuf /\ wbuf \in Seq(Units)
    /\ c2s \in Seq({0, -1, Info1}) /\ reply \in {0, -1}
    /\ held \in BOOLEAN /\ {blk, released, count, want, ahead} \subseteq Nat
    /\ hdr \in Seq(Units) /\ data \in Seq(Units) /\ out \in Seq(Seq(Units))

\* Blocks with something in them, as they are sent.
Sent == [n \in 1 .. Len(Sizes) |->
            IF P.ver = 1 THEN Message(n, Sizes[n])
            ELSE Block(n, Sizes[n]) \o (IF P.fixed = "no" THEN << >> ELSE Zeros(BlkSize - Sizes[n]))]
Passed == SelectSeq(Sent, LAMBDA b : ~(P.skip0 /\ b = << >>))

\* What the client passes on is what the source gave, block by block: nothing missing
\* in the middle, nothing twice, no block cut short or mixed with another one, however
\* the stream is cut into reads and wherever it breaks off.
Faithful == out = SubSeq(Passed, 1, Len(out)) /\ Len(out) <= Len(Passed)

\* The tcp_router of 2010 and 2011 and tcp_save pass on blocks that nobody sent, but only once the
\* server is gone.
FaithfulWhileUp == sp # "closed" => Faithful

\* tcp_send leaves what was in its buffer before behind the data of a short block; the
\* blocks come in order, and each begins with its own data.
DataFaithful ==
    /\ Len(out) <= Len(Sizes)
    /\ \A b \in 1 .. Len(out) : \E s \in 1 .. BlkSize : \A k \in 1 .. BlkSize :
          IF k <= s THEN out[b][k] = Unit("data", b, k) ELSE out[b][k].n < b

\* While the client lives, the server gives a block back to its source only when the
\* client has passed it on, but for the PreAcks blocks it was told to send ahead: what
\* is lost when the connection breaks is at most those and the one on its way.
Passable == Len(SelectSeq(SubSeq(Sent, 1, released), LAMBDA b : ~(P.skip0 /\ b = << >>)))
Window == cp # "closed" => Passable <= Len(out) + (IF P.pre THEN PreAcks ELSE 0)

\* In version 1 the units of a block behind its data are zero (tcp_send and router_tcp
\* "Always send" a block of the full size).
ZeroPadded ==
    \A b \in 1 .. Len(out) : \A k \in 1 .. Len(out[b]) :
        out[b][k].n # b => out[b][k] = Zero

\* A refused client does not start to wait for blocks.
RefusedKnown == sp = "refuse" => cp \in {"info2", "closed"}
=============================================================================
