----------------------------- MODULE MCProgress -----------------------------
(***************************************************************************)
(* What must eventually happen, on small instances of the modules that say *)
(* something about it, under the fairness each of them assumes.            *)
(*                                                                         *)
(* A behaviour is a behaviour of one instance, which the variable part     *)
(* names; the variables of the other modules stay 0.                       *)
(***************************************************************************)
EXTENDS Integers, Sequences, FiniteSets, TLC

CONSTANT Parts   \* the instances to check

VARIABLES
    part,
    \* RingBuf, and with Vmedaq
    slot, start_idx, num_full, st, arg,
    val,
    \* GrReadout
    setup, cmd, mb, status, dpc, cmb, i_buf, p_buf, lrm, ff, avail, veto, bank, event, log,
    \* GrSend, and with GrReadout
    put, connfd, conn, th, ver, cver, info1, scl, replies, up, acked,
    ring,
    \* TcpLink
    sp, sNet, cNet, s2c, c2s, wbuf, mem, held, reply, released, hdr, count, data, ahead,
    \* Vmedaq, and with TcpLink
    crate, latch, ctr, meb, k, nd, scaler, work, hwork, sd, stdin, peer, sink, local, conns, periods,
    hups, inhibit, mark, triggers, fifo,
    blk,
    \* CheckFormat, and with others
    ptr, hd, te, num, err, blk_num, tab, hurt, seen,
    cnt, pc, todo, buf,
    \* V1190Micro, and with others
    in, setting, prog, before, warned,
    want, got, runs,
    \* TdcCheck, and with others
    lost, mode, geometrical_address, ev, said, geo, wire_hits, read, shown, event_count,
    out, hits,
    \* RouterLife, and with others
    may, obj, msgs, id, rflag, lists, starts, calls, cid, left, robbed,
    made, cp

-----------------------------------------------------------------------------
(* The instances *)

Ring == INSTANCE RingBuf WITH
    Producers <- {"p1"}, Consumers <- {"c1"}, Data <- {1, 2}, MaxQueNum <- 2

Collector == [Ctrl |-> {"c1"}, Runs |-> {3}, Garbage |-> {0}, MAX_LRM_NUM |-> 2, Full |-> 1,
              FastBanks |-> FALSE, max_que_num |-> 1, MaxEvents |-> 2, MaxRuns |-> 1,
              Version |-> "3.0"]

Gr == INSTANCE GrReadout WITH Setups <- {Collector}

Send == INSTANCE GrSend WITH Clients <- {"k1"}, MaxBlocks <- 2, MaxQueNum <- 2

Link(c) == INSTANCE TcpLink WITH
    Server <- c.Server, Program <- c.Program, FromFile <- c.FromFile, Sizes <- c.Sizes,
    BlkSize <- 2, Limit <- 3, PreAcks <- 2, SockBuf <- c.SockBuf,
    SplitHeaders <- c.SplitHeaders, Faults <- c.Faults

LinkParts ==
    [tcp_router    |-> [Server |-> "router_tcp", Program |-> "tcp_router", FromFile |-> FALSE,
                        Sizes |-> <<2, 0, 3, 1, 1>>, SockBuf |-> 3, SplitHeaders |-> TRUE,
                        Faults |-> {}],
     tcp_cat       |-> [Server |-> "router_tcp", Program |-> "tcp_cat", FromFile |-> FALSE,
                        Sizes |-> <<1, 3, 2>>, SockBuf |-> 4, SplitHeaders |-> FALSE,
                        Faults |-> {"interrupt", "source", "kill client"}],
     tcp_cat_file  |-> [Server |-> "router_tcp", Program |-> "tcp_cat", FromFile |-> TRUE,
                        Sizes |-> <<3, 1, 2, 1, 3>>, SockBuf |-> 6, SplitHeaders |-> FALSE,
                        Faults |-> {}],
     tcp_send_2014 |-> [Server |-> "tcp_send_2014", Program |-> "tcp_cat", FromFile |-> FALSE,
                        Sizes |-> <<1, 3, 2>>, SockBuf |-> 4, SplitHeaders |-> FALSE,
                        Faults |-> {}]]

Crate == [Tdcs |-> <<"t1">>, Madcs |-> <<"a1">>, Mqdcs |-> <<>>, MyRIAD |-> <<>>,
          Version |-> "2020", Net |-> TRUE, Dma |-> FALSE, NScalers |-> 1, Hits0 |-> 0,
          Level |-> 2, BadHandshake |-> FALSE, DiskRecovers |-> FALSE,
          MaxTriggers |-> 2, MaxPeriodic |-> 2, MaxConns |-> 1, MaxHups |-> 0]

Vme == INSTANCE Vmedaq WITH Crates <- {Crate}

Format == INSTANCE DataFormat WITH
    Checker <- "check_format_lib", NumMax <- 8, MaxMods <- 4, NCh <- 2

FormatStreams == Format!Structured \cup Format!NoEmpty

Check == INSTANCE CheckFormat WITH
    Checker <- "check_format_lib", Streams <- FormatStreams, Damage <- {"zero", "header"},
    Fill <- 0, NumMax <- 8, ShowEvery <- 1, Cap <- 12, MaxMods <- 4, NCh <- 2

\* Two programs at the same board, which come into each other's way.
Micro == INSTANCE V1190Micro WITH
    Procs <- {"p1", "p2"}, MaxRuns <- 2, Quick <- FALSE,
    Progs <- {"v1190_read_head_trailer", "o_MH", "o_init"}

Tdc == INSTANCE TdcCheck WITH
    Tool <- "check", Loop <- FALSE, Heads <- TRUE, Geo <- 5, NTdc <- 2, MaxHits <- 2,
    MaxEvents <- 2, MaxLost <- 0, FirstEvent <- 0, CountMod <- 8, IdMod <- 2, OutputSize <- 12,
    MaxWords <- 24

\* Two routers, one after the other; the second may remove what it finds.
Life == INSTANCE RouterLife WITH
    Routers <- {"r1", "r2"}, Clients <- {"c1"}, MaxStarts <- 2, MaxCalls <- 2,
    Scenarios <- {{"-r"}}

-----------------------------------------------------------------------------
(* One instance at a time *)

Links == DOMAIN LinkParts

ringVars  == <<slot, start_idx, num_full, st, arg>>
grVars    == <<setup, cmd, mb, status, dpc, cmb, i_buf, p_buf, lrm, ff, avail, veto, bank, event, log>>
sendVars  == <<put, connfd, conn, th, ver, cver, info1, scl, replies, up, acked>>
linkVars  == <<sp, sNet, cNet, s2c, c2s, wbuf, mem, held, reply, released, hdr, count, data, ahead>>
vmeVars   == <<crate, latch, ctr, meb, k, nd, scaler, work, hwork, sd, stdin, peer, sink, local, conns,
               periods, hups, inhibit, mark, triggers, fifo>>
checkVars == <<ptr, hd, te, num, err, blk_num, tab, hurt, seen>>
microVars == <<in, setting, prog, before, warned>>
lifeVars  == <<may, obj, msgs, id, rflag, lists, starts, calls, cid, left, robbed>>
tdcVars   == <<lost, mode, geometrical_address, ev, said, geo, wire_hits, read, shown, event_count>>

vars == <<part, ringVars, val, grVars, sendVars, ring, linkVars, vmeVars, blk, checkVars, cnt, pc,
          todo, buf, microVars, want, got, runs, tdcVars, out, hits, lifeVars, made, cp>>

Unused ==
    /\ IF part = "ring" THEN TRUE ELSE
          slot = 0 /\ start_idx = 0 /\ num_full = 0 /\ st = 0 /\ arg = 0
    /\ IF part = "gr" THEN TRUE ELSE
          /\ setup = 0 /\ cmd = 0 /\ mb = 0 /\ status = 0 /\ dpc = 0 /\ cmb = 0 /\ i_buf = 0 /\ p_buf = 0
          /\ lrm = 0 /\ ff = 0 /\ avail = 0 /\ veto = 0 /\ bank = 0 /\ event = 0 /\ log = 0
    /\ IF part = "send" THEN TRUE ELSE
          /\ put = 0 /\ connfd = 0 /\ conn = 0 /\ th = 0 /\ ver = 0 /\ cver = 0 /\ info1 = 0
          /\ scl = 0 /\ replies = 0 /\ up = 0 /\ acked = 0
    /\ IF part \in Links THEN TRUE ELSE
          /\ sp = 0 /\ sNet = 0 /\ cNet = 0 /\ s2c = 0 /\ c2s = 0 /\ wbuf = 0
          /\ mem = 0 /\ held = 0 /\ reply = 0 /\ released = 0 /\ hdr = 0 /\ count = 0 /\ data = 0
          /\ ahead = 0
    /\ IF part = "vme" THEN TRUE ELSE
          /\ crate = 0 /\ latch = 0 /\ ctr = 0 /\ meb = 0 /\ k = 0 /\ nd = 0 /\ scaler = 0 /\ work = 0
          /\ hwork = 0 /\ sd = 0 /\ stdin = 0 /\ peer = 0 /\ sink = 0 /\ local = 0 /\ conns = 0
          /\ periods = 0 /\ hups = 0 /\ inhibit = 0 /\ mark = 0 /\ triggers = 0 /\ fifo = 0
    /\ IF part = "check" THEN TRUE ELSE
          /\ ptr = 0 /\ hd = 0 /\ te = 0 /\ num = 0 /\ err = 0 /\ blk_num = 0 /\ tab = 0
          /\ hurt = 0 /\ seen = 0
    /\ IF part = "micro" THEN TRUE ELSE
          in = 0 /\ setting = 0 /\ prog = 0 /\ before = 0 /\ warned = 0
    /\ IF part = "tdc" THEN TRUE ELSE
          /\ lost = 0 /\ mode = 0 /\ geometrical_address = 0 /\ ev = 0 /\ said = 0
          /\ geo = 0 /\ wire_hits = 0 /\ read = 0 /\ shown = 0 /\ event_count = 0
    /\ IF part = "life" THEN TRUE ELSE
          /\ may = 0 /\ obj = 0 /\ msgs = 0 /\ id = 0 /\ rflag = 0 /\ lists = 0 /\ starts = 0 /\ calls = 0
          /\ cid = 0 /\ left = 0 /\ robbed = 0
    /\ IF part \in {"tdc", "life"} THEN TRUE ELSE made = 0
    /\ IF part \in {"life"} \cup Links THEN TRUE ELSE cp = 0
    /\ IF part \in {"ring", "vme"} THEN TRUE ELSE val = 0
    /\ IF part \in {"gr", "send"} THEN TRUE ELSE ring = 0
    /\ IF part \in {"vme"} \cup Links THEN TRUE ELSE blk = 0
    /\ IF part \in {"send", "check"} THEN TRUE ELSE cnt = 0
    /\ IF part \in {"vme", "check", "life"} THEN TRUE ELSE pc = 0
    /\ IF part \in {"gr", "check", "micro"} THEN TRUE ELSE todo = 0
    /\ IF part \in {"gr", "send", "check"} THEN TRUE ELSE buf = 0
    /\ IF part \in {"micro"} \cup Links THEN TRUE ELSE want = 0
    /\ IF part \in {"send", "micro"} THEN TRUE ELSE got = 0
    /\ IF part \in {"gr", "micro"} THEN TRUE ELSE runs = 0
    /\ IF part \in {"micro", "tdc"} \cup Links THEN TRUE ELSE out = 0
    /\ IF part \in {"vme", "tdc"} THEN TRUE ELSE hits = 0

Init ==
    /\ part \in Parts
    /\ Unused
    /\ \/ part = "ring" /\ Ring!RingInit
       \/ part = "gr" /\ Gr!GrInit
       \/ part = "send" /\ Send!SendInit /\ acked = [c \in {"k1"} |-> 0]
       \/ \E p \in Links : part = p /\ Link(LinkParts[p])!LinkInit
       \/ part = "vme" /\ Vme!VmeInit
       \/ part = "check" /\ Check!CfInit
       \/ part = "micro" /\ Micro!Init
       \/ part = "tdc" /\ Tdc!Init
       \/ part = "life" /\ Life!LifeInit

OnlyRing  == UNCHANGED <<part, grVars, sendVars, ring, linkVars, vmeVars, blk, checkVars, cnt, pc,
                         todo, buf, microVars, want, got, runs, tdcVars, out, hits,
                         lifeVars, made, cp>>
OnlyGr    == UNCHANGED <<part, ringVars, val, sendVars, linkVars, vmeVars, blk, checkVars, cnt, pc,
                         microVars, want, got, tdcVars, out, hits,
                         lifeVars, made, cp>>
OnlySend  == UNCHANGED <<part, ringVars, val, grVars, linkVars, vmeVars, blk, checkVars, pc, todo,
                         microVars, want, runs, tdcVars, out, hits,
                         lifeVars, made, cp>>
OnlyLink  == UNCHANGED <<part, ringVars, val, grVars, sendVars, ring, vmeVars, checkVars, cnt, pc,
                         todo, buf, microVars, got, runs, tdcVars, hits,
                         lifeVars, made>>
OnlyVme   == UNCHANGED <<part, ringVars, grVars, sendVars, ring, linkVars, checkVars, cnt, todo, buf,
                         microVars, want, got, runs, tdcVars, out,
                         lifeVars, made, cp>>
OnlyCheck == UNCHANGED <<part, ringVars, val, grVars, sendVars, ring, linkVars, vmeVars, blk,
                         microVars, want, got, runs, tdcVars, out, hits,
                         lifeVars, made, cp>>
OnlyMicro == UNCHANGED <<part, ringVars, val, grVars, sendVars, ring, linkVars, vmeVars, blk,
                         checkVars, cnt, pc, buf, tdcVars, hits,
                         lifeVars, made, cp>>
OnlyTdc   == UNCHANGED <<part, ringVars, val, grVars, sendVars, ring, linkVars, vmeVars, blk,
                         checkVars, cnt, pc, todo, buf, microVars, want, got, runs,
                         lifeVars, cp>>
OnlyLife  == UNCHANGED <<part, ringVars, val, grVars, sendVars, ring, linkVars, vmeVars, blk,
                         checkVars, cnt, todo, buf, microVars, want, got, runs, tdcVars, out, hits>>

Next ==
    \/ part = "ring" /\ Ring!RingNext /\ OnlyRing
    \/ part = "gr" /\ Gr!GrNext /\ OnlyGr
    \/ part = "send" /\ Send!SendNext /\ OnlySend
    \/ \E p \in Links : part = p /\ Link(LinkParts[p])!LinkNext /\ OnlyLink
    \/ part = "vme" /\ Vme!VmeNext /\ OnlyVme
    \/ part = "check" /\ Check!CfNext /\ OnlyCheck
    \/ part = "micro" /\ Micro!Next /\ OnlyMicro
    \/ part = "tdc" /\ Tdc!Next /\ OnlyTdc
    \/ part = "life" /\ Life!LifeNext /\ OnlyLife

-----------------------------------------------------------------------------
(* Fairness.  The processes and threads of an instance are numbered; as    *)
(* part never changes, fairness of a union over the parts is fairness of   *)
(* the process of the part at hand.                                        *)

\* A producer in put_rb_data, collect_data, a thread of collect_tcp, the server of a
\* connection, vmedaq, the checker, the micro controller, v1190_check_data, a router.
First ==
    \/ part = "ring" /\ (Ring!PutWait("p1") \/ Ring!put_rb_data("p1")) /\ OnlyRing
    \/ part = "gr" /\ Gr!collect_data /\ UNCHANGED setup /\ OnlyGr
    \/ part = "send" /\ Send!collect_tcp("k1") /\ UNCHANGED acked /\ OnlySend
    \/ \E p \in Links : part = p /\ Link(LinkParts[p])!SrvStep /\ OnlyLink
    \/ part = "vme" /\ Vme!Program /\ OnlyVme
    \/ part = "check" /\ Check!CfNext /\ OnlyCheck
    \/ part = "micro" /\ Micro!MicroTake /\ OnlyMicro
    \/ part = "tdc" /\ Tdc!Program /\ OnlyTdc
    \/ part = "life" /\ Life!main("r1") /\ UNCHANGED may /\ OnlyLife

\* A consumer of the ring, somebody who empties the ring, a client of collect_tcp that answers,
\* the client of a connection, the signal handler of vmedaq, a program at the micro controller,
\* a process in router_connect.
Second ==
    \/ part = "ring" /\ Ring!Consumer("c1") /\ OnlyRing
    \/ part = "gr" /\ Gr!TakeBlock /\ UNCHANGED setup /\ OnlyGr
    \/ part = "send" /\ Send!Reply("k1") /\ OnlySend
    \/ \E p \in Links : part = p /\ Link(LinkParts[p])!CliStep /\ OnlyLink
    \/ part = "vme" /\ Vme!HandlerWrite /\ OnlyVme
    \/ part = "micro" /\ Micro!Step("p1") /\ OnlyMicro
    \/ part = "life" /\ Life!router_connect("c1") /\ UNCHANGED may /\ OnlyLife

\* The thread of a command, the end of a file, another program at the micro controller,
\* another router.
Third ==
    \/ part = "gr" /\ Gr!Command("c1") /\ UNCHANGED setup /\ OnlyGr
    \/ part = "tcp_cat_file" /\ Link(LinkParts.tcp_cat_file)!SourceEnds /\ OnlyLink
    \/ part = "micro" /\ Micro!Step("p2") /\ OnlyMicro
    \/ part = "life" /\ Life!main("r2") /\ UNCHANGED may /\ OnlyLife

Spec ==
    /\ Init /\ [][Next]_vars
    /\ WF_vars(First) /\ WF_vars(Second) /\ WF_vars(Third)

-----------------------------------------------------------------------------
(* Properties *)

\* put_rb_data returns: "If the queue is full, it waits until there is room", and a consumer
\* that goes on makes room and signals it.
PutReturns == (part = "ring" /\ st["p1"] # "out") ~> (part = "ring" => st["p1"] = "out")

\* collect_data: a run that is stopped gets its end block.
StopEnds ==
    (part = "gr" /\ status = "STOP") ~> (part = "gr" => (status # "STOP" /\ Gr!Over) \/ dpc = "exit")

\* collect_data: every overflow is taken up, unless the run is stopped or the collector ends.
OverflowServed ==
    \A b \in {1, 2} :
        (part = "gr" /\ b \in ff) ~> (part = "gr" => b \notin ff \/ status # "ON" \/ dpc = "exit")

\* collect_tcp: a block in the ring is taken out while a client that answers is connected.
Drained ==
    \A n \in 1 .. 2 :
        (part = "send" /\ \E j \in DOMAIN ring : ring[j].seq = n) ~>
        (part = "send" => \/ \A j \in DOMAIN ring : ring[j].seq # n
                          \/ ~(conn["k1"] = "open" /\ cver["k1"] <= 2))

\* router_tcp and tcp_router: all blocks arrive, none waits for a reply that is on its way.
AllArrive == <>(part = "tcp_router" => out = Link(LinkParts.tcp_router)!Passed)

\* router_tcp: a block taken from the router is given back, or the process leaves the router,
\* when the client is interrupted or the source ends.  The only way to keep it is to wait for
\* the reply of a client that is gone: read returns 0 and the loop goes on (router_tcp.c:312).
HeldReleased ==
    (part = "tcp_cat" /\ held) ~>
    (part = "tcp_cat" => ~held \/ (sp = "reply" /\ sNet \in Link(LinkParts.tcp_cat)!Gone))

\* router_tcp and tcp_cat: a file that is asked for arrives to its last block, and both end.
FileArrives ==
    <>(part = "tcp_cat_file" =>
          cp = "closed" /\ sp = "closed" /\ out = Link(LinkParts.tcp_cat_file)!Sent)

\* tcp_send of 2014: the stream arrives to its last block, every block whole, and both end.
StreamArrives ==
    <>(part = "tcp_send_2014" =>
          /\ cp = "closed" /\ sp = "closed" /\ Len(out) = blk
          /\ \A b \in DOMAIN out : out[b] = Link(LinkParts.tcp_send_2014)!Block(b, Len(out[b])))

\* vmedaq: a veto of a module or of the clock ends while the client stays.
VetoEnds ==
    (part = "vme" /\ latch /\ peer = "up") ~>
    (part = "vme" => ~latch \/ peer = "gone" \/ pc = "end")

\* check_format_lib: the walk through blocks with one wrong word ends, unless it comes to a
\* header with both sizes zero (an empty field that lost its header size), where it stays.
WalkEnds == <>(part = "check" => pc = "end" \/ Check!Standing)

\* V1190: every program gets through its conversation with the board, whatever the board and
\* another program do: a read gives up after ten polls and no write waits.
ProgramsEnd == \A p \in {"p1", "p2"} : []<>(part = "micro" => Micro!Done(p))

\* v1190_check_data without -l ends, with the output buffer as the board wrote it (a lost global
\* trailer would keep it waiting, v1190_check_data.c:163).
CheckEnds == <>(part = "tdc" => mode = "done")

\* router_connect returns, with or without a connection, also when the router ends or is
\* replaced after the request was sent (not when it is killed and nobody removes its queues).
ConnectReturns == (part = "life" /\ cp["c1"] = "wait") ~> (part = "life" => cp["c1"] # "wait")

-----------------------------------------------------------------------------
(* What is checked *)

\* The GR collector goes on, with one command, one producer and one client at a time and banks
\* slow enough to be noticed: room in the ring is found, stops and overflows are served,
\* blocks leave.
CollectorGoesOn == PutReturns /\ StopEnds /\ OverflowServed /\ Drained

\* Connections: while both ends go on everything arrives, and nothing is held for ever but by a
\* server that waits for the reply of a client that is gone.
BlocksArrive == AllArrive /\ HeldReleased /\ FileArrives /\ StreamArrives

\* Programs at the modules, at the data and at the router get through: a veto ends, a walk
\* through damaged data ends unless it comes to a header with both sizes zero, a conversation
\* with a board that does not answer ends, the check of a buffer that lost no word ends, a
\* connection is made or refused if no router is killed.
NobodyStuck == VetoEnds /\ WalkEnds /\ ProgramsEnd /\ CheckEnds /\ ConnectReturns
=============================================================================
