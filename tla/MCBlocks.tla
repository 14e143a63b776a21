------------------------------ MODULE MCBlocks ------------------------------
(***************************************************************************)
(* Small instances of the modules on the way of the blocks of data: the    *)
(* ring buffer (RingBuf), the collector that fills it under run control    *)
(* (GrReadout), the threads that empty it (GrSend), the connections        *)
(* between the programs (TcpLink), the format checkers at the end          *)
(* (CheckFormat), the way of a file through a router (RouterSave), and the *)
(* router's start and end (RouterLife).                                    *)
(*                                                                         *)
(* A behaviour is a behaviour of one instance, which the variable part     *)
(* names.  RingBuf, GrReadout and RouterLife are extended here, and stay   *)
(* in an initial state while another instance is at work; the variables of *)
(* the other modules are 0 then.  A table gives the constants of the       *)
(* instances of each module, or the set-ups of GrReadout.  What another    *)
(* module calls as one of the three calls a variable has a name of its own *)
(* here: the ring and buf of GrSend are queue and hand, pc, todo and buf   *)
(* of the checkers walk, rest and words, cp of a connection cl.        *)
(***************************************************************************)
EXTENDS RingBuf, GrReadout, RouterLife, TLC

CONSTANT Parts   \* the instances to check

VARIABLES
    part,
    \* GrSend
    queue, put, connfd, conn, th, ver, cver, info1, hand, scl, replies, got, up, acked,
    \* TcpLink
    sp, sNet, cNet, s2c, c2s, wbuf, blk, mem, held, reply, released, hdr, count, data, want,
    out, ahead, cl,
    \* CheckFormat, and with GrSend
    walk, ptr, hd, te, num, err, blk_num, tab, hurt, seen, rest, words,
    cnt,
    \* RouterSave
    rd, wst, fill, que, rpc, cur, files, sbuf, fcount, blk_cnt, run_size, taken, freed

-----------------------------------------------------------------------------
(* GrReadout *)

\* Two pairs of memories; four banks are filled, and one event is left in the fifth.
Memories == [Ctrl |-> {"c1"}, Runs |-> {1}, Garbage |-> {0}, MAX_LRM_NUM |-> 4, Full |-> 2,
             FastBanks |-> FALSE, max_que_num |-> 1, MaxEvents |-> 9, MaxRuns |-> 1,
             Version |-> "3.0"]

GrParts ==
    [gr_commands |-> [Memories EXCEPT !.Ctrl = {"c1", "c2"}, !.MAX_LRM_NUM = 2, !.Full = 1,
                                      !.MaxEvents = 0, !.MaxRuns = 2],
     gr_events   |-> Memories,
     gr_v2       |-> [Memories EXCEPT !.Version = "2.0"],
     gr_v1       |-> [Memories EXCEPT !.Version = "1.0", !.MaxEvents = 7]]

AllSetups == Range(GrParts)

-----------------------------------------------------------------------------
(* GrSend *)

Send(c) == INSTANCE GrSend WITH
    Clients <- c.Clients, MaxBlocks <- c.MaxBlocks, MaxQueNum <- 2, ring <- queue, buf <- hand

SendParts == [gr_send  |-> [Clients |-> {"k1"}, MaxBlocks |-> 4],
              gr_send2 |-> [Clients |-> {"k1", "k2"}, MaxBlocks |-> 2]]

-----------------------------------------------------------------------------
(* TcpLink *)

\* A block that fills a version 1 block, an empty one, one larger than a version 1
\* block, small ones.
WithEmpty == <<2, 0, 3, 1, 1>>

\* Without an empty block, which tcp_cat and tcp_dump take for the end.
Mixed == <<1, 3, 2>>

\* Blocks of the fixed size.
Equal == <<2, 2, 2, 2>>

Link(c) == INSTANCE TcpLink WITH
    Server <- c.Server, Program <- c.Program, FromFile <- FALSE, Sizes <- c.Sizes,
    BlkSize <- c.BlkSize, Limit <- 3, PreAcks <- c.PreAcks, SockBuf <- c.SockBuf,
    SplitHeaders <- c.SplitHeaders, Faults <- c.Faults,
    cp <- cl

Tcp == [Server |-> "router_tcp", Program |-> "tcp_router", Sizes |-> Mixed, BlkSize |-> 2,
        PreAcks |-> 2, SockBuf |-> 4, SplitHeaders |-> TRUE,
        Faults |-> {"kill client", "kill server", "source"}]

LinkParts ==
    [tcp_router      |-> [Tcp EXCEPT !.Sizes = WithEmpty, !.SockBuf = 6, !.Faults = @ \cup {"sink"}],
     tcp_router_2010 |-> [Tcp EXCEPT !.Server = "router_tcp_bak", !.Program = "tcp_router_2010",
                                     !.Sizes = WithEmpty, !.BlkSize = 3, !.SockBuf = 6,
                                     !.Faults = {"kill client", "sink", "refuse"}],
     tcp_router_2011 |-> [Tcp EXCEPT !.Program = "tcp_router_2011", !.Sizes = Equal,
                                     !.PreAcks = 1, !.SockBuf = 6, !.Faults = @ \cup {"sink"}],
     tcp_dump        |-> [Tcp EXCEPT !.Program = "tcp_dump", !.SplitHeaders = FALSE],
     tcp_save        |-> [Tcp EXCEPT !.Program = "tcp_save", !.PreAcks = 1, !.Faults = @ \cup {"refuse"}],
     tcp_read        |-> [Tcp EXCEPT !.Program = "tcp_read", !.SplitHeaders = FALSE,
                                     !.Faults = {"kill client", "source"}],
     tcp_send        |-> [Tcp EXCEPT !.Server = "tcp_send", !.Program = "tcp_cat_v1",
                                     !.SplitHeaders = FALSE, !.Faults = {"kill client", "kill server"}]]

-----------------------------------------------------------------------------
(* CheckFormat *)

Format(checker) == INSTANCE DataFormat WITH
    Checker <- checker, NumMax <- 2, MaxMods <- 4, NCh <- 2

LibFormat == Format("check_format_lib")!Structured
AdcFormat == Format("check_adc")!Structured
LibTables == Format("check_format_lib")!Tabled
LibWraps  == Format("check_format_lib")!Wrapping
AdcWraps  == Format("check_adc")!Wrapping

Check(c) == INSTANCE CheckFormat WITH
    Checker <- c.Checker, Streams <- c.Streams, Damage <- c.Damage, Fill <- c.Fill, NumMax <- 2,
    ShowEvery <- c.ShowEvery, Cap <- 13, MaxMods <- 4, NCh <- 2,
    pc <- walk, todo <- rest, buf <- words

CheckNames == {"cf_words", "cf_adc", "cf_wrap", "cf_adcwrap", "cf_tables"}
CheckParts ==
    [cf_words  |-> [Checker |-> "check_format_lib", Streams |-> LibFormat,
                    Damage |-> {"zero", "more", "header", "short"}, Fill |-> 0, ShowEvery |-> 1],
     cf_adc    |-> [Checker |-> "check_adc", Streams |-> AdcFormat,
                    Damage |-> {"zero", "more", "header"}, Fill |-> 1021, ShowEvery |-> 1],
     cf_wrap   |-> [Checker |-> "check_format_lib", Streams |-> LibWraps,
                    Damage |-> {}, Fill |-> 0, ShowEvery |-> 1],
     cf_adcwrap |-> [Checker |-> "check_adc", Streams |-> AdcWraps,
                    Damage |-> {}, Fill |-> 1021, ShowEvery |-> 1],
     cf_tables |-> [Checker |-> "check_format_lib", Streams |-> LibTables,
                    Damage |-> {}, Fill |-> 0, ShowEvery |-> 2]]

-----------------------------------------------------------------------------
(* RouterSave *)

Save(c) == INSTANCE RouterSave WITH
    Program <- c.Program, Vflag <- c.Vflag, Cflag <- c.Cflag, Sflag <- c.Sflag,
    BSize <- 2, WSize <- c.WSize, MAXSIZE <- 3, Buffer <- 1, IntMax <- c.IntMax,
    DiskSize <- c.DiskSize, MaxQue <- 2, Blocks <- c.Blocks,
    Events <- {"refuse", "no file", "read error", "router ends", "signal", "kill"}

\* Two runs, in blocks of one size and in shorter and longer ones.
TwoRuns == <<<<"start", 2>>, <<"data", 2>>, <<"end", 2>>, <<"start", 2>>, <<"data", 2>>>>
Short   == <<<<"start", 1>>, <<"data", 2>>, <<"end", 1>>, <<"start", 1>>, <<"data", 2>>, <<"end", 1>>>>
Long    == <<<<"start", 3>>, <<"data", 3>>, <<"end", 3>>, <<"start", 3>>>>

SaveParts ==
    [save_variable |-> [Program |-> "router_save", Vflag |-> TRUE, Cflag |-> TRUE, Sflag |-> FALSE,
                        WSize |-> 2, IntMax |-> 7, DiskSize |-> 30, Blocks |-> TwoRuns],
     save_fixed    |-> [Program |-> "router_save", Vflag |-> FALSE, Cflag |-> TRUE, Sflag |-> TRUE,
                        WSize |-> 1, IntMax |-> 15, DiskSize |-> 30, Blocks |-> Short],
     save_full     |-> [Program |-> "router_save", Vflag |-> FALSE, Cflag |-> FALSE, Sflag |-> FALSE,
                        WSize |-> 3, IntMax |-> 3, DiskSize |-> 7, Blocks |-> Long],
     fread         |-> [Program |-> "router_fread", Vflag |-> FALSE, Cflag |-> FALSE, Sflag |-> FALSE,
                        WSize |-> 1, IntMax |-> 7, DiskSize |-> 7, Blocks |-> Short]]

-----------------------------------------------------------------------------
(* One instance at a time *)

In(table) == part \in DOMAIN table

sendVars == <<queue, put, connfd, conn, th, ver, cver, info1, hand, scl, replies, got, up, acked>>
linkVars == <<sp, sNet, cNet, s2c, c2s, wbuf, blk, mem, held, reply, released, hdr, count,
              data, want, out, ahead, cl>>
saveVars == <<rd, wst, fill, que, rpc, cur, files, sbuf, fcount, blk_cnt, run_size, taken, freed>>
cfVars   == <<walk, ptr, hd, te, num, err, blk_num, tab, hurt, seen, rest, words>>

vars == <<part, ringVars, grVars, sendVars, linkVars, cfVars, cnt, saveVars, lifeVars>>

\* The empty ring, with memory as one choice of RingInit has it.
RingUnused ==
    /\ slot = [i \in 0 .. MaxQueNum - 1 |-> 1] /\ start_idx = 0 /\ num_full = 0
    /\ st = [t \in Threads |-> "out"]
    /\ arg = [p \in Producers |-> 1] /\ val = [c \in Consumers |-> 1]

LifeUnused ==
    /\ may = {}
    /\ obj = NoIds /\ made = 0 /\ msgs = {}
    /\ pc = [p \in Routers |-> "off"] /\ id = [p \in Routers |-> NoIds]
    /\ rflag = [p \in Routers |-> FALSE] /\ lists = [p \in Routers |-> FALSE]
    /\ starts = 0 /\ calls = 0 /\ left = FALSE /\ robbed = FALSE
    /\ cp = [c \in Clients |-> "off"] /\ cid = [c \in Clients |-> NoIds]

Unused ==
    /\ IF In(SendParts) THEN TRUE ELSE
          /\ queue = 0 /\ hand = 0 /\ put = 0 /\ connfd = 0 /\ conn = 0 /\ th = 0 /\ ver = 0 /\ cver = 0 /\ info1 = 0
          /\ scl = 0 /\ replies = 0 /\ got = 0 /\ up = 0 /\ acked = 0
    /\ IF In(LinkParts) THEN TRUE ELSE
          /\ sp = 0 /\ sNet = 0 /\ cNet = 0 /\ s2c = 0 /\ c2s = 0 /\ wbuf = 0 /\ blk = 0
          /\ mem = 0 /\ held = 0 /\ reply = 0 /\ released = 0 /\ hdr = 0 /\ count = 0 /\ data = 0
          /\ want = 0 /\ out = 0 /\ ahead = 0 /\ cl = 0
    /\ IF In(CheckParts) THEN TRUE ELSE
          /\ walk = 0 /\ ptr = 0 /\ hd = 0 /\ te = 0 /\ num = 0 /\ err = 0 /\ blk_num = 0
          /\ tab = 0 /\ hurt = 0 /\ seen = 0 /\ rest = 0 /\ words = 0
    /\ IF In(SaveParts) THEN TRUE ELSE
          /\ rd = 0 /\ wst = 0 /\ fill = 0 /\ que = 0 /\ rpc = 0 /\ cur = 0 /\ files = 0 /\ sbuf = 0
          /\ fcount = 0 /\ blk_cnt = 0 /\ run_size = 0 /\ taken = 0 /\ freed = 0
    /\ IF In(CheckParts) \/ In(SendParts) THEN TRUE ELSE cnt = 0

Init ==
    /\ part \in Parts
    /\ Unused
    /\ \/ part = "ring" /\ RingInit
       \/ part # "ring" /\ RingUnused
    /\ \/ part = "life" /\ LifeInit
       \/ part # "life" /\ LifeUnused
    /\ GrInit /\ setup = IF In(GrParts) THEN GrParts[part] ELSE Memories
    /\ \/ part \in {"ring", "life"} \cup DOMAIN GrParts
       \/ \E p \in DOMAIN SendParts  : part = p /\ Send(SendParts[p])!SendInit /\ acked = [c \in SendParts[p].Clients |-> 0]
       \/ \E p \in DOMAIN LinkParts  : part = p /\ Link(LinkParts[p])!LinkInit
       \/ \E p \in DOMAIN CheckParts : part = p /\ Check(CheckParts[p])!CfInit
       \/ \E p \in DOMAIN SaveParts  : part = p /\ Save(SaveParts[p])!SaveInit

RingStep ==
    /\ part = "ring" /\ RingNext
    /\ UNCHANGED <<part, grVars, sendVars, linkVars, cfVars, cnt, saveVars, lifeVars>>

LifeStep ==
    /\ part = "life" /\ LifeNext
    /\ UNCHANGED <<part, ringVars, grVars, sendVars, linkVars, cfVars, cnt, saveVars>>

GrStep ==
    /\ In(GrParts) /\ GrNext
    /\ UNCHANGED <<part, ringVars, sendVars, linkVars, cfVars, cnt, saveVars, lifeVars>>

SendStep == \E p \in DOMAIN SendParts :
    /\ part = p /\ Send(SendParts[p])!SendNext
    /\ UNCHANGED <<part, ringVars, grVars, linkVars, cfVars, saveVars, lifeVars>>

LinkStep == \E p \in DOMAIN LinkParts :
    /\ part = p /\ Link(LinkParts[p])!LinkNext
    /\ UNCHANGED <<part, ringVars, grVars, sendVars, cfVars, cnt, saveVars, lifeVars>>

CheckStep == \E p \in DOMAIN CheckParts :
    /\ part = p /\ Check(CheckParts[p])!CfNext
    /\ UNCHANGED <<part, ringVars, grVars, sendVars, linkVars, saveVars, lifeVars>>

SaveStep == \E p \in DOMAIN SaveParts :
    /\ part = p /\ Save(SaveParts[p])!SaveNext
    /\ UNCHANGED <<part, ringVars, grVars, sendVars, linkVars, cfVars, cnt, lifeVars>>

Next == RingStep \/ LifeStep \/ GrStep \/ SendStep \/ LinkStep \/ CheckStep \/ SaveStep

Spec == Init /\ [][Next]_vars

-----------------------------------------------------------------------------
(* Properties, beside those of RingBuf, GrReadout and RouterLife *)

\* Every variable of the collector, of the sender, of a connection, of the checkers, of the
\* recorder and of the router's life has its type; no queue holds more than fits.
TypeOK ==
    /\ part = "ring" => RingTypeOK
    /\ part = "life" => LifeTypeOK
    /\ GrTypeOK
    /\ \A p \in DOMAIN SendParts : part = p => Send(SendParts[p])!SendTypeOK
    /\ \A p \in DOMAIN LinkParts : part = p => Link(LinkParts[p])!LinkTypeOK
    /\ \A p \in CheckNames : part = p => Check(CheckParts[p])!CfTypeOK
    /\ \A p \in DOMAIN SaveParts : part = p => Save(SaveParts[p])!SaveTypeOK

\* A connection: what a client passes on is what the server took from its source, block by
\* block, however the stream is cut into reads and wherever it breaks off; for the tcp_router
\* of 2011 and for tcp_save, which pass on a block that was cut off, as long as the server
\* lives; of tcp_send, which does not clear its buffer, without what is behind the data.
Faithful ==
    /\ \A p \in {"tcp_router", "tcp_router_2010", "tcp_dump", "tcp_read"} :
          part = p => Link(LinkParts[p])!Faithful
    /\ \A p \in {"tcp_router_2011", "tcp_save"} : part = p => Link(LinkParts[p])!FaithfulWhileUp
    /\ part = "tcp_send" => Link(LinkParts.tcp_send)!DataFaithful

\* A connection: a block is given back to the router only when the client has passed it on, but
\* for the blocks acknowledged in advance.
Window == \A p \in DOMAIN LinkParts : part = p => Link(LinkParts[p])!Window

\* A connection of version 1 to router_tcp: behind the data of a block come zeros.
ZeroPadded == part = "tcp_read" => Link(LinkParts.tcp_read)!ZeroPadded

\* tcp_save: a client that is refused does not start to wait for blocks.
RefusedKnown == part = "tcp_save" => Link(LinkParts.tcp_save)!RefusedKnown

\* check_format_lib: the tables show the hits of this event, in the rows of their modules,
\* clusters across the border of a chamber included.
TablesOfEvent == part = "cf_tables" => Check(CheckParts.cf_tables)!TablesOfEvent

\* check_format_lib: the hit counts stay with their module when the modules of an event come in
\* another order.
HitsFollowModule == part = "cf_tables" => Check(CheckParts.cf_tables)!HitsFollowModule

\* check_format_lib: the counts of the input register are those since they were last shown.
DiffSinceShown == part = "cf_tables" => Check(CheckParts.cf_tables)!DiffSinceShown

\* router_save and router_fread: the files hold the blocks that were taken, in order, whole but
\* for the last one, and the counts of a run are right.  As long as the disk is not full, those
\* given back to the router are on it, and files are changed between blocks; on a full disk
\* router_save gives back what it has not stored, as it takes no notice of what fwrite returns.
FilesRight ==
    \A p \in DOMAIN SaveParts : part = p =>
        /\ Save(SaveParts[p])!Recorded /\ Save(SaveParts[p])!OnDisk
        /\ Save(SaveParts[p])!CutAtBlocks /\ Save(SaveParts[p])!RunCounted

-----------------------------------------------------------------------------
(* What is checked, component by component *)

\* collect_tcp: on the only connection the collector ever has, no block is lost, doubled or
\* misnumbered, and none is sent before the one before it was acknowledged.  From a second
\* connection on, the threads share one descriptor, and order, headers and numbers are lost
\* (collect_tcp.c:274); still no block is sent twice, and none is lost while nobody leaves.
SenderRight ==
    \A p \in DOMAIN SendParts : part = p =>
        /\ Send(SendParts[p])!Accounted /\ Send(SendParts[p])!SharedOut
        /\ Send(SendParts[p])!HeaderCounts /\ Send(SendParts[p])!ScalerNumbers
        /\ Send(SendParts[p])!OneAhead


\* The checkers count the parts of intact data exactly and report nothing but the block
\* numbers that start again from 0 (check_format_lib.c:1186).  One wrong word of the structure
\* makes an error block; a wrong size of an event or of its header makes at least an event
\* error (check_format_lib.c:1051 leaves the loop before the block hears of it).  Both say what
\* is printed at the end: a walk over an event whose two sizes are zero (1091) has none.
CountsRight ==
    \A p \in CheckNames : part = p =>
        Check(CheckParts[p])!CleanCounted /\ Check(CheckParts[p])!DamageCounted

\* check_format_lib: its tables show the event at hand and keep the counts of every module.
TablesRight == TablesOfEvent /\ HitsFollowModule /\ DiffSinceShown
=============================================================================
