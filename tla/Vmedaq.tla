------------------------------- MODULE Vmedaq -------------------------------
(***************************************************************************)
(* The VME readout program vmedaq: the trigger electronics, the modules   *)
(* with their event buffers and event counters, the main loop that reads  *)
(* them out, the client connection and the SIGHUP handler.                *)
(*                                                                         *)
(* Each module numbers its events with a counter of its own.  When the    *)
(* V977 register says ALMOST_FULL the trigger is vetoed; the program reads *)
(* until every module is empty, sends the number of accepted triggers (a  *)
(* COUNTER_OFFSET block), clears all the counters and clears the veto.    *)
(* The number of an event is the last offset plus the module's counter.   *)
(***************************************************************************)
EXTENDS Integers, Sequences, SequencesExt, FiniteSets

CONSTANT Crates   \* the crates to look at: modules, version, options, bounds

VARIABLES
    crate,    \* the crate of this run, never changed
    inhibit,  \* V977 output DAQ_INHIBIT
    latch,    \* V977 single-hit register, bit ALMOST_FULL
    ctr,      \* event counter of each module
    fifo,     \* events stored in each module
    hits,     \* V830 channel 0: accepted triggers
    meb,      \* V830 multi event buffer
    pc, k,    \* where the program is; the next module of the pass
    val,      \* v977_val
    nd,       \* n_data_modules
    scaler,   \* v830_scalers[0]
    blk,      \* vmedaq_block_counter
    work, hwork, \* register writes still to do: main program, signal handler
    sd,       \* descriptor of the client, 0 for none
    stdin,    \* what descriptor 0 is: "null", "shut" or "client"
    peer,     \* the client at the other end of sd
    sink,     \* blocks the client or the file has received
    local,    \* blocks written to fd although -n is given
    mark,     \* length of sink at the last SIGHUP or offset that was lost
    conns, periods, hups, triggers

hwVars   == <<inhibit, latch, ctr, fifo, hits, meb, triggers>>
progVars == <<pc, k, val, nd, scaler, blk, work>>
netVars  == <<sd, stdin, peer, sink, local, conns, mark>>
crateVars == <<crate, hwVars, progVars, netVars, hwork, periods, hups>>

-----------------------------------------------------------------------------
(* The crate and the options of the program *)

CrateType == [
    Tdcs : Seq(STRING), Madcs : Seq(STRING), Mqdcs : Seq(STRING),   \* V1190, MADC32, MQDC32 modules
    MyRIAD : Seq(STRING),                \* no MyRIAD module or one
    Version : {"2020", "2016", "e404"},  \* vmedaq and two older copies
    Net : BOOLEAN,                       \* -n: send to a client; otherwise write to a file
    Dma : BOOLEAN,                       \* -dma
    NScalers : Nat,                      \* v830_n_scalers
    Hits0 : Nat,                         \* what the V830 has counted before the start
    Level : Nat,                         \* events in a module that raise ALMOST_FULL
    BadHandshake : BOOLEAN,              \* whether a client may leave during the handshake
    DiskRecovers : BOOLEAN,              \* whether a full disk may have room again
    MaxTriggers : Nat, MaxPeriodic : Nat, MaxConns : Nat, MaxHups : Nat]

ASSUME CratesAssumption == Crates \subseteq CrateType

\* The names of the modules are not those of other things that are read or written.
ASSUME NamesAssumption ==
    \A c \in Crates : \A f \in {"Tdcs", "Madcs", "Mqdcs", "MyRIAD"} :
        {"v830", "zero", "offset"} \cap ToSet(c[f]) = {}

Tdcs  == crate.Tdcs
Madcs == crate.Madcs
Mqdcs == crate.Mqdcs
MyRIAD == crate.MyRIAD
Version == crate.Version
Net == crate.Net

-----------------------------------------------------------------------------
(* Modules and their order in a readout pass *)

\* The older copies have no MQDC32 and no MyRIAD.
Numbered == IF Version = "2020" THEN Tdcs \o Madcs \o Mqdcs ELSE Tdcs \o Madcs
Stamped  == IF Version = "2020" THEN MyRIAD ELSE <<>>
Modules  == ToSet(Numbered) \cup ToSet(Stamped)

\* A fault: the MQDC32 modules are not read.
read_data_2020_NoMqdc == <<"v830">> \o Tdcs \o Madcs \o MyRIAD

read_data_2020 == <<"v830">> \o Tdcs \o Madcs \o Mqdcs \o MyRIAD
read_data_2016 == <<"v830">> \o Tdcs \o Madcs
read_data_e404 == <<"v830">> \o Tdcs \o Madcs
Pass == CASE Version = "2020" -> read_data_2020
          [] Version = "2016" -> read_data_2016
          [] Version = "e404" -> read_data_e404

\* A fault: the MADC32 counters are forgotten.
clear_event_counters_NoMadc == Tdcs

clear_event_counters == Numbered
reset_event_counters == clear_event_counters \o <<"v830">> \o Stamped \o <<"zero">>

-----------------------------------------------------------------------------
(* Hardware: a trigger is accepted unless it is vetoed *)

Trigger ==
    /\ ~inhibit /\ ~latch /\ triggers < crate.MaxTriggers
    /\ triggers' = triggers + 1
    /\ hits' = hits + 1
    /\ meb' = Append(meb, hits + 1)
    /\ fifo' = [m \in Modules |-> Append(fifo[m], [n |-> ctr[m], g |-> hits])]
    /\ ctr' = [m \in Modules |-> ctr[m] + 1]
    /\ latch' = (\E m \in Modules : Len(fifo[m]) + 1 >= crate.Level)
    /\ UNCHANGED <<crate, inhibit, progVars, netVars, hwork, periods, hups>>

\* A write to the register of one module.  software_clear of the V1190 drops
\* its data too; reset_ctr_ab of the MADC32 and MQDC32 clears the counter only.
\* myriad_clear resets the FIFO; the clear_trig_counter bit is set after the
\* register was written and never reaches the module.
RegisterWrite(r) ==
    /\ fifo' = IF r \in ToSet(Tdcs) \cup ToSet(Stamped) THEN [fifo EXCEPT ![r] = <<>>] ELSE fifo
    /\ ctr'  = IF r \in ToSet(Numbered) THEN [ctr EXCEPT ![r] = 0] ELSE ctr
    /\ hits' = IF r = "v830" THEN 0 ELSE hits
    /\ meb'  = IF r = "v830" THEN <<>> ELSE meb
    /\ scaler' = IF r = "v830" THEN 0 ELSE scaler
    /\ blk'  = IF r = "zero" THEN 0 ELSE blk

-----------------------------------------------------------------------------
(* Output *)

\* write_to_sd: a live client takes the block and answers.  Descriptor 0 is the
\* standard input, where the answer is end of file, unless a client got it.
CanSend == IF sd = 0 THEN stdin = "client" /\ peer = "up" ELSE peer = "up"

\* write_data: to the client, or to fd when sd is 0.  Without -n, peer stands for
\* the disk, which may be full ("gone").
write_data(b) ==
    \/ /\ sd # 0 /\ CanSend
       /\ sink' = Append(sink, b) /\ UNCHANGED local
    \/ /\ sd = 0
       /\ IF Net THEN local' = Append(local, b) /\ UNCHANGED sink
                 ELSE peer = "up" /\ sink' = Append(sink, b) /\ UNCHANGED local

WriteFails == IF sd # 0 THEN ~CanSend ELSE ~Net /\ peer = "gone"

\* send_counter_offset as it is, and as it was in the copies of 2016 and before,
\* where nothing is written to a file.  Errors are ignored.
send_counter_offset(b) ==
    \/ write_data(b) /\ UNCHANGED mark
    \/ WriteFails /\ mark' = Len(sink) /\ UNCHANGED <<sink, local>>

send_counter_offset_2016(b) ==
    IF sd # 0 THEN send_counter_offset(b) ELSE UNCHANGED <<sink, local, mark>>

send_counter_offset_e404(b) ==
    IF sd # 0 THEN send_counter_offset(b) ELSE UNCHANGED <<sink, local, mark>>

\* The block counter counts a header only when one is written.
OffsetHeader == Version = "2020" \/ sd # 0

-----------------------------------------------------------------------------
(* The main program; no step of it is taken while the handler runs *)

Main == hwork = <<>> /\ UNCHANGED <<crate, hwork, hups>>

MainWrite ==
    /\ Main /\ work # <<>>
    /\ RegisterWrite(Head(work)) /\ work' = Tail(work)
    /\ UNCHANGED <<inhibit, latch, triggers, pc, k, val, nd, netVars, periods>>

\* Top of the loop: the first time, and then every ten seconds, periodic_clear
\* raises ALMOST_FULL.
periodic_clear ==
    /\ Main /\ pc = "loop" /\ work = <<>>
    /\ \/ /\ periods < crate.MaxPeriodic
          /\ periods' = periods + 1 /\ latch' = TRUE
       \/ periods > 0 /\ UNCHANGED <<periods, latch>>
    /\ pc' = IF Net /\ sd = 0 THEN "accept" ELSE "read"
    /\ UNCHANGED <<inhibit, ctr, fifo, hits, meb, triggers, k, val, nd, scaler, blk, work, netVars>>

\* accept_connection blocks until a client comes.  A client that leaves during
\* the handshake makes it return 0; the lowest free descriptor may be 0 too.
accept_connection ==
    /\ Main /\ pc = "accept" /\ conns < crate.MaxConns
    /\ conns' = conns + 1
    /\ \/ /\ peer' = "up" /\ sink' = <<>>
          /\ IF stdin = "shut" THEN stdin' = "client" /\ sd' = 0
                               ELSE sd' = 3 /\ UNCHANGED stdin
          /\ mark' = 0
       \/ crate.BadHandshake /\ UNCHANGED <<sd, stdin, peer, sink, mark>>
    /\ pc' = "release" /\ work' = reset_event_counters
    /\ UNCHANGED <<hwVars, k, val, nd, scaler, blk, local, periods>>

\* input_set = 0 and output_set = 0: the veto of the program ends.
Release ==
    /\ Main /\ pc = "release" /\ work = <<>>
    /\ inhibit' = FALSE
    /\ pc' = "read"
    /\ UNCHANGED <<latch, ctr, fifo, hits, meb, triggers, k, val, nd, scaler, blk, work, netVars, periods>>

\* A fault: n_data_modules is not reset.
ReadV977_NoReset ==
    /\ Main /\ pc = "read"
    /\ val' = latch /\ k' = 1 /\ pc' = "pass"
    /\ UNCHANGED <<hwVars, nd, scaler, blk, work, netVars, periods>>
\* read_data: the state of ALMOST_FULL is taken before the modules are read.
ReadV977 ==
    /\ Main /\ pc = "read"
    /\ val' = latch /\ nd' = 0 /\ k' = 1 /\ pc' = "pass"
    /\ UNCHANGED <<hwVars, scaler, blk, work, netVars, periods>>

\* What a module has for this pass.  With -dma the transfer loop of
\* v1190_check_data counts n_data_bytes down to 0, so the copy loop copies
\* nothing and the words are gone.
v830_check_data == [type |-> "v830", counter |-> blk, ev |-> meb]

v1190_check_data(m) ==
    [type |-> m, counter |-> blk, ev |-> IF crate.Dma THEN <<>> ELSE fifo[m]]

adc_check_data(m) == [type |-> m, counter |-> blk, ev |-> fifo[m]]

Block(m) == CASE m = "v830" -> v830_check_data
              [] m \in ToSet(Tdcs) -> v1190_check_data(m)
              [] OTHER -> adc_check_data(m)

v830_scalers == IF meb # <<>> /\ crate.NScalers > 0 THEN Last(meb) ELSE scaler

ReadModule ==
    /\ Main /\ pc = "pass" /\ k <= Len(Pass)
    /\ LET m == Pass[k]  b == Block(m) IN
       /\ IF m = "v830" THEN /\ meb' = <<>> /\ scaler' = v830_scalers
                             /\ UNCHANGED fifo
                        ELSE /\ fifo' = [fifo EXCEPT ![m] = <<>>]
                             /\ UNCHANGED <<meb, scaler>>
       /\ IF b.ev = <<>>
          THEN k' = k + 1 /\ UNCHANGED <<pc, nd, blk, sink, local>>
          ELSE /\ blk' = blk + 1
               /\ \/ write_data(b) /\ nd' = nd + 1 /\ k' = k + 1 /\ UNCHANGED pc
                  \/ WriteFails /\ pc' = "lost" /\ UNCHANGED <<nd, k, sink, local>>
    /\ UNCHANGED <<inhibit, latch, ctr, hits, triggers, val, work, sd, stdin, peer, conns, mark, periods>>

\* End of the pass: with data the loop starts again; with nothing read and
\* ALMOST_FULL seen the offset is sent and the counters are cleared.
EndPass ==
    /\ Main /\ pc = "pass" /\ k > Len(Pass)
    /\ LET b == [type |-> "offset", counter |-> blk, ev |-> <<scaler>>] IN
       \/ /\ nd > 0 /\ pc' = "loop" /\ UNCHANGED <<work, blk, sink, local, mark>>
       \/ /\ nd = 0 /\ ~val /\ pc' = "idle" /\ UNCHANGED <<work, blk, sink, local, mark>>
       \/ /\ nd = 0 /\ val /\ pc' = "clear" /\ work' = clear_event_counters
          /\ blk' = IF OffsetHeader THEN blk + 1 ELSE blk
          /\ CASE Version = "2020" -> send_counter_offset(b)
               [] Version = "2016" -> send_counter_offset_2016(b)
               [] Version = "e404" -> send_counter_offset_e404(b)
    /\ UNCHANGED <<hwVars, k, val, nd, scaler, sd, stdin, peer, conns, periods>>

\* singlehit_read_clear
ClearV977 ==
    /\ Main /\ pc = "clear" /\ work = <<>>
    /\ latch' = FALSE /\ pc' = "idle"
    /\ UNCHANGED <<inhibit, ctr, fifo, hits, meb, triggers, k, val, nd, scaler, blk, work, netVars, periods>>

\* Nothing read: a keep-alive packet finds out whether the client is there.
KeepAlive ==
    /\ Main /\ pc = "idle"
    /\ pc' = IF ~Net \/ CanSend THEN "loop" ELSE "lost"
    /\ UNCHANGED <<hwVars, k, val, nd, scaler, blk, work, netVars, periods>>

\* A fault: the trigger is not inhibited.
Lost_NoInhibit ==
    /\ Main /\ pc = "lost"
    /\ pc' = IF Net THEN "loop" ELSE "end"
    /\ sd' = 0 /\ peer' = IF Net THEN "none" ELSE peer
    /\ stdin' = IF Net /\ sd = 0 THEN "shut" ELSE stdin
    /\ UNCHANGED <<hwVars, k, val, nd, scaler, blk, work, sink, local, conns, mark, periods>>

\* Connection loss, or a failed write to the file, which ends the program.
Lost ==
    /\ Main /\ pc = "lost"
    /\ inhibit' = TRUE
    /\ pc' = IF Net THEN "loop" ELSE "end"
    /\ sd' = 0 /\ peer' = IF Net THEN "none" ELSE peer
    /\ stdin' = IF Net /\ sd = 0 THEN "shut" ELSE stdin
    /\ UNCHANGED <<latch, ctr, fifo, hits, meb, triggers, k, val, nd, scaler, blk, work, sink, local, conns, mark, periods>>

-----------------------------------------------------------------------------
(* The client or the disk, and the operator *)

PeerFails ==
    /\ peer = "up" /\ peer' = "gone"
    /\ UNCHANGED <<crate, hwVars, progVars, hwork, periods, hups, sd, stdin, sink, local, conns, mark>>

DiskFreed ==
    /\ ~Net /\ crate.DiskRecovers /\ peer = "gone" /\ pc # "end" /\ peer' = "up"
    /\ UNCHANGED <<crate, hwVars, progVars, hwork, periods, hups, sd, stdin, sink, local, conns, mark>>

\* SIGHUP (bin/vmedaq_send_hup) runs reset_event_counters at any point.
sighup ==
    /\ hups < crate.MaxHups /\ hwork = <<>> /\ pc # "end"
    /\ hups' = hups + 1 /\ hwork' = reset_event_counters
    /\ UNCHANGED <<crate, hwVars, progVars, netVars, periods>>

HandlerWrite ==
    /\ hwork # <<>>
    /\ RegisterWrite(Head(hwork)) /\ hwork' = Tail(hwork)
    /\ mark' = Len(sink)
    /\ UNCHANGED <<crate, inhibit, latch, triggers, pc, k, val, nd, work, periods, hups,
                   sd, stdin, peer, sink, local, conns>>

-----------------------------------------------------------------------------
\* v977_init sets DAQ_INHIBIT; the FIFOs are reset and the counters cleared;
\* without -n the veto is released at once.
VmeInit ==
    /\ crate \in Crates
    /\ inhibit = Net /\ latch \in BOOLEAN
    /\ ctr = [m \in Modules |-> 0] /\ fifo = [m \in Modules |-> <<>>]
    /\ hits = crate.Hits0 /\ meb = <<>>
    /\ pc = "loop" /\ k = 1 /\ val = FALSE /\ nd = 0
    /\ scaler = 0 /\ blk = 0 /\ work = <<>> /\ hwork = <<>>
    /\ sd = 0 /\ stdin = "null" /\ peer = (IF Net THEN "none" ELSE "up") /\ sink = <<>> /\ local = <<>>
    /\ conns = 0 /\ periods = 0 /\ hups = 0 /\ triggers = 0 /\ mark = 0

Program ==
    \/ MainWrite \/ periodic_clear \/ Release \/ ReadV977 \/ ReadModule
    \/ EndPass \/ ClearV977 \/ KeepAlive \/ Lost

VmeNext ==
    \/ Trigger \/ Program \/ accept_connection \/ PeerFails \/ DiskFreed
    \/ sighup \/ HandlerWrite

VmeSpec == VmeInit /\ [][VmeNext]_crateVars

-----------------------------------------------------------------------------
(* Properties *)

Event == [n : Nat, g : Nat]

IsBlock(b) ==
    /\ b.type \in Modules \cup {"v830", "offset"} /\ b.counter \in Nat
    /\ b.ev \in Seq(IF b.type \in Modules THEN Event ELSE Nat)

\* Types of the variables.
VmeTypeOK ==
    /\ crate \in Crates
    /\ inhibit \in BOOLEAN /\ latch \in BOOLEAN /\ val \in BOOLEAN
    /\ ctr \in [Modules -> Nat]
    /\ fifo \in [Modules -> Seq(Event)]
    /\ hits \in Nat /\ meb \in Seq(Nat) /\ scaler \in Nat /\ blk \in Nat
    /\ pc \in {"loop", "accept", "release", "read", "pass", "clear", "idle", "lost", "end"}
    /\ k \in 1 .. Len(Pass) + 1 /\ nd \in 0 .. Len(Pass)
    /\ work \in Seq(Modules \cup {"v830", "zero"}) /\ hwork \in Seq(Modules \cup {"v830", "zero"})
    /\ sd \in {0, 3} /\ stdin \in {"null", "shut", "client"}
    /\ peer \in {"none", "up", "gone"}
    /\ \A i \in DOMAIN sink : IsBlock(sink[i])
    /\ \A i \in DOMAIN local : IsBlock(local[i])
    /\ mark \in 0 .. Len(sink)
    /\ conns \in Nat /\ periods \in Nat /\ hups \in Nat /\ triggers \in Nat

\* No signal, no client that leaves during the handshake, no disk that is full for a while.
Quiet == crate.MaxHups = 0 /\ ~crate.BadHandshake /\ ~crate.DiskRecovers

\* Besides: the older copies write no offset to a file, and no copy empties the MADC32 and
\* MQDC32 modules for a second client.
Undisturbed ==
    /\ Quiet
    /\ IF Net THEN crate.MaxConns <= 1 \/ ToSet(Numbered) \subseteq ToSet(Tdcs)
              ELSE Version = "2020"

\* The V830 counts from 0 (it is cleared for a client only) and its counts are read.
Counting == crate.NScalers > 0 /\ (Net \/ crate.Hits0 = 0)

\* Block o of stream s is the last one of type t before block i; 0, when there is none.
Latest(s, o, t, i) ==
    /\ o \in 0 .. i - 1
    /\ o # 0 => s[o].type = t
    /\ \A j \in o + 1 .. i - 1 : s[j].type # t

\* The offset in force after block o; the next trigger for a module that sent block o last.
OffsetOf(s, o) == IF o = 0 THEN 0 ELSE s[o].ev[1]
DueAfter(s, o) == IF o = 0 THEN 0 ELSE Last(s[o].ev).g + 1

\* The offset in force plus the counter in an event of block i is the number of its trigger.
NumberedRight(s, i) ==
    \A o \in 0 .. i - 1 : Latest(s, o, "offset", i) =>
        \A j \in DOMAIN s[i].ev : OffsetOf(s, o) + s[i].ev[j].n = s[i].ev[j].g

\* The events of block i follow those of the block of the module before; an offset of v comes
\* after the triggers 0 .. v-1 of every module.
NoneMissing(s, i) ==
    \A m \in Modules, o \in 0 .. i - 1 : Latest(s, o, m, i) =>
        /\ s[i].type = m => \A j \in DOMAIN s[i].ev : s[i].ev[j].g = DueAfter(s, o) + j - 1
        /\ s[i].type = "offset" => s[i].ev[1] = DueAfter(s, o)

\* vmedaq: the offset in force plus the counter in an event is the number of its trigger, for
\* every event of every counting module, whatever triggers arrive while a pass reads the
\* modules and whenever the counters are cleared.  A SIGHUP, an offset lost with a client or
\* on a full disk, and a connection taken while triggers are accepted spoil the numbers, but
\* at most up to the next offset.
EventNumber ==
    Counting => \A i \in DOMAIN sink :
        /\ sink[i].type \in ToSet(Numbered)
        /\ Undisturbed \/ \E o \in mark + 1 .. i - 1 : sink[o].type = "offset"
        => NumberedRight(sink, i)

\* The blocks a client or a file gets are numbered from 0 without a gap (vmedaq_block_counter).
BlockNumbers == Quiet => \A i \in DOMAIN sink : sink[i].counter = i - 1

\* Every module delivers its events once and in order, and when the counters are cleared none
\* is left behind.  With -dma the data of the V1190 are lost.
Complete ==
    Undisturbed /\ Counting /\ (crate.Dma => Tdcs = <<>>) =>
        \A i \in DOMAIN sink : NoneMissing(sink, i)

\* vmedaq: no block and no event of the stream is missing.
NothingMissing == BlockNumbers /\ Complete

\* vmedaq -n writes nothing to the output file ("-o: write output into the file when no -n
\* option"), and while accept_connection waits for a client the trigger is inhibited; both also
\* with a SIGHUP at any point.  They hold until a client leaves during the handshake: it is
\* taken for descriptor 0 (accept_connection returns 0 for it), the veto is released for it,
\* the blocks go to the file, and with data in every pass the program waits for the next client
\* without the veto.  For such a run the property ends with the first connection.
Connected ==
    Net /\ (crate.BadHandshake => conns = 0) =>
        local = <<>> /\ (pc = "accept" => inhibit)
=============================================================================
