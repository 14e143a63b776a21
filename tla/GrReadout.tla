------------------------------ MODULE GrReadout ------------------------------
(***************************************************************************)
(* The GR collector up to its ring buffer: run control (grctrl/grctrl.c),  *)
(* the command threads and run state (gr/grcollect.c), and the thread that *)
(* reads the double-buffered memory modules (gr/collect_data.c with        *)
(* vmelib/src/librpv.c and liblrm.c).                                      *)
(*                                                                         *)
(* grctrl sends one command per connection; the collector starts a thread  *)
(* per connection, and all these threads read into the one global mb.  The *)
(* run state is changed under its lock, mb is not protected by anything.   *)
(*                                                                         *)
(* The hardware (external) writes events into the memories of one bank     *)
(* until they are full, sets the bank's flip-flop in the RPV130, and goes  *)
(* on with the other bank if the output register says it is available.     *)
(* Memory i belongs to bank 1 if i is even and to bank 2 if i is odd.      *)
(*                                                                         *)
(* The ring buffer is the bounded queue that RingBuf implements.           *)
(***************************************************************************)
EXTENDS Naturals, Sequences, Functions

(* A set-up: the collector that is installed, its hardware and use, and bounds.
     Version      of collect_data: "3.0", "2.0", "1.2", "1.1" or "1.0"
     Ctrl         invocations of grctrl that may be under way at once
     Runs         run numbers given to grctrl start
     Garbage      what a command without arguments leaves in run and comment
     MAX_LRM_NUM  number of memory modules (12)
     Full         events a bank takes
     FastBanks    whether a bank may fill while the overflow of the other is noticed
     max_que_num  blocks the ring takes (64, or what -q says)
     MaxEvents    bound: events of one run
     MaxRuns      bound: runs                                              *)
CONSTANT Setups

ASSUME SetupsAssumption ==
    \A s \in Setups :
        /\ s.MAX_LRM_NUM \in Nat \ {0} /\ s.MAX_LRM_NUM % 2 = 0
        /\ s.Full \in Nat \ {0}
        /\ s.max_que_num \in Nat \ {0}
        /\ s.MaxEvents \in Nat /\ s.MaxRuns \in Nat
        /\ s.Runs \subseteq Nat /\ s.Garbage \subseteq Nat

VARIABLES
    setup,     \* the set-up, never changed
    \* commands
    cmd,       \* per grctrl: what it has sent, and where its thread in the collector is
    mb,        \* the global command buffer
    status,    \* run_state->status
    \* the readout thread
    dpc,       \* where in collect_data the thread is
    cmb,       \* grlib's copy of mb for the run end block
    i_buf, p_buf,
    todo,      \* memories still to be read, in order
    buf,       \* the block to put next
    \* the hardware
    lrm,       \* per memory: the events in it
    ff,        \* banks whose overflow flip-flop is set
    avail,     \* banks marked available in the output register
    veto,      \* the VETO bit of the output register
    bank,      \* the bank events go to
    event,     \* number of events of this run so far
    \* the ring buffer
    ring,
    \* history
    log,       \* the blocks of the current run put so far (its start block first)
    runs       \* number of runs started

cmdVars  == <<cmd, mb, status>>
readVars == <<dpc, cmb, i_buf, p_buf, todo, buf>>
hwVars   == <<lrm, ff, avail, veto, bank, event>>
histVars == <<log, runs>>
grVars   == <<setup, cmdVars, readVars, hwVars, ring, histVars>>

Version == setup.Version
Ctrl == setup.Ctrl
MAX_LRM_NUM == setup.MAX_LRM_NUM
Full == setup.Full

Lrm == 0 .. MAX_LRM_NUM - 1
BankOf(i) == (i % 2) + 1

(* The versions of collect_data.c that are kept beside the current one.
     start    whether the start block carries the run number
     scaler   a scaler block "once" per overflow, or one for each "bank"
     strange  what a value above 3 in the flip-flop register does: "retry"
              reads it again, "exit" is what rpv_dis_buf does with it
     last     whether a stop reads the bank that was being filled          *)
v3_0_start == [start |-> TRUE]
v3_0_on == [scaler |-> "once", strange |-> "retry"]
v3_0_stop == [last |-> TRUE]

v2_0_start == [start |-> TRUE]
v2_0_on == [scaler |-> "bank", strange |-> "exit"]
v2_0_stop == [last |-> TRUE]

v1_2_start == [start |-> TRUE]
v1_2_on == [scaler |-> "bank", strange |-> "exit"]
v1_2_stop == [last |-> TRUE]

v1_1_start == [start |-> TRUE]
v1_1_on == [scaler |-> "bank", strange |-> "exit"]
v1_1_stop == [last |-> TRUE]

v1_0_start == [start |-> FALSE]
v1_0_on == [scaler |-> "once", strange |-> "exit"]
v1_0_stop == [last |-> FALSE]

Collector(s, o, e) == [start |-> s.start, scaler |-> o.scaler, strange |-> o.strange, last |-> e.last]

Collect ==
    CASE Version = "3.0" -> Collector(v3_0_start, v3_0_on, v3_0_stop)
      [] Version = "2.0" -> Collector(v2_0_start, v2_0_on, v2_0_stop)
      [] Version = "1.2" -> Collector(v1_2_start, v1_2_on, v1_2_stop)
      [] Version = "1.1" -> Collector(v1_1_start, v1_1_on, v1_1_stop)
      [] Version = "1.0" -> Collector(v1_0_start, v1_0_on, v1_0_stop)

\* Memories from b in steps of two, the loops "for(i=b;i<MAX_LRM_NUM;i+=2)".
EveryOther(b) == [j \in 1 .. (MAX_LRM_NUM + 1 - b) \div 2 |-> 2 * (j - 1) + b]

Msg(command, run) == [command |-> command, run |-> run]
NoCmd == Msg("none", 0)

\* A block: its kind, what it says (run number or events), and the memory it was read
\* from (a history value, not part of the data).
Block(id, what, from) == [id |-> id, what |-> what, from |-> from]
NoBlock == Block("none", << >>, 0)
Scaler == Block("scaler", << >>, 0)

GrInit ==
    /\ setup \in Setups
    /\ cmd = [c \in Ctrl |-> [at |-> "none", msg |-> NoCmd]]
    /\ mb = NoCmd
    /\ status = "OFF"
    /\ dpc = "loop" /\ cmb = NoCmd
    /\ i_buf = 1 /\ p_buf = 1
    /\ todo = << >> /\ buf = NoBlock
    /\ lrm = [i \in Lrm |-> << >>]
    /\ ff = {} /\ avail = {} /\ veto = TRUE /\ bank = 1 /\ event = 0
    /\ ring = << >>
    /\ log = << >> /\ runs = 0

-----------------------------------------------------------------------------
(* grctrl and the command threads                                          *)

\* What grctrl may send.  Only start fills in the run number and comment; stop, exit and
\* reset (also for init: neither does anything) send what happens to be in mb.
Sendable ==
    {Msg("START", r) : r \in IF runs < setup.MaxRuns THEN setup.Runs ELSE {}}
        \cup {Msg(k, g) : k \in {"STOP", "RESET", "EXIT"}, g \in setup.Garbage}

\* grctrl connects and sends its command.
grctrl(c) ==
    /\ cmd[c].at = "none"
    /\ dpc # "exit"
    /\ \E m \in Sendable : cmd' = [cmd EXCEPT ![c] = [at |-> "read", msg |-> m]]
    /\ UNCHANGED <<mb, status, readVars, hwVars, ring, histVars>>

\* collect_cmd: the message is read into the global mb; ...
ReadCmd(c) ==
    /\ cmd[c].at = "read"
    /\ mb' = cmd[c].msg
    /\ cmd' = [cmd EXCEPT ![c] = [at |-> "swap", msg |-> NoCmd]]
    /\ UNCHANGED <<status, readVars, hwVars, ring, histVars>>

\* ... its run number is swapped, with || where | is meant: the result is 0 or 1 (the
\* collector of the versions before 2.0 does not swap); ...
grcollect_v0_2(run) == run
Swapped(run) == IF Version \in {"1.0", "1.1", "1.2"} THEN grcollect_v0_2(run)
                ELSE IF run = 0 THEN 0 ELSE 1

SwapRun(c) ==
    /\ cmd[c].at = "swap"
    /\ mb' = [mb EXCEPT !.run = Swapped(@)]
    /\ cmd' = [cmd EXCEPT ![c].at = "latch"]
    /\ UNCHANGED <<status, readVars, hwVars, ring, histVars>>

\* ... the command that is in mb by now is noted; ...
LatchCmd(c) ==
    /\ cmd[c].at = "latch"
    /\ cmd' = [cmd EXCEPT ![c].at = mb.command]
    /\ UNCHANGED <<mb, status, readVars, hwVars, ring, histVars>>

\* The new state after command k (reset only prints).
Switch(k) ==
    CASE k = "START" /\ status = "OFF" -> "START"
      [] k = "STOP" /\ status \in {"ON", "START"} -> "STOP"
      [] OTHER -> status

\* ... and carried out under the lock.
collect_cmd(c) ==
    /\ cmd[c].at \in {"START", "STOP", "RESET"}
    /\ status' = Switch(cmd[c].at)
    /\ cmd' = [cmd EXCEPT ![c] = [at |-> "none", msg |-> NoCmd]]
    /\ runs' = IF status = "OFF" /\ status' = "START" THEN runs + 1 ELSE runs
    /\ UNCHANGED <<mb, readVars, hwVars, ring, log>>

\* exit(0): all threads end, with whatever the ring holds.
ExitCmd(c) ==
    /\ cmd[c].at = "EXIT"
    /\ cmd' = [x \in Ctrl |-> [at |-> "none", msg |-> NoCmd]]
    /\ dpc' = "exit"
    /\ ring' = << >>
    /\ UNCHANGED <<mb, status, cmb, i_buf, p_buf, todo, buf, hwVars, histVars>>

-----------------------------------------------------------------------------
(* The hardware                                                            *)

BankFull(b) == \E i \in Lrm : BankOf(i) = b /\ Len(lrm[i]) >= Full

\* An event is written into all memories of the current bank.  FastBanks = FALSE is
\* the premise of the electronics: no bank fills between the read of the flip-flops
\* and their being cleared, a few bus cycles later.
Trigger ==
    /\ ~ veto
    /\ bank \in avail
    /\ ~ BankFull(bank)
    /\ event < setup.MaxEvents
    /\ setup.FastBanks \/ dpc # "clear"
    /\ event' = event + 1
    /\ lrm' = [i \in Lrm |-> IF BankOf(i) = bank THEN Append(lrm[i], event + 1) ELSE lrm[i]]
    /\ IF \E i \in Lrm : BankOf(i) = bank /\ Len(lrm[i]) + 1 >= Full
         THEN ff' = ff \cup {bank} /\ bank' = 3 - bank
         ELSE UNCHANGED <<ff, bank>>
    /\ UNCHANGED <<cmdVars, readVars, avail, veto, ring, histVars>>

-----------------------------------------------------------------------------
(* collect_data                                                            *)

\* The state is looked at and changed under the lock.  RUN_OFF only sleeps.
LookStart ==
    /\ dpc = "loop" /\ status = "START"
    /\ status' = "ON"
    /\ dpc' = "encode"
    /\ UNCHANGED <<cmd, mb, cmb, i_buf, p_buf, todo, buf, hwVars, ring, histVars>>

\* encode_run_start copies mb, as it is now, into the block and into cmb.
EncodeStart ==
    /\ dpc = "encode"
    /\ buf' = Block("start", IF Collect.start THEN <<mb.run>> ELSE << >>, 0)
    /\ cmb' = mb
    /\ dpc' = "putstart"
    /\ UNCHANGED <<cmdVars, i_buf, p_buf, todo, hwVars, ring, histVars>>

\* A fault: the ring is not looked at.
PutRing_Always(b) == ring' = Append(ring, b)

\* put_rb_data of the block b, which waits while the ring is full.
PutRing(b) ==
    /\ Len(ring) < setup.max_que_num
    /\ ring' = Append(ring, b)

\* lrm_reset and lrm_ena of all memories, rpv_init (both banks available, flip-flops
\* cleared, INIT pulse), rpv_ena.
Begin ==
    /\ lrm' = [i \in Lrm |-> << >>]
    /\ avail' = {1, 2} /\ ff' = {} /\ bank' = 1 /\ veto' = FALSE /\ event' = 0

\* The blocks in log are those of a run that has ended (history).
Over == log # << >> /\ log[Len(log)].id = "end"

PutStart ==
    /\ dpc = "putstart"
    /\ PutRing(buf)
    /\ log' = IF Over THEN <<buf>> ELSE Append(log, buf)
    /\ Begin
    /\ dpc' = "loop"
    /\ UNCHANGED <<cmdVars, cmb, i_buf, p_buf, todo, buf, runs>>

\* A fault: only single overflows are handled.
ReadFF_Single ==
    /\ dpc = "loop" /\ status = "ON"
    /\ ff \in {{1}, {2}}
    /\ i_buf' = IF ff = {1} THEN 1 ELSE 2
    /\ dpc' = "clear"
    /\ UNCHANGED <<cmdVars, cmb, p_buf, todo, buf, hwVars, ring, histVars>>

\* Now and then the register reads 255.  3.0 passes over it, the others have
\* switched the VETO on and cleared the flip-flops when rpv_dis_buf ends the program.
StrangeFF ==
    /\ dpc = "loop" /\ status = "ON"
    /\ Collect.strange = "exit"
    /\ veto' = TRUE /\ ff' = {}
    /\ dpc' = "exit" /\ ring' = << >>
    /\ cmd' = [x \in Ctrl |-> [at |-> "none", msg |-> NoCmd]]
    /\ UNCHANGED <<mb, status, cmb, i_buf, p_buf, todo, buf, lrm, avail, bank, event, histVars>>

\* RUN_ON: the flip-flops are read.
ReadFF ==
    /\ dpc = "loop" /\ status = "ON"
    /\ ff # {}
    /\ i_buf' = CASE ff = {1} -> 1 [] ff = {2} -> 2 [] OTHER -> 3
    /\ dpc' = "clear"
    /\ UNCHANGED <<cmdVars, cmb, p_buf, todo, buf, hwVars, ring, histVars>>

BanksOf(i) == IF i = 3 THEN {1, 2} ELSE {i}

\* rpv_dis, rpv_clr, rpv_dis_buf, rpv_ena: with the VETO on nothing comes between.
Clear ==
    /\ dpc = "clear"
    /\ ff' = {}
    /\ avail' = avail \ BanksOf(i_buf)
    /\ dpc' = "scaler"
    /\ UNCHANGED <<cmdVars, cmb, i_buf, p_buf, todo, buf, lrm, veto, bank, event, ring,
                   histVars>>

\* A fault: after a double overflow the banks are read in the order of their numbers.
Banks_ByNumber == IF i_buf = 3 THEN EveryOther(0) \o EveryOther(1) ELSE EveryOther(i_buf - 1)

\* The memories to read: the bank that overflowed, or both, the one that was not read
\* last (p_buf) first.
Banks == IF i_buf = 3 THEN EveryOther(1 - p_buf) \o EveryOther(p_buf) ELSE EveryOther(i_buf - 1)

\* The scaler block goes first; with a block per bank there is a second one before the
\* second bank.
PutScaler ==
    /\ dpc = "scaler"
    /\ PutRing(Scaler)
    /\ log' = Append(log, Scaler)
    /\ todo' = IF todo = << >> THEN Banks ELSE todo
    /\ dpc' = "read"
    /\ UNCHANGED <<cmdVars, cmb, i_buf, p_buf, buf, hwVars, runs>>

\* One memory: with something in it it is put (lrm_get2) and reset, without it is
\* passed over.  The last memory of a bank also makes the bank available again.
Reading == dpc = "read" \/ dpc = "last"

LastOfBank == Len(todo) = 1 \/ todo[2] % 2 # todo[1] % 2

Following == IF dpc = "read" /\ LastOfBank /\ Len(todo) > 1 /\ Collect.scaler = "bank"
             THEN "scaler" ELSE dpc

ReadMemory ==
    /\ Reading
    /\ todo # << >>
    /\ LET i == Head(todo)
           b == Block("data", lrm[i], i) IN
       /\ IF lrm[i] # << >>
            THEN PutRing(b) /\ log' = Append(log, b)
            ELSE UNCHANGED <<ring, log>>
       /\ lrm' = [lrm EXCEPT ![i] = << >>]
       /\ avail' = IF dpc = "read" /\ LastOfBank THEN avail \cup {BankOf(i)} ELSE avail
    /\ todo' = Tail(todo)
    /\ dpc' = Following
    /\ UNCHANGED <<cmdVars, cmb, i_buf, p_buf, buf, ff, veto, bank, event, runs>>

\* p_buf is the bank read last (two toggles leave it as it was).
EndRead ==
    /\ dpc = "read" /\ todo = << >>
    /\ p_buf' = IF i_buf = 3 THEN p_buf ELSE i_buf - 1
    /\ dpc' = "loop"
    /\ UNCHANGED <<cmdVars, cmb, i_buf, todo, buf, hwVars, ring, histVars>>

\* RUN_STOP: the state goes to RUN_OFF, then VETO on; ...  (A run stopped before its
\* start was seen has no blocks yet.)
LookStop ==
    /\ dpc = "loop" /\ status = "STOP"
    /\ status' = "OFF"
    /\ veto' = TRUE
    /\ p_buf' = IF Collect.last THEN 1 - p_buf ELSE p_buf
    /\ dpc' = "stopscaler"
    /\ log' = IF Over THEN << >> ELSE log
    /\ UNCHANGED <<cmd, mb, cmb, i_buf, todo, buf, lrm, ff, avail, bank, event, ring, runs>>

LastBank == IF Collect.last THEN EveryOther(p_buf) ELSE << >>

\* ... one more scaler block, and the bank that was not read last; ...
StopScaler ==
    /\ dpc = "stopscaler"
    /\ PutRing(Scaler)
    /\ log' = Append(log, Scaler)
    /\ todo' = LastBank
    /\ dpc' = "last"
    /\ UNCHANGED <<cmdVars, cmb, i_buf, p_buf, buf, hwVars, runs>>

\* ... and the run end block, with the run number of the start block.
PutEnd ==
    /\ dpc = "last" /\ todo = << >>
    /\ PutRing(Block("end", <<cmb.run>>, 0))
    /\ log' = Append(log, Block("end", <<cmb.run>>, 0))
    /\ i_buf' = 1 /\ p_buf' = 1
    /\ dpc' = "loop"
    /\ UNCHANGED <<cmdVars, cmb, todo, buf, hwVars, runs>>

collect_data ==
    \/ LookStart \/ EncodeStart \/ PutStart
    \/ ReadFF \/ StrangeFF \/ Clear \/ PutScaler \/ ReadMemory \/ EndRead
    \/ LookStop \/ StopScaler \/ PutEnd

-----------------------------------------------------------------------------
\* The consumer of the ring (GrSend).
TakeBlock ==
    /\ ring # << >>
    /\ ring' = Tail(ring)
    /\ UNCHANGED <<cmdVars, readVars, hwVars, histVars>>

Command(c) == ReadCmd(c) \/ SwapRun(c) \/ LatchCmd(c) \/ collect_cmd(c) \/ ExitCmd(c)
Commands == \E c \in Ctrl : grctrl(c) \/ Command(c)

GrNext == (Commands \/ Trigger \/ collect_data \/ TakeBlock) /\ UNCHANGED setup

GrSpec == GrInit /\ [][GrNext]_grVars

-----------------------------------------------------------------------------
\* The type of the collector's state.
GrTypeOK ==
    /\ \A c \in Ctrl : cmd[c].at \in {"none", "read", "swap", "latch", "START", "STOP", "RESET", "EXIT"}
    /\ status \in {"OFF", "START", "ON", "STOP"}
    /\ dpc \in {"loop", "encode", "putstart", "clear", "scaler", "read", "stopscaler", "last", "exit"}
    /\ i_buf \in 1 .. 3 /\ p_buf \in 0 .. 1
    /\ ff \subseteq {1, 2} /\ avail \subseteq {1, 2}
    /\ veto \in BOOLEAN /\ bank \in 1 .. 2 /\ event \in 0 .. setup.MaxEvents
    /\ Len(ring) <= setup.max_que_num

\* The current run has a start block.
Announced == log # << >> /\ log[1].id = "start"

\* A run: a start block, scaler blocks each followed by data, and if it is over one end
\* block with the number of the start block.  A run that was stopped before the readout
\* saw its start has no start block, one scaler block and an end block.  No block is
\* put between two runs, whatever commands arrive and when.
RunShape ==
    LET At(id) == {k \in DOMAIN log : log[k].id = id} IN
    /\ At("start") \subseteq {1}
    /\ \A k \in At("data") : \E j \in At("scaler") : j < k
    /\ \A k \in At("end") : k = Len(log) /\ At("scaler") # {}
    /\ \A k \in At("end") : Announced /\ Collect.start => log[k].what = log[1].what
    /\ ~ Announced /\ log # << >> => At("scaler") = {1}

\* Memories 2m and 2m+1 take turns: the first belongs to bank 1, the second to bank 2.
Pairs == 0 .. MAX_LRM_NUM \div 2 - 1

\* Where in log the data of these two are.
DataOf(m) == {k \in DOMAIN log : log[k].id = "data" /\ log[k].from \div 2 = m}

\* The last event put by these two is n (0: none has been put).
PutUpTo(m, n) ==
    \/ DataOf(m) = {} /\ n = 0
    \/ \E k \in DataOf(m) : (\A j \in DataOf(m) : j <= k) /\ n = log[k].what[Len(log[k].what)]

\* A block of data holds events that follow each other, and goes on where the last one of
\* the pair ended.
Continues(m) ==
    \A k \in DataOf(m) :
      LET what == log[k].what
          before == {j \in DataOf(m) : j < k} IN
      /\ \A e \in DOMAIN what : what[e] = what[1] + e - 1
      /\ before = {} => what[1] = 1
      /\ \A j \in before : (\A i \in before : i <= j) => what[1] = log[j].what[Len(log[j].what)] + 1

\* The two memories that take turns put the events of a run complete, once and in
\* order (1, 2, 3, ...), single and double overflows mixed in any way.
InOrder == Announced => \A m \in Pairs : Continues(m)

\* A bank being read out is not written: what is put is what stays until the reset.
ReadBanksRest ==
    dpc \in {"read", "scaler"} => \A i \in Range(todo) : ~ (BankOf(i) = bank /\ bank \in avail /\ ~ veto)

\* With a scaler block per bank, the data of the two banks of a double overflow are
\* kept apart by one: the counts belong to the events that follow.
BankScaler ==
    \A k \in 1 .. Len(log) - 1 :
      log[k].id = "data" /\ log[k + 1].id = "data" => BankOf(log[k].from) = BankOf(log[k + 1].from)

\* A run that is over has put every event, unless an overflow was pending at the stop:
\* the one bank that is read then is the one with the events.
TailRead ==
    Over /\ Announced /\ ff = {} /\ dpc = "loop" /\ status = "OFF" =>
      \A m \in Pairs : PutUpTo(m, event)

\* While the run goes on every bank that is full is known: its flip-flop is set or
\* the readout has taken it up.
OverflowKnown ==
    status = "ON" /\ ~ veto /\ dpc # "exit" =>
      \A b \in {1, 2} : BankFull(b) =>
        b \in ff \/ (dpc \in {"clear", "scaler", "read"} /\ b \in BanksOf(i_buf))

\* collect_data: the blocks of a run have their order, and between its start and its end every
\* event is put once, in order, whatever overflows and commands come; with a scaler block per
\* bank the banks are kept apart.  (That every event is put supposes a version that reads the
\* last bank, and all of it electronics as the program expects them.)
CollectorRight ==
    /\ RunShape
    /\ ~ setup.FastBanks => InOrder /\ ReadBanksRest /\ OverflowKnown
    /\ ~ setup.FastBanks /\ Collect.last => TailRead
    /\ Collect.scaler = "bank" => BankScaler
=============================================================================
