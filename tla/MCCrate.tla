------------------------------- MODULE MCCrate -------------------------------
(***************************************************************************)
(* Small instances of the modules of the VME crate: the readout program    *)
(* (Vmedaq), its start and its end (VmedaqStart), its repair of ADC events *)
(* (AdcRepair), its configuration file (VmeConfig), the conversation with  *)
(* the micro controller of a V1190 (V1190Micro), the libraries that map    *)
(* the modules (VmeLib) and the tools for TDC data (TdcCheck).             *)
(*                                                                         *)
(* A behaviour is a behaviour of one instance, which the variable part     *)
(* names; the variables of the other modules stay 0.  Vmedaq is extended   *)
(* here, and has an empty crate while another instance is at work.  A      *)
(* table gives the constants of the instances of each module, and the      *)
(* crates of Vmedaq.  Modules that use the same name for a variable share  *)
(* it.                                                                     *)
(***************************************************************************)
EXTENDS Vmedaq

CONSTANT Parts   \* the instances to check

VARIABLES
    part,
    \* VmedaqStart; with Vmedaq: inhibit, pc, mark, triggers
    flags, conf, mapped, enabled, acq, buf, num, releases, starts, last, set,
    \* AdcRepair; with Vmedaq: fifo
    events, sent, counters, buffer, header_flag, no_header_flag, end_of_event_flag,
    header_pos, module_id, next,
    \* VmeConfig
    file, text, parameters, errno, step, count, nim_busy, words, nums,
    \* V1190Micro
    in, want, setting, prog, todo, before, got, warned, runs,
    \* VmeLib
    drv, window_handle, table, held, stage,
    \* TdcCheck, and with V1190Micro and AdcRepair; with Vmedaq: hits
    made, lost, mode, geometrical_address, ev, said, geo, wire_hits, read, shown,
    out, event_count

-----------------------------------------------------------------------------
(* Vmedaq *)

\* One TDC and one ADC, a client, no signal.
Crate == [Tdcs |-> <<"t1">>, Madcs |-> <<"a1">>, Mqdcs |-> <<>>, MyRIAD |-> <<>>,
          Version |-> "2020", Net |-> TRUE, Dma |-> FALSE, NScalers |-> 1, Hits0 |-> 0,
          Level |-> 2, BadHandshake |-> FALSE, DiskRecovers |-> FALSE,
          MaxTriggers |-> 3, MaxPeriodic |-> 2, MaxConns |-> 1, MaxHups |-> 0]

VmeParts ==
    [vme_adc    |-> [Crate EXCEPT !.Mqdcs = <<"q1">>, !.MyRIAD = <<"m1">>, !.MaxTriggers = 2],
     vme_tdc    |-> [Crate EXCEPT !.Tdcs = <<"t1", "t2">>, !.Madcs = <<>>, !.MaxTriggers = 2,
                                  !.MaxConns = 2],
     vme_file   |-> [Crate EXCEPT !.Net = FALSE],
     vme_2016   |-> [Crate EXCEPT !.Version = "2016"],
     vme_e404   |-> [Crate EXCEPT !.Version = "e404"],
     vme_signal |-> [Crate EXCEPT !.MaxTriggers = 2, !.MaxHups = 1],
     vme_strays |-> [Crate EXCEPT !.BadHandshake = TRUE, !.MaxTriggers = 2, !.MaxConns = 2],
     vme_disk   |-> [Crate EXCEPT !.Net = FALSE, !.DiskRecovers = TRUE, !.MaxTriggers = 2]]

NoCrate == [Crate EXCEPT !.Tdcs = <<>>, !.Madcs = <<>>, !.Net = FALSE]

AllCrates == Range(VmeParts) \cup {NoCrate}

-----------------------------------------------------------------------------
(* VmedaqStart *)

Begin(c) == INSTANCE VmedaqStart WITH
    Version <- c.Version, Limit <- c.Limit, Counts <- c.Counts, Scalers <- c.Scalers,
    Faults <- c.Faults, MaxTriggers <- c.MaxTriggers, MaxStarts <- 2, MaxReleases <- 2,
    MaxArgs <- c.MaxArgs

StartFaults == {"options", "open", "dma", "socket", "accept", "v977", "v830", "v1190"}

StartParts ==
    [start_2020    |-> [Version |-> "2020", Limit |-> 1, Counts |-> {1, 2}, Scalers |-> {0, 4, 33},
                        Faults |-> StartFaults, MaxTriggers |-> 2, MaxArgs |-> 4],
     start_2016    |-> [Version |-> "2016", Limit |-> 2, Counts |-> {0, 2, 3}, Scalers |-> {3},
                        Faults |-> StartFaults, MaxTriggers |-> 3, MaxArgs |-> 4],
     start_e404    |-> [Version |-> "e404", Limit |-> 2, Counts |-> {0, 1}, Scalers |-> {3},
                        Faults |-> StartFaults, MaxTriggers |-> 2, MaxArgs |-> 3],
     start_refused |-> [Version |-> "2020", Limit |-> 1, Counts |-> {1}, Scalers |-> {3},
                        Faults |-> {"unmap", "madc32", "mqdc32", "myriad"}, MaxTriggers |-> 2,
                        MaxArgs |-> 4]]

\* The instances are among those of which VmedaqStart_proofs speaks.
ASSUME StartAssumption == \A p \in DOMAIN StartParts : Begin(StartParts[p])!StartParameters

-----------------------------------------------------------------------------
(* AdcRepair *)

Repair(c) == INSTANCE AdcRepair WITH
    Variant <- c.Variant, Mid <- 1, HeaderId <- 1, MinData <- 1, MaxData <- 2,
    MaxEvents <- c.MaxEvents, NBlocks <- 2, LoseHeader <- c.LoseHeader, LoseEoe <- c.LoseEoe

RepairParts ==
    [adc_last |-> [Variant |-> "2020", MaxEvents |-> 3, LoseHeader |-> FALSE, LoseEoe |-> "last"],
     adc_both |-> [Variant |-> "2020", MaxEvents |-> 2, LoseHeader |-> TRUE, LoseEoe |-> "any"],
     adc_e404 |-> [Variant |-> "e404", MaxEvents |-> 2, LoseHeader |-> TRUE, LoseEoe |-> "any"]]

-----------------------------------------------------------------------------
(* VmeConfig *)

Dec(n)  == [form |-> "dec", num |-> n, word |-> ""]
Hex(n)  == [form |-> "hex", num |-> n, word |-> ""]
Frac(n) == [form |-> "float", num |-> n, word |-> ""]
Word(w) == [form |-> "word", num |-> 0, word |-> w]
Line(n, i, v) == [name |-> n, index |-> i, value |-> v]
Plain == "none"

TwoAdcs == Line("madc32_n_modules", Plain, Dec(2))
TwoTdcs == Line("v1190_n_modules", Plain, Dec(2))
TwoQdcs == Line("mqdc32_n_modules", Plain, Dec(2))

WordLines ==
    {TwoAdcs, TwoQdcs, Line("junk", Plain, Word("")),
     Line("madc32_n_modules", Plain, Dec(99)),
     Line("madc32_nim_busy", "0", Word("busy")), Line("madc32_nim_busy", "0x1", Word("full")),
     Line("madc32_nim_busy", "1", Word("gg0")), Line("madc32_nim_busy", Plain, Word("cbus")),
     Line("madc32_nim_busy", "1.0", Word("gg1")),
     Line("madc32_input_range", Plain, Word("5V")), Line("mqdc32_ts_sources", "1", Word("maybe")),
     Line("mqdc32_nim_fc_reset", "01", Word("exp_trig"))}

NumberLines ==
    {TwoTdcs, TwoAdcs, TwoQdcs,
     Line("v1190_match_window_width", Plain, Dec(1000)),
     Line("v1190_match_window_width", "1", Frac(2000)),
     Line("v1190_window_offset", "0x0", Dec(-1010)), Line("v1190_detection", "00", Word("both")),
     Line("v1190_almost_full_level", Plain, Word("half")),
     Line("madc32_threshold", "1", Hex(255)), Line("mqdc32_use_ch", Plain, Hex(15))}

Config(c) == INSTANCE VmeConfig WITH
    Version <- c.Version, Lines <- c.Lines, MaxLines <- 3, MaxModules <- 2

ConfigParts ==
    [conf_words   |-> [Version |-> "2020", Lines |-> WordLines],
     conf_numbers |-> [Version |-> "2020", Lines |-> NumberLines],
     conf_2016    |-> [Version |-> "2016", Lines |-> NumberLines]]

-----------------------------------------------------------------------------
(* V1190Micro *)

Micro(c) == INSTANCE V1190Micro WITH
    Procs <- {"p1"}, Progs <- c.Progs, MaxRuns <- c.MaxRuns, Quick <- c.Quick

\* All programs but those that go Astray.
Programs ==
    {"vmedaq", "vmedaq_2016", "vmedaq_e404", "vmedaq_bak", "v1190_read", "v1190_init",
     "v1190_cont_storage_mode", "v1190_en_head_trailer", "v1190_dis_head_trailer",
     "v1190_read_head_trailer", "v1190_status", "v1190test", "o_cont_storage_mode",
     "o_dis_head_trailer", "o_en_head_trailer", "o_trig_match_mode", "o_read_head_trailer",
     "o_test", "myriad_status"}

MicroParts ==
    [micro_quick |-> [Progs |-> Programs \cup {"v1190_trig_match_mode"}, MaxRuns |-> 2, Quick |-> TRUE],
     micro_rest  |-> [Progs |-> {"v1190_window", "o_MH", "o_init", "o_clear_bu", "v1190_status"}, MaxRuns |-> 2, Quick |-> TRUE],
     micro_slow  |-> [Progs |-> Programs, MaxRuns |-> 1, Quick |-> FALSE]]

-----------------------------------------------------------------------------
(* VmeLib *)

Lib(c) == INSTANCE VmeLib WITH
    Library <- c.Library, Modules <- c.Modules, Faults <- c.Faults, GoesOn <- c.GoesOn,
    MaxWindows <- c.MaxWindows

LibParts ==
    [lib_shared |-> [Library |-> "v1190", Modules |-> 0 .. 4, Faults |-> {"init", "absent"},
                     GoesOn |-> TRUE, MaxWindows |-> 4],
     lib_create |-> [Library |-> "madc32", Modules |-> 0 .. 6, Faults |-> {"init", "create"},
                     GoesOn |-> FALSE, MaxWindows |-> 2],
     lib_each   |-> [Library |-> "v977", Modules |-> 0 .. 2, Faults |-> {"init", "absent"},
                     GoesOn |-> TRUE, MaxWindows |-> 4],
     lib_faults |-> [Library |-> "v830", Modules |-> 0 .. 2, GoesOn |-> FALSE, MaxWindows |-> 4,
                     Faults |-> {"init", "create", "map", "unmap", "release", "term", "absent"}],
     lib_close  |-> [Library |-> "v1190", Modules |-> 0 .. 2, GoesOn |-> FALSE, MaxWindows |-> 4,
                     Faults |-> {"init", "create", "map", "unmap", "term", "absent"}],
     lib_one    |-> [Library |-> "myriad", Modules |-> {0}, Faults |-> {"init", "create", "unmap"},
                     GoesOn |-> FALSE, MaxWindows |-> 40]]

-----------------------------------------------------------------------------
(* TdcCheck *)

Tdc(c) == INSTANCE TdcCheck WITH
    Tool <- c.Tool, Loop <- c.Loop, Heads <- TRUE, Geo <- 5, NTdc <- 2, MaxHits <- c.MaxHits,
    MaxEvents <- 3, MaxLost <- c.MaxLost, FirstEvent <- 0, CountMod <- 8, IdMod <- 2,
    OutputSize <- c.OutputSize, MaxWords <- 24

TdcParts ==
    [tdc_loop   |-> [Tool |-> "check", Loop |-> TRUE, MaxHits |-> 1, MaxLost |-> 1, OutputSize |-> 12],
     tdc_once   |-> [Tool |-> "check", Loop |-> FALSE, MaxHits |-> 1, MaxLost |-> 1, OutputSize |-> 12],
     tdc_hit    |-> [Tool |-> "hit", Loop |-> FALSE, MaxHits |-> 2, MaxLost |-> 0, OutputSize |-> 12],
     tdc_dump   |-> [Tool |-> "dump", Loop |-> FALSE, MaxHits |-> 0, MaxLost |-> 0, OutputSize |-> 3],
     tdc_dump_o |-> [Tool |-> "dump_o", Loop |-> FALSE, MaxHits |-> 1, MaxLost |-> 1, OutputSize |-> 12]]

-----------------------------------------------------------------------------
(* One instance at a time *)

In(table_) == part \in DOMAIN table_

vmeVars    == <<crate, latch, ctr, meb, k, val, nd, scaler, blk, work, hwork, sd, stdin, peer, sink,
                local, conns, periods, hups>>
startVars  == <<flags, conf, mapped, enabled, acq, buf, num, releases, starts, last, set>>
bothVars   == <<inhibit, pc, mark, triggers>>
repairVars == <<events, sent, counters, buffer, header_flag, no_header_flag,
                end_of_event_flag, header_pos, module_id, next>>
configVars == <<file, text, parameters, errno, step, count, nim_busy, words, nums>>
microVars  == <<in, want, setting, prog, todo, before, got, warned, runs>>
libVars    == <<drv, window_handle, table, held, stage>>
tdcVars    == <<made, lost, mode, geometrical_address, ev, said, geo, wire_hits, read, shown>>

vars == <<part, vmeVars, startVars, bothVars, repairVars, fifo, configVars, microVars, libVars,
          tdcVars, out, hits, event_count>>

Unused ==
    /\ IF In(VmeParts) THEN TRUE ELSE
          /\ crate = NoCrate /\ latch = 0 /\ ctr = 0 /\ meb = 0 /\ k = 0 /\ val = 0 /\ nd = 0 /\ scaler = 0
          /\ blk = 0 /\ work = 0 /\ hwork = 0 /\ sd = 0 /\ stdin = 0 /\ peer = 0 /\ sink = <<>>
          /\ local = <<>> /\ conns = 0 /\ periods = 0 /\ hups = 0
    /\ IF In(StartParts) THEN TRUE ELSE
          /\ flags = 0 /\ conf = 0 /\ mapped = 0 /\ enabled = 0 /\ acq = 0 /\ buf = 0
          /\ num = 0 /\ releases = 0 /\ starts = 0 /\ last = 0 /\ set = 0
    /\ IF In(VmeParts) \/ In(StartParts) THEN TRUE ELSE
          inhibit = 0 /\ pc = 0 /\ mark = 0 /\ triggers = 0
    /\ IF In(RepairParts) THEN TRUE ELSE
          /\ events = 0 /\ sent = 0 /\ counters = 0 /\ buffer = 0 /\ header_flag = 0
          /\ no_header_flag = 0 /\ end_of_event_flag = 0 /\ header_pos = 0 /\ module_id = 0
          /\ next = 0
    /\ IF In(VmeParts) \/ In(RepairParts) THEN TRUE ELSE fifo = 0
    /\ IF In(ConfigParts) THEN TRUE ELSE
          /\ file = 0 /\ text = 0 /\ parameters = 0 /\ errno = 0 /\ step = 0 /\ count = 0
          /\ nim_busy = 0 /\ words = 0 /\ nums = 0
    /\ IF In(MicroParts) THEN TRUE ELSE
          /\ in = 0 /\ want = 0 /\ setting = 0 /\ prog = 0 /\ todo = 0 /\ before = 0
          /\ got = 0 /\ warned = 0 /\ runs = 0
    /\ IF In(LibParts) THEN TRUE ELSE
          drv = 0 /\ window_handle = 0 /\ table = 0 /\ held = 0 /\ stage = 0
    /\ IF In(TdcParts) THEN TRUE ELSE
          /\ made = 0 /\ lost = 0 /\ mode = 0 /\ geometrical_address = 0 /\ ev = 0
          /\ said = 0 /\ geo = 0 /\ wire_hits = 0 /\ read = 0 /\ shown = 0
    /\ IF In(TdcParts) \/ In(MicroParts) THEN TRUE ELSE out = 0
    /\ IF In(TdcParts) \/ In(VmeParts) THEN TRUE ELSE hits = 0
    /\ IF In(TdcParts) \/ In(RepairParts) THEN TRUE ELSE event_count = 0

Init ==
    /\ part \in Parts
    /\ Unused
    /\ \/ In(VmeParts) /\ VmeInit /\ crate = VmeParts[part]
       \/ \E p \in DOMAIN StartParts  : part = p /\ Begin(StartParts[p])!Init
       \/ \E p \in DOMAIN RepairParts : part = p /\ Repair(RepairParts[p])!Init
       \/ \E p \in DOMAIN ConfigParts : part = p /\ Config(ConfigParts[p])!Init
       \/ \E p \in DOMAIN MicroParts  : part = p /\ Micro(MicroParts[p])!Init
       \/ \E p \in DOMAIN LibParts    : part = p /\ Lib(LibParts[p])!Init
       \/ \E p \in DOMAIN TdcParts    : part = p /\ Tdc(TdcParts[p])!Init

ReadoutNext ==
    /\ In(VmeParts) /\ VmeNext
    /\ UNCHANGED <<part, startVars, repairVars, configVars, microVars, libVars, tdcVars, out, event_count>>

StartNext == \E p \in DOMAIN StartParts :
    /\ part = p /\ Begin(StartParts[p])!Next
    /\ UNCHANGED <<part, vmeVars, repairVars, fifo, configVars, microVars, libVars, tdcVars, out,
                   hits, event_count>>

RepairNext == \E p \in DOMAIN RepairParts :
    /\ part = p /\ Repair(RepairParts[p])!Next
    /\ UNCHANGED <<part, vmeVars, startVars, bothVars, configVars, microVars, libVars, tdcVars, out, hits>>

ConfigNext == \E p \in DOMAIN ConfigParts :
    /\ part = p /\ Config(ConfigParts[p])!Next
    /\ UNCHANGED <<part, vmeVars, startVars, bothVars, repairVars, fifo, microVars, libVars, tdcVars,
                   out, hits, event_count>>

MicroNext == \E p \in DOMAIN MicroParts :
    /\ part = p /\ Micro(MicroParts[p])!Next
    /\ UNCHANGED <<part, vmeVars, startVars, bothVars, repairVars, fifo, configVars, libVars, tdcVars,
                   hits, event_count>>

LibNext == \E p \in DOMAIN LibParts :
    /\ part = p /\ Lib(LibParts[p])!Next
    /\ UNCHANGED <<part, vmeVars, startVars, bothVars, repairVars, fifo, configVars, microVars, tdcVars,
                   out, hits, event_count>>

TdcNext == \E p \in DOMAIN TdcParts :
    /\ part = p /\ Tdc(TdcParts[p])!Next
    /\ UNCHANGED <<part, vmeVars, startVars, bothVars, repairVars, fifo, configVars, microVars, libVars>>

Next == ReadoutNext \/ StartNext \/ RepairNext \/ ConfigNext \/ MicroNext \/ LibNext \/ TdcNext

Spec == Init /\ [][Next]_vars
-----------------------------------------------------------------------------
(* Properties *)

\* Every variable has its type, in every instance of a module with a type invariant.
TypeOK ==
    /\ In(VmeParts) => VmeTypeOK
    /\ \A p \in DOMAIN StartParts : part = p => Begin(StartParts[p])!TypeOK
    /\ \A p \in DOMAIN RepairParts : part = p => Repair(RepairParts[p])!TypeOK
    /\ \A p \in DOMAIN ConfigParts : part = p => Config(ConfigParts[p])!TypeOK
    /\ \A p \in DOMAIN MicroParts : part = p => Micro(MicroParts[p])!TypeOK

\* Configuration file: every module gets the words of the last line that names it, by any
\* spelling of its number, else of the last line without a number, else the default.
OwnWords == part = "conf_words" => Config(ConfigParts.conf_words)!OwnWords

\* The same for the numbers, converted to the units of the registers.
OwnNumbers ==
    \A p \in {"conf_numbers", "conf_2016"} : part = p => Config(ConfigParts[p])!OwnNumbers

\* v1190_check_data does not complain of events that arrive as the board made them (but for
\* the measurements, which check_event complains of).
QuietIfGood == \A p \in {"tdc_loop", "tdc_once"} : part = p => Tdc(TdcParts[p])!QuietIfGood

\* v1190_check_data notices that a word got lost, wherever in an event it was.
LossNoticed == \A p \in {"tdc_loop", "tdc_once"} : part = p => Tdc(TdcParts[p])!LossNoticed

\* v1190_hit counts each hit once, and for the board it came from.
HitsRight == part = "tdc_hit" => Tdc(TdcParts.tdc_hit)!HitsRight

\* The dump of v1190o shows the words of the board, in their order.
ShowsData == part = "tdc_dump_o" => Tdc(TdcParts.tdc_dump_o)!ShowsData

-----------------------------------------------------------------------------
(* What is checked, component by component *)

\* Start of vmedaq, on a crate left behind in any state: the trigger is held until everything
\* is set up, and the data then begin clean; the program ends as orderly as it says.
Started == \A p \in DOMAIN StartParts : part = p => Begin(StartParts[p])!Started

\* madc32 and mqdc32, a module that loses headers and ends of events: a block is sent as whole
\* events, with all data words, the counts and the numbers of the events that were read, if no
\* event lost both words and (but for E404) only the last event of the block lost its end; for
\* the numbers this must hold of all blocks, and their first events must have a header.  The
\* repair fails in the other cases, for events without data, and if the id in the headers is
\* not that of the module; the instances have data in every event and one id.
Repaired ==
    \A p \in DOMAIN RepairParts : part = p =>
        /\ Repair(RepairParts[p])!WellFormed /\ Repair(RepairParts[p])!HeaderCounts
        /\ Repair(RepairParts[p])!DataKept /\ Repair(RepairParts[p])!RightNumber
        /\ Repair(RepairParts[p])!InBounds

\* Configuration file: every module gets its own settings, words and numbers.  The files have no
\* number out of range, which would spoil the later ones (config.c:263), and no unknown word for
\* nim_busy, which would go to another register (vmedaq.c:1444).
OwnSettings == OwnWords /\ OwnNumbers


\* Libraries: a module that a program holds is mapped, a handle that a library keeps is live, the
\* driver is not called with a dead handle, and no window outlives close.  Each holds where only
\* calls fail that the library gets over: the code goes wrong after a failed create or map
\* (the bus is terminated, the handle kept), a failed unmap (the window is released twice, or
\* its handle kept) and a failed release; myriad_close closes nothing.
Windows ==
    \A p \in DOMAIN LibParts : part = p =>
        /\ Lib(LibParts[p])!HeldIsMapped /\ Lib(LibParts[p])!HandleLive
        /\ Lib(LibParts[p])!NoMisuse /\ Lib(LibParts[p])!NothingLeft

\* TDC tools: of good events nothing is reported but their measurements, a lost word is noticed,
\* hits are counted once, the dump of v1190o is true.
TdcRight == QuietIfGood /\ LossNoticed /\ HitsRight /\ ShowsData
=============================================================================
