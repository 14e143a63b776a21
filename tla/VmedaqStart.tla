---------------------------- MODULE VmedaqStart ----------------------------
(***************************************************************************)
(* How vmedaq comes up and goes down, in the current version, the one of   *)
(* June 2016 and the one of e404: the program is the sequence of steps its *)
(* main() goes through, and each step may fail.  The crate outlives the    *)
(* program: the inhibit of the trigger, the buffers and the event counters *)
(* are as the program before left them, and that one may have been killed  *)
(* while triggers were coming.  The readout itself is module Vmedaq and is *)
(* left out: nothing is taken from the buffers here.                       *)
(***************************************************************************)
EXTENDS Integers, Sequences, SequencesExt

CONSTANTS
    Version,      \* "2020", "2016", "e404"
    Limit,        \* *_MAX_N_MODULES
    Counts,       \* numbers of modules that configuration files give
    Scalers,      \* values of v830_n_scalers in configuration files
    Faults,       \* what may fail: "options", "open", "dma", "socket", "accept", "unmap" and
                  \* the libraries whose map may return NULL
    MaxTriggers,  \* triggers in a behaviour
    MaxStarts,    \* programs started in a behaviour
    MaxReleases,  \* connections of a program
    MaxArgs       \* arguments of a command line of e404

V830_N_CHANNELS == 32

Adcs     == {"madc32", "mqdc32"}
Counting == {"v1190"} \cup Adcs
Arrays   == Counting \X (0..Limit - 1)
Boards   == Arrays \cup {<<"v830", 0>>, <<"myriad", 0>>}

VARIABLES
    pc,       \* the step the program is at, 0: no program runs
    flags,    \* the options init_flag, net_flag, use_dma_transfer
    conf,     \* v830_n_scalers and the numbers of modules
    mapped,   \* libraries with a window in the program
    inhibit,  \* DAQ_INHIBIT of the V977
    enabled,  \* channels enabled in the V830
    acq,      \* per ADC: start_acq
    buf,      \* per board: the triggers whose events are in its buffer
    num,      \* per board: the event counter
    triggers, \* triggers accepted by the crate
    mark,     \* ghost: triggers when the trigger was last released
    releases, \* releases by this program
    starts,   \* programs started
    last,     \* how the last program ended
    set       \* ghost: this program, or the last one unless it was killed, was through v977_init

vars == <<pc, flags, conf, mapped, inhibit, enabled, acq, buf, num, triggers, mark, releases,
          starts, last, set>>
crate == <<inhibit, enabled, acq, buf, num, triggers>>

-----------------------------------------------------------------------------
(* The programs *)

\* A step, and the library it is about; "vmedaq" stands for the program itself.
Do(what, lib) == [do |-> what, lib |-> lib]

open_2020 ==
    <<Do("options", "vmedaq"), Do("dma", "vmedaq"),
      Do("open", "v977"), Do("map", "v977"), Do("v977_init", "vmedaq"),
      Do("count", "v830"), Do("open", "v830"), Do("map", "v830"), Do("v830_init", "vmedaq")>>
open_2016 ==
    <<Do("options", "vmedaq"),
      Do("open", "v977"), Do("map", "v977"), Do("v977_init", "vmedaq"),
      Do("open", "v830"), Do("map", "v830"), Do("v830_init", "vmedaq"), Do("count", "v830")>>
open_e404 ==
    <<Do("options", "vmedaq"),
      Do("open", "v977"), Do("map", "v977"), Do("v977_init", "vmedaq"),
      Do("open", "v830"), Do("map", "v830"), Do("v830_init", "vmedaq")>>

map_2020 ==
    <<Do("open", "v1190"), Do("count", "v1190"), Do("map", "v1190"),
      Do("open", "madc32"), Do("count", "madc32"), Do("map", "madc32"),
      Do("open", "mqdc32"), Do("count", "mqdc32"), Do("map", "mqdc32"), Do("count", "myriad")>>
map_2016 ==
    <<Do("open", "v1190"), Do("count", "v1190"), Do("map", "v1190"),
      Do("open", "madc32"), Do("count", "madc32"), Do("map", "madc32")>>
map_e404 ==
    <<Do("open", "v1190"), Do("map", "v1190"), Do("open", "madc32"), Do("map", "madc32")>>

daq_2020 ==
    <<Do("init", "vmedaq"), Do("fifo_reset", "madc32"), Do("fifo_reset", "mqdc32"),
      Do("open", "myriad"), Do("map", "myriad"), Do("myriad_init", "vmedaq"),
      Do("clear", "vmedaq"), Do("socket", "vmedaq"), Do("daq", "vmedaq")>>
daq_2016 ==
    <<Do("init", "vmedaq"), Do("fifo_reset", "madc32"), Do("clear", "vmedaq"), Do("socket", "vmedaq"), Do("daq", "vmedaq")>>
daq_e404 == daq_2016

close_2020 ==
    <<Do("close", "v1190"), Do("close", "madc32"), Do("close", "mqdc32"),
      Do("exit", "v830"), Do("exit", "v977"), Do("exit", "myriad")>>

close_2016 ==
    <<Do("close", "v1190"), Do("close", "madc32"), Do("exit", "v830"), Do("exit", "v977")>>
close_e404 == close_2016

main ==
    CASE Version = "2020" -> open_2020 \o map_2020 \o daq_2020 \o close_2020
      [] Version = "2016" -> open_2016 \o map_2016 \o daq_2016 \o close_2016
      [] Version = "e404" -> open_e404 \o map_e404 \o daq_e404 \o close_e404

-----------------------------------------------------------------------------
(* The arguments of the program of e404 *)

Tokens == {"-i", "-n", "-v", "-m", ":", "number", "file", "-?"}

\* One argument: a number is a module, or after ":" the geo address of the last module; a file
\* name is the last argument that is looked at.
Argument(a, tok) ==
    IF a.done THEN a
    ELSE CASE tok = "-i" -> [a EXCEPT !.init = TRUE]
           [] tok = "-n" -> [a EXCEPT !.net = TRUE]
           [] tok = "-v" -> [a EXCEPT !.lib = "v1190"]
           [] tok = "-m" -> [a EXCEPT !.lib = "madc32"]
           [] tok = ":" -> [a EXCEPT !.geo = TRUE]
           [] tok = "number" /\ a.geo -> [a EXCEPT !.geo = FALSE, !.wild = @ \/ a.n[a.lib] = 0]
           [] tok = "number" /\ ~a.geo -> [a EXCEPT !.n[a.lib] = @ + 1,
                                                    !.wild = @ \/ a.n[a.lib] >= Limit]
           [] tok = "-?" -> [a EXCEPT !.done = TRUE, !.bad = TRUE]
           [] tok = "file" -> [a EXCEPT !.done = TRUE]

Arguments(line) ==
    FoldLeft(Argument, [init |-> FALSE, net |-> FALSE, lib |-> "v1190", geo |-> FALSE, bad |-> FALSE,
                        wild |-> FALSE, done |-> FALSE, n |-> [v1190 |-> 0, madc32 |-> 0]], line)

\* What the command lines of up to MaxArgs arguments come to.  One that writes beside the arrays
\* (more modules than the limit, a geo address in front of the first module) is left out.
CommandLines == {a \in {Arguments(line) : line \in SeqOf(Tokens, MaxArgs)} : ~a.wild}

-----------------------------------------------------------------------------

NoConf == [v830 |-> 3, v1190 |-> 0, madc32 |-> 0, mqdc32 |-> 0, myriad |-> 0]

Init ==
    /\ pc = 0 /\ last = "none" /\ set = FALSE /\ starts = 0 /\ releases = 0
    /\ flags = [init |-> FALSE, net |-> FALSE, dma |-> FALSE]
    /\ conf = NoConf /\ mapped = {}
    /\ inhibit \in BOOLEAN /\ enabled = 0
    /\ acq \in [Adcs -> BOOLEAN]
    /\ buf = [b \in Boards |-> {}] /\ num = [b \in Boards |-> 0]
    /\ triggers = 0 /\ mark = 0

Fails(what) == IF what \in Faults THEN BOOLEAN ELSE {FALSE}

At(what) == pc # 0 /\ main[pc].do = what
lib == main[pc].lib

\* The program ends; its windows go with the process.
End(how) == pc' = 0 /\ last' = how /\ UNCHANGED <<mapped, starts, releases, mark, set>>

\* On to the next step, or to the end of main().
Step == /\ pc' = IF pc < Len(main) THEN pc + 1 ELSE 0
        /\ last' = IF pc < Len(main) THEN last ELSE "ok"
        /\ UNCHANGED <<starts, releases, mark>>

Used == {b \in Arrays : b[2] < conf[b[1]]}
ReadOut == Used \cup {<<"v830", 0>>} \cup (IF conf.myriad = 1 THEN {<<"myriad", 0>>} ELSE {})

Start ==
    /\ pc = 0 /\ starts < MaxStarts
    /\ pc' = 1 /\ starts' = starts + 1 /\ releases' = 0 /\ set' = FALSE
    /\ conf' = NoConf /\ mapped' = {}
    /\ flags' \in [init : BOOLEAN, net : BOOLEAN, dma : IF Version = "2020" THEN BOOLEAN ELSE {FALSE}]
    /\ UNCHANGED <<crate, mark, last>>

\* Wrong options and an output file that cannot be opened end the program, before the hardware
\* is touched.  e404: the modules are given here, and nothing checks how many.
options ==
    /\ At("options")
    /\ UNCHANGED crate
    /\ IF Version = "e404"
       THEN \E a \in CommandLines :
              /\ flags' = [flags EXCEPT !.init = a.init, !.net = a.net]
              /\ conf' = [conf EXCEPT !.v1190 = a.n.v1190, !.madc32 = a.n.madc32]
              /\ IF a.bad THEN End("error") ELSE Step /\ UNCHANGED <<mapped, set>>
       ELSE /\ \E fail \in Fails("options") :
                 IF fail THEN End("error") ELSE Step /\ UNCHANGED <<mapped, set>>
            /\ UNCHANGED <<flags, conf>>

dma_init ==
    /\ At("dma")
    /\ \E fail \in (IF flags.dma THEN Fails("dma") ELSE {FALSE}) :
          IF fail THEN End("error")
          ELSE Step /\ mapped' = (IF flags.dma THEN mapped \cup {"dma"} ELSE mapped) /\ UNCHANGED set
    /\ UNCHANGED <<crate, flags, conf>>

Wanted == lib # "myriad" \/ conf.myriad = 1

open ==
    /\ At("open")
    /\ \E fail \in (IF Wanted THEN Fails("open") ELSE {FALSE}) :
          IF fail THEN End("error") ELSE Step /\ UNCHANGED <<mapped, set>>
    /\ UNCHANGED <<crate, flags, conf>>

InRange(l, n) ==
    CASE l = "v830" -> 0 <= n /\ n <= V830_N_CHANNELS
      [] l = "myriad" -> n \in {0, 1}
      [] OTHER -> 0 <= n /\ n <= Limit

count ==
    /\ At("count")
    /\ \E n \in (IF lib = "v830" THEN Scalers ELSE Counts) :
          /\ conf' = [conf EXCEPT ![lib] = n]
          /\ IF InRange(lib, n) THEN Step /\ UNCHANGED <<mapped, set>> ELSE End("error")
    /\ UNCHANGED <<crate, flags>>

Several == IF lib \in Counting THEN conf[lib] > 0 ELSE Wanted

\* Libraries whose NULL is dereferenced: the ADCs' module_id is read in front of the test, and
\* the test behind myriad_map looks at the pointer of the V830.
Unchecked == Adcs \cup {"myriad"}

map ==
    /\ At("map")
    /\ \E fail \in (IF Several THEN Fails(lib) ELSE {FALSE}) :
          IF fail THEN End(IF lib \in Unchecked THEN "crash" ELSE "error")
          ELSE /\ Step /\ UNCHANGED set
               /\ mapped' = IF Several THEN mapped \cup {lib} ELSE mapped
    /\ UNCHANGED <<crate, flags, conf>>

v977_init ==
    /\ At("v977_init")
    /\ inhibit' = TRUE /\ set' = TRUE
    /\ Step
    /\ UNCHANGED <<mapped, flags, conf, enabled, acq, buf, num, triggers>>

\* The channels that v830_init enables: the older versions enable the first three, whatever
\* v830_n_scalers is or will be.
channels_2020 == conf.v830
channels_2016 == 3
channels_e404 == 3
channels == CASE Version = "2020" -> channels_2020
              [] Version = "2016" -> channels_2016
              [] Version = "e404" -> channels_e404

\* A fault: the multi event buffer is not cleared.
v830_init_Keep ==
    /\ At("v830_init")
    /\ enabled' = channels
    /\ Step
    /\ UNCHANGED <<mapped, set, flags, conf, inhibit, acq, buf, num, triggers>>
\* The multi event buffer is cleared and the channels are enabled.
v830_init ==
    /\ At("v830_init")
    /\ enabled' = channels
    /\ buf' = [buf EXCEPT ![<<"v830", 0>>] = {}]
    /\ Step
    /\ UNCHANGED <<mapped, set, flags, conf, inhibit, acq, num, triggers>>

\* -i: the modules are initialised (V1190Micro, VmeConfig) and the program is done.
init ==
    /\ At("init")
    /\ IF flags.init THEN End("init") ELSE Step /\ UNCHANGED <<mapped, set>>
    /\ UNCHANGED <<crate, flags, conf>>

\* start_acq = 0, fifo_reset = 1, start_acq = 1
fifo_reset ==
    /\ At("fifo_reset")
    /\ acq' = IF conf[lib] > 0 THEN [acq EXCEPT ![lib] = TRUE] ELSE acq
    /\ buf' = [b \in Boards |-> IF b \in Used /\ b[1] = lib THEN {} ELSE buf[b]]
    /\ Step
    /\ UNCHANGED <<mapped, set, flags, conf, inhibit, enabled, num, triggers>>

myriad_init ==
    /\ At("myriad_init")
    /\ buf' = IF conf.myriad = 1 THEN [buf EXCEPT ![<<"myriad", 0>>] = {}] ELSE buf
    /\ Step
    /\ UNCHANGED <<mapped, set, flags, conf, inhibit, enabled, acq, num, triggers>>

\* The boards whose counters and whose buffers are cleared: the software clear of a V1190 also
\* empties its buffer, reset_ctr_ab of an ADC does not.
clear_event_counters == [num |-> Used, buf |-> {b \in Used : b[1] = "v1190"}]

\* v830_clear and myriad_clear as well
reset_event_counters == [clear_event_counters EXCEPT !.buf = @ \cup (ReadOut \ Used)]

Clear(what) ==
    /\ num' = [b \in Boards |-> IF b \in what.num THEN 0 ELSE num[b]]
    /\ buf' = [b \in Boards |-> IF b \in what.buf THEN {} ELSE buf[b]]

clear ==
    /\ At("clear")
    /\ Clear(clear_event_counters)
    /\ Step
    /\ UNCHANGED <<mapped, set, flags, conf, inhibit, enabled, acq, triggers>>

\* A port that is taken is no error: the next one is tried.
get_socket ==
    /\ At("socket")
    /\ \E fail \in (IF flags.net THEN Fails("socket") ELSE {FALSE}) :
          IF fail THEN End("error") ELSE Step /\ UNCHANGED <<mapped, set>>
    /\ UNCHANGED <<crate, flags, conf>>

Running == At("daq") /\ ~inhibit

Release ==
    /\ inhibit' = FALSE /\ mark' = triggers /\ releases' = releases + 1
    /\ UNCHANGED <<pc, last, mapped, set, starts, flags, conf, enabled, acq, triggers>>

\* -n: a client has come; the counters are reset and the trigger is released.  (A client that
\* breaks off in the handshake is a case of module Vmedaq.)
accept_connection ==
    /\ At("daq") /\ flags.net /\ inhibit /\ releases < MaxReleases
    /\ \E fail \in Fails("accept") :
         IF fail THEN End("error") /\ UNCHANGED <<crate, flags, conf>>
         ELSE Clear(reset_event_counters) /\ Release

\* Without -n the readout is started as it is.
DaqStarted ==
    /\ At("daq") /\ ~flags.net /\ releases = 0
    /\ Release
    /\ UNCHANGED <<buf, num>>

\* -n: the connection is lost.
ConnectionLoss ==
    /\ Running /\ flags.net
    /\ inhibit' = TRUE
    /\ UNCHANGED <<pc, flags, conf, mapped, enabled, acq, buf, num, triggers, mark, releases, starts,
                   last, set>>

\* Without -n: read_data has failed, the trigger is stopped and the program closes.
ReadError ==
    /\ Running /\ ~flags.net
    /\ inhibit' = TRUE
    /\ Step
    /\ UNCHANGED <<mapped, set, flags, conf, enabled, acq, buf, num, triggers>>

\* v1190_close, madc32_close, mqdc32_close behind the calls of unmap; these libraries drop the
\* window in close, and an error is only reported.
close ==
    /\ At("close")
    /\ mapped' = mapped \ {lib}
    /\ Step
    /\ UNCHANGED <<crate, set, flags, conf>>

\* v830_exit, v977_exit, myriad_exit
exit ==
    /\ At("exit")
    /\ \E fail \in Fails("unmap") : mapped' = IF fail THEN mapped ELSE mapped \ {lib}
    /\ Step
    /\ UNCHANGED <<crate, set, flags, conf>>

\* A signal without a handler ends the program anywhere.
Kill ==
    /\ pc # 0
    /\ pc' = 0 /\ last' = "killed" /\ set' = FALSE
    /\ UNCHANGED <<crate, flags, conf, mapped, mark, releases, starts>>

Takes(b) == b[1] \in Adcs => acq[b[1]]

\* The crate takes a trigger.
Trigger ==
    /\ ~inhibit /\ triggers < MaxTriggers
    /\ triggers' = triggers + 1
    /\ buf' = [b \in Boards |-> IF Takes(b) THEN buf[b] \cup {triggers + 1} ELSE buf[b]]
    /\ num' = [b \in Boards |-> IF Takes(b) THEN num[b] + 1 ELSE num[b]]
    /\ UNCHANGED <<pc, flags, conf, mapped, inhibit, enabled, acq, mark, releases, starts, last, set>>

Program ==
    \/ options \/ dma_init \/ open \/ count \/ map \/ v977_init \/ v830_init \/ init
    \/ fifo_reset \/ myriad_init \/ clear \/ get_socket
    \/ accept_connection \/ DaqStarted \/ ConnectionLoss \/ ReadError \/ close \/ exit

Next == Start \/ Program \/ Kill \/ Trigger

Spec == Init /\ [][Next]_vars

-----------------------------------------------------------------------------

TypeOK ==
    /\ pc \in 0..Len(main) /\ starts \in 0..MaxStarts /\ releases \in 0..MaxReleases
    /\ last \in {"none", "ok", "init", "error", "crash", "killed"}
    /\ {inhibit, set} \subseteq BOOLEAN
    /\ enabled \in 0..V830_N_CHANNELS
    /\ triggers \in 0..MaxTriggers /\ mark \in 0..triggers
    /\ buf \in [Boards -> SUBSET (1..triggers)]
    /\ num \in [Boards -> 0..triggers]

\* Once v977_init has run the crate takes triggers only while the readout runs: not while the
\* program comes up or waits for a client, and not after it has ended, by an error exit, by
\* the dereference of NULL or behind -i; only a kill during the readout leaves it open.
Guarded == set /\ ~(At("daq") /\ releases > 0) => inhibit

\* The readout starts with clean buffers, whatever the last program left in the crate: up to
\* the first loss of the client, each board that is read out holds the events of the triggers
\* since the release, all of them and no others.
FreshData ==
    Running /\ releases = 1 => \A b \in ReadOut : buf[b] = mark + 1..triggers

\* While the readout runs the event counters of all modules agree: each has counted the
\* triggers since the last release, also when the client is not the first one.
SameNumber == Running => \A b \in Used : num[b] = triggers - mark

\* Each scaler that the readout records is enabled in the V830.
ScalersEnabled == At("daq") => conf.v830 <= enabled

\* A window that cannot be mapped is an error the program reports, not a crash.  (Of the
\* libraries in Unchecked a NULL is used before it is tested.)
NoCrash == Faults \cap Unchecked = {} => last # "crash"

\* A program that ends by itself has dropped its windows, the DMA buffer excepted, unless the
\* driver refuses.
NothingLeft == pc = 0 /\ last = "ok" /\ "unmap" \notin Faults => mapped \subseteq {"dma"}

\* Start of vmedaq, on a crate left behind in any state by programs killed anywhere: the
\* trigger is held until everything is set up, the data then begin clean and equally numbered,
\* and the program ends as orderly as it says.
Started ==
    /\ Guarded /\ FreshData /\ SameNumber
    /\ Version # "2016" => ScalersEnabled
    /\ NoCrash /\ NothingLeft

\* What the constants are: versions, numbers and bounds; and a command line gives numbers of
\* modules.
StartParameters ==
    /\ Version \in {"2020", "2016", "e404"}
    /\ Limit \in Nat /\ Counts \subseteq Int /\ Scalers \subseteq Int
    /\ MaxTriggers \in Nat /\ MaxStarts \in Nat /\ MaxReleases \in Nat \ {0}
    /\ Version = "e404" => \A a \in CommandLines : a.n.v1190 \in Nat /\ a.n.madc32 \in Nat
=============================================================================
