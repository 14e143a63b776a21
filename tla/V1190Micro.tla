----------------------------- MODULE V1190Micro -----------------------------
(***************************************************************************)
(* The micro controller of a V1190 TDC and the programs that set it up.    *)
(* Opcodes, operands and answers all pass through one register; the        *)
(* handshake register says whether a word may be written (WriteOK) and     *)
(* whether one may be read (ReadOK).  The programs are vmedaq, which sets  *)
(* the TDCs up at the start of a run, and the command line tools in v1190/ *)
(* and v1190o/; they run one after the other, or at the same time, against *)
(* the same board, and none of them looks at a return code.                *)
(***************************************************************************)
EXTENDS Integers, Sequences, TLC

CONSTANTS
    Procs,      \* processes: programs that may run at the same time
    Progs,      \* programs they run
    MaxRuns,    \* programs run in all
    Quick       \* the board takes a word, and answers, within the pauses of the programs

VARIABLES
    in,         \* word written and not yet taken by the micro controller: <<>> or <<w>>
    want,       \* setting whose operand is awaited, "" when an opcode is
    out,        \* answer words not yet read: [q : setting asked for, v : its value]
    setting,    \* the settings of the TDC
    prog, todo, \* per process: its program and the steps of it that are left
    before,     \* ghost, per process: the settings when its program started
    got,        \* per process: the words its reads returned, with what they were to be
    warned,     \* per process: a message about the board was printed
    runs        \* programs started

board == <<in, want, out, setting>>
vars == <<board, prog, todo, before, got, warned, runs>>

-----------------------------------------------------------------------------
(* The words of v1190.h.  The high byte of a word is the operation; the    *)
(* low byte does not matter to the operations below.                       *)

TRIG_MATCH         == 0
CONTINUOUS_STORAGE == 256
LOAD_DEF_CONFIG    == 5 * 256
SET_WIN_WIDTH      == 16 * 256
SET_WIN_OFFS       == 17 * 256
SET_SW_MARGIN      == 18 * 256
SET_REJ_MARGIN     == 19 * 256
EN_SUB_TRG         == 20 * 256
DIS_SUB_TRG        == 21 * 256
READ_TRG_CONF      == 22 * 256
SET_DETECTION      == 34 * 256
READ_DETECTION     == 35 * 256
EN_HEAD_TRAILER    == 48 * 256
DIS_HEAD_TRAILER   == 49 * 256
READ_HEAD_TRAILER  == 50 * 256
SET_EVENT_SIZE     == 51 * 256
READ_EVENT_SIZE    == 52 * 256
SoftwareClear      == 16 * 256 + 22     \* 0x1016: the address of a register

Word(n) == n % 65536

-----------------------------------------------------------------------------
(* The micro controller: external *)

Setting == {"mode", "width", "offset", "search", "reject", "sub", "detection", "size", "headers"}

WithOperand == [o \in {SET_WIN_WIDTH, SET_WIN_OFFS, SET_SW_MARGIN, SET_REJ_MARGIN,
                       SET_DETECTION, SET_EVENT_SIZE} |->
    CASE o = SET_WIN_WIDTH  -> "width"
      [] o = SET_WIN_OFFS   -> "offset"
      [] o = SET_SW_MARGIN  -> "search"
      [] o = SET_REJ_MARGIN -> "reject"
      [] o = SET_DETECTION  -> "detection"
      [] OTHER              -> "size"]

Answers == [o \in {READ_TRG_CONF, READ_DETECTION, READ_HEAD_TRAILER, READ_EVENT_SIZE} |->
    CASE o = READ_TRG_CONF     -> <<"width", "offset", "search", "reject", "sub">>
      [] o = READ_DETECTION    -> <<"detection">>
      [] o = READ_HEAD_TRAILER -> <<"headers">>
      [] OTHER                 -> <<"size">>]

Default == [mode |-> 0, width |-> 20, offset |-> Word(-40), search |-> 8, reject |-> 4,
            sub |-> 0, detection |-> 2, size |-> 9, headers |-> 1]

Immediate == [o \in {TRIG_MATCH, CONTINUOUS_STORAGE, LOAD_DEF_CONFIG, EN_SUB_TRG, DIS_SUB_TRG,
                     EN_HEAD_TRAILER, DIS_HEAD_TRAILER} |->
    CASE o = TRIG_MATCH         -> [mode |-> 1]
      [] o = CONTINUOUS_STORAGE -> [mode |-> 0]
      [] o = EN_SUB_TRG         -> [sub |-> 1]
      [] o = DIS_SUB_TRG        -> [sub |-> 0]
      [] o = EN_HEAD_TRAILER    -> [headers |-> 1]
      [] o = DIS_HEAD_TRAILER   -> [headers |-> 0]
      [] OTHER                  -> Default]

Change(s, c) == [x \in Setting |-> IF x \in DOMAIN c THEN c[x] ELSE s[x]]

WriteOK == in = <<>> /\ out = <<>>
ReadOK  == out # <<>>

\* The micro controller takes the word: as the operand it waits for, or as an opcode.
MicroTake ==
    /\ in # <<>> /\ out = <<>>
    /\ in' = <<>>
    /\ LET w == in[1]
           o == (w \div 256) * 256
       IN  IF want # ""
           THEN setting' = [setting EXCEPT ![want] = w] /\ want' = "" /\ UNCHANGED out
           ELSE /\ want' = IF o \in DOMAIN WithOperand THEN WithOperand[o] ELSE ""
                /\ setting' = IF o \in DOMAIN Immediate THEN Change(setting, Immediate[o])
                                                        ELSE setting
                /\ out' = IF o \in DOMAIN Answers
                          THEN [i \in DOMAIN Answers[o] |->
                                  [q |-> Answers[o][i], v |-> setting[Answers[o][i]]]]
                          ELSE <<>>
    /\ UNCHANGED <<prog, todo, before, got, warned, runs>>

-----------------------------------------------------------------------------
(* The programs, as the steps of them that touch the micro controller.     *)

Write(w) == <<[do |-> "write", w |-> w, q |-> ""]>>
Raw(w)   == <<[do |-> "raw", w |-> w, q |-> ""]>>
Sleep    == <<[do |-> "sleep", w |-> 0, q |-> ""]>>
Wait(q)  == <<[do |-> "wait", w |-> 0, q |-> q]>>
OldRead(w) == <<[do |-> "oldread", w |-> w, q |-> ""]>>

Map      == <<[do |-> "map", w |-> 0, q |-> ""]>>

\* v1190_micro_handshake_read and v1190_micro_handshake_read_cont
v1190_micro_handshake_read(w, q) == Raw(w) \o Wait(q)
v1190_micro_handshake_read_cont(q) == Wait(q)

Set(w, v) == Write(w) \o Sleep \o Write(Word(v)) \o Sleep
Do(w) == Write(w) \o Sleep

ReadTrgConf == v1190_micro_handshake_read(READ_TRG_CONF, "width")
    \o v1190_micro_handshake_read_cont("offset") \o v1190_micro_handshake_read_cont("search")
    \o v1190_micro_handshake_read_cont("reject") \o v1190_micro_handshake_read_cont("sub")

Window(width, offset, search, reject) ==
    Set(SET_WIN_WIDTH, width) \o Set(SET_WIN_OFFS, offset)
    \o Set(SET_SW_MARGIN, search) \o Set(SET_REJ_MARGIN, reject)

vmedaq == Map \o Do(TRIG_MATCH) \o Window(5000 \div 25, -(4000 \div 25), 0, 100 \div 25)
          \o Set(SET_DETECTION, 2) \o Set(SET_EVENT_SIZE, 9) \o Do(DIS_SUB_TRG)

\* The copies of 2016 and of E404, which know no trigger time subtraction.
vmedaq_2016 == Map \o Do(TRIG_MATCH) \o Window(5000 \div 25, -(4000 \div 25), 0, 100 \div 25)
               \o Set(SET_DETECTION, 2) \o Set(SET_EVENT_SIZE, 9)

vmedaq_e404 == Map \o Do(TRIG_MATCH) \o Window(5000 \div 25, -(4000 \div 25), 0, 100 \div 25)
               \o Set(SET_DETECTION, 2) \o Set(SET_EVENT_SIZE, 9)

vmedaq_bak == Map \o Do(TRIG_MATCH) \o Window(4000 \div 25, -(2000 \div 25), 0, 100 \div 25)

v1190_read == Map \o Do(TRIG_MATCH) \o Window(4000 \div 25, -(2000 \div 25), 0, 100 \div 25)

v1190_window == Map \o Window(1000 \div 25, -(100 \div 25), 0, 100 \div 25)
                \o Do(EN_SUB_TRG) \o Do(1) \o ReadTrgConf

v1190_init == Map \o Do(LOAD_DEF_CONFIG)

v1190_trig_match_mode == Map \o Do(TRIG_MATCH) \o Do(EN_SUB_TRG) \o ReadTrgConf

v1190_cont_storage_mode == Map \o Do(CONTINUOUS_STORAGE)

v1190_en_head_trailer == Map \o Do(EN_HEAD_TRAILER)

v1190_dis_head_trailer == Map \o Do(DIS_HEAD_TRAILER)

v1190_read_head_trailer == Map \o v1190_micro_handshake_read(READ_HEAD_TRAILER, "headers") \o Sleep

v1190_status == Map \o ReadTrgConf \o Sleep
    \o v1190_micro_handshake_read(READ_DETECTION, "detection") \o Sleep
    \o v1190_micro_handshake_read(READ_EVENT_SIZE, "size")

v1190test == Map \o Do(TRIG_MATCH) \o Do(CONTINUOUS_STORAGE)

\* The tools of v1190o, where the library has another handshake read.
o_MH == Map \o Write(SET_WIN_OFFS) \o Raw(40) \o Sleep

o_init == Map \o Write(SoftwareClear) \o Write(LOAD_DEF_CONFIG) \o Sleep

o_clear_bu == Map \o Do(SoftwareClear)

o_cont_storage_mode == Map \o Do(CONTINUOUS_STORAGE)

o_dis_head_trailer == Map \o Do(DIS_HEAD_TRAILER)

o_en_head_trailer == Map \o Do(EN_HEAD_TRAILER)

o_trig_match_mode == Map \o Do(TRIG_MATCH)

o_read_head_trailer == Map \o OldRead(READ_HEAD_TRAILER) \o Sleep

o_test == Map \o Do(TRIG_MATCH) \o Do(CONTINUOUS_STORAGE)

\* The second copy of v1190_status, kept with the MyRIAD tools.
myriad_status == Map \o ReadTrgConf \o Sleep
    \o v1190_micro_handshake_read(READ_DETECTION, "detection") \o Sleep
    \o v1190_micro_handshake_read(READ_EVENT_SIZE, "size")

Program(g) ==
    CASE g = "vmedaq" -> vmedaq
      [] g = "vmedaq_2016" -> vmedaq_2016 [] g = "vmedaq_e404" -> vmedaq_e404
      [] g = "vmedaq_bak" -> vmedaq_bak [] g = "v1190_read" -> v1190_read
      [] g = "v1190_window" -> v1190_window [] g = "v1190_init" -> v1190_init
      [] g = "v1190_trig_match_mode" -> v1190_trig_match_mode [] g = "v1190_cont_storage_mode" -> v1190_cont_storage_mode
      [] g = "v1190_en_head_trailer" -> v1190_en_head_trailer [] g = "v1190_dis_head_trailer" -> v1190_dis_head_trailer
      [] g = "v1190_read_head_trailer" -> v1190_read_head_trailer [] g = "v1190_status" -> v1190_status
      [] g = "v1190test" -> v1190test [] g = "o_MH" -> o_MH
      [] g = "o_init" -> o_init [] g = "o_clear_bu" -> o_clear_bu
      [] g = "o_cont_storage_mode" -> o_cont_storage_mode [] g = "o_dis_head_trailer" -> o_dis_head_trailer
      [] g = "o_en_head_trailer" -> o_en_head_trailer [] g = "o_trig_match_mode" -> o_trig_match_mode
      [] g = "o_read_head_trailer" -> o_read_head_trailer [] g = "o_test" -> o_test
      [] g = "myriad_status" -> myriad_status

-----------------------------------------------------------------------------

Init ==
    /\ in = <<>> /\ want = "" /\ out = <<>>
    /\ setting = [x \in Setting |-> 7]
    /\ prog = [p \in Procs |-> "none"] /\ todo = [p \in Procs |-> <<>>]
    /\ before = [p \in Procs |-> setting]
    /\ got = [p \in Procs |-> {}] /\ warned = [p \in Procs |-> FALSE]
    /\ runs = 0

Done(p) == todo[p] = <<>>
Now(p) == Head(todo[p])
At(p, what) == ~Done(p) /\ Now(p).do = what
Goto(p) == todo' = [todo EXCEPT ![p] = Tail(@)]

Start(p, g) ==
    /\ Done(p) /\ runs < MaxRuns
    /\ prog' = [prog EXCEPT ![p] = g] /\ todo' = [todo EXCEPT ![p] = Program(g)]
    /\ before' = [before EXCEPT ![p] = setting]
    /\ got' = [got EXCEPT ![p] = {}] /\ warned' = [warned EXCEPT ![p] = FALSE]
    /\ runs' = runs + 1
    /\ UNCHANGED board

\* v1190_open, v1190_map: the program goes on, or it ends because one of them failed.
v1190_map(p) ==
    /\ At(p, "map")
    /\ \/ Goto(p) /\ UNCHANGED prog
       \/ prog' = [prog EXCEPT ![p] = "none"] /\ todo' = [todo EXCEPT ![p] = <<>>]
    /\ UNCHANGED <<board, before, got, warned, runs>>

\* A word written while WriteOK is not set replaces the one before it, or is lost.
Put(w) == in' \in IF WriteOK THEN {<<w>>} ELSE {in, <<w>>}

v1190_micro_handshake_write(p) ==
    /\ At(p, "write") /\ Goto(p)
    /\ IF WriteOK
       THEN in' = <<Now(p).w>> /\ UNCHANGED warned
       ELSE warned' = [warned EXCEPT ![p] = TRUE] /\ UNCHANGED in
    /\ UNCHANGED <<want, out, setting, prog, before, got, runs>>

\* The write that begins a handshake read, and the writes to the register itself.
micro(p) ==
    /\ At(p, "raw") /\ Goto(p)
    /\ Put(Now(p).w)
    /\ UNCHANGED <<want, out, setting, prog, before, got, warned, runs>>

\* v1190_micro_handshake_read of v1190o: the opcode is written when a word can be read.
v1190o_micro_handshake_read(p) ==
    /\ At(p, "oldread") /\ Goto(p)
    /\ IF ReadOK THEN Put(Now(p).w) /\ UNCHANGED warned
                 ELSE warned' = [warned EXCEPT ![p] = TRUE] /\ UNCHANGED in
    /\ UNCHANGED <<want, out, setting, prog, before, got, runs>>


\* sleep and usleep: long enough for a quick board to take the word.
usleep(p) ==
    /\ At(p, "sleep") /\ Goto(p)
    /\ Quick => in = <<>> \/ out # <<>>
    /\ UNCHANGED <<board, prog, before, got, warned, runs>>

\* v1190_micro_handshake_read_wait, and the read behind it when a word is ready ...
v1190_micro_handshake_read_wait(p) ==
    /\ At(p, "wait") /\ ReadOK
    /\ Goto(p)
    /\ got' = [got EXCEPT ![p] = @ \cup {[q |-> Now(p).q, a |-> out[1].q]}]
    /\ out' = Tail(out)
    /\ UNCHANGED <<in, want, setting, prog, before, warned, runs>>

\* A fault: the eleventh poll is waited for as well, for ever.
timeout_Never(p) == FALSE /\ UNCHANGED vars

\* ... and its end after ten polls.
timeout(p) ==
    /\ At(p, "wait") /\ ~ReadOK
    /\ Quick => in = <<>>
    /\ Goto(p)
    /\ warned' = [warned EXCEPT ![p] = TRUE]
    /\ UNCHANGED <<board, prog, before, got, runs>>

Step(p) ==
    \/ v1190_map(p)
    \/ v1190_micro_handshake_write(p)
    \/ micro(p)
    \/ v1190o_micro_handshake_read(p)
    \/ usleep(p)
    \/ v1190_micro_handshake_read_wait(p)
    \/ timeout(p)

Next == \/ MicroTake
        \/ \E p \in Procs : Step(p)
        \/ \E p \in Procs, g \in Progs : Start(p, g)

Spec == Init /\ [][Next]_vars
-----------------------------------------------------------------------------

TypeOK ==
    /\ Len(in) \leq 1 /\ \A i \in DOMAIN in : in[i] \in 0 .. 65535
    /\ want \in Setting \cup {""}
    /\ \A i \in DOMAIN out : out[i].q \in Setting /\ out[i].v \in 0 .. 65535
    /\ setting \in [Setting -> 0 .. 65535]
    /\ prog \in [Procs -> Progs \cup {"none"}]
    /\ \A p \in Procs : prog[p] = "none" => Done(p)
    /\ warned \in [Procs -> BOOLEAN] /\ runs \in 0 .. MaxRuns

Conf(width, offset) == [width |-> width, offset |-> Word(offset), search |-> 0, reject |-> 4]

DaqConf == [mode |-> 1, width |-> 200, offset |-> Word(-160), search |-> 0, reject |-> 4,
            detection |-> 2, size |-> 9]

\* What each program is for: the settings it is to give to the TDC.
Goal(g) ==
    CASE g = "vmedaq" -> [sub |-> 0] @@ DaqConf
      [] g \in {"vmedaq_2016", "vmedaq_e404"} -> DaqConf
      [] g \in {"vmedaq_bak", "v1190_read"} -> [mode |-> 1] @@ Conf(160, -80)
      [] g = "v1190_window" -> [sub |-> 1] @@ Conf(40, -4)
      [] g \in {"v1190_init", "o_init"} -> Default
      [] g = "v1190_trig_match_mode" -> [mode |-> 1, sub |-> 1]
      [] g = "o_trig_match_mode" -> [mode |-> 1]
      [] g \in {"v1190_cont_storage_mode", "o_cont_storage_mode", "v1190test", "o_test"} ->
            [mode |-> 0]
      [] g \in {"v1190_en_head_trailer", "o_en_head_trailer"} -> [headers |-> 1]
      [] g \in {"v1190_dis_head_trailer", "o_dis_head_trailer"} -> [headers |-> 0]
      [] g = "o_MH" -> [offset |-> 40]
      [] OTHER -> <<>>

AsMeant(p) == setting = Change(before[p], Goal(prog[p]))

\* Programs that write words the micro controller takes for something else: v1190_window writes
\* the value of the subtraction behind EN_SUB_TRG, and it is the opcode TRIG_MATCH; v1190_MH of
\* v1190o does not wait between opcode and operand; v1190_init and v1190_clear_bu of v1190o
\* write the address of a register, and it is the opcode SET_WIN_WIDTH.
Astray == {"v1190_window", "o_MH", "o_init", "o_clear_bu"}

Ended(p) == Done(p) /\ prog[p] # "none" /\ in = <<>>

\* Of the other settings each is as before or as the program is to make it.
Spared(p) ==
    \A x \in Setting \ {"mode", "width", "offset"} :
        setting[x] \in {before[p][x], Change(before[p], Goal(prog[p]))[x]}

\* On a quick board, when a program has ended, the TDC has the settings the program is for and
\* every other setting is as it was: no operand went to the wrong setting, none was taken for an
\* opcode, and no word was refused (the return codes of v1190_micro_handshake_write are not
\* looked at).  Where programs that go Astray are about, the mode and the window may be spoilt,
\* but no other setting.
Configured ==
    Quick => \A p \in Procs : Ended(p) => IF Progs \cap Astray = {} THEN AsMeant(p) ELSE Spared(p)

\* On a quick board a program that has ended leaves a micro controller that waits for an opcode
\* and holds no answer: what the next program writes first is taken for what it is.
NothingHalfDone ==
    Quick /\ Progs \cap Astray = {} /\ (\A p \in Procs : Done(p)) =>
        want = "" /\ in = <<>> /\ out = <<>>

\* A handshake read that returns 0 has returned the word that was asked for
\* (v1190_micro_handshake_read, v1190_micro_handshake_read_cont).  On a board that answers when
\* it likes, a word that came too late for one read is returned by the next, but only by a
\* program that has reported the timeout.
AnswerFits == \A p \in Procs : \A g \in got[p] : g.q = g.a \/ (~Quick /\ warned[p])

\* On a board slower than the pauses, a program that leaves the TDC with other settings than
\* the ones it is for has said so: a refused write prints "the board is not ready".
Warned == Progs \cap Astray = {} => \A p \in Procs : Ended(p) => AsMeant(p) \/ warned[p]
=============================================================================
