------------------------------ MODULE VmeConfig ------------------------------
(***************************************************************************)
(* The configuration of vmedaq: config.c reads a file of parameters, main  *)
(* takes the numbers of modules from it, and with -i v1190_init,           *)
(* madc32_init and mqdc32_init write the settings into the registers of    *)
(* every module.                                                           *)
(*                                                                         *)
(* A value is [form, num, word]: what the regular expressions of config.c  *)
(* see in it and what the conversions make of it.                          *)
(***************************************************************************)
EXTENDS Integers, Sequences, SequencesExt, FiniteSets, Functions

CONSTANTS
    Version,    \* "2020" or "2016"
    Lines,      \* lines a file is made of
    MaxLines,
    MaxModules  \* V1190_MAX_N_MODULES and the others

VARIABLES
    file,       \* lines not yet read
    text,       \* the whole file
    parameters, \* registered parameters, in the order of registration
    errno,      \* errno # 0; nothing ever clears it
    step,       \* how far main has come
    count,      \* modules of each kind
    nim_busy,   \* the local variable of madc32_init and of mqdc32_init
    words, nums \* registers written, by <<kind, module>> and setting

vars == <<file, text, parameters, errno, step, count, nim_busy, words, nums>>

-----------------------------------------------------------------------------
(* config.c *)

NoIndex == "none"

\* A fault: hexadecimal indices are kept as they are.
convert_index_NoHex(i, e) ==
    CASE ~e /\ i \in {"0", "00"} -> "0" [] ~e /\ i \in {"1", "01"} -> "1"
      [] OTHER -> i

\* Decimal and hexadecimal spellings of a number become the decimal one; a
\* number with a fraction is printed with six digits and equals no module.  When
\* errno (e) is set the index stays as it is.
convert_index(i, e) ==
    CASE ~e /\ i \in {"0", "00", "0x0"} -> "0"
      [] ~e /\ i \in {"1", "01", "0x1"} -> "1"
      [] ~e /\ i = "1.0" -> "1.000000"
      [] OTHER -> i

search_parameter_index(ps, name, index) ==
    SelectInSeq(ps, LAMBDA p : p.name = name /\ p.index = index)

register_parameter_if_new(ps, p) ==
    LET i == search_parameter_index(ps, p.name, p.index)
    IN  IF i = 0 THEN Append(ps, p) ELSE [ps EXCEPT ![i] = p]

\* config_read_file: a comment or a line that does not parse changes nothing.
config_read_file ==
    /\ file # <<>>
    /\ LET l == Head(file) IN
       parameters' = IF l.name = "junk" THEN parameters
                     ELSE register_parameter_if_new(parameters,
                              [l EXCEPT !.index = convert_index(@, errno)])
    /\ file' = Tail(file)
    /\ UNCHANGED <<text, errno, step, count, nim_busy, words, nums>>

Lookup(name, i) ==
    LET own == search_parameter_index(parameters, name, i)
        all == search_parameter_index(parameters, name, NoIndex)
    IN  IF own # 0 THEN own ELSE all

config_get_s_value(name, i, default) ==
    LET p == Lookup(name, i) IN IF p = 0 THEN default ELSE parameters[p].value.word

\* get_l_value: decimal, lower-case hexadecimal, or a number with a fraction.
\* A number that is out of range sets errno, and a set errno fails every later
\* conversion.
IsNumber(v) == v.form \in {"dec", "hex", "float", "huge"}

get_l_value(v, default, e) ==
    IF IsNumber(v) /\ ~e /\ v.form # "huge" THEN v.num ELSE default
Sets_errno(v) == v.form = "huge"

\* config_get_l_value for a tuple of [name, default] of module i, one after the
\* other; the result has the values and errno afterwards.
config_get_l_values(opts, i, e) ==
    FoldLeft(LAMBDA acc, o :
                 LET p == Lookup(o.name, i) IN
                 IF p = 0 THEN [acc EXCEPT !.val = Append(@, o.default)]
                 ELSE LET v == parameters[p].value IN
                      [val |-> Append(acc.val, get_l_value(v, o.default, acc.errno)),
                       errno |-> acc.errno \/ Sets_errno(v)],
             [val |-> <<>>, errno |-> e], opts)

-----------------------------------------------------------------------------
(* The settings of the modules *)

Num(n, d) == [name |-> n, default |-> d]
Index == [i \in 0 .. 1 |-> IF i = 0 THEN "0" ELSE "1"]

\* v1190_init: settings in ns are divided by the clock of 25 ns and stored in 16
\* bits; the others are stored as they are.
T_CLOCK == 25
v1190_numbers(i) ==
    <<Num("v1190_geo", i), Num("v1190_match_window_width", 5000),
      Num("v1190_window_offset", -4000), Num("v1190_extra_search_window_width", 0),
      Num("v1190_reject_margin", 100), Num("v1190_almost_full_level", 8192),
      Num("v1190_max_number_hits_w", 9)>>
InClocks == {"v1190_match_window_width", "v1190_window_offset",
             "v1190_extra_search_window_width", "v1190_reject_margin"}

\* Division of C, towards 0, and the width of an unsigned or signed short.
Quotient(a) == IF a < 0 THEN -((-a) \div T_CLOCK) ELSE a \div T_CLOCK
Short(n, name) == IF name = "v1190_window_offset"
                  THEN ((n + 32768) % 65536) - 32768 ELSE n % 65536
Register(name, n) ==
    IF name = "v1190_geo" THEN n
    ELSE IF name \in InClocks THEN Short(Quotient(n), name) ELSE Short(n, name)

madc32_numbers(i) ==
    <<Num("madc32_module_id", i), Num("madc32_irq_threshold", 1),
      Num("madc32_delay0", 0), Num("madc32_delay1", 0), Num("madc32_width0", 40),
      Num("madc32_width1", 40), Num("madc32_threshold", 0)>>

mqdc32_numbers(i) ==
    <<Num("mqdc32_module_id", i), Num("mqdc32_irq_threshold", 1),
      Num("mqdc32_use_ch", -1), Num("mqdc32_exp_trig_delay", 0)>>

\* Settings chosen by a word: the words that are known, the one taken when there
\* is no definition, and the one taken when the word is unknown.
Choice(legal, default, bad) == [legal |-> legal, default |-> default, bad |-> bad]

\* Trailing is spelled "triling" in the program.
v1190_words_2016 ==
    [v1190_detection |-> Choice({"pair", "leading", "triling", "both"}, "leading", "leading")]

v1190_words ==
    IF Version = "2016" THEN v1190_words_2016
    ELSE [v1190_detection |-> Choice({"pair", "leading", "triling", "both"}, "leading", "leading"),
          v1190_trigger_time_subtraction |-> Choice({"true", "false"}, "false", "false")]

madc32_words ==
    [madc32_multi_event   |-> Choice({"none", "unlimited", "limited"}, "unlimited", "unlimited"),
     madc32_marking_type  |-> Choice({"event_counter", "time_stamp", "extended_time_stamp"},
                                     "event_counter", "event_counter"),
     madc32_adc_resolution |-> Choice({"2k", "4k", "4khigh", "8k", "8khigh"}, "4khigh", "4khigh"),
     madc32_use_gg        |-> Choice({"gg0", "gg1"}, "gg0", "gg0"),
     madc32_input_range   |-> Choice({"4V", "8V", "10V"}, "10V", "10V"),
     madc32_nim_gat1_osc  |-> Choice({"gate1", "oscillator"}, "oscillator", "oscillator"),
     madc32_nim_fc_reset  |-> Choice({"fast_clear", "time_stamp"}, "fast_clear", "fast_clear"),
     madc32_nim_busy      |-> Choice({"busy", "gg0", "gg1", "cbus", "full", "threshold"},
                                     "threshold", "threshold"),
     madc32_ts_sources    |-> Choice({"internal", "external"}, "internal", "internal"),
     madc32_ts_sources_ext_reset_enable |-> Choice({"disable", "enable"}, "disable", "disable")]

mqdc32_words ==
    [mqdc32_multi_event   |-> Choice({"none", "unlimited", "limited"}, "unlimited", "unlimited"),
     mqdc32_marking_type  |-> Choice({"event_counter", "time_stamp", "extended_time_stamp"},
                                     "event_counter", "event_counter"),
     mqdc32_input_coupling |-> Choice({"B0AC_B1AC", "B0DC_B1AC", "B0AC_B1DC", "B0DC_B1DC"},
                                      "B0AC_B1AC", "B0AC_B1AC"),
     mqdc32_nim_gat1_osc  |-> Choice({"gate1", "oscillator"}, "oscillator", "oscillator"),
     mqdc32_nim_fc_reset  |-> Choice({"fast_clear", "time_stamp", "exp_trig"}, "fast_clear", "fast_clear"),
     mqdc32_nim_busy      |-> Choice({"busy", "cbus", "full", "data_threshold", "evt_threshold"},
                                     "data_threshold", "data_threshold"),
     mqdc32_ts_sources    |-> Choice({"internal", "external"}, "external", "internal"),
     mqdc32_ts_sources_ext_reset_enable |-> Choice({"disable", "enable"}, "disable", "disable")]

Kinds == IF Version = "2016" THEN <<"v1190", "madc32">> ELSE <<"v1190", "madc32", "mqdc32">>

WordsOf(k) == CASE k = "v1190" -> v1190_words [] k = "madc32" -> madc32_words
                [] k = "mqdc32" -> mqdc32_words
NumbersOf(k, i) == CASE k = "v1190" -> v1190_numbers(i) [] k = "madc32" -> madc32_numbers(i)
                     [] k = "mqdc32" -> mqdc32_numbers(i)

Busy(k) == IF k = "madc32" THEN "madc32_nim_busy" ELSE "mqdc32_nim_busy"
Fc(k)   == IF k = "madc32" THEN "madc32_nim_fc_reset" ELSE "mqdc32_nim_fc_reset"

-----------------------------------------------------------------------------
(* main *)

CountName == [v1190 |-> "v1190_n_modules", madc32 |-> "madc32_n_modules", mqdc32 |-> "mqdc32_n_modules"]

\* The modules of each kind in turn: their number, which ends the program when
\* it is out of range.
Setup ==
    /\ file = <<>> /\ step \in 1 .. Len(Kinds)
    /\ LET k == Kinds[step]
           r == config_get_l_values(<<Num(CountName[k], 0)>>, "0", errno)
       IN  /\ errno' = r.errno
           /\ IF r.val[1] \in 0 .. MaxModules
              THEN count' = [count EXCEPT ![k] = r.val[1]] /\ step' = step + 1
              ELSE step' = 0 /\ UNCHANGED count
    /\ UNCHANGED <<file, text, parameters, nim_busy, words, nums>>

\* The word for setting o of module i, legal or not.
Given(k, o, i) == config_get_s_value(o, i, WordsOf(k)[o].default)
Chosen(k, o, i) == IF Given(k, o, i) \in WordsOf(k)[o].legal THEN Given(k, o, i)
                                                             ELSE WordsOf(k)[o].bad

\* For an unknown word for nim_busy the program assigns nim_fc_reset: nim_busy
\* keeps what it had, from the module before or from nowhere.
BusyWord(k, i) ==
    IF Given(k, Busy(k), i) \in WordsOf(k)[Busy(k)].legal THEN Given(k, Busy(k), i) ELSE nim_busy
FcWord(k, i) ==
    IF Given(k, Busy(k), i) \in WordsOf(k)[Busy(k)].legal THEN Chosen(k, Fc(k), i)
    ELSE WordsOf(k)[Busy(k)].bad

WordRegisters(k, i) ==
    [o \in DOMAIN WordsOf(k) |->
        IF k = "v1190" THEN Chosen(k, o, i)
        ELSE CASE o = Busy(k) -> BusyWord(k, i)
               [] o = Fc(k) -> FcWord(k, i)
               [] OTHER -> Chosen(k, o, i)]

NumberRegister(name, n) == Register(name, n)

NextModule(k) == Cardinality({x \in DOMAIN words : x[1] = k})

\* v1190_init, madc32_init, mqdc32_init: one module.
InitModule ==
    /\ step = Len(Kinds) + 1
    /\ \E s \in 1 .. Len(Kinds) :
        LET k == Kinds[s]
            i == NextModule(k)
            opts == NumbersOf(k, i)
            r == config_get_l_values(opts, Index[i], errno)
        IN  /\ \A j \in 1 .. s - 1 : NextModule(Kinds[j]) = count[Kinds[j]]
            /\ i < count[k]
            /\ errno' = r.errno
            /\ words' = words @@ (<<k, i>> :> WordRegisters(k, Index[i]))
            /\ nums' = nums @@ (<<k, i>> :> [o \in {opts[j].name : j \in DOMAIN opts} |->
                   LET j == CHOOSE j \in DOMAIN opts : opts[j].name = o
                   IN  NumberRegister(o, r.val[j])])
            /\ nim_busy' = IF k = "v1190" THEN nim_busy
                           ELSE IF i + 1 < count[k] THEN BusyWord(k, Index[i]) ELSE "garbage"
    /\ UNCHANGED <<file, text, parameters, step, count>>

Init ==
    /\ text \in UNION {[1 .. n -> Lines] : n \in 0 .. MaxLines}
    /\ file = text
    /\ parameters = <<>> /\ errno = FALSE /\ step = 1
    /\ count = [k \in ToSet(Kinds) |-> 0]
    /\ nim_busy = "garbage" /\ words = <<>> /\ nums = <<>>

Next == config_read_file \/ Setup \/ InitModule

Spec == Init /\ [][Next]_vars

-----------------------------------------------------------------------------
(* Properties *)

\* Types: a parameter is registered once for a name and an index.
TypeOK ==
    /\ step \in 0 .. Len(Kinds) + 1 /\ errno \in BOOLEAN
    /\ \A a, b \in DOMAIN parameters :
        (parameters[a].name = parameters[b].name /\ parameters[a].index = parameters[b].index) => a = b
    /\ DOMAIN words = DOMAIN nums

\* What the file says about a setting of module i: the last line with its index,
\* or else the last line without index, or else nothing.
SameIndex(x, i) == x = i \/ (x \in {"0", "00", "0x0"} /\ i = "0") \/ (x \in {"1", "01", "0x1"} /\ i = "1")
Said(name, i) ==
    LET own == {n \in DOMAIN text : text[n].name = name /\ SameIndex(text[n].index, i)}
        all == {n \in DOMAIN text : text[n].name = name /\ text[n].index = NoIndex}
        last(S) == {text[n].value : n \in {m \in S : \A l \in S : l <= m}}
    IN  IF own # {} THEN last(own) ELSE last(all)

\* Every setting chosen by a word has, in every module, the word the file gives
\* for that module, or the documented default for none and for an unknown one.
OwnWords ==
    \A x \in DOMAIN words : \A o \in DOMAIN words[x] :
        LET c == WordsOf(x[1])[o]
            s == {v.word : v \in Said(o, Index[x[2]])}
        IN  words[x][o] = IF s = {} THEN c.default
                          ELSE IF s \subseteq c.legal THEN CHOOSE w \in s : TRUE ELSE c.bad

\* Every number written to a module is the one the file gives for it, whatever
\* other lines say; a value that is no number leaves the default.
OwnNumbers ==
    \A x \in DOMAIN nums : \A j \in DOMAIN NumbersOf(x[1], x[2]) :
        LET o == NumbersOf(x[1], x[2])[j]
            s == {v.num : v \in {w \in Said(o.name, Index[x[2]]) : w.form \in {"dec", "hex", "float"}}}
        IN  nums[x][o.name] = Register(o.name, IF s = {} THEN o.default ELSE CHOOSE n \in s : TRUE)
=============================================================================
