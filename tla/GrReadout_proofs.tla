-------------------------- MODULE GrReadout_proofs --------------------------
(***************************************************************************)
(* What is proved about GrReadout: the collector puts the blocks of a run  *)
(* in their order and every event of a run once and in order, with any     *)
(* number of memories, of any size, for any mixture of single and double   *)
(* overflows, commands, stops and waits for the ring (CollectorRight).     *)
(*                                                                         *)
(* The argument.  At any time one of the two banks, a, has the older       *)
(* events: for every pair of memories the blocks put so far, the memory of *)
(* bank a and that of the other bank hold the events 1 .. event in this    *)
(* order (Flow).  The banks in t have been taken up by the readout and may *)
(* not be written (Banked); where the readout stands says which a and t    *)
(* are (Place).  An event changes neither, the end of a bank makes the     *)
(* other one the older.                                                    *)
(***************************************************************************)
EXTENDS GrReadout, TLAPS

Ids == {"start", "scaler", "data", "end"}
Blk == [id : Ids, what : Seq(Nat), from : Nat]
Msgs == [command : {"none", "START", "STOP", "RESET", "EXIT"}, run : Nat]

\* The types of all that the other parts speak of.
CmdTypes ==
    /\ cmd \in [Ctrl -> [at : {"none", "read", "swap", "latch", "START", "STOP", "RESET", "EXIT"}, msg : Msgs]]
    /\ mb \in Msgs /\ cmb \in Msgs
    /\ status \in {"OFF", "START", "ON", "STOP"}

ReadTypes ==
    /\ dpc \in {"loop", "encode", "putstart", "clear", "scaler", "read", "stopscaler", "last", "exit"}
    /\ i_buf \in 1 .. 3 /\ p_buf \in 0 .. 1
    /\ todo \in Seq(Lrm)
    /\ dpc = "putstart" => buf = Block("start", IF Collect.start THEN <<cmb.run>> ELSE << >>, 0)

HwTypes ==
    /\ lrm \in [Lrm -> Seq(Nat)]
    /\ ff \subseteq {1, 2} /\ avail \subseteq {1, 2}
    /\ veto \in BOOLEAN /\ bank \in 1 .. 2 /\ event \in 0 .. setup.MaxEvents

LogTypes ==
    /\ ring \in Seq(Blk) /\ Len(ring) <= setup.max_que_num
    /\ log \in Seq(Blk)

Types == setup \in Setups /\ CmdTypes /\ ReadTypes /\ HwTypes /\ LogTypes

\* A run has been announced and not ended.
Going == Announced /\ ~ Over
Resting == log = << >> \/ Over
Serving == dpc \in {"clear", "scaler", "read"}
Ending == dpc \in {"stopscaler", "last"}
Taking == Serving \/ (dpc = "loop" /\ Going)

\* Where the readout stands, the run state and the blocks of the run belong together.
Stages ==
    /\ dpc = "loop" => (Resting /\ status # "ON") \/ (Going /\ status \in {"ON", "STOP"})
    /\ dpc \in {"encode", "putstart"} => Resting /\ status \in {"ON", "STOP"}
    /\ Serving => Going /\ status \in {"ON", "STOP"}
    /\ dpc = "stopscaler" => (log = << >> \/ Going) /\ status # "ON"
    /\ dpc = "last" => log # << >> /\ ~ Over /\ status # "ON"
    /\ dpc # "exit" => (veto <=> ~ Taking)

\* The order of the blocks (RunShape), block by block.
IsAt(k, x) == k \in DOMAIN log /\ log[k].id = x
Counted == \E j \in DOMAIN log : IsAt(j, "scaler")

Ordered ==
    /\ \A k \in DOMAIN log : IsAt(k, "start") => k = 1
    /\ \A k \in DOMAIN log : IsAt(k, "data") => \E j \in DOMAIN log : IsAt(j, "scaler") /\ j < k
    /\ \A k \in DOMAIN log : IsAt(k, "end") => k = Len(log) /\ Counted
    /\ \A k \in DOMAIN log : IsAt(k, "end") /\ Announced /\ Collect.start => log[k].what = log[1].what
    /\ log # << >> /\ ~ Announced => \A k \in DOMAIN log : IsAt(k, "scaler") <=> k = 1
    /\ Going /\ Collect.start => log[1].what = <<cmb.run>>

LogShape == Ordered /\ (dpc \in {"read", "last"} => Counted)

\* What is still to be read: no memory twice, one bank after the other.
Others(j) == BankOf(todo[j]) = p_buf + 1

TodoShape ==
    /\ \A j, k \in DOMAIN todo : j # k => todo[j] # todo[k]
    /\ dpc \notin {"scaler", "read", "last", "exit"} => todo = << >>
    /\ dpc \in {"scaler", "read"} /\ i_buf # 3 => \A j \in DOMAIN todo : BankOf(todo[j]) = i_buf
    /\ dpc \in {"scaler", "read"} => \A j, k \in DOMAIN todo : i_buf = 3 /\ j < k /\ Others(j) => Others(k)
    /\ dpc = "scaler" /\ todo # << >> => i_buf = 3 /\ \A j \in DOMAIN todo : Others(j)
    /\ dpc = "last" => \A j \in DOMAIN todo : Others(j)

\* A block of data is followed by one of the same bank, or by a scaler block.
Apart ==
    Collect.scaler = "bank" =>
      /\ BankScaler
      /\ dpc \in {"read", "last"} /\ todo # << >> /\ log[Len(log)].id = "data" =>
           BankOf(log[Len(log)].from) = BankOf(todo[1])

-----------------------------------------------------------------------------
(* The two banks *)

Loaded == dpc \in {"read", "last"} \/ (dpc = "scaler" /\ todo # << >>)

\* Bank b has been taken up and not been read to its end.
Unread(b) == ~ Loaded \/ \E j \in DOMAIN todo : BankOf(todo[j]) = b

\* What the place of the readout says about the older bank a and the banks t it has taken up.
Place(a, t) ==
    \/ dpc = "loop" /\ a = 2 - p_buf /\ t = {}
    \/ dpc = "clear" /\ a = 2 - p_buf /\ t = {} /\ ff = BanksOf(i_buf)
    \/ dpc \in {"scaler", "read"} /\ i_buf = 2 - p_buf /\ Unread(i_buf) /\ a = i_buf /\ t = {a}
    \/ dpc = "read" /\ i_buf = 2 - p_buf /\ todo = << >> /\ a = 3 - i_buf /\ t = {}
    \/ dpc \in {"scaler", "read"} /\ i_buf = 3 /\ Unread(1) /\ Unread(2) /\ a = 2 - p_buf /\ t = {1, 2}
    \/ /\ dpc \in {"scaler", "read"} /\ i_buf = 3 /\ Loaded /\ todo # << >>
       /\ ~ Unread(2 - p_buf) /\ a = p_buf + 1 /\ t = {a}
    \/ dpc = "read" /\ i_buf = 3 /\ todo = << >> /\ a = 2 - p_buf /\ t = {}

Drained(b) == \A i \in Lrm : BankOf(i) = b => lrm[i] = << >>

\* The state of the electronics.
Banked(a, t) ==
    /\ avail = {1, 2} \ t
    /\ \A x \in ff : BankFull(x)
    /\ \/ t = {} /\ ff = {} /\ bank = a /\ ~ BankFull(a) /\ Drained(3 - a)
       \/ t = {} /\ ff = {a} /\ bank = 3 - a /\ ~ BankFull(3 - a)
       \/ t = {} /\ ff = {1, 2} /\ bank = a
       \/ t = {a} /\ ff = {} /\ bank = 3 - a /\ ~ BankFull(3 - a)
       \/ t = {a} /\ ff = {3 - a} /\ bank = a
       \/ t = {1, 2} /\ ff = {} /\ bank = a

\* A memory of a bank in t that is no longer to be read is empty.
Emptied(t) == \A i \in Lrm : Loaded /\ BankOf(i) \in t /\ i \notin Range(todo) => lrm[i] = << >>

\* The memory of pair m in bank a.
Mem(a, m) == 2 * m + a - 1

\* s is n + 1, n + 2, ...
Upward(s, n) == \A e \in DOMAIN s : s[e] = n + e

FlowOf(m, a, n) ==
    /\ PutUpTo(m, n)
    /\ Upward(lrm[Mem(a, m)], n)
    /\ Upward(lrm[Mem(3 - a, m)], n + Len(lrm[Mem(a, m)]))
    /\ n + Len(lrm[Mem(a, m)]) + Len(lrm[Mem(3 - a, m)]) = event

\* The events of the run: those put, those in bank a, those in the other bank.
Flow(a) == \A m \in Pairs : \E n \in 0 .. event : FlowOf(m, a, n)

Standing(a, t) == Place(a, t) /\ Banked(a, t) /\ Emptied(t) /\ Flow(a)

Running == Taking => \E a \in {1, 2}, t \in SUBSET {1, 2} : Standing(a, t)

\* After a stop bank a is read, and if no overflow is pending the other one is empty.
Leaving(a) == Flow(a) /\ (ff = {} => Drained(3 - a)) /\ (dpc = "last" => Emptied({a}))

Stopping == Ending /\ Announced /\ Collect.last => \A a \in {1, 2} : a = p_buf + 1 => Leaving(a)

Stopped == Over /\ Announced /\ Collect.last /\ ff = {} /\ dpc # "exit" =>
    \A m \in Pairs : PutUpTo(m, event)

\* Between runs the readout is set to begin with bank 1; without a last bank nothing is read
\* after a stop.
AtStart ==
    /\ dpc \in {"loop", "encode", "putstart"} /\ Resting => p_buf = 1
    /\ dpc = "last" /\ ~ Collect.last => todo = << >>

\* The inductive invariant; the second part needs electronics as the program expects them.
Shapes == Types /\ Stages /\ LogShape /\ TodoShape /\ Apart
Events == AtStart /\ InOrder /\ Running /\ Stopping /\ Stopped
GrInv == Shapes /\ (~ setup.FastBanks => Events)

-----------------------------------------------------------------------------
(* The set-up, and the steps sorted by what they change *)

\* What is assumed of a set-up.
LEMMA SetupFacts ==
    ASSUME setup \in Setups
    PROVE  /\ MAX_LRM_NUM \in Nat \ {0} /\ MAX_LRM_NUM % 2 = 0
           /\ Full \in Nat \ {0}
           /\ setup.max_que_num \in Nat /\ setup.MaxEvents \in Nat
           /\ setup.Runs \subseteq Nat /\ setup.Garbage \subseteq Nat
  BY SetupsAssumption DEF MAX_LRM_NUM, Full

\* Everything that depends on the set-up alone stays as it is.
Fixed ==
    /\ setup' = setup
    /\ MAX_LRM_NUM' = MAX_LRM_NUM /\ Full' = Full /\ Ctrl' = Ctrl
    /\ Lrm' = Lrm /\ Pairs' = Pairs /\ Collect' = Collect

LEMMA SetupFixed ==
    ASSUME setup' = setup PROVE Fixed
  BY DEF Fixed, MAX_LRM_NUM, Full, Ctrl, Lrm, Pairs, Collect, Version

\* A step that leaves the readout, the electronics and the blocks alone, ...
Quiet ==
    /\ UNCHANGED <<dpc, cmb, i_buf, p_buf, todo, buf, lrm, ff, avail, veto, bank, event, log>>
    /\ \/ status' = status
       \/ status = "OFF" /\ status' = "START"
       \/ status \in {"ON", "START"} /\ status' = "STOP"

\* ... and one that ends the program.
Leave ==
    /\ dpc' = "exit"
    /\ UNCHANGED <<status, cmb, i_buf, p_buf, todo, buf, lrm, avail, bank, event, log>>
    /\ ff' \subseteq ff /\ veto' \in {veto, TRUE}

\* The commands and the consumer of the ring are quiet or end the program.
LEMMA CommandSteps ==
    ASSUME NEW c \in Ctrl, grctrl(c) \/ Command(c)
    PROVE  Quiet \/ Leave
<1>1. CASE grctrl(c)
  BY <1>1 DEF grctrl, Quiet, readVars, hwVars, histVars
<1>2. CASE ReadCmd(c)
  BY <1>2 DEF ReadCmd, Quiet, readVars, hwVars, histVars
<1>3. CASE SwapRun(c)
  BY <1>3 DEF SwapRun, Quiet, readVars, hwVars, histVars
<1>6. CASE LatchCmd(c)
  BY <1>6 DEF LatchCmd, Quiet, readVars, hwVars, histVars
<1>4. CASE collect_cmd(c)
  <2>1. UNCHANGED <<dpc, cmb, i_buf, p_buf, todo, buf, lrm, ff, avail, veto, bank, event, log>>
    BY <1>4 DEF collect_cmd, readVars, hwVars
  <2>2. status' = Switch(cmd[c].at)
    BY <1>4 DEF collect_cmd
  <2>3. CASE cmd[c].at = "START" /\ status = "OFF"
    <3>1. status' = "START"
      BY <2>2, <2>3 DEF Switch
    <3> QED BY <2>1, <2>3, <3>1 DEF Quiet
  <2>4. CASE cmd[c].at = "STOP" /\ status \in {"ON", "START"}
    <3>1. status' = "STOP"
      BY <2>2, <2>4 DEF Switch
    <3> QED BY <2>1, <2>4, <3>1 DEF Quiet
  <2>5. CASE ~(cmd[c].at = "START" /\ status = "OFF") /\ ~(cmd[c].at = "STOP" /\ status \in {"ON", "START"})
    <3>1. status' = status
      BY <2>2, <2>5 DEF Switch
    <3> QED BY <2>1, <3>1 DEF Quiet
  <2> QED BY <2>3, <2>4, <2>5
<1>5. CASE ExitCmd(c)
  BY <1>5 DEF ExitCmd, Leave, hwVars, histVars
<1> QED BY <1>1, <1>2, <1>3, <1>4, <1>5, <1>6 DEF Command

\* The steps of the readout that go on.
Readout ==
    \/ LookStart \/ EncodeStart \/ PutStart
    \/ ReadFF \/ Clear \/ PutScaler \/ ReadMemory \/ EndRead
    \/ LookStop \/ StopScaler \/ PutEnd

\* Every step is one of these.
LEMMA Steps ==
    ASSUME [GrNext]_grVars
    PROVE  Fixed /\ (Quiet \/ Leave \/ Trigger \/ Readout)
<1>1. setup' = setup
  BY DEF GrNext, grVars
<1>2. Fixed
  BY <1>1, SetupFixed
<1>3. CASE UNCHANGED grVars
  BY <1>2, <1>3 DEF grVars, Quiet, cmdVars, readVars, hwVars, histVars
<1>4. CASE Commands
  BY <1>2, <1>4, CommandSteps DEF Commands
<1>5. CASE TakeBlock
  BY <1>2, <1>5 DEF TakeBlock, Quiet, cmdVars, readVars, hwVars, histVars
<1>6. CASE StrangeFF
  BY <1>2, <1>6 DEF StrangeFF, Leave, histVars
<1>7. CASE collect_data /\ ~ StrangeFF
  BY <1>2, <1>7 DEF collect_data, Readout
<1> QED BY <1>2, <1>3, <1>4, <1>5, <1>6, <1>7 DEF GrNext

-----------------------------------------------------------------------------
(* Memories, banks and pairs *)

\* The number of memories is even.
LEMMA Even ==
    ASSUME setup \in Setups
    PROVE  \E h \in Nat : MAX_LRM_NUM = 2 * h /\ h # 0 /\ Pairs = 0 .. h - 1 /\ Lrm = 0 .. 2 * h - 1
<1> DEFINE h == MAX_LRM_NUM \div 2
<1>1. h \in Nat /\ MAX_LRM_NUM = 2 * h /\ h # 0
  BY SetupFacts
<1> QED BY <1>1 DEF Pairs, Lrm

\* A memory has a bank and a pair, ...
LEMMA MemoryFacts ==
    ASSUME setup \in Setups, NEW i \in Lrm
    PROVE  /\ i \in Nat /\ BankOf(i) \in {1, 2}
           /\ i \div 2 \in Pairs /\ Mem(BankOf(i), i \div 2) = i
<1> PICK h \in Nat : MAX_LRM_NUM = 2 * h /\ h # 0 /\ Pairs = 0 .. h - 1 /\ Lrm = 0 .. 2 * h - 1
  BY Even
<1>1. i \in 0 .. 2 * h - 1
  OBVIOUS
<1> QED BY <1>1 DEF BankOf, Mem

\* ... and a pair has a memory in each bank.
LEMMA PairFacts ==
    ASSUME setup \in Setups, NEW m \in Pairs, NEW a \in {1, 2}
    PROVE  m \in Nat /\ Mem(a, m) \in Lrm /\ BankOf(Mem(a, m)) = a /\ Mem(a, m) \div 2 = m
<1> PICK h \in Nat : MAX_LRM_NUM = 2 * h /\ h # 0 /\ Pairs = 0 .. h - 1 /\ Lrm = 0 .. 2 * h - 1
  BY Even
<1>1. m \in 0 .. h - 1
  OBVIOUS
<1> QED BY <1>1 DEF BankOf, Mem

\* s holds the memories of bank b, each once.
Lists(s, b) ==
    /\ s \in Seq(Lrm) /\ s # << >>
    /\ \A j \in DOMAIN s : BankOf(s[j]) = b
    /\ \A j, k \in DOMAIN s : j # k => s[j] # s[k]
    /\ \A i \in Lrm : BankOf(i) = b => \E j \in DOMAIN s : s[j] = i

\* The loops over every other memory.
LEMMA EveryOtherLists ==
    ASSUME setup \in Setups, NEW b \in {0, 1}
    PROVE  Lists(EveryOther(b), b + 1)
<1> PICK h \in Nat : MAX_LRM_NUM = 2 * h /\ h # 0 /\ Pairs = 0 .. h - 1 /\ Lrm = 0 .. 2 * h - 1
  BY Even
<1> DEFINE s == EveryOther(b)
<1>1. s = [j \in 1 .. h |-> 2 * (j - 1) + b]
  <2>1. (2 * h + 1 - b) \div 2 = h
    OBVIOUS
  <2> QED BY <2>1 DEF EveryOther
<1>2. DOMAIN s = 1 .. h /\ \A j \in 1 .. h : s[j] = 2 * (j - 1) + b
  BY <1>1
<1>3. \A j \in 1 .. h : s[j] \in Lrm
  BY <1>2
<1>4. s \in Seq(Lrm) /\ Len(s) = h
  <2>1. s \in [1 .. h -> Lrm]
    BY <1>1, <1>3
  <2> QED BY <2>1
<1>5. s # << >>
  BY <1>4
<1> HIDE DEF s
<1>6. ASSUME NEW j \in DOMAIN s PROVE BankOf(s[j]) = b + 1
  <2>1. j \in Nat /\ s[j] = 2 * (j - 1) + b
    BY <1>2
  <2>2. (2 * (j - 1) + b) % 2 = b
    BY <2>1
  <2> QED BY <2>1, <2>2 DEF BankOf
<1>7. \A j, k \in DOMAIN s : j # k => s[j] # s[k]
  BY <1>2
<1>8. ASSUME NEW i \in Lrm, BankOf(i) = b + 1 PROVE \E j \in DOMAIN s : s[j] = i
  <2>1. i \in 0 .. 2 * h - 1 /\ i % 2 = b
    BY <1>8 DEF BankOf
  <2>2. (i \div 2) + 1 \in 1 .. h /\ 2 * (i \div 2) + b = i
    BY <2>1
  <2>3. s[(i \div 2) + 1] = 2 * (((i \div 2) + 1) - 1) + b
    BY <1>2, <2>2
  <2>4. ((i \div 2) + 1) - 1 = i \div 2
    BY <2>1
  <2>5. s[(i \div 2) + 1] = i
    BY <2>2, <2>3, <2>4
  <2> QED BY <1>2, <2>2, <2>5
<1> QED BY <1>4, <1>5, <1>6, <1>7, <1>8 DEF Lists, s

\* u holds all memories, each once, those of bank c last.
InTurn(u, c) ==
    /\ u \in Seq(Lrm) /\ u # << >>
    /\ \A j, k \in DOMAIN u : j # k => u[j] # u[k]
    /\ \A j, k \in DOMAIN u : j < k /\ BankOf(u[j]) = c => BankOf(u[k]) = c
    /\ \A i \in Lrm : \E j \in DOMAIN u : u[j] = i

\* After a double overflow one bank is read after the other.
LEMMA BothListed ==
    ASSUME NEW s, NEW t, NEW b \in {1, 2}, Lists(s, b), Lists(t, 3 - b), setup \in Setups
    PROVE  InTurn(s \o t, 3 - b)
<1> DEFINE u == s \o t
<1>1. s \in Seq(Lrm) /\ t \in Seq(Lrm) /\ s # << >>
  BY DEF Lists
<1>2. u \in Seq(Lrm) /\ Len(u) = Len(s) + Len(t) /\ Len(s) \in Nat /\ Len(t) \in Nat
  BY <1>1
<1>3. DOMAIN s = 1 .. Len(s) /\ DOMAIN t = 1 .. Len(t) /\ DOMAIN u = 1 .. Len(s) + Len(t)
  BY <1>1, <1>2
<1>4. u # << >>
  BY <1>1, <1>2
<1>5. \A j \in 1 .. Len(s) : u[j] = s[j]
  BY <1>1
<1>6. \A j \in 1 .. Len(t) : u[j + Len(s)] = t[j]
  BY <1>1
<1> HIDE DEF u
<1>7. ASSUME NEW j \in DOMAIN u
      PROVE  \/ j \in DOMAIN s /\ u[j] = s[j] /\ BankOf(u[j]) = b
             \/ j > Len(s) /\ j - Len(s) \in DOMAIN t /\ u[j] = t[j - Len(s)] /\ BankOf(u[j]) = 3 - b
  <2>1. CASE j <= Len(s)
    <3>1. j \in DOMAIN s /\ u[j] = s[j]
      BY <1>2, <1>3, <1>5, <2>1
    <3> QED BY <3>1 DEF Lists
  <2>2. CASE j > Len(s)
    <3>1. j - Len(s) \in 1 .. Len(t) /\ (j - Len(s)) + Len(s) = j
      BY <1>2, <1>3, <2>2
    <3>2. u[j] = t[j - Len(s)]
      BY <1>6, <3>1
    <3> QED BY <1>3, <2>2, <3>1, <3>2 DEF Lists
  <2> QED BY <1>2, <1>3, <2>1, <2>2
<1>8. ASSUME NEW j \in DOMAIN u, NEW k \in DOMAIN u, j # k PROVE u[j] # u[k]
  <2>1. CASE BankOf(u[j]) # BankOf(u[k])
    BY <2>1
  <2>2. CASE BankOf(u[j]) = b /\ BankOf(u[k]) = b
    BY <1>7, <1>8, <2>2 DEF Lists
  <2>3. CASE BankOf(u[j]) = 3 - b /\ BankOf(u[k]) = 3 - b
    <3>1. j - Len(s) # k - Len(s)
      BY <1>2, <1>3, <1>8
    <3> QED BY <1>7, <2>3, <3>1 DEF Lists
  <2> QED BY <1>7, <2>1, <2>2, <2>3
<1>9. ASSUME NEW j \in DOMAIN u, NEW k \in DOMAIN u, j < k, BankOf(u[j]) = 3 - b
      PROVE  BankOf(u[k]) = 3 - b
  <2>1. j > Len(s)
    BY <1>7, <1>9
  <2>2. ~ (k \in DOMAIN s)
    BY <1>2, <1>3, <1>9, <2>1
  <2> QED BY <1>7, <2>2
<1>10. ASSUME NEW i \in Lrm PROVE \E j \in DOMAIN u : u[j] = i
  <2>1. BankOf(i) = b \/ BankOf(i) = 3 - b
    BY MemoryFacts
  <2>2. CASE BankOf(i) = b
    <3>1. PICK j \in DOMAIN s : s[j] = i
      BY <2>2 DEF Lists
    <3>2. j \in DOMAIN u /\ u[j] = i
      BY <1>2, <1>3, <1>5, <3>1
    <3> QED BY <3>2
  <2>3. CASE BankOf(i) = 3 - b
    <3>1. PICK j \in DOMAIN t : t[j] = i
      BY <2>3 DEF Lists
    <3>2. j + Len(s) \in DOMAIN u /\ u[j + Len(s)] = i
      BY <1>2, <1>3, <1>6, <3>1
    <3> QED BY <3>2
  <2> QED BY <2>1, <2>2, <2>3
<1>11. InTurn(u, 3 - b)
  BY <1>2, <1>4, <1>8, <1>9, <1>10 DEF InTurn
<1> QED BY <1>11 DEF u

\* What Banks promises.
ToRead(u) ==
    /\ u \in Seq(Lrm) /\ u # << >>
    /\ \A j, k \in DOMAIN u : j # k => u[j] # u[k]
    /\ i_buf # 3 => \A j \in DOMAIN u : BankOf(u[j]) = i_buf
    /\ i_buf = 3 => \A j, k \in DOMAIN u : j < k /\ BankOf(u[j]) = p_buf + 1 => BankOf(u[k]) = p_buf + 1
    /\ \A i \in Lrm : BankOf(i) \in BanksOf(i_buf) => \E j \in DOMAIN u : u[j] = i

LEMMA BanksListed ==
    ASSUME setup \in Setups, i_buf \in 1 .. 3, p_buf \in 0 .. 1
    PROVE  ToRead(Banks)
<1>1. CASE i_buf = 3
  <2>1. 1 - p_buf \in {0, 1} /\ (1 - p_buf) + 1 = 2 - p_buf /\ 2 - p_buf \in {1, 2} /\ 3 - (2 - p_buf) = p_buf + 1
    OBVIOUS
  <2>2. Lists(EveryOther(1 - p_buf), 2 - p_buf)
    BY <2>1, EveryOtherLists
  <2>3. Lists(EveryOther(p_buf), p_buf + 1)
    BY EveryOtherLists
  <2>4. Banks = EveryOther(1 - p_buf) \o EveryOther(p_buf)
    BY <1>1 DEF Banks
  <2>5. InTurn(Banks, p_buf + 1)
    <3>1. Lists(EveryOther(p_buf), 3 - (2 - p_buf))
      BY <2>1, <2>3
    <3>2. InTurn(EveryOther(1 - p_buf) \o EveryOther(p_buf), 3 - (2 - p_buf))
      BY <2>1, <2>2, <3>1, BothListed
    <3> QED BY <2>1, <2>4, <3>2
  <2> QED BY <1>1, <2>5 DEF ToRead, InTurn
<1>2. CASE i_buf # 3
  <2>1. i_buf - 1 \in {0, 1} /\ (i_buf - 1) + 1 = i_buf
    BY <1>2
  <2>2. Lists(EveryOther(i_buf - 1), i_buf)
    BY <2>1, EveryOtherLists
  <2>3. Banks = EveryOther(i_buf - 1)
    BY <1>2 DEF Banks
  <2>4. BanksOf(i_buf) = {i_buf}
    BY <1>2 DEF BanksOf
  <2> QED BY <1>2, <2>2, <2>3, <2>4 DEF ToRead, Lists
<1> QED BY <1>1, <1>2

-----------------------------------------------------------------------------
(* Types *)

\* The commands: what they send and what they leave in mb has its type.
LEMMA CommandTypes ==
    ASSUME Types, Fixed, NEW c \in Ctrl, grctrl(c) \/ Command(c)
    PROVE  CmdTypes'
<1> DEFINE Ats == {"none", "read", "swap", "latch", "START", "STOP", "RESET", "EXIT"}
<1> USE DEF Fixed
<1>1. cmd \in [Ctrl -> [at : Ats, msg : Msgs]] /\ mb \in Msgs /\ cmb \in Msgs
      /\ status \in {"OFF", "START", "ON", "STOP"}
  BY DEF Types, CmdTypes
<1>2. NoCmd \in Msgs
  BY DEF NoCmd, Msg, Msgs
<1>3. cmd[c] \in [at : Ats, msg : Msgs]
  BY <1>1
<1>4. setup.Runs \subseteq Nat /\ setup.Garbage \subseteq Nat
  BY SetupFacts DEF Types
<1>5. CASE grctrl(c)
  <2>1. PICK m \in Sendable : cmd' = [cmd EXCEPT ![c] = [at |-> "read", msg |-> m]]
    BY <1>5 DEF grctrl
  <2>2. m \in Msgs
    BY <1>4, <2>1 DEF Sendable, Msg, Msgs
  <2>3. cmd' \in [Ctrl -> [at : Ats, msg : Msgs]]
    BY <1>1, <2>1, <2>2
  <2> QED BY <1>1, <1>5, <2>3 DEF CmdTypes, grctrl, readVars
<1>6. CASE ReadCmd(c)
  <2>1. cmd' \in [Ctrl -> [at : Ats, msg : Msgs]]
    BY <1>1, <1>2, <1>6 DEF ReadCmd
  <2>2. mb' \in Msgs
    BY <1>3, <1>6 DEF ReadCmd
  <2> QED BY <1>1, <1>6, <2>1, <2>2 DEF CmdTypes, ReadCmd, readVars
<1>7. CASE SwapRun(c)
  <2>1. cmd' \in [Ctrl -> [at : Ats, msg : Msgs]]
    BY <1>1, <1>7 DEF SwapRun
  <2>2. mb' \in Msgs
    BY <1>1, <1>7 DEF SwapRun, Swapped, grcollect_v0_2, Msgs
  <2> QED BY <1>1, <1>7, <2>1, <2>2 DEF CmdTypes, SwapRun, readVars
<1>10. CASE LatchCmd(c)
  <2>1. mb.command \in Ats
    BY <1>1 DEF Msgs
  <2>2. cmd' \in [Ctrl -> [at : Ats, msg : Msgs]]
    BY <1>1, <1>10, <2>1 DEF LatchCmd
  <2> QED BY <1>1, <1>10, <2>2 DEF CmdTypes, LatchCmd, readVars
<1>8. CASE collect_cmd(c)
  <2>1. cmd' \in [Ctrl -> [at : Ats, msg : Msgs]]
    BY <1>1, <1>2, <1>8 DEF collect_cmd
  <2>2. status' \in {"OFF", "START", "ON", "STOP"}
    BY <1>1, <1>8 DEF collect_cmd, Switch
  <2> QED BY <1>1, <1>8, <2>1, <2>2 DEF CmdTypes, collect_cmd, readVars
<1>9. CASE ExitCmd(c)
  <2>1. cmd' \in [Ctrl -> [at : Ats, msg : Msgs]]
    BY <1>2, <1>9 DEF ExitCmd
  <2> QED BY <1>1, <1>9, <2>1 DEF CmdTypes, ExitCmd
<1> QED BY <1>5, <1>6, <1>7, <1>8, <1>9, <1>10 DEF Command

\* The same for every step.
LEMMA CmdTypesStep ==
    ASSUME Types, [GrNext]_grVars
    PROVE  CmdTypes'
<1>1. Fixed
  BY Steps
<1> USE <1>1 DEF Fixed
<1>2. CASE Commands
  BY <1>2, CommandTypes DEF Commands
<1>3. CASE UNCHANGED grVars \/ Trigger \/ TakeBlock
  BY <1>3 DEF grVars, Trigger, TakeBlock, cmdVars, readVars, Types, CmdTypes
<1>4. CASE StrangeFF
  <2>1. NoCmd \in Msgs
    BY DEF NoCmd, Msg, Msgs
  <2> QED BY <1>4, <2>1 DEF StrangeFF, Types, CmdTypes
<1>5. CASE LookStart \/ LookStop
  BY <1>5 DEF LookStart, LookStop, Types, CmdTypes
<1>6. CASE EncodeStart
  BY <1>6 DEF EncodeStart, cmdVars, Types, CmdTypes
<1>7. CASE PutStart \/ ReadFF \/ Clear \/ PutScaler \/ ReadMemory \/ EndRead \/ StopScaler \/ PutEnd
  BY <1>7 DEF PutStart, ReadFF, Clear, PutScaler, ReadMemory, EndRead, StopScaler, PutEnd, cmdVars,
      Types, CmdTypes
<1> QED BY <1>2, <1>3, <1>4, <1>5, <1>6, <1>7 DEF GrNext, collect_data

\* The readout: its place, and what it has to read.
LEMMA ReadTypesStep ==
    ASSUME Types, [GrNext]_grVars
    PROVE  ReadTypes'
<1>1. Fixed /\ (Quiet \/ Leave \/ Trigger \/ Readout)
  BY Steps
<1> USE <1>1 DEF Fixed
<1>2. ReadTypes /\ setup \in Setups
  BY DEF Types
<1>3. CASE Quiet \/ Leave
  BY <1>2, <1>3 DEF Quiet, Leave, ReadTypes, Block
<1>4. CASE Trigger
  BY <1>2, <1>4 DEF Trigger, readVars, ReadTypes, Block
<1>5. CASE LookStart \/ EncodeStart
  BY <1>2, <1>5 DEF LookStart, EncodeStart, ReadTypes, Block
<1>6. CASE PutStart \/ ReadFF \/ Clear
  BY <1>2, <1>6 DEF PutStart, ReadFF, Clear, ReadTypes
<1>7. CASE PutScaler
  <2>1. Banks \in Seq(Lrm)
    BY <1>2, BanksListed DEF ReadTypes, ToRead
  <2> QED BY <1>2, <1>7, <2>1 DEF PutScaler, ReadTypes
<1>8. CASE ReadMemory
  <2>1. todo' \in Seq(Lrm)
    BY <1>2, <1>8 DEF ReadMemory, ReadTypes
  <2>2. dpc' \in {"read", "last", "scaler"}
    BY <1>8 DEF ReadMemory, Reading, Following
  <2> QED BY <1>2, <1>8, <2>1, <2>2 DEF ReadMemory, ReadTypes
<1>9. CASE EndRead
  BY <1>2, <1>9 DEF EndRead, ReadTypes
<1>10. CASE LookStop
  BY <1>2, <1>10 DEF LookStop, ReadTypes
<1>11. CASE StopScaler
  <2>1. LastBank \in Seq(Lrm)
    <3>1. << >> \in Seq(Lrm)
      OBVIOUS
    <3>2. EveryOther(p_buf) \in Seq(Lrm)
      BY <1>2, EveryOtherLists DEF ReadTypes, Lists
    <3> QED BY <3>1, <3>2 DEF LastBank
  <2> QED BY <1>2, <1>11, <2>1 DEF StopScaler, ReadTypes
<1>12. CASE PutEnd
  BY <1>2, <1>12 DEF PutEnd, ReadTypes
<1> QED BY <1>1, <1>3, <1>4, <1>5, <1>6, <1>7, <1>8, <1>9, <1>10, <1>11, <1>12 DEF Readout

\* The electronics.
LEMMA HwTypesStep ==
    ASSUME Types, [GrNext]_grVars
    PROVE  HwTypes'
<1>1. Fixed /\ (Quiet \/ Leave \/ Trigger \/ Readout)
  BY Steps
<1> USE <1>1 DEF Fixed
<1>2. HwTypes /\ setup \in Setups /\ setup.MaxEvents \in Nat
  BY SetupFacts DEF Types
<1>3. CASE Quiet \/ Leave
  BY <1>2, <1>3 DEF Quiet, Leave, HwTypes
<1>4. CASE Trigger
  <2>1. event' \in 0 .. setup.MaxEvents /\ event' \in Nat /\ event' = event + 1
    BY <1>2, <1>4 DEF Trigger, HwTypes
  <2>2. \A i \in Lrm : Append(lrm[i], event + 1) \in Seq(Nat)
    BY <1>2, <2>1 DEF HwTypes
  <2>3. lrm' \in [Lrm -> Seq(Nat)]
    BY <1>2, <1>4, <2>2 DEF Trigger, HwTypes
  <2>4. ff' \subseteq {1, 2} /\ bank' \in 1 .. 2
    <3>1. bank \in 1 .. 2 /\ 3 - bank \in 1 .. 2 /\ ff \subseteq {1, 2} /\ bank \in {1, 2}
      BY <1>2 DEF HwTypes
    <3>2. (ff' = ff \cup {bank} /\ bank' = 3 - bank) \/ (ff' = ff /\ bank' = bank)
      BY <1>4 DEF Trigger
    <3> QED BY <3>1, <3>2
  <2>5. avail' = avail /\ veto' = veto
    BY <1>4 DEF Trigger
  <2> QED BY <1>2, <2>1, <2>3, <2>4, <2>5 DEF HwTypes
<1>5. CASE PutStart
  <2>1. << >> \in Seq(Nat)
    OBVIOUS
  <2>2. lrm' \in [Lrm -> Seq(Nat)]
    BY <1>5, <2>1 DEF PutStart, Begin
  <2>3. ff' = {} /\ avail' = {1, 2} /\ veto' = FALSE /\ bank' = 1 /\ event' = 0
    BY <1>5 DEF PutStart, Begin
  <2>4. bank' \in 1 .. 2 /\ event' \in 0 .. setup'.MaxEvents
    BY <1>2, <2>3
  <2> QED BY <2>2, <2>3, <2>4 DEF HwTypes
<1>6. CASE Clear
  BY <1>2, <1>6 DEF Clear, HwTypes
<1>7. CASE ReadMemory
  <2>1. lrm' \in [Lrm -> Seq(Nat)]
    <3>1. lrm' = [lrm EXCEPT ![Head(todo)] = << >>]
      BY <1>7 DEF ReadMemory
    <3>2. << >> \in Seq(Nat)
      OBVIOUS
    <3> QED BY <1>2, <3>1, <3>2 DEF HwTypes
  <2>2. avail' \subseteq {1, 2}
    <3>1. Head(todo) \in Lrm
      BY <1>7 DEF ReadMemory, Types, ReadTypes
    <3>2. BankOf(Head(todo)) \in {1, 2}
      BY <1>2, <3>1, MemoryFacts
    <3> QED BY <1>2, <1>7, <3>2 DEF ReadMemory, HwTypes
  <2> QED BY <1>2, <1>7, <2>1, <2>2 DEF ReadMemory, HwTypes
<1>8. CASE LookStop
  BY <1>2, <1>8 DEF LookStop, HwTypes
<1>9. CASE LookStart \/ EncodeStart \/ ReadFF \/ PutScaler \/ EndRead \/ StopScaler \/ PutEnd
  BY <1>2, <1>9 DEF LookStart, EncodeStart, ReadFF, PutScaler, EndRead, StopScaler, PutEnd, hwVars, HwTypes
<1> QED BY <1>1, <1>3, <1>4, <1>5, <1>6, <1>7, <1>8, <1>9 DEF Readout

\* The ring and the blocks of the run.
LEMMA LogTypesStep ==
    ASSUME Types, [GrNext]_grVars
    PROVE  LogTypes'
<1>1. Fixed
  BY Steps
<1> USE <1>1 DEF Fixed
<1>2. ring \in Seq(Blk) /\ Len(ring) <= setup.max_que_num /\ log \in Seq(Blk)
      /\ setup.max_que_num \in Nat
  BY SetupFacts DEF Types, LogTypes
<1>3. << >> \in Seq(Blk) /\ Len(<< >>) = 0 /\ 0 <= setup.max_que_num
  BY <1>2
<1>4. ASSUME NEW b \in Blk, PutRing(b)
      PROVE  ring' \in Seq(Blk) /\ Len(ring') <= setup.max_que_num /\ Append(log, b) \in Seq(Blk)
  BY <1>2, <1>4 DEF PutRing
<1>5. Scaler \in Blk
  BY DEF Scaler, Block, Blk, Ids
<1>6. cmb \in Msgs /\ HwTypes /\ ReadTypes
  BY DEF Types, CmdTypes
<1>7. CASE UNCHANGED <<ring, log>>
  BY <1>2, <1>7 DEF LogTypes
<1>8. CASE ring' = << >> /\ log' = log
  BY <1>2, <1>3, <1>8 DEF LogTypes
<1>9. CASE Commands
  BY <1>7, <1>8, <1>9 DEF Commands, grctrl, Command, ReadCmd, SwapRun, LatchCmd, collect_cmd, ExitCmd, histVars
<1>10. CASE UNCHANGED grVars \/ Trigger \/ LookStart \/ EncodeStart \/ ReadFF \/ Clear \/ EndRead
  BY <1>7, <1>10 DEF grVars, Trigger, LookStart, EncodeStart, ReadFF, Clear, EndRead, histVars
<1>11. CASE TakeBlock
  <2>1. ring' \in Seq(Blk) /\ Len(ring') <= setup.max_que_num
    BY <1>2, <1>11 DEF TakeBlock
  <2> QED BY <1>2, <1>11, <2>1 DEF TakeBlock, histVars, LogTypes
<1>12. CASE StrangeFF
  BY <1>8, <1>12 DEF StrangeFF, histVars
<1>13. CASE PutStart
  <2>1. buf \in Blk
    <3>1. buf = Block("start", IF Collect.start THEN <<cmb.run>> ELSE << >>, 0)
      BY <1>6, <1>13 DEF PutStart, ReadTypes
    <3>2. (IF Collect.start THEN <<cmb.run>> ELSE << >>) \in Seq(Nat)
      BY <1>6 DEF Msgs
    <3> QED BY <3>1, <3>2 DEF Block, Blk, Ids
  <2>2. PutRing(buf) /\ log' \in {<<buf>>, Append(log, buf)}
    BY <1>13 DEF PutStart
  <2>3. <<buf>> \in Seq(Blk)
    BY <2>1
  <2> QED BY <1>4, <2>1, <2>2, <2>3 DEF LogTypes
<1>14. CASE PutScaler \/ StopScaler
  BY <1>4, <1>5, <1>14 DEF PutScaler, StopScaler, LogTypes
<1>15. CASE ReadMemory
  <2> DEFINE b == Block("data", lrm[Head(todo)], Head(todo))
  <2>1. Head(todo) \in Lrm
    BY <1>6, <1>15 DEF ReadMemory, ReadTypes
  <2>2. Head(todo) \in Nat
    BY <2>1, MemoryFacts DEF Types
  <2>3. lrm[Head(todo)] \in Seq(Nat)
    BY <1>6, <2>1 DEF HwTypes
  <2>4. b \in Blk
    BY <2>2, <2>3 DEF Block, Blk, Ids
  <2>5. (PutRing(b) /\ log' = Append(log, b)) \/ UNCHANGED <<ring, log>>
    BY <1>15 DEF ReadMemory
  <2> HIDE DEF b
  <2> QED BY <1>4, <1>7, <2>4, <2>5 DEF LogTypes
<1>16. CASE LookStop
  BY <1>2, <1>3, <1>16 DEF LookStop, LogTypes
<1>17. CASE PutEnd
  <2>1. Block("end", <<cmb.run>>, 0) \in Blk
    BY <1>6 DEF Block, Blk, Ids, Msgs
  <2> QED BY <1>4, <1>17, <2>1 DEF PutEnd, LogTypes
<1> QED BY <1>9, <1>10, <1>11, <1>12, <1>13, <1>14, <1>15, <1>16, <1>17 DEF GrNext, collect_data

\* Types are kept.
LEMMA TypesStep ==
    ASSUME Types, [GrNext]_grVars
    PROVE  Types'
<1>1. setup' = setup
  BY Steps DEF Fixed
<1> QED BY <1>1, CmdTypesStep, ReadTypesStep, HwTypesStep, LogTypesStep DEF Types

-----------------------------------------------------------------------------
(* The stages of a run *)

\* The blocks of the run as a sequence.
LEMMA LogFacts ==
    ASSUME Types
    PROVE  /\ log \in Seq(Blk) /\ Len(log) \in Nat /\ DOMAIN log = 1 .. Len(log)
           /\ \A k \in DOMAIN log : log[k] \in Blk
           /\ log # << >> => 1 \in DOMAIN log /\ Len(log) \in DOMAIN log
  BY DEF Types, LogTypes

\* One block more: what it says about the sequence, ...
Appended(b) ==
    /\ Len(log') = Len(log) + 1 /\ DOMAIN log' = 1 .. Len(log) + 1
    /\ \A k \in DOMAIN log : log'[k] = log[k]
    /\ log'[Len(log) + 1] = b

LEMMA LogAppend ==
    ASSUME Types, NEW b \in Blk, log' = Append(log, b)
    PROVE  Appended(b)
  BY LogFacts DEF Appended

\* ... and about the run.
LEMMA AppendedRun ==
    ASSUME Types, NEW b \in Blk, Appended(b)
    PROVE  /\ log' # << >>
           /\ Over' <=> b.id = "end"
           /\ log = << >> => (Announced' <=> b.id = "start")
           /\ log # << >> => (Announced' <=> Announced)
<1>1. Len(log) \in Nat /\ DOMAIN log = 1 .. Len(log) /\ (log # << >> => 1 \in DOMAIN log)
  BY LogFacts
<1>2. Len(log') \in Nat /\ Len(log') # 0 /\ Len(log') = Len(log) + 1
  BY <1>1 DEF Appended
<1>3. log' # << >>
  BY <1>2
<1>4. Over' <=> b.id = "end"
  BY <1>2, <1>3 DEF Over, Appended
<1>5. CASE log = << >>
  <2>1. Len(log) = 0
    BY <1>5
  <2>2. log'[1] = b
    BY <2>1 DEF Appended
  <2> QED BY <1>3, <1>4, <1>5, <2>2 DEF Announced
<1>6. CASE log # << >>
  BY <1>1, <1>3, <1>4, <1>6 DEF Announced, Appended
<1> QED BY <1>5, <1>6

\* A log of one block.
LEMMA LogOne ==
    ASSUME NEW b \in Blk, log' = <<b>>
    PROVE  /\ Len(log') = 1 /\ DOMAIN log' = {1} /\ log'[1] = b /\ log' # << >>
           /\ Over' <=> b.id = "end"
           /\ Announced' <=> b.id = "start"
  BY DEF Over, Announced

\* The blocks the readout puts.
LEMMA BlockFacts ==
    ASSUME Types
    PROVE  /\ Scaler \in Blk /\ Scaler.id = "scaler"
           /\ Block("end", <<cmb.run>>, 0) \in Blk
           /\ dpc = "putstart" => buf \in Blk /\ buf.id = "start"
           /\ \A i \in Lrm : LET b == Block("data", lrm[i], i) IN
                b \in Blk /\ b.id = "data" /\ b.what = lrm[i] /\ b.from = i
<1>1. Scaler \in Blk /\ Scaler.id = "scaler"
  BY DEF Scaler, Block, Blk, Ids
<1>2. cmb.run \in Nat /\ <<cmb.run>> \in Seq(Nat)
  BY DEF Types, CmdTypes, Msgs
<1>3. Block("end", <<cmb.run>>, 0) \in Blk
  BY <1>2 DEF Block, Blk, Ids
<1>4. ASSUME dpc = "putstart" PROVE buf \in Blk /\ buf.id = "start"
  <2>1. buf = Block("start", IF Collect.start THEN <<cmb.run>> ELSE << >>, 0)
    BY <1>4 DEF Types, ReadTypes
  <2>2. (IF Collect.start THEN <<cmb.run>> ELSE << >>) \in Seq(Nat)
    BY <1>2
  <2> QED BY <2>1, <2>2 DEF Block, Blk, Ids
<1>5. ASSUME NEW i \in Lrm
      PROVE  /\ Block("data", lrm[i], i) \in Blk /\ Block("data", lrm[i], i).id = "data"
             /\ Block("data", lrm[i], i).what = lrm[i] /\ Block("data", lrm[i], i).from = i
  <2>1. i \in Nat
    BY MemoryFacts DEF Types
  <2>2. lrm[i] \in Seq(Nat)
    BY DEF Types, HwTypes
  <2> QED BY <2>1, <2>2 DEF Block, Blk, Ids
<1> QED BY <1>1, <1>3, <1>4, <1>5

\* What a step of ReadMemory does to the blocks.
LEMMA ReadLogs ==
    ASSUME Types, ReadMemory
    PROVE  LET i == Head(todo)
               b == Block("data", lrm[i], i) IN
           /\ todo # << >> /\ i = todo[1] /\ 1 \in DOMAIN todo /\ i \in Lrm
           /\ b \in Blk /\ b.id = "data" /\ b.what = lrm[i] /\ b.from = i
           /\ (lrm[i] = << >> /\ log' = log) \/ (lrm[i] # << >> /\ log' = Append(log, b) /\ Appended(b))
<1> DEFINE i == Head(todo)
           b == Block("data", lrm[i], i)
<1>1. todo # << >> /\ todo \in Seq(Lrm)
  BY DEF ReadMemory, Types, ReadTypes
<1>2. i = todo[1] /\ 1 \in DOMAIN todo /\ i \in Lrm
  BY <1>1
<1>3. b \in Blk /\ b.id = "data" /\ b.what = lrm[i] /\ b.from = i
  BY <1>2, BlockFacts
<1>4. (lrm[i] = << >> /\ log' = log) \/ (lrm[i] # << >> /\ log' = Append(log, b))
  BY DEF ReadMemory
<1> HIDE DEF b
<1>5. log' = Append(log, b) => Appended(b)
  BY <1>3, LogAppend
<1> QED BY <1>1, <1>2, <1>3, <1>4, <1>5 DEF b

\* If the blocks stay as they are, so does the state of the run.
LEMMA LogSame ==
    ASSUME log' = log
    PROVE  /\ Over' <=> Over
           /\ Announced' <=> Announced
           /\ Going' <=> Going
           /\ Resting' <=> Resting
  BY DEF Over, Announced, Going, Resting

\* A block that is not an end block, in a run that goes on.
LEMMA AppendedOn ==
    ASSUME Types, NEW b \in Blk, Appended(b), b.id # "end", log # << >>
    PROVE  log' # << >> /\ ~ Over' /\ ~ Resting' /\ (Announced' <=> Announced) /\ (Announced => Going')
  BY AppendedRun DEF Resting, Going

\* Stages of a run: every step.
LEMMA StagesStep ==
    ASSUME Types, Stages, [GrNext]_grVars
    PROVE  Stages'
<1>1. Fixed /\ (Quiet \/ Leave \/ Trigger \/ Readout)
  BY Steps
<1> DEFINE stat == {"OFF", "START", "ON", "STOP"}
<1>2. status \in stat /\ veto \in BOOLEAN /\ TRUE \in BOOLEAN /\ FALSE \in BOOLEAN
  BY DEF Types, CmdTypes, HwTypes
<1>3. Going => log # << >> /\ ~ Resting
  BY DEF Going, Announced, Resting
<1>4. Over => Resting
  BY DEF Resting
<1>5. CASE Quiet
  <2>1. log' = log /\ dpc' = dpc /\ veto' = veto
    BY <1>5 DEF Quiet
  <2>2. (Going' <=> Going) /\ (Resting' <=> Resting) /\ (Over' <=> Over)
    BY <2>1, LogSame
  <2>3. (Taking' <=> Taking) /\ (Serving' <=> Serving)
    BY <2>1, <2>2 DEF Taking, Serving
  <2>4. (status # "ON" => status' # "ON") /\ (status \in {"ON", "STOP"} => status' \in {"ON", "STOP"})
    BY <1>5 DEF Quiet
  <2> QED BY <2>1, <2>2, <2>3, <2>4 DEF Stages
<1>6. CASE Leave
  BY <1>6 DEF Leave, Stages, Serving
<1>7. CASE Trigger
  <2>1. log' = log /\ dpc' = dpc /\ veto' = veto /\ status' = status
    BY <1>7 DEF Trigger, histVars, readVars, cmdVars
  <2>2. (Going' <=> Going) /\ (Resting' <=> Resting) /\ (Over' <=> Over)
    BY <2>1, LogSame
  <2>3. (Taking' <=> Taking) /\ (Serving' <=> Serving)
    BY <2>1, <2>2 DEF Taking, Serving
  <2> QED BY <2>1, <2>2, <2>3 DEF Stages
<1>8. CASE LookStart
  <2>1. log' = log /\ dpc' = "encode" /\ dpc = "loop" /\ veto' = veto /\ status' = "ON" /\ status = "START"
    BY <1>8 DEF LookStart, histVars, hwVars
  <2>2. Resting' /\ ~ Taking' /\ ~ Taking
    BY <1>3, <2>1, LogSame DEF Stages, Taking, Serving
  <2> QED BY <2>1, <2>2 DEF Stages, Serving
<1>9. CASE EncodeStart
  <2>1. log' = log /\ dpc' = "putstart" /\ dpc = "encode" /\ veto' = veto /\ status' = status
    BY <1>9 DEF EncodeStart, histVars, hwVars, cmdVars
  <2>2. Resting' /\ ~ Taking' /\ ~ Taking
    BY <1>3, <2>1, LogSame DEF Stages, Taking, Serving
  <2> QED BY <2>1, <2>2 DEF Stages, Serving
<1>10. CASE PutStart
  <2>1. dpc' = "loop" /\ dpc = "putstart" /\ veto' = FALSE /\ status' = status
    BY <1>10 DEF PutStart, cmdVars, Begin
  <2>2. log' \in {<<buf>>, Append(log, buf)} /\ (log # << >> => log' = <<buf>>)
    <3>1. log' = IF Over THEN <<buf>> ELSE Append(log, buf)
      BY <1>10 DEF PutStart
    <3>2. log # << >> => Over
      BY <2>1 DEF Stages, Resting
    <3> QED BY <3>1, <3>2
  <2>3. buf \in Blk /\ buf.id = "start"
    BY <2>1, BlockFacts
  <2>4. Announced' /\ ~ Over'
    <3>1. CASE log' = <<buf>>
      BY <2>3, <3>1, LogOne
    <3>2. CASE log' = Append(log, buf) /\ log = << >>
      BY <2>3, <3>2, LogAppend, AppendedRun
    <3> QED BY <2>2, <3>1, <3>2
  <2>5. Going' /\ Taking'
    BY <2>1, <2>4 DEF Going, Taking
  <2>6. status' \in {"ON", "STOP"}
    BY <2>1 DEF Stages
  <2> QED BY <2>1, <2>5, <2>6 DEF Stages, Serving
<1>11. CASE ReadFF
  <2>1. log' = log /\ dpc' = "clear" /\ dpc = "loop" /\ veto' = veto /\ status' = "ON" /\ status = "ON"
    BY <1>11 DEF ReadFF, histVars, hwVars, cmdVars
  <2>2. Going /\ Going'
    BY <2>1, LogSame DEF Stages
  <2>3. Taking /\ Taking' /\ Serving'
    BY <2>1, <2>2 DEF Taking, Serving
  <2> QED BY <2>1, <2>2, <2>3 DEF Stages, Serving
<1>12. CASE Clear
  <2>1. log' = log /\ dpc' = "scaler" /\ dpc = "clear" /\ veto' = veto /\ status' = status
    BY <1>12 DEF Clear, histVars, cmdVars
  <2>2. Going /\ Going' /\ status \in {"ON", "STOP"}
    BY <2>1, LogSame DEF Stages, Serving
  <2>3. Taking /\ Taking' /\ Serving'
    BY <2>1, <2>2 DEF Taking, Serving
  <2> QED BY <2>1, <2>2, <2>3 DEF Stages
<1>13. CASE PutScaler
  <2>1. log' = Append(log, Scaler) /\ dpc' = "read" /\ dpc = "scaler" /\ veto' = veto /\ status' = status
    BY <1>13 DEF PutScaler, hwVars, cmdVars
  <2>2. Going /\ status \in {"ON", "STOP"}
    BY <2>1 DEF Stages, Serving
  <2>3. Going'
    BY <1>3, <2>1, <2>2, BlockFacts, LogAppend, AppendedOn DEF Going
  <2>4. Taking /\ Taking' /\ Serving'
    BY <2>1, <2>2 DEF Taking, Serving
  <2> QED BY <2>1, <2>2, <2>3, <2>4 DEF Stages
<1>14. CASE ReadMemory
  <2>1. veto' = veto /\ status' = status
    BY <1>14 DEF ReadMemory, cmdVars
  <2>2. \/ dpc = "read" /\ dpc' \in {"read", "scaler"}
        \/ dpc = "last" /\ dpc' = "last"
    BY <1>14 DEF ReadMemory, Reading, Following
  <2>3. log # << >> /\ ~ Over /\ (dpc = "read" => Going)
    BY <1>3, <2>2 DEF Stages, Serving, Going
  <2>4. log' # << >> /\ ~ Over' /\ (Going => Going')
    <3>1. CASE log' = log
      BY <2>3, <3>1, LogSame
    <3>2. CASE log' # log
      <4> DEFINE b == Block("data", lrm[Head(todo)], Head(todo))
      <4>1. b \in Blk /\ b.id = "data" /\ Appended(b)
        BY <1>14, <3>2, ReadLogs
      <4> HIDE DEF b
      <4> QED BY <2>3, <4>1, AppendedOn DEF Going
    <3> QED BY <3>1, <3>2
  <2>5. CASE dpc = "read"
    <3>1. Taking /\ Taking' /\ Serving' /\ status \in {"ON", "STOP"} /\ Going'
      BY <2>2, <2>3, <2>4, <2>5 DEF Taking, Serving, Stages
    <3> QED BY <2>1, <2>2, <2>5, <3>1 DEF Stages
  <2>6. CASE dpc = "last"
    <3>1. ~ Taking /\ ~ Taking' /\ ~ Serving' /\ status # "ON"
      BY <2>2, <2>6 DEF Taking, Serving, Stages
    <3> QED BY <2>1, <2>2, <2>4, <2>6, <3>1 DEF Stages
  <2> QED BY <2>2, <2>5, <2>6
<1>15. CASE EndRead
  <2>1. log' = log /\ dpc' = "loop" /\ dpc = "read" /\ veto' = veto /\ status' = status
    BY <1>15 DEF EndRead, histVars, hwVars, cmdVars
  <2>2. Going /\ Going' /\ status \in {"ON", "STOP"}
    BY <2>1, LogSame DEF Stages, Serving
  <2>3. Taking /\ Taking' /\ ~ Serving'
    BY <2>1, <2>2 DEF Taking, Serving
  <2> QED BY <2>1, <2>2, <2>3 DEF Stages
<1>16. CASE LookStop
  <2>1. dpc' = "stopscaler" /\ dpc = "loop" /\ veto' = TRUE /\ status' = "OFF"
    BY <1>16 DEF LookStop
  <2>2. log' = IF Over THEN << >> ELSE log
    BY <1>16 DEF LookStop
  <2>3. log' = << >> \/ Going'
    BY <2>1, <2>2, LogSame DEF Stages, Resting
  <2>4. ~ Taking' /\ ~ Serving'
    BY <2>1 DEF Taking, Serving
  <2> QED BY <2>1, <2>3, <2>4 DEF Stages
<1>17. CASE StopScaler
  <2>1. log' = Append(log, Scaler) /\ dpc' = "last" /\ dpc = "stopscaler" /\ veto' = veto /\ status' = status
    BY <1>17 DEF StopScaler, hwVars, cmdVars
  <2>2. Appended(Scaler) /\ Scaler \in Blk /\ Scaler.id = "scaler"
    BY <2>1, BlockFacts, LogAppend
  <2>3. log' # << >> /\ ~ Over'
    BY <2>2, AppendedRun
  <2>4. ~ Taking /\ ~ Taking' /\ ~ Serving' /\ status # "ON"
    BY <2>1 DEF Taking, Serving, Stages
  <2> QED BY <2>1, <2>3, <2>4 DEF Stages
<1>18. CASE PutEnd
  <2> DEFINE b == Block("end", <<cmb.run>>, 0)
  <2>1. log' = Append(log, b) /\ dpc' = "loop" /\ dpc = "last" /\ veto' = veto /\ status' = status
    BY <1>18 DEF PutEnd, hwVars, cmdVars
  <2>2. b \in Blk /\ b.id = "end"
    BY BlockFacts DEF Block
  <2> HIDE DEF b
  <2>3. Over'
    BY <2>1, <2>2, LogAppend, AppendedRun
  <2>4. Resting' /\ ~ Going'
    BY <2>3 DEF Resting, Going
  <2>5. ~ Taking /\ ~ Taking' /\ ~ Serving' /\ status # "ON"
    BY <2>1, <2>4 DEF Taking, Serving, Stages
  <2> QED BY <2>1, <2>4, <2>5 DEF Stages
<1> QED BY <1>1, <1>5, <1>6, <1>7, <1>8, <1>9, <1>10, <1>11, <1>12, <1>13, <1>14, <1>15, <1>16, <1>17, <1>18
        DEF Readout

-----------------------------------------------------------------------------
(* The order of the blocks *)

\* A block in the log stays where it is.
LEMMA AppendedAt ==
    ASSUME Types, NEW b \in Blk, Appended(b), NEW n \in Nat, n = Len(log) + 1
    PROVE  /\ \A k \in DOMAIN log' : k \in DOMAIN log \/ k = n
           /\ \A k \in DOMAIN log : k \in DOMAIN log' /\ k < n /\ k \in Nat
           /\ \A k \in DOMAIN log : \A x \in Ids : IsAt(k, x)' <=> IsAt(k, x)
           /\ \A x \in Ids : IsAt(n, x)' <=> b.id = x
           /\ n \in DOMAIN log'
<1>1. Len(log) \in Nat /\ DOMAIN log = 1 .. Len(log)
  BY LogFacts
<1> QED BY <1>1 DEF IsAt, Appended

\* The order is kept when the next block is one that may come next.
LEMMA OrderedAppend ==
    ASSUME Types, Ordered, Fixed, cmb' = cmb,
           NEW b \in Blk, Appended(b), ~ Over, b.id # "start",
           log = << >> => b.id = "scaler",
           b.id = "scaler" => log = << >> \/ Announced,
           b.id \in {"data", "end"} => Counted,
           b.id = "end" => b.what = <<cmb.run>>
    PROVE  Ordered' /\ (b.id = "scaler" \/ Counted => Counted')
<1> USE DEF Fixed
<1> PICK n \in Nat : n = Len(log) + 1
  BY LogFacts
<1>1. Len(log) \in Nat /\ DOMAIN log = 1 .. Len(log) /\ (log # << >> => 1 \in DOMAIN log /\ Len(log) \in DOMAIN log)
      /\ DOMAIN log' = 1 .. n /\ Len(log') = n
  BY LogFacts DEF Appended
<1>2. /\ \A k \in DOMAIN log' : k \in DOMAIN log \/ k = n
      /\ \A k \in DOMAIN log : k \in DOMAIN log' /\ k < n /\ k \in Nat
      /\ n \in DOMAIN log'
  BY AppendedAt
<1>3. \A k \in DOMAIN log : \A x \in Ids : IsAt(k, x)' <=> IsAt(k, x)
  BY AppendedAt
<1>4. \A x \in Ids : IsAt(n, x)' <=> b.id = x
  BY AppendedAt
<1>5. (\A k \in DOMAIN log : log'[k] = log[k]) /\ log'[n] = b
  BY DEF Appended
<1>6. \A k \in DOMAIN log : ~ IsAt(k, "end")
  <2>1. \A k \in DOMAIN log : IsAt(k, "end") => k = Len(log)
    BY DEF Ordered
  <2> QED BY <2>1 DEF IsAt, Over
<1>7. /\ log' # << >>
      /\ log = << >> => ~ Announced'
      /\ log # << >> => (Announced' <=> Announced)
      /\ Over' <=> b.id = "end"
  BY AppendedRun
<1>8. \A k \in (DOMAIN log)' : IsAt(k, "start")' => k = 1
  BY <1>2, <1>3, <1>4 DEF Ordered, Ids
<1>9. Counted => \E j \in DOMAIN log : IsAt(j, "scaler")' /\ j \in DOMAIN log' /\ j < n
  BY <1>2, <1>3 DEF Counted, Ids
<1>10. b.id = "scaler" \/ Counted => Counted'
  <2>1. CASE Counted
    BY <1>9, <2>1 DEF Counted
  <2>2. CASE b.id = "scaler"
    <3>1. IsAt(n, "scaler")'
      BY <1>4, <2>2 DEF Ids
    <3> QED BY <1>2, <3>1 DEF Counted
  <2> QED BY <2>1, <2>2
<1>11. ASSUME NEW k \in (DOMAIN log)', IsAt(k, "data")'
       PROVE  \E j \in (DOMAIN log)' : IsAt(j, "scaler")' /\ j < k
  <2>1. CASE k \in DOMAIN log
    <3>1. IsAt(k, "data")
      BY <1>3, <1>11, <2>1 DEF Ids
    <3>2. PICK j \in DOMAIN log : IsAt(j, "scaler") /\ j < k
      BY <2>1, <3>1 DEF Ordered
    <3>3. IsAt(j, "scaler")' /\ j \in (DOMAIN log)'
      BY <1>2, <1>3, <3>2 DEF Ids
    <3> QED BY <3>2, <3>3
  <2>2. CASE k = n
    <3>1. Counted
      BY <1>4, <1>11, <2>2 DEF Ids
    <3> QED BY <1>9, <2>2, <3>1
  <2> QED BY <1>2, <2>1, <2>2
<1>12. ASSUME NEW k \in (DOMAIN log)', IsAt(k, "end")'
       PROVE  k = Len(log)' /\ Counted' /\ k = n /\ b.id = "end"
  <2>1. k = n
    BY <1>2, <1>3, <1>6, <1>12 DEF Ids
  <2>2. b.id = "end"
    BY <1>4, <1>12, <2>1 DEF Ids
  <2> QED BY <1>1, <1>10, <2>1, <2>2
<1>13. ASSUME NEW k \in (DOMAIN log)', IsAt(k, "end")', Announced', Collect.start
       PROVE  log'[k] .what = log'[1] .what
  <2>1. k = n /\ b.id = "end" /\ log # << >> /\ Announced
    BY <1>7, <1>12, <1>13
  <2>2. Going
    BY <2>1 DEF Going
  <2>3. log[1].what = <<cmb.run>>
    BY <1>13, <2>2 DEF Ordered
  <2>4. log'[1] = log[1]
    BY <1>1, <1>5, <2>1
  <2> QED BY <1>5, <2>1, <2>3, <2>4
<1>14. ASSUME ~ Announced', NEW k \in (DOMAIN log)'
       PROVE  IsAt(k, "scaler")' <=> k = 1
  <2>1. CASE log = << >>
    <3>1. n = 1 /\ b.id = "scaler"
      BY <2>1
    <3>2. k = n
      BY <1>1, <3>1
    <3> QED BY <1>4, <3>1, <3>2 DEF Ids
  <2>2. CASE log # << >>
    <3>1. ~ Announced /\ b.id # "scaler"
      BY <1>7, <1>14, <2>2
    <3>2. \A x \in DOMAIN log : IsAt(x, "scaler") <=> x = 1
      BY <2>2, <3>1 DEF Ordered
    <3>3. CASE k \in DOMAIN log
      BY <1>3, <3>2, <3>3 DEF Ids
    <3>4. CASE k = n
      BY <1>1, <1>2, <1>4, <2>2, <3>1, <3>4 DEF Ids
    <3> QED BY <1>2, <3>3, <3>4
  <2> QED BY <2>1, <2>2
<1>15. ASSUME Going', Collect.start PROVE log'[1] .what = <<cmb.run>>
  <2>1. Announced' /\ log # << >> /\ Going
    BY <1>7, <1>15 DEF Going
  <2>2. log'[1] = log[1]
    BY <1>1, <1>5, <2>1
  <2> QED BY <1>15, <2>1, <2>2 DEF Ordered
<1>16. Ordered'
  <2>1. \A k \in (DOMAIN log)' : IsAt(k, "end")' => k = Len(log)' /\ Counted'
    BY <1>12
  <2> QED BY <1>8, <1>11, <1>13, <1>14, <1>15, <2>1 DEF Ordered
<1> QED BY <1>10, <1>16

\* The order is kept when neither the blocks nor the run number change.
LEMMA OrderedSame ==
    ASSUME Ordered, Fixed, log' = log, cmb' = cmb
    PROVE  Ordered' /\ (Counted' <=> Counted)
<1>1. (Announced' <=> Announced) /\ (Going' <=> Going)
  BY LogSame
<1>2. \A k, x : IsAt(k, x)' <=> IsAt(k, x)
  BY DEF IsAt
<1>3. Counted' <=> Counted
  BY <1>2 DEF Counted
<1> QED BY <1>1, <1>2, <1>3 DEF Ordered, Fixed

\* The order of the blocks: every step.
LEMMA LogShapeStep ==
    ASSUME Types, Stages, LogShape, [GrNext]_grVars
    PROVE  LogShape'
<1>1. Fixed /\ (Quiet \/ Leave \/ Trigger \/ Readout)
  BY Steps
<1>2. Ordered
  BY DEF LogShape
<1>3. CASE Quiet \/ Leave \/ Trigger \/ LookStart \/ ReadFF \/ Clear \/ EndRead
  <2>1. log' = log /\ cmb' = cmb /\ (dpc' \in {"read", "last"} => dpc' = dpc)
    BY <1>3 DEF Quiet, Leave, Trigger, LookStart, ReadFF, Clear, EndRead, readVars, histVars
  <2> QED BY <1>1, <1>2, <2>1, OrderedSame DEF LogShape
<1>4. CASE EncodeStart
  <2>1. log' = log /\ dpc' = "putstart" /\ dpc = "encode"
    BY <1>4 DEF EncodeStart, histVars
  <2>2. (Announced' <=> Announced) /\ ~ Going'
    BY <2>1, LogSame DEF Stages, Going, Resting, Announced
  <2>3. \A k, x : IsAt(k, x)' <=> IsAt(k, x)
    BY <2>1 DEF IsAt
  <2>4. Counted' <=> Counted
    BY <2>1, <2>3 DEF Counted
  <2>5. Ordered'
    BY <1>1, <1>2, <2>1, <2>2, <2>3, <2>4 DEF Ordered, Fixed
  <2> QED BY <2>1, <2>5 DEF LogShape
<1>5. CASE PutStart
  <2>1. dpc = "putstart" /\ dpc' = "loop" /\ cmb' = cmb
    BY <1>5 DEF PutStart
  <2>2. log' = IF Over THEN <<buf>> ELSE Append(log, buf)
    BY <1>5 DEF PutStart
  <2>3. buf \in Blk /\ buf.id = "start"
    BY <2>1, BlockFacts
  <2>4. buf.what = IF Collect.start THEN <<cmb.run>> ELSE << >>
    BY <2>1 DEF Types, ReadTypes, Block
  <2>5. log' = <<buf>>
    <3>1. CASE Over
      BY <2>2, <3>1
    <3>2. CASE ~ Over
      <4>1. log = << >>
        BY <2>1, <3>2 DEF Stages, Resting
      <4> QED BY <2>2, <3>2, <4>1
    <3> QED BY <3>1, <3>2
  <2>6. DOMAIN log' = {1} /\ log'[1] = buf /\ Announced' /\ ~ Over'
    BY <2>3, <2>5, LogOne
  <2>7. \A k \in (DOMAIN log)' : k = 1 /\ ~ IsAt(k, "data")' /\ ~ IsAt(k, "end")'
    BY <2>3, <2>6 DEF IsAt
  <2>8. Ordered'
    BY <1>1, <2>1, <2>4, <2>6, <2>7 DEF Ordered, Fixed
  <2> QED BY <2>1, <2>8 DEF LogShape
<1>6. CASE PutScaler \/ StopScaler
  <2>1. log' = Append(log, Scaler) /\ cmb' = cmb
    BY <1>6 DEF PutScaler, StopScaler
  <2>2. Scaler \in Blk /\ Scaler.id = "scaler"
    BY BlockFacts
  <2>3. Appended(Scaler)
    BY <2>1, <2>2, LogAppend
  <2>4. (log = << >> \/ Announced) /\ ~ Over
    BY <1>6 DEF PutScaler, StopScaler, Stages, Serving, Going, Over
  <2>5. Ordered' /\ Counted'
    BY <1>1, <1>2, <2>1, <2>2, <2>3, <2>4, OrderedAppend
  <2> QED BY <2>5 DEF LogShape
<1>7. CASE ReadMemory
  <2> DEFINE b == Block("data", lrm[Head(todo)], Head(todo))
  <2>1. dpc \in {"read", "last"} /\ cmb' = cmb
    BY <1>7 DEF ReadMemory, Reading
  <2>2. Counted /\ ~ Over /\ log # << >>
    BY <2>1 DEF LogShape, Stages, Serving, Going, Announced
  <2>3. CASE log' = log
    BY <1>1, <1>2, <2>1, <2>2, <2>3, OrderedSame DEF LogShape
  <2>4. CASE log' # log
    <3>1. b \in Blk /\ b.id = "data" /\ Appended(b)
      BY <1>7, <2>4, ReadLogs
    <3> HIDE DEF b
    <3>2. Ordered' /\ Counted'
      BY <1>1, <1>2, <2>1, <2>2, <3>1, OrderedAppend
    <3> QED BY <3>2 DEF LogShape
  <2> QED BY <2>3, <2>4
<1>8. CASE LookStop
  <2>1. dpc' = "stopscaler" /\ cmb' = cmb /\ log' = IF Over THEN << >> ELSE log
    BY <1>8 DEF LookStop
  <2>2. CASE Over
    <3>1. log' = << >> /\ DOMAIN log' = {} /\ ~ Announced' /\ ~ Going'
      BY <2>1, <2>2 DEF Announced, Going
    <3>2. Ordered'
      BY <3>1 DEF Ordered
    <3> QED BY <2>1, <3>2 DEF LogShape
  <2>3. CASE ~ Over
    BY <1>1, <1>2, <2>1, <2>3, OrderedSame DEF LogShape
  <2> QED BY <2>2, <2>3
<1>9. CASE PutEnd
  <2> DEFINE b == Block("end", <<cmb.run>>, 0)
  <2>1. log' = Append(log, b) /\ cmb' = cmb /\ dpc = "last" /\ dpc' = "loop"
    BY <1>9 DEF PutEnd
  <2>2. b \in Blk /\ b.id = "end" /\ b.what = <<cmb.run>>
    BY BlockFacts DEF Block
  <2> HIDE DEF b
  <2>3. Appended(b)
    BY <2>1, <2>2, LogAppend
  <2>4. Counted /\ ~ Over /\ log # << >>
    BY <2>1 DEF LogShape, Stages
  <2>5. Ordered'
    BY <1>1, <1>2, <2>1, <2>2, <2>3, <2>4, OrderedAppend
  <2> QED BY <2>1, <2>5 DEF LogShape
<1> QED BY <1>1, <1>3, <1>4, <1>5, <1>6, <1>7, <1>8, <1>9 DEF Readout

\* The promise: what the invariant says about the order is RunShape.
LEMMA ShapeOfRun ==
    ASSUME Types, LogShape
    PROVE  RunShape
<1> DEFINE At(x) == {k \in DOMAIN log : log[k].id = x}
<1>1. \A k, x : k \in At(x) <=> IsAt(k, x)
  BY DEF IsAt
<1>2. Ordered
  BY DEF LogShape
<1> HIDE DEF At
<1>3. At("start") \subseteq {1}
  BY <1>1, <1>2 DEF Ordered, IsAt
<1>4. \A k \in At("data") : \E j \in At("scaler") : j < k
  BY <1>1, <1>2 DEF Ordered, IsAt
<1>5. \A k \in At("end") : k = Len(log) /\ At("scaler") # {}
  BY <1>1, <1>2 DEF Ordered, IsAt, Counted
<1>6. \A k \in At("end") : Announced /\ Collect.start => log[k].what = log[1].what
  BY <1>1, <1>2 DEF Ordered, IsAt
<1>7. ASSUME ~ Announced, log # << >> PROVE At("scaler") = {1}
  <2>1. \A k \in DOMAIN log : IsAt(k, "scaler") <=> k = 1
    BY <1>2, <1>7 DEF Ordered
  <2>2. 1 \in DOMAIN log
    BY <1>7, LogFacts
  <2>3. \A k : k \in At("scaler") <=> k = 1
    BY <1>1, <2>1, <2>2 DEF IsAt
  <2> QED BY <2>3
<1> QED BY <1>3, <1>4, <1>5, <1>6, <1>7 DEF RunShape, At

-----------------------------------------------------------------------------
(* The memories to read *)

\* The sequence, ...
LEMMA TodoFacts ==
    ASSUME Types
    PROVE  /\ todo \in Seq(Lrm) /\ Len(todo) \in Nat /\ DOMAIN todo = 1 .. Len(todo)
           /\ \A j \in DOMAIN todo : todo[j] \in Lrm
           /\ todo # << >> => 1 \in DOMAIN todo
  BY DEF Types, ReadTypes

\* ... without its first memory.
LEMMA TailFacts ==
    ASSUME Types, todo # << >>, todo' = Tail(todo)
    PROVE  /\ Len(todo') = Len(todo) - 1 /\ DOMAIN todo' = 1 .. Len(todo) - 1
           /\ \A j \in DOMAIN todo' : j + 1 \in DOMAIN todo /\ todo'[j] = todo[j + 1] /\ j + 1 # 1 /\ j \in Nat
           /\ \A j \in DOMAIN todo : j = 1 \/ (j - 1 \in DOMAIN todo' /\ todo'[j - 1] = todo[j])
           /\ todo' = << >> <=> Len(todo) = 1
<1>1. todo \in Seq(Lrm) /\ Len(todo) \in Nat /\ Len(todo) # 0 /\ DOMAIN todo = 1 .. Len(todo)
  BY TodoFacts
<1>2. todo' \in Seq(Lrm) /\ Len(todo') = Len(todo) - 1
  BY <1>1
<1>3. DOMAIN todo' = 1 .. Len(todo) - 1
  BY <1>2
<1>4. \A j \in 1 .. Len(todo) - 1 : todo'[j] = todo[j + 1]
  BY <1>1
<1>5. \A j \in DOMAIN todo' : j + 1 \in DOMAIN todo /\ todo'[j] = todo[j + 1] /\ j + 1 # 1 /\ j \in Nat
  BY <1>1, <1>3, <1>4
<1>6. ASSUME NEW j \in DOMAIN todo, j # 1 PROVE j - 1 \in DOMAIN todo' /\ todo'[j - 1] = todo[j]
  <2>1. j - 1 \in 1 .. Len(todo) - 1 /\ (j - 1) + 1 = j
    BY <1>1, <1>6
  <2> QED BY <1>3, <1>4, <2>1
<1>7. todo' = << >> <=> Len(todo) = 1
  <2>1. \A u \in Seq(Lrm) : u = << >> <=> Len(u) = 0
    OBVIOUS
  <2>2. todo' = << >> <=> Len(todo') = 0
    BY <1>2, <2>1
  <2> QED BY <1>1, <1>2, <2>2
<1> QED BY <1>2, <1>3, <1>5, <1>6, <1>7

\* The last memory of a bank: the others to be read are of the other bank.
LEMMA LastOfBankFacts ==
    ASSUME Types, todo # << >>, TodoShape, dpc = "read"
    PROVE  /\ LastOfBank => \A j \in DOMAIN todo : j # 1 => BankOf(todo[j]) # BankOf(todo[1])
           /\ LastOfBank /\ Len(todo) > 1 => i_buf = 3 /\ ~ Others(1) /\ \A j \in DOMAIN todo : j # 1 => Others(j)
           /\ ~ LastOfBank => 2 \in DOMAIN todo /\ BankOf(todo[2]) = BankOf(todo[1])
<1>1. Len(todo) \in Nat /\ DOMAIN todo = 1 .. Len(todo) /\ 1 \in DOMAIN todo
  BY TodoFacts
<1>2. \A j \in DOMAIN todo : todo[j] \in Nat /\ BankOf(todo[j]) \in {1, 2}
  BY TodoFacts, MemoryFacts DEF Types
<1>3. p_buf + 1 \in {1, 2}
  BY DEF Types, ReadTypes
<1>4. ASSUME LastOfBank, Len(todo) > 1
      PROVE  i_buf = 3 /\ ~ Others(1) /\ \A j \in DOMAIN todo : j # 1 => Others(j)
  <2>1. 2 \in DOMAIN todo
    BY <1>1, <1>4
  <2>2. BankOf(todo[2]) # BankOf(todo[1])
    <3>1. todo[2] % 2 # todo[1] % 2
      BY <1>1, <1>4 DEF LastOfBank
    <3>2. todo[2] \in Nat /\ todo[1] \in Nat
      BY <1>1, <1>2, <2>1
    <3> QED BY ONLY <3>1, <3>2 DEF BankOf
  <2>3. i_buf = 3
    BY <1>1, <2>1, <2>2 DEF TodoShape
  <2>4. \A j, k \in DOMAIN todo : j < k /\ Others(j) => Others(k)
    BY <2>3 DEF TodoShape
  <2>5. Others(2) /\ ~ Others(1)
    BY <1>1, <1>2, <1>3, <2>1, <2>2, <2>4 DEF Others
  <2>6. \A j \in DOMAIN todo : j = 1 \/ j = 2 \/ 2 < j
    BY <1>1
  <2> QED BY <2>1, <2>3, <2>4, <2>5, <2>6
<1>5. ASSUME LastOfBank, NEW j \in DOMAIN todo, j # 1
      PROVE  BankOf(todo[j]) # BankOf(todo[1])
  <2>1. Len(todo) > 1
    BY <1>1, <1>5
  <2> QED BY <1>4, <1>5, <2>1 DEF Others
<1>6. ASSUME ~ LastOfBank PROVE 2 \in DOMAIN todo /\ BankOf(todo[2]) = BankOf(todo[1])
  <2>1. Len(todo) # 1 /\ todo[2] % 2 = todo[1] % 2
    BY <1>6 DEF LastOfBank
  <2>2. 2 \in DOMAIN todo
    BY <1>1, <2>1
  <2> QED BY <2>1, <2>2 DEF BankOf
<1> QED BY <1>4, <1>5, <1>6

\* One memory less.
LEMMA TodoRead ==
    ASSUME Types, TodoShape, ReadMemory
    PROVE  TodoShape'
<1>1. todo # << >> /\ todo' = Tail(todo) /\ i_buf' = i_buf /\ p_buf' = p_buf
  BY DEF ReadMemory
<1>2. \A j \in DOMAIN todo' : j + 1 \in DOMAIN todo /\ todo'[j] = todo[j + 1] /\ j + 1 # 1 /\ j \in Nat
  BY <1>1, TailFacts
<1>3. dpc \in {"read", "last"} /\ dpc' = Following
  BY DEF ReadMemory, Reading
<1>4. dpc' \in {"read", "scaler"} => dpc = "read"
  BY <1>3 DEF Following
<1>5. dpc' \in {"read", "last", "scaler"}
  BY <1>3 DEF Following
<1>6. \A j, k \in (DOMAIN todo)' : j # k => todo'[j] # todo'[k]
  <2>1. ASSUME NEW j \in (DOMAIN todo)', NEW k \in (DOMAIN todo)', j # k PROVE todo'[j] # todo'[k]
    <3>1. j + 1 # k + 1
      BY <1>2, <2>1
    <3> QED BY <1>2, <3>1 DEF TodoShape
  <2> QED BY <2>1
<1>7. \A j \in (DOMAIN todo)' : Others(j)' <=> BankOf(todo[j + 1]) = p_buf + 1
  BY <1>1, <1>2 DEF Others, BankOf
<1>8. ASSUME dpc' \in {"scaler", "read"}, i_buf # 3, NEW j \in (DOMAIN todo)' PROVE BankOf(todo'[j]) = i_buf
  BY <1>2, <1>4, <1>8 DEF TodoShape
<1>9. ASSUME dpc' \in {"scaler", "read"}, NEW j \in (DOMAIN todo)', NEW k \in (DOMAIN todo)',
             i_buf = 3, j < k, Others(j)'
      PROVE  Others(k)'
  <2>1. j + 1 < k + 1
    BY <1>2, <1>9
  <2> QED BY <1>2, <1>4, <1>7, <1>9, <2>1 DEF TodoShape, Others
<1>10. ASSUME dpc' = "scaler" PROVE i_buf = 3 /\ \A j \in (DOMAIN todo)' : Others(j)'
  <2>1. dpc = "read" /\ LastOfBank /\ Len(todo) > 1
    BY <1>3, <1>10 DEF Following
  <2>2. i_buf = 3 /\ \A j \in DOMAIN todo : j # 1 => Others(j)
    BY <1>1, <2>1, LastOfBankFacts
  <2> QED BY <1>2, <1>7, <2>2 DEF Others
<1>11. ASSUME dpc' = "last", NEW j \in (DOMAIN todo)' PROVE Others(j)'
  <2>1. dpc = "last"
    BY <1>3, <1>11 DEF Following
  <2> QED BY <1>2, <1>7, <2>1 DEF TodoShape, Others
<1>12. (dpc' \in {"scaler", "read"} /\ i_buf' # 3) => \A j \in (DOMAIN todo)' : BankOf(todo[j])' = i_buf'
  BY <1>1, <1>8 DEF BankOf
<1> QED BY <1>1, <1>5, <1>6, <1>9, <1>10, <1>11, <1>12 DEF TodoShape

\* The memories to read: every step.
LEMMA TodoStep ==
    ASSUME Types, TodoShape, [GrNext]_grVars
    PROVE  TodoShape'
<1>1. Fixed /\ (Quiet \/ Leave \/ Trigger \/ Readout)
  BY Steps
<1>2. i_buf \in 1 .. 3 /\ p_buf \in 0 .. 1 /\ setup \in Setups
  BY DEF Types, ReadTypes
<1>3. CASE Quiet \/ Trigger
  <2>1. UNCHANGED <<todo, dpc, i_buf, p_buf>>
    BY <1>3 DEF Quiet, Trigger, readVars
  <2> QED BY <2>1 DEF TodoShape, Others, BankOf
<1>4. CASE Leave
  BY <1>4 DEF Leave, TodoShape
<1>5. CASE LookStart \/ EncodeStart \/ PutStart \/ ReadFF \/ Clear \/ EndRead \/ LookStop \/ PutEnd
  <2>1. todo = << >>
    BY <1>5 DEF LookStart, EncodeStart, PutStart, ReadFF, Clear, EndRead, LookStop, PutEnd, TodoShape
  <2>2. todo' = << >>
    BY <1>5, <2>1 DEF LookStart, EncodeStart, PutStart, ReadFF, Clear, EndRead, LookStop, PutEnd
  <2> QED BY <2>2 DEF TodoShape
<1>6. CASE PutScaler
  <2>1. dpc = "scaler" /\ dpc' = "read" /\ i_buf' = i_buf /\ p_buf' = p_buf
    BY <1>6 DEF PutScaler
  <2>2. CASE todo = << >>
    <3>1. todo' = Banks
      BY <1>6, <2>2 DEF PutScaler
    <3>2. ToRead(todo')
      BY <1>2, <3>1, BanksListed
    <3>3. \A j \in (DOMAIN todo)' : Others(j)' <=> BankOf(todo'[j]) = p_buf + 1
      BY <2>1 DEF Others, BankOf
    <3>4. i_buf = 3 => \A j, k \in (DOMAIN todo)' : j < k /\ Others(j)' => Others(k)'
      BY <3>2, <3>3 DEF ToRead
    <3>5. i_buf # 3 => \A j \in (DOMAIN todo)' : BankOf(todo[j])' = i_buf'
      BY <2>1, <3>2 DEF ToRead, BankOf
    <3>6. \A j, k \in (DOMAIN todo)' : j # k => todo'[j] # todo'[k]
      BY <3>2 DEF ToRead
    <3> QED BY <2>1, <3>4, <3>5, <3>6 DEF TodoShape
  <2>3. CASE todo # << >>
    <3>1. todo' = todo
      BY <1>6, <2>3 DEF PutScaler
    <3> QED BY <2>1, <2>3, <3>1 DEF TodoShape, Others, BankOf
  <2> QED BY <2>2, <2>3
<1>7. CASE ReadMemory
  BY <1>7, TodoRead
<1>8. CASE StopScaler
  <2>1. dpc' = "last" /\ todo' = LastBank /\ p_buf' = p_buf
    BY <1>8 DEF StopScaler
  <2>2. CASE todo' = << >>
    BY <2>1, <2>2 DEF TodoShape
  <2>3. CASE todo' = EveryOther(p_buf)
    <3>1. Lists(todo', p_buf + 1)
      BY <1>2, <2>3, EveryOtherLists
    <3>2. \A j \in (DOMAIN todo)' : Others(j)'
      BY <2>1, <3>1 DEF Lists, Others, BankOf
    <3>3. \A j, k \in (DOMAIN todo)' : j # k => todo'[j] # todo'[k]
      BY <3>1 DEF Lists
    <3> QED BY <2>1, <3>2, <3>3 DEF TodoShape
  <2> QED BY <2>1, <2>2, <2>3 DEF LastBank
<1> QED BY <1>1, <1>3, <1>4, <1>5, <1>6, <1>7, <1>8 DEF Readout

-----------------------------------------------------------------------------
(* A scaler block for every bank *)

\* An index that is not the last has a next one.
LEMMA NotLast ==
    ASSUME NEW n \in Nat, NEW k \in 1 .. n, k # n
    PROVE  k \in 1 .. n - 1 /\ k + 1 \in 1 .. n
  OBVIOUS

\* Two blocks next to each other: the new one and the last one before it.
LEMMA ApartAppend ==
    ASSUME Types, BankScaler, NEW b \in Blk, Appended(b),
           b.id = "data" /\ log # << >> /\ log[Len(log)].id = "data" => BankOf(log[Len(log)].from) = BankOf(b.from)
    PROVE  BankScaler' /\ log'[Len(log')] = b
<1>1. Len(log) \in Nat /\ DOMAIN log = 1 .. Len(log) /\ (log # << >> <=> Len(log) # 0)
  BY LogFacts
<1>2. Len(log') = Len(log) + 1 /\ log'[Len(log) + 1] = b
  BY DEF Appended
<1>3. ASSUME NEW k \in 1 .. Len(log') - 1, log'[k] .id = "data", log'[k + 1] .id = "data"
      PROVE  BankOf(log'[k] .from) = BankOf(log'[k + 1] .from)
  <2>1. CASE k = Len(log)
    <3>1. k + 1 = Len(log) + 1 /\ k \in DOMAIN log
      BY <1>1, <1>3, <2>1
    <3>2. log'[k] = log[k] /\ log'[k + 1] = b
      BY <1>2, <3>1 DEF Appended
    <3> QED BY <1>1, <1>3, <2>1, <3>1, <3>2
  <2>2. CASE k # Len(log)
    <3>1. k \in 1 .. Len(log) - 1 /\ k \in DOMAIN log /\ k + 1 \in DOMAIN log
      <4>1. Len(log') - 1 = Len(log)
        BY <1>1, <1>2
      <4>2. k \in 1 .. Len(log)
        BY <1>3, <4>1
      <4>3. k \in 1 .. Len(log) - 1 /\ k + 1 \in 1 .. Len(log)
        BY <1>1, <2>2, <4>2, NotLast
      <4> QED BY <1>1, <4>2, <4>3
    <3>2. log'[k] = log[k] /\ log'[k + 1] = log[k + 1]
      BY <3>1 DEF Appended
    <3> QED BY <1>3, <3>1, <3>2 DEF BankScaler
  <2> QED BY <2>1, <2>2
<1>4. BankScaler'
  BY <1>3 DEF BankScaler, BankOf
<1> QED BY <1>2, <1>4

\* A scaler block for every bank: every step.
LEMMA ApartStep ==
    ASSUME Types, Stages, TodoShape, Apart, [GrNext]_grVars
    PROVE  Apart'
<1>1. Fixed /\ (Quiet \/ Leave \/ Trigger \/ Readout)
  BY Steps
<1> SUFFICES ASSUME Collect.scaler = "bank"
             PROVE  /\ BankScaler'
                    /\ dpc' \in {"read", "last"} /\ todo' # << >> /\ log'[Len(log')] .id = "data" =>
                         BankOf(log'[Len(log')] .from) = BankOf(todo'[1])
  BY <1>1 DEF Apart, Fixed, BankOf
<1>2. BankScaler
  BY DEF Apart
<1>3. CASE Quiet \/ Leave \/ Trigger \/ LookStart \/ EncodeStart \/ ReadFF \/ Clear \/ EndRead
  <2>1. log' = log /\ (dpc' \in {"read", "last"} => dpc' = dpc /\ todo' = todo)
    BY <1>3 DEF Quiet, Leave, Trigger, LookStart, EncodeStart, ReadFF, Clear, EndRead, readVars, histVars
  <2>2. BankScaler'
    BY <1>2, <2>1 DEF BankScaler, BankOf
  <2> QED BY <2>1, <2>2 DEF Apart
<1>4. CASE PutStart
  <2>1. dpc = "putstart" /\ dpc' = "loop" /\ log' = IF Over THEN <<buf>> ELSE Append(log, buf)
    BY <1>4 DEF PutStart
  <2>2. buf \in Blk /\ buf.id = "start"
    BY <2>1, BlockFacts
  <2>3. CASE Over
    <3>1. Len(log') = 1
      BY <2>1, <2>2, <2>3, LogOne
    <3>2. 1 .. Len(log') - 1 = {}
      BY <3>1
    <3> QED BY <2>1, <3>2 DEF BankScaler
  <2>4. CASE ~ Over
    BY <1>2, <2>1, <2>2, <2>4, LogAppend, ApartAppend
  <2> QED BY <2>3, <2>4
<1>5. CASE PutScaler \/ StopScaler
  <2>1. log' = Append(log, Scaler)
    BY <1>5 DEF PutScaler, StopScaler
  <2>2. Scaler \in Blk /\ Scaler.id = "scaler"
    BY BlockFacts
  <2>3. BankScaler' /\ log'[Len(log')] = Scaler
    BY <1>2, <2>1, <2>2, LogAppend, ApartAppend
  <2> QED BY <2>2, <2>3
<1>6. CASE ReadMemory
  <2> DEFINE b == Block("data", lrm[Head(todo)], Head(todo))
  <2>1. dpc \in {"read", "last"} /\ dpc' = Following /\ todo # << >> /\ todo' = Tail(todo)
    BY <1>6 DEF ReadMemory, Reading
  <2>2. /\ b \in Blk /\ b.id = "data" /\ b.from = todo[1] /\ 1 \in DOMAIN todo
        /\ log' = log \/ Appended(b)
    BY <1>6, ReadLogs
  <2> HIDE DEF b
  <2>3. log[Len(log)].id = "data" => BankOf(log[Len(log)].from) = BankOf(todo[1])
    BY <2>1 DEF Apart
  <2>4. BankScaler' /\ (log'[Len(log')] .id = "data" => BankOf(log'[Len(log')] .from) = BankOf(todo[1]))
    <3>1. CASE log' = log
      BY <1>2, <2>3, <3>1 DEF BankScaler, BankOf
    <3>2. CASE Appended(b)
      BY <1>2, <2>2, <2>3, <3>2, ApartAppend
    <3> QED BY <2>2, <3>1, <3>2
  <2>5. ASSUME dpc' \in {"read", "last"}, todo' # << >> PROVE BankOf(todo'[1]) = BankOf(todo[1])
    <3>1. Len(todo) \in Nat /\ DOMAIN todo = 1 .. Len(todo)
      BY TodoFacts
    <3>2. Len(todo) # 1 /\ Len(todo) # 0
      BY <2>1, <2>2, <2>5, <3>1, TailFacts
    <3>3. 2 \in DOMAIN todo /\ 1 \in DOMAIN todo
      BY <3>1, <3>2
    <3>4. todo'[1] = todo[2]
      <4>1. Len(todo) > 1 /\ todo \in Seq(Lrm)
        BY <3>1, <3>2, TodoFacts
      <4> QED BY <2>1, <4>1
    <3>5. CASE dpc = "read"
      <4>1. ~ LastOfBank
        BY <2>1, <2>5, <3>1, <3>2, <3>5 DEF Following
      <4> QED BY <2>1, <3>4, <3>5, <4>1, LastOfBankFacts
    <3>6. CASE dpc = "last"
      <4>1. Others(1) /\ Others(2)
        BY <3>3, <3>6 DEF TodoShape
      <4> QED BY <3>4, <4>1 DEF Others
    <3> QED BY <2>1, <3>5, <3>6
  <2> QED BY <2>4, <2>5
<1>7. CASE LookStop
  <2>1. dpc' = "stopscaler" /\ log' = IF Over THEN << >> ELSE log
    BY <1>7 DEF LookStop
  <2>2. CASE Over
    <3>1. 1 .. Len(log') - 1 = {}
      BY <2>1, <2>2
    <3> QED BY <2>1, <3>1 DEF BankScaler
  <2>3. CASE ~ Over
    BY <1>2, <2>1, <2>3 DEF BankScaler, BankOf
  <2> QED BY <2>2, <2>3
<1>8. CASE PutEnd
  <2> DEFINE b == Block("end", <<cmb.run>>, 0)
  <2>1. log' = Append(log, b) /\ dpc' = "loop"
    BY <1>8 DEF PutEnd
  <2>2. b \in Blk /\ b.id = "end"
    BY BlockFacts DEF Block
  <2> HIDE DEF b
  <2> QED BY <1>2, <2>1, <2>2, LogAppend, ApartAppend
<1> QED BY <1>1, <1>3, <1>4, <1>5, <1>6, <1>7, <1>8 DEF Readout

-----------------------------------------------------------------------------
(* The events put *)

\* The data of a pair, when another block is put.
LEMMA DataAppend ==
    ASSUME Types, NEW b \in Blk, Appended(b), NEW m \in Nat, NEW n \in Nat, n = Len(log) + 1
    PROVE  /\ DataOf(m)' = IF b.id = "data" /\ b.from \div 2 = m THEN DataOf(m) \cup {n} ELSE DataOf(m)
           /\ \A k \in DataOf(m) : k < n /\ k \in Nat /\ log'[k] = log[k]
           /\ log'[n] = b
<1>1. Len(log) \in Nat /\ DOMAIN log = 1 .. Len(log)
  BY LogFacts
<1>2. DOMAIN log' = 1 .. n /\ log'[n] = b
  BY <1>1 DEF Appended
<1>3. \A k \in DOMAIN log : k < n /\ k \in Nat /\ log'[k] = log[k]
  BY <1>1 DEF Appended
<1>4. \A k : k \in DOMAIN log' <=> k \in DOMAIN log \/ k = n
  BY <1>1, <1>2
<1>5. \A k : k \in DataOf(m)' <=> k \in DOMAIN log' /\ log'[k] .id = "data" /\ log'[k] .from \div 2 = m
  BY DEF DataOf
<1>6. \A k : k \in DataOf(m) <=> k \in DOMAIN log /\ log[k].id = "data" /\ log[k].from \div 2 = m
  BY DEF DataOf
<1>7. \A k : k \in DataOf(m)' <=> k \in DataOf(m) \/ (k = n /\ b.id = "data" /\ b.from \div 2 = m)
  BY <1>2, <1>3, <1>4, <1>5, <1>6
<1>8. n \notin DOMAIN log
  BY <1>1
<1> QED BY <1>2, <1>3, <1>6, <1>7

\* The last event put, when the blocks stay, ...
LEMMA PutSame ==
    ASSUME log' = log, NEW m \in Nat, NEW x \in Nat, PutUpTo(m, x)
    PROVE  PutUpTo(m, x)'
  BY DEF PutUpTo, DataOf

\* ... when a block of another kind or pair is put, ...
LEMMA PutOther ==
    ASSUME Types, NEW b \in Blk, Appended(b), NEW m \in Nat, NEW x \in Nat, PutUpTo(m, x),
           ~ (b.id = "data" /\ b.from \div 2 = m)
    PROVE  PutUpTo(m, x)'
<1> PICK n \in Nat : n = Len(log) + 1
  BY LogFacts
<1>1. DataOf(m)' = DataOf(m) /\ \A k \in DataOf(m) : log'[k] = log[k]
  BY DataAppend
<1>2. CASE DataOf(m) = {} /\ x = 0
  BY <1>1, <1>2 DEF PutUpTo
<1>3. CASE \E k \in DataOf(m) : (\A j \in DataOf(m) : j <= k) /\ x = log[k].what[Len(log[k].what)]
  <2>1. PICK k \in DataOf(m) : (\A j \in DataOf(m) : j <= k) /\ x = log[k].what[Len(log[k].what)]
    BY <1>3
  <2>2. x = log'[k] .what[Len(log'[k] .what)]
    BY <1>1, <2>1
  <2> QED BY <1>1, <2>1, <2>2 DEF PutUpTo
<1> QED BY <1>2, <1>3 DEF PutUpTo

\* ... and when one of this pair is put.
LEMMA PutThis ==
    ASSUME Types, NEW b \in Blk, Appended(b), NEW m \in Nat,
           b.id = "data", b.from \div 2 = m, NEW x \in Nat, x = b.what[Len(b.what)]
    PROVE  PutUpTo(m, x)'
<1> PICK n \in Nat : n = Len(log) + 1
  BY LogFacts
<1>1. /\ DataOf(m)' = DataOf(m) \cup {n}
      /\ \A k \in DataOf(m) : k < n /\ k \in Nat
      /\ log'[n] = b
  BY DataAppend
<1>2. n \in DataOf(m)' /\ \A j \in DataOf(m)' : j <= n
  BY <1>1
<1> QED BY <1>1, <1>2 DEF PutUpTo

\* The data of a pair go on where they ended, ...
LEMMA ContinuesAppend ==
    ASSUME Types, NEW b \in Blk, Appended(b), NEW m \in Nat, Continues(m),
           b.id = "data" /\ b.from \div 2 = m =>
             \E x \in Nat : PutUpTo(m, x) /\ Upward(b.what, x) /\ b.what # << >>
    PROVE  Continues(m)'
<1> PICK n \in Nat : n = Len(log) + 1
  BY LogFacts
<1>1. /\ DataOf(m)' = IF b.id = "data" /\ b.from \div 2 = m THEN DataOf(m) \cup {n} ELSE DataOf(m)
      /\ \A k \in DataOf(m) : k < n /\ k \in Nat /\ log'[k] = log[k]
      /\ log'[n] = b
  BY DataAppend
<1> DEFINE Fine(w, before, l) ==
             /\ \A e \in DOMAIN w : w[e] = w[1] + e - 1
             /\ before = {} => w[1] = 1
             /\ \A j \in before : (\A i \in before : i <= j) => w[1] = l[j].what[Len(l[j].what)] + 1
<1>2. \A k \in DataOf(m) : Fine(log[k].what, {j \in DataOf(m) : j < k}, log)
  BY DEF Continues
<1>3. SUFFICES ASSUME NEW k \in DataOf(m)' PROVE Fine(log'[k] .what, {j \in DataOf(m)' : j < k}, log')
  BY DEF Continues
<1>4. CASE k \in DataOf(m)
  <2>1. {j \in DataOf(m)' : j < k} = {j \in DataOf(m) : j < k}
    BY <1>1, <1>4
  <2>2. Fine(log[k].what, {j \in DataOf(m) : j < k}, log)
    BY <1>2, <1>4
  <2>3. log'[k] = log[k] /\ \A j \in {j \in DataOf(m) : j < k} : log'[j] = log[j]
    BY <1>1, <1>4
  <2> QED BY <2>1, <2>2, <2>3
<1>5. CASE k = n /\ b.id = "data" /\ b.from \div 2 = m
  <2>1. {j \in DataOf(m)' : j < k} = DataOf(m)
    BY <1>1, <1>5
  <2>2. PICK x \in Nat : PutUpTo(m, x) /\ Upward(b.what, x) /\ b.what # << >>
    BY <1>5
  <2>3. b.what \in Seq(Nat)
    BY DEF Blk
  <2>4. 1 \in DOMAIN b.what /\ DOMAIN b.what \subseteq Nat
    BY <2>2, <2>3
  <2>5. b.what[1] = x + 1 /\ \A e \in DOMAIN b.what : b.what[e] = x + e
    BY <2>2, <2>4 DEF Upward
  <2>6. \A e \in DOMAIN b.what : b.what[e] = b.what[1] + e - 1
    BY <2>4, <2>5
  <2>7. DataOf(m) = {} => b.what[1] = 1
    BY <2>2, <2>5 DEF PutUpTo
  <2>8. ASSUME NEW j \in DataOf(m), \A i \in DataOf(m) : i <= j
        PROVE  b.what[1] = log'[j] .what[Len(log'[j] .what)] + 1
    <3>1. PICK j0 \in DataOf(m) : (\A i \in DataOf(m) : i <= j0) /\ x = log[j0].what[Len(log[j0].what)]
      BY <2>2, <2>8 DEF PutUpTo
    <3>2. j0 <= j /\ j <= j0 /\ j \in Nat /\ j0 \in Nat
      BY <1>1, <2>8, <3>1
    <3>3. j0 = j /\ log'[j] = log[j]
      BY <1>1, <3>2
    <3> QED BY <2>5, <3>1, <3>3
  <2>9. log'[k] .what = b.what
    BY <1>1, <1>5
  <2> QED BY <2>1, <2>6, <2>7, <2>8, <2>9
<1> QED BY <1>1, <1>3, <1>4, <1>5

\* Where the readout begins: every step.
LEMMA AtStartStep ==
    ASSUME Types, Stages, AtStart, [GrNext]_grVars
    PROVE  AtStart'
<1>1. Fixed /\ (Quiet \/ Leave \/ Trigger \/ Readout)
  BY Steps
<1>2. (log' = log => (Resting' <=> Resting)) /\ Collect' = Collect
  BY <1>1, LogSame DEF Fixed
<1>3. CASE Quiet \/ Leave \/ Trigger
  BY <1>2, <1>3 DEF Quiet, Leave, Trigger, readVars, histVars, AtStart
<1>4. CASE LookStart \/ EncodeStart
  BY <1>2, <1>4 DEF LookStart, EncodeStart, histVars, AtStart
<1>5. CASE ReadFF \/ Clear \/ PutScaler \/ LookStop
  BY <1>5 DEF ReadFF, Clear, PutScaler, LookStop, AtStart
<1>6. CASE PutStart
  <2>1. dpc = "putstart" /\ dpc' = "loop" /\ log' = IF Over THEN <<buf>> ELSE Append(log, buf)
    BY <1>6 DEF PutStart
  <2>2. buf \in Blk /\ buf.id = "start"
    BY <2>1, BlockFacts
  <2>3. log' # << >> /\ ~ Over'
    BY <2>1, <2>2, LogOne, LogAppend, AppendedRun
  <2> QED BY <2>1, <2>3 DEF AtStart, Resting
<1>7. CASE ReadMemory
  <2>1. dpc' = Following /\ dpc \in {"read", "last"} /\ todo # << >>
    BY <1>7 DEF ReadMemory, Reading
  <2>2. dpc' \in {"read", "last", "scaler"} /\ (dpc' = "last" => dpc = "last")
    BY <2>1 DEF Following
  <2> QED BY <1>2, <2>1, <2>2 DEF AtStart
<1>8. CASE EndRead
  <2>1. dpc = "read" /\ dpc' = "loop" /\ log' = log
    BY <1>8 DEF EndRead, histVars
  <2>2. ~ Resting
    BY <2>1 DEF Stages, Serving, Going, Announced, Resting
  <2> QED BY <1>2, <2>1, <2>2 DEF AtStart
<1>9. CASE StopScaler
  <2>1. dpc' = "last" /\ todo' = LastBank
    BY <1>9 DEF StopScaler
  <2> QED BY <1>2, <2>1 DEF AtStart, LastBank
<1>10. CASE PutEnd
  BY <1>10 DEF PutEnd, AtStart
<1> QED BY <1>1, <1>3, <1>4, <1>5, <1>6, <1>7, <1>8, <1>9, <1>10 DEF Readout

-----------------------------------------------------------------------------
(* The flow of the events: put, in the older bank, in the other bank *)

\* An event goes on where the memory ended.
LEMMA UpwardAppend ==
    ASSUME NEW s \in Seq(Nat), NEW n \in Nat, Upward(s, n)
    PROVE  Upward(Append(s, n + Len(s) + 1), n)
<1> DEFINE r == Append(s, n + Len(s) + 1)
<1>1. Len(s) \in Nat /\ DOMAIN s = 1 .. Len(s) /\ DOMAIN r = 1 .. Len(s) + 1
  OBVIOUS
<1>2. \A e \in DOMAIN s : r[e] = n + e
  BY DEF Upward
<1>3. r[Len(s) + 1] = n + (Len(s) + 1)
  OBVIOUS
<1>4. \A e \in DOMAIN r : e \in DOMAIN s \/ e = Len(s) + 1
  BY <1>1
<1> QED BY <1>2, <1>3, <1>4 DEF Upward

\* The last event of a memory.
LEMMA UpwardLast ==
    ASSUME NEW s \in Seq(Nat), NEW n \in Nat, Upward(s, n), s # << >>
    PROVE  s[Len(s)] = n + Len(s)
<1>1. Len(s) \in DOMAIN s
  OBVIOUS
<1> QED BY <1>1 DEF Upward

\* The two memories of a pair.
LEMMA Pair ==
    ASSUME Types, NEW m \in Pairs, NEW a \in {1, 2}
    PROVE  /\ m \in Nat /\ 3 - a \in {1, 2} /\ 3 - (3 - a) = a /\ a # 3 - a
           /\ Mem(a, m) \in Lrm /\ BankOf(Mem(a, m)) = a /\ Mem(a, m) \div 2 = m
           /\ Mem(3 - a, m) \in Lrm /\ BankOf(Mem(3 - a, m)) = 3 - a /\ Mem(3 - a, m) \div 2 = m
           /\ lrm[Mem(a, m)] \in Seq(Nat) /\ lrm[Mem(3 - a, m)] \in Seq(Nat)
           /\ Len(lrm[Mem(a, m)]) \in Nat /\ Len(lrm[Mem(3 - a, m)]) \in Nat
           /\ event \in Nat
<1>1. 3 - a \in {1, 2} /\ 3 - (3 - a) = a /\ a # 3 - a
  OBVIOUS
<1>2. m \in Nat /\ Mem(a, m) \in Lrm /\ BankOf(Mem(a, m)) = a /\ Mem(a, m) \div 2 = m
  BY PairFacts DEF Types
<1>3. Mem(3 - a, m) \in Lrm /\ BankOf(Mem(3 - a, m)) = 3 - a /\ Mem(3 - a, m) \div 2 = m
  BY <1>1, PairFacts DEF Types
<1>4. lrm \in [Lrm -> Seq(Nat)] /\ event \in Nat
  BY SetupFacts DEF Types, HwTypes
<1>5. lrm[Mem(a, m)] \in Seq(Nat) /\ lrm[Mem(3 - a, m)] \in Seq(Nat)
  BY <1>2, <1>3, <1>4
<1> QED BY <1>1, <1>2, <1>3, <1>4, <1>5

\* The flow is kept when the memories stay and no data are put.
LEMMA FlowSame ==
    ASSUME Types, Fixed, NEW a \in {1, 2}, Flow(a), lrm' = lrm, event' = event,
           log' = log \/ \E b \in Blk : Appended(b) /\ b.id # "data"
    PROVE  Flow(a)'
<1>1. SUFFICES ASSUME NEW m \in Pairs PROVE \E n \in 0 .. event : FlowOf(m, a, n)'
  BY DEF Flow, Fixed
<1>2. PICK n \in 0 .. event : FlowOf(m, a, n)
  BY DEF Flow
<1>3. m \in Nat /\ n \in Nat
  <2>1. m \in Nat /\ event \in Nat
    BY Pair
  <2> QED BY <2>1
<1>4. PutUpTo(m, n)'
  <2>1. PutUpTo(m, n)
    BY <1>2 DEF FlowOf
  <2> QED BY <1>3, <2>1, PutSame, PutOther
<1>5. FlowOf(m, a, n)'
  BY <1>2, <1>4 DEF FlowOf, Upward
<1> QED BY <1>5

\* An event is written into the bank that comes last.
LEMMA FlowTrigger ==
    ASSUME Types, Fixed, NEW a \in {1, 2}, Flow(a), Trigger,
           bank = 3 - a \/ (bank = a /\ Drained(3 - a))
    PROVE  Flow(a)'
<1>1. SUFFICES ASSUME NEW m \in Pairs PROVE \E n \in 0 .. event' : FlowOf(m, a, n)'
  BY DEF Flow, Fixed
<1>2. PICK n \in 0 .. event : FlowOf(m, a, n)
  BY DEF Flow
<1> PICK i \in Lrm, o \in Lrm : i = Mem(a, m) /\ o = Mem(3 - a, m)
  BY Pair
<1>3. /\ m \in Nat /\ event \in Nat /\ n \in Nat /\ BankOf(i) = a /\ BankOf(o) = 3 - a /\ a # 3 - a
      /\ lrm[i] \in Seq(Nat) /\ lrm[o] \in Seq(Nat)
  <2>1. /\ m \in Nat /\ event \in Nat /\ BankOf(i) = a /\ BankOf(o) = 3 - a /\ a # 3 - a
        /\ lrm[i] \in Seq(Nat) /\ lrm[o] \in Seq(Nat)
    BY Pair
  <2> QED BY <2>1
<1> PICK p \in Nat, q \in Nat : p = Len(lrm[i]) /\ q = Len(lrm[o])
  BY <1>3
<1>4. PutUpTo(m, n) /\ Upward(lrm[i], n) /\ Upward(lrm[o], n + p) /\ n + p + q = event
  BY <1>2 DEF FlowOf
<1>5. log' = log /\ event' = event + 1
      /\ lrm' = [x \in Lrm |-> IF BankOf(x) = bank THEN Append(lrm[x], event + 1) ELSE lrm[x]]
  BY DEF Trigger, histVars
<1>6. PutUpTo(m, n)'
  BY <1>3, <1>4, <1>5, PutSame
<1>7. n \in 0 .. event'
  BY <1>3, <1>5
<1>8. CASE bank = 3 - a
  <2>1. lrm'[i] = lrm[i] /\ lrm'[o] = Append(lrm[o], event + 1)
    BY <1>3, <1>5, <1>8
  <2>2. (n + p) + q + 1 = event + 1 /\ n + p \in Nat
    <3>1. n \in Nat /\ event = n + p + q
      BY <1>3, <1>4
    <3> QED BY ONLY <3>1, p \in Nat, q \in Nat
  <2>3. Upward(Append(lrm[o], (n + p) + Len(lrm[o]) + 1), n + p)
    BY <1>3, <1>4, <2>2, UpwardAppend
  <2>4. Upward(lrm'[o], n + Len(lrm'[i])) /\ Upward(lrm'[i], n)
    BY <1>4, <2>1, <2>2, <2>3
  <2>5. Len(lrm'[o]) = q + 1 /\ Len(lrm'[i]) = p
    BY <1>3, <2>1
  <2>6. n + Len(lrm'[i]) + Len(lrm'[o]) = event'
    <3>1. n + p + (q + 1) = event + 1
      <4>1. n \in Nat /\ event = n + p + q
        BY <1>3, <1>4
      <4> QED BY ONLY <4>1, p \in Nat, q \in Nat
    <3> QED BY <1>5, <2>5, <3>1
  <2>7. FlowOf(m, a, n)'
    BY <1>6, <2>4, <2>6 DEF FlowOf, Upward
  <2> QED BY <1>7, <2>7
<1>9. CASE bank = a /\ Drained(3 - a)
  <2>1. lrm[o] = << >>
    BY <1>3, <1>9 DEF Drained
  <2>2. lrm'[o] = << >> /\ lrm'[i] = Append(lrm[i], event + 1)
    BY <1>3, <1>5, <1>9, <2>1
  <2>3. n + p + 1 = event + 1
    <3>1. q = 0
      BY <2>1
    <3> QED BY <1>3, <1>4, <3>1
  <2>4. Upward(lrm'[i], n)
    BY <1>3, <1>4, <2>2, <2>3, UpwardAppend
  <2>5. Len(lrm'[i]) = p + 1 /\ Len(lrm'[o]) = 0
    BY <1>3, <2>2
  <2>6. n + Len(lrm'[i]) + Len(lrm'[o]) = event'
    <3>1. n + (p + 1) + 0 = event + 1
      BY <1>3, <2>3
    <3> QED BY <1>5, <2>5, <3>1
  <2>7. Upward(lrm'[o], n + Len(lrm'[i]))
    BY <2>2 DEF Upward
  <2>8. FlowOf(m, a, n)'
    BY <1>6, <2>4, <2>6, <2>7 DEF FlowOf, Upward
  <2> QED BY <1>7, <2>8
<1> QED BY <1>8, <1>9

\* A memory of the older bank is put and emptied.
LEMMA FlowRead ==
    ASSUME Types, Fixed, NEW a \in {1, 2}, Flow(a), ReadMemory, BankOf(todo[1]) = a
    PROVE  Flow(a)'
<1>1. SUFFICES ASSUME NEW m \in Pairs PROVE \E n \in 0 .. event : FlowOf(m, a, n)'
  BY DEF Flow, Fixed, ReadMemory
<1>2. PICK n \in 0 .. event : FlowOf(m, a, n)
  BY DEF Flow
<1> PICK i \in Lrm, o \in Lrm : i = Mem(a, m) /\ o = Mem(3 - a, m)
  BY Pair
<1>3. /\ m \in Nat /\ event \in Nat /\ n \in Nat /\ BankOf(i) = a /\ BankOf(o) = 3 - a /\ a # 3 - a
      /\ lrm[i] \in Seq(Nat) /\ lrm[o] \in Seq(Nat) /\ i \div 2 = m
  <2>1. /\ m \in Nat /\ event \in Nat /\ BankOf(i) = a /\ BankOf(o) = 3 - a /\ a # 3 - a
        /\ lrm[i] \in Seq(Nat) /\ lrm[o] \in Seq(Nat) /\ i \div 2 = m
    BY Pair
  <2> QED BY <2>1
<1> PICK p \in Nat, q \in Nat : p = Len(lrm[i]) /\ q = Len(lrm[o])
  BY <1>3
<1>4. PutUpTo(m, n) /\ Upward(lrm[i], n) /\ Upward(lrm[o], n + p) /\ n + p + q = event
  BY <1>2 DEF FlowOf
<1> PICK h \in Lrm : h = Head(todo)
  BY ReadLogs
<1> DEFINE b == Block("data", lrm[h], h)
<1>5. /\ BankOf(h) = a /\ b \in Blk /\ b.id = "data" /\ b.what = lrm[h] /\ b.from = h
      /\ (lrm[h] = << >> /\ log' = log) \/ (lrm[h] # << >> /\ Appended(b))
  BY ReadLogs
<1> HIDE DEF b
<1>6. lrm \in [Lrm -> Seq(Nat)] /\ lrm' = [lrm EXCEPT ![h] = << >>] /\ event' = event
  BY DEF ReadMemory, Types, HwTypes
<1>7. lrm'[o] = lrm[o]
  BY <1>3, <1>5, <1>6
<1>8. CASE h = i
  <2>1. lrm'[i] = << >>
    BY <1>6, <1>8
  <2> PICK x \in Nat : x = n + p
    BY <1>3
  <2>2. PutUpTo(m, x)'
    <3>1. CASE lrm[h] = << >> /\ log' = log
      <4>1. p = 0
        BY <1>8, <3>1
      <4>2. x = n
        BY <1>3, <4>1
      <4> QED BY <1>3, <1>4, <3>1, <4>2, PutSame
    <3>2. CASE lrm[h] # << >> /\ Appended(b)
      <4>1. lrm[i][Len(lrm[i])] = n + Len(lrm[i])
        <5>1. lrm[i] # << >> /\ lrm[i] \in Seq(Nat) /\ n \in Nat /\ Upward(lrm[i], n)
          BY <1>3, <1>4, <1>8, <3>2
        <5> QED BY <5>1, UpwardLast
      <4>2. x = b.what[Len(b.what)]
        BY <1>5, <1>8, <4>1
      <4>3. b.from \div 2 = m
        BY <1>3, <1>5, <1>8
      <4> QED BY <1>3, <1>5, <3>2, <4>2, <4>3, PutThis
    <3> QED BY <1>5, <3>1, <3>2
  <2>3. x + q = event
    BY <1>4
  <2>4. x \in 0 .. event
    <3>1. x + q = event
      BY <2>3
    <3> QED BY ONLY <3>1, x \in Nat, q \in Nat
  <2>5. Upward(lrm'[i], x) /\ Upward(lrm'[o], x + Len(lrm'[i])) /\ x + Len(lrm'[i]) + Len(lrm'[o]) = event'
    <3>1. Len(lrm'[i]) = 0 /\ x + 0 = x /\ Len(lrm'[o]) = q
      BY <1>7, <2>1
    <3>2. Upward(lrm'[i], x)
      BY <2>1 DEF Upward
    <3> QED BY <1>4, <1>6, <1>7, <2>3, <3>1, <3>2
  <2>6. FlowOf(m, a, x)'
    BY <2>2, <2>5 DEF FlowOf, Upward
  <2> QED BY <2>4, <2>6
<1>9. CASE h # i
  <2>1. lrm'[i] = lrm[i]
    BY <1>6, <1>9
  <2>2. h \div 2 # m
    BY <1>5, <1>9, MemoryFacts DEF Types
  <2>3. PutUpTo(m, n)'
    BY <1>3, <1>4, <1>5, <2>2, PutSame, PutOther
  <2>4. Upward(lrm'[i], n) /\ Upward(lrm'[o], n + Len(lrm'[i])) /\ n + Len(lrm'[i]) + Len(lrm'[o]) = event'
    BY <1>4, <1>6, <1>7, <2>1
  <2>5. FlowOf(m, a, n)'
    BY <2>3, <2>4 DEF FlowOf, Upward
  <2> QED BY <2>5
<1> QED BY <1>8, <1>9

\* When the older bank is empty the other one takes its place.
LEMMA FlowSwitch ==
    ASSUME Types', Fixed, NEW a \in {1, 2}, Flow(a)', Drained(a)'
    PROVE  Flow(3 - a)'
<1>1. SUFFICES ASSUME NEW m \in Pairs PROVE \E n \in 0 .. event' : FlowOf(m, 3 - a, n)'
  BY DEF Flow, Fixed
<1>2. PICK n \in 0 .. event' : FlowOf(m, a, n)'
  BY DEF Flow, Fixed
<1>3. setup \in Setups /\ lrm' \in [Lrm -> Seq(Nat)] /\ event' \in Nat
  <2>1. setup \in Setups /\ setup.MaxEvents \in Nat
    BY SetupFacts DEF Types, Fixed
  <2> QED BY <2>1 DEF Types, HwTypes, Fixed
<1>4. 3 - a \in {1, 2} /\ 3 - (3 - a) = a
  OBVIOUS
<1> PICK i \in Lrm, o \in Lrm : i = Mem(a, m) /\ o = Mem(3 - a, m)
  BY <1>3, <1>4, PairFacts
<1>5. BankOf(i) = a
  BY <1>3, PairFacts
<1>6. lrm'[i] = << >>
  BY <1>5 DEF Drained, Fixed, BankOf
<1>7. PutUpTo(m, n)' /\ Upward(lrm'[o], n + Len(lrm'[i])) /\ n + Len(lrm'[i]) + Len(lrm'[o]) = event'
  BY <1>2 DEF FlowOf, Upward
<1> PICK q \in Nat : q = Len(lrm'[o])
  BY <1>3
<1>8. n \in Nat /\ Len(lrm'[i]) = 0
  BY <1>3, <1>6
<1>9. n + 0 = n /\ n + q + 0 = n + q
  BY ONLY <1>8, q \in Nat
<1>10. Upward(lrm'[o], n) /\ n + Len(lrm'[o]) + Len(lrm'[i]) = event'
  BY <1>7, <1>8, <1>9
<1>11. Upward(lrm'[i], n + Len(lrm'[o]))
  BY <1>6 DEF Upward
<1>12. FlowOf(m, 3 - a, n)'
  BY <1>4, <1>7, <1>10, <1>11 DEF FlowOf, Upward
<1> QED BY <1>12

\* While a bank is read: the single bank, the first of two, the second of two.
OneBank(a, t) == i_buf = a /\ a = 2 - p_buf /\ t = {a}
FirstBank(a, t) == i_buf = 3 /\ a = 2 - p_buf /\ t = {1, 2} /\ Unread(1) /\ Unread(2)
SecondBank(a, t) == i_buf = 3 /\ a = p_buf + 1 /\ t = {a} /\ ~ Unread(3 - a)

\* The memory read is one of the older bank.
LEMMA ReadPlace ==
    ASSUME Types, TodoShape, NEW a \in {1, 2}, NEW t \in SUBSET {1, 2}, Place(a, t),
           dpc = "read", todo # << >>
    PROVE  BankOf(todo[1]) = a /\ (OneBank(a, t) \/ FirstBank(a, t) \/ SecondBank(a, t))
<1>1. p_buf \in 0 .. 1 /\ i_buf \in 1 .. 3 /\ 1 \in DOMAIN todo
  BY TodoFacts DEF Types, ReadTypes
<1>2. p_buf + 1 \in {1, 2} /\ 2 - p_buf \in {1, 2} /\ 3 - (p_buf + 1) = 2 - p_buf /\ 2 - p_buf # p_buf + 1
  BY <1>1
<1>3. Len(todo) \in Nat /\ DOMAIN todo = 1 .. Len(todo)
  BY TodoFacts
<1>4. \A j \in DOMAIN todo : BankOf(todo[j]) \in {1, 2} /\ (j = 1 \/ 1 < j)
  BY <1>3, TodoFacts, MemoryFacts DEF Types
<1>5. Loaded
  BY DEF Loaded
<1>6. CASE i_buf = 2 - p_buf
  <2>1. i_buf # 3
    BY <1>2, <1>6
  <2>2. a = i_buf /\ t = {a}
    BY <1>6, <2>1 DEF Place
  <2>3. BankOf(todo[1]) = i_buf
    BY <1>1, <2>1 DEF TodoShape
  <2> QED BY <1>6, <2>2, <2>3 DEF OneBank
<1>7. CASE i_buf = 3 /\ Unread(1) /\ Unread(2)
  <2>1. a = 2 - p_buf /\ t = {1, 2}
    <3>1. Unread(2 - p_buf) /\ i_buf # 2 - p_buf
      BY <1>2, <1>7
    <3> QED BY <1>7, <3>1 DEF Place
  <2>2. PICK j \in DOMAIN todo : BankOf(todo[j]) = 2 - p_buf
    BY <1>2, <1>5, <1>7 DEF Unread
  <2>3. ~ Others(j)
    BY <1>2, <2>2 DEF Others
  <2>4. ~ Others(1)
    BY <1>1, <1>4, <1>7, <2>3 DEF TodoShape
  <2>5. BankOf(todo[1]) = 2 - p_buf
    BY <1>1, <1>2, <1>4, <2>4 DEF Others
  <2> QED BY <1>7, <2>1, <2>5 DEF FirstBank
<1>8. CASE i_buf = 3 /\ ~ (Unread(1) /\ Unread(2))
  <2>1. ~ Unread(2 - p_buf) /\ a = p_buf + 1 /\ t = {a}
    <3>1. i_buf # 2 - p_buf
      BY <1>2, <1>8
    <3> QED BY <1>8, <3>1 DEF Place
  <2>2. BankOf(todo[1]) # 2 - p_buf
    BY <1>1, <2>1 DEF Unread
  <2>3. BankOf(todo[1]) = p_buf + 1
    BY <1>1, <1>2, <1>4, <2>2
  <2> QED BY <1>2, <1>8, <2>1, <2>3 DEF SecondBank
<1>9. i_buf = 2 - p_buf \/ i_buf = 3
  BY DEF Place
<1> QED BY <1>6, <1>7, <1>8, <1>9

\* What is put next goes on where the last data of the pair ended.
LEMMA ReadOldest ==
    ASSUME Types, Stages, TodoShape, AtStart, Running, Stopping, Announced, ReadMemory
    PROVE  \E a \in {1, 2} : BankOf(todo[1]) = a /\ Flow(a)
<1>1. dpc \in {"read", "last"} /\ todo # << >> /\ 1 \in DOMAIN todo
  BY TodoFacts DEF ReadMemory, Reading
<1>2. CASE dpc = "read"
  <2>1. Taking
    BY <1>2 DEF Taking, Serving
  <2>2. PICK a \in {1, 2}, t \in SUBSET {1, 2} : Standing(a, t)
    BY <2>1 DEF Running
  <2>3. BankOf(todo[1]) = a
    BY <1>1, <1>2, <2>2, ReadPlace DEF Standing
  <2> QED BY <2>2, <2>3 DEF Standing
<1>3. CASE dpc = "last"
  <2>1. Collect.last
    BY <1>1, <1>3 DEF AtStart
  <2> PICK a \in {1, 2} : a = p_buf + 1
    BY DEF Types, ReadTypes
  <2>2. Flow(a)
    BY <1>3, <2>1 DEF Stopping, Ending, Leaving
  <2>3. BankOf(todo[1]) = a
    BY <1>1, <1>3 DEF TodoShape, Others
  <2> QED BY <2>2, <2>3
<1> QED BY <1>1, <1>2, <1>3

\* A run begins without data.
LEMMA StartLogs ==
    ASSUME Types, Stages, PutStart
    PROVE  Going' /\ \A m \in Nat : DataOf(m)' = {}
<1>1. dpc = "putstart" /\ log' = IF Over THEN <<buf>> ELSE Append(log, buf)
  BY DEF PutStart
<1>2. buf \in Blk /\ buf.id = "start"
  BY <1>1, BlockFacts
<1>3. log' = <<buf>>
  <2>1. CASE Over
    BY <1>1, <2>1
  <2>2. CASE ~ Over
    <3>1. log = << >>
      BY <1>1, <2>2 DEF Stages, Resting
    <3> QED BY <1>1, <2>2, <3>1
  <2> QED BY <2>1, <2>2
<1>4. DOMAIN log' = {1} /\ log'[1] = buf /\ Announced' /\ ~ Over'
  BY <1>2, <1>3, LogOne
<1> QED BY <1>2, <1>4 DEF DataOf, Going

\* Every event once and in order: every step.
LEMMA InOrderStep ==
    ASSUME Types, Stages, TodoShape, AtStart, InOrder, Running, Stopping, [GrNext]_grVars
    PROVE  InOrder'
<1>1. Fixed /\ (Quiet \/ Leave \/ Trigger \/ Readout)
  BY Steps
<1>2. SUFFICES ASSUME Announced', NEW m \in Pairs PROVE Continues(m)'
  BY <1>1 DEF InOrder, Fixed
<1>3. m \in Nat
  BY PairFacts DEF Types
<1>4. CASE log' = log
  <2>1. Announced
    BY <1>2, <1>4, LogSame
  <2>2. Continues(m)
    BY <2>1 DEF InOrder
  <2> QED BY <1>4, <2>2 DEF Continues, DataOf
<1>5. ASSUME NEW b \in Blk, Appended(b), b.id \in {"scaler", "end"} PROVE Continues(m)'
  <2>1. Announced
    BY <1>2, <1>5, AppendedRun DEF Announced
  <2>2. Continues(m)
    BY <2>1 DEF InOrder
  <2> QED BY <1>3, <1>5, <2>2, ContinuesAppend
<1>6. CASE Quiet \/ Leave \/ Trigger \/ LookStart \/ EncodeStart \/ ReadFF \/ Clear \/ EndRead
  BY <1>4, <1>6 DEF Quiet, Leave, Trigger, LookStart, EncodeStart, ReadFF, Clear, EndRead, histVars
<1>7. CASE PutStart
  <2>1. DataOf(m)' = {}
    BY <1>3, <1>7, StartLogs
  <2> QED BY <2>1 DEF Continues
<1>8. CASE PutScaler \/ StopScaler
  <2>1. log' = Append(log, Scaler)
    BY <1>8 DEF PutScaler, StopScaler
  <2> QED BY <1>5, <2>1, BlockFacts, LogAppend
<1>9. CASE ReadMemory
  <2> PICK h \in Lrm : h = Head(todo)
    BY <1>9, ReadLogs
  <2> DEFINE b == Block("data", lrm[h], h)
  <2>1. /\ b \in Blk /\ b.id = "data" /\ b.what = lrm[h] /\ b.from = h /\ h = todo[1]
        /\ (lrm[h] = << >> /\ log' = log) \/ (lrm[h] # << >> /\ Appended(b))
    BY <1>9, ReadLogs
  <2> HIDE DEF b
  <2>2. CASE Appended(b) /\ lrm[h] # << >>
    <3>1. Announced
      BY <1>2, <2>1, <2>2, AppendedRun DEF Announced
    <3>2. Continues(m)
      BY <3>1 DEF InOrder
    <3>3. ASSUME h \div 2 = m PROVE \E x \in Nat : PutUpTo(m, x) /\ Upward(b.what, x)
      <4>1. PICK a \in {1, 2} : BankOf(todo[1]) = a /\ Flow(a)
        BY <1>9, <3>1, ReadOldest
      <4>2. PICK n \in 0 .. event : FlowOf(m, a, n)
        BY <4>1 DEF Flow
      <4>3. Mem(a, m) = h
        BY <2>1, <3>3, <4>1, MemoryFacts DEF Types
      <4>4. event \in Nat
        BY Pair, <4>1
      <4>5. n \in Nat
        BY <4>4
      <4>6. PutUpTo(m, n) /\ Upward(b.what, n)
        BY <2>1, <4>2, <4>3 DEF FlowOf
      <4> QED BY <4>5, <4>6
    <3> QED BY <1>3, <2>1, <2>2, <3>2, <3>3, ContinuesAppend
  <2> QED BY <1>4, <2>1, <2>2
<1>10. CASE LookStop
  <2>1. log' = IF Over THEN << >> ELSE log
    BY <1>10 DEF LookStop
  <2>2. log' # << >>
    BY <1>2 DEF Announced
  <2> QED BY <1>4, <2>1, <2>2
<1>11. CASE PutEnd
  <2> DEFINE b == Block("end", <<cmb.run>>, 0)
  <2>1. log' = Append(log, b)
    BY <1>11 DEF PutEnd
  <2>2. b \in Blk /\ b.id = "end"
    BY BlockFacts DEF Block
  <2> HIDE DEF b
  <2> QED BY <1>5, <2>1, <2>2, LogAppend
<1> QED BY <1>1, <1>6, <1>7, <1>8, <1>9, <1>10, <1>11 DEF Readout

-----------------------------------------------------------------------------
(* The two banks, step by step *)

\* The banks keep their state when the electronics and the memories do, ...
LEMMA BankedSame ==
    ASSUME Fixed, NEW a \in {1, 2}, NEW t \in SUBSET {1, 2}, Banked(a, t), UNCHANGED <<avail, ff, bank, lrm>>
    PROVE  Banked(a, t)'
<1>1. \A b : (BankFull(b)' <=> BankFull(b)) /\ (Drained(b)' <=> Drained(b))
  BY DEF BankFull, Drained, Fixed, BankOf
<1> QED BY <1>1 DEF Banked

\* ... the readout its place when it does nothing, ...
LEMMA PlaceSame ==
    ASSUME NEW a \in {1, 2}, NEW t \in SUBSET {1, 2}, Place(a, t), UNCHANGED <<dpc, i_buf, p_buf, todo>>,
           dpc = "clear" => ff' = ff
    PROVE  Place(a, t)'
<1>1. \A b : Unread(b)' <=> Unread(b)
  BY DEF Unread, Loaded, BankOf
<1>2. Loaded' <=> Loaded
  BY DEF Loaded
<1> QED BY <1>1, <1>2 DEF Place, BanksOf

\* ... and what has been read stays empty.
LEMMA EmptiedSame ==
    ASSUME Fixed, NEW t \in SUBSET {1, 2}, Emptied(t), todo' = todo, Loaded' => Loaded,
           \A i \in Lrm : BankOf(i) \in t => lrm'[i] = lrm[i]
    PROVE  Emptied(t)'
  BY DEF Emptied, Fixed, BankOf, Range

\* Nothing taken up, nothing emptied.
LEMMA EmptiedNone ==
    Emptied({})'
  BY DEF Emptied

\* A quiet step.
LEMMA StandingQuiet ==
    ASSUME Types, Fixed, Quiet, NEW a \in {1, 2}, NEW t \in SUBSET {1, 2}, Standing(a, t)
    PROVE  Standing(a, t)'
<1>1. UNCHANGED <<dpc, i_buf, p_buf, todo, ff, avail, bank, lrm, event, log>>
  BY DEF Quiet
<1>2. Place(a, t)'
  BY <1>1, PlaceSame DEF Standing
<1>3. Banked(a, t)'
  BY <1>1, BankedSame DEF Standing
<1>4. Emptied(t)'
  <2>1. Loaded' => Loaded
    BY <1>1 DEF Loaded
  <2> QED BY <1>1, <2>1, EmptiedSame DEF Standing
<1>5. Flow(a)'
  BY <1>1, FlowSame DEF Standing
<1> QED BY <1>2, <1>3, <1>4, <1>5 DEF Standing

\* What an event does to the two banks.
LEMMA TriggerBanks ==
    ASSUME Types, Fixed, Trigger
    PROVE  /\ \A i \in Lrm : BankOf(i) # bank => lrm'[i] = lrm[i]
           /\ \A b \in {1, 2} : b # bank => (BankFull(b)' <=> BankFull(b)) /\ (Drained(b)' <=> Drained(b))
           /\ \/ ff' = ff \cup {bank} /\ bank' = 3 - bank /\ \A b \in {1, 2} : b = bank => BankFull(b)'
              \/ ff' = ff /\ bank' = bank /\ \A b \in {1, 2} : b = bank => ~ BankFull(b)'
<1>1. lrm' = [i \in Lrm |-> IF BankOf(i) = bank THEN Append(lrm[i], event + 1) ELSE lrm[i]]
  BY DEF Trigger
<1>2. lrm \in [Lrm -> Seq(Nat)] /\ event \in Nat /\ Full \in Nat
  BY SetupFacts DEF Types, HwTypes
<1>3. \A i \in Lrm : BankOf(i) # bank => lrm'[i] = lrm[i]
  BY <1>1
<1>4. ASSUME NEW i \in Lrm, BankOf(i) = bank PROVE Len(lrm'[i]) = Len(lrm[i]) + 1
  <2>1. lrm'[i] = Append(lrm[i], event + 1)
    BY <1>1, <1>4
  <2>2. lrm[i] \in Seq(Nat)
    BY <1>2
  <2> QED BY <2>1, <2>2
<1>5. \A b \in {1, 2} : BankFull(b)' <=> \E i \in Lrm : BankOf(i) = b /\ Len(lrm'[i]) >= Full
  BY DEF BankFull, Fixed, BankOf
<1>6. ASSUME NEW b \in {1, 2}, b # bank PROVE (BankFull(b)' <=> BankFull(b)) /\ (Drained(b)' <=> Drained(b))
  <2>1. BankFull(b)' <=> BankFull(b)
    BY <1>3, <1>5, <1>6 DEF BankFull
  <2>2. Drained(b)' <=> \A i \in Lrm : BankOf(i) = b => lrm'[i] = << >>
    BY DEF Drained, Fixed, BankOf
  <2>3. Drained(b)' <=> Drained(b)
    BY <1>3, <1>6, <2>2 DEF Drained
  <2> QED BY <2>1, <2>3
<1>7. CASE \E i \in Lrm : BankOf(i) = bank /\ Len(lrm[i]) + 1 >= Full
  <2>1. ff' = ff \cup {bank} /\ bank' = 3 - bank
    BY <1>7 DEF Trigger
  <2>2. \A b \in {1, 2} : b = bank => BankFull(b)'
    BY <1>4, <1>5, <1>7
  <2> QED BY <1>3, <1>6, <2>1, <2>2
<1>8. CASE ~ \E i \in Lrm : BankOf(i) = bank /\ Len(lrm[i]) + 1 >= Full
  <2>1. ff' = ff /\ bank' = bank
    BY <1>8 DEF Trigger
  <2>2. \A b \in {1, 2} : b = bank => ~ BankFull(b)'
    BY <1>4, <1>5, <1>8
  <2> QED BY <1>3, <1>6, <2>1, <2>2
<1> QED BY <1>7, <1>8

\* An empty bank is not full.
LEMMA DrainedNotFull ==
    ASSUME setup \in Setups, Fixed, NEW b \in {1, 2}
    PROVE  (Drained(b) => ~ BankFull(b)) /\ (Drained(b)' => ~ BankFull(b)')
<1>1. Full \in Nat /\ Full # 0
  BY SetupFacts
<1>2. ~ (Len(<< >>) >= Full)
  BY <1>1
<1>3. Drained(b) => ~ BankFull(b)
  BY <1>2 DEF Drained, BankFull
<1>4. Drained(b)' => ~ BankFull(b)'
  BY <1>2 DEF Drained, BankFull, Fixed, BankOf
<1> QED BY <1>3, <1>4

\* An event: the banks and the place of the readout.
LEMMA BankedTrigger ==
    ASSUME Types, Fixed, Trigger, NEW a \in {1, 2}, NEW t \in SUBSET {1, 2}, Banked(a, t)
    PROVE  Banked(a, t)' /\ bank \notin t /\ (bank = 3 - a \/ (bank = a /\ Drained(3 - a)))
<1>1. bank \in {1, 2} /\ 3 - a \in {1, 2} /\ a # 3 - a /\ 3 - (3 - a) = a
  BY DEF Types, HwTypes
<1>2. avail = {1, 2} \ t /\ avail' = avail /\ bank \in avail /\ ~ BankFull(bank)
  BY DEF Banked, Trigger
<1>3. bank \notin t
  BY <1>2
<1>4. \A x \in ff : BankFull(x)
  BY DEF Banked
<1>5. /\ \A b \in {1, 2} : b # bank => (BankFull(b)' <=> BankFull(b)) /\ (Drained(b)' <=> Drained(b))
      /\ \/ ff' = ff \cup {bank} /\ bank' = 3 - bank /\ \A b \in {1, 2} : b = bank => BankFull(b)'
         \/ ff' = ff /\ bank' = bank /\ \A b \in {1, 2} : b = bank => ~ BankFull(b)'
  BY TriggerBanks
<1>6. ff \subseteq {1, 2}
  BY DEF Types, HwTypes
<1>7. \A x \in ff' : BankFull(x)'
  <2>1. ASSUME NEW x \in ff' PROVE BankFull(x)'
    <3>1. CASE x \in ff
      <4>1. x # bank /\ x \in {1, 2}
        BY <1>2, <1>4, <1>6, <3>1
      <4> QED BY <1>4, <1>5, <3>1, <4>1
    <3>2. CASE x \notin ff
      <4>1. x = bank /\ BankFull(x)'
        BY <1>1, <1>5, <2>1, <3>2
      <4> QED BY <4>1
    <3> QED BY <3>1, <3>2
  <2> QED BY <2>1
<1>8. CASE t = {} /\ ff = {} /\ bank = a /\ ~ BankFull(a) /\ Drained(3 - a)
  <2>1. Drained(3 - a)' /\ ~ BankFull(3 - a)'
    <3>1. Drained(3 - a)'
      BY <1>1, <1>5, <1>8
    <3> QED BY <1>1, <3>1, DrainedNotFull DEF Types
  <2>2. CASE ff' = ff \cup {bank} /\ bank' = 3 - bank
    <3>1. ff' = {a} /\ bank' = 3 - a
      BY <1>8, <2>2
    <3> QED BY <1>2, <1>3, <1>7, <1>8, <2>1, <3>1 DEF Banked
  <2>3. CASE ff' = ff /\ bank' = bank /\ ~ BankFull(a)'
    BY <1>2, <1>3, <1>7, <1>8, <2>1, <2>3 DEF Banked
  <2> QED BY <1>3, <1>5, <1>8, <2>2, <2>3
<1>9. CASE t = {} /\ ff = {a} /\ bank = 3 - a /\ ~ BankFull(3 - a)
  <2>1. CASE ff' = ff \cup {bank} /\ bank' = 3 - bank
    <3>1. ff' = {1, 2} /\ bank' = a
      BY <1>1, <1>9, <2>1
    <3> QED BY <1>2, <1>3, <1>7, <1>9, <3>1 DEF Banked
  <2>2. CASE ff' = ff /\ bank' = bank /\ \A b \in {1, 2} : b = bank => ~ BankFull(b)'
    <3>1. ~ BankFull(3 - a)'
      BY <1>1, <1>9, <2>2
    <3> QED BY <1>2, <1>3, <1>7, <1>9, <2>2, <3>1 DEF Banked
  <2> QED BY <1>5, <2>1, <2>2
<1>10. CASE t = {a} /\ ff = {} /\ bank = 3 - a /\ ~ BankFull(3 - a)
  <2>1. CASE ff' = ff \cup {bank} /\ bank' = 3 - bank
    <3>1. ff' = {3 - a} /\ bank' = a
      BY <1>1, <1>10, <2>1
    <3> QED BY <1>2, <1>3, <1>7, <1>10, <3>1 DEF Banked
  <2>2. CASE ff' = ff /\ bank' = bank /\ \A b \in {1, 2} : b = bank => ~ BankFull(b)'
    <3>1. ~ BankFull(3 - a)'
      BY <1>1, <1>10, <2>2
    <3> QED BY <1>2, <1>3, <1>7, <1>10, <2>2, <3>1 DEF Banked
  <2> QED BY <1>5, <2>1, <2>2
<1>11. CASE t = {} /\ ff = {1, 2} /\ bank = a
  BY <1>2, <1>4, <1>11
<1>12. CASE bank = a /\ a \in t
  BY <1>3, <1>12
<1> QED BY <1>1, <1>8, <1>9, <1>10, <1>11, <1>12 DEF Banked

LEMMA StandingTrigger ==
    ASSUME Types, Fixed, Trigger, ~ setup.FastBanks, NEW a \in {1, 2}, NEW t \in SUBSET {1, 2}, Standing(a, t)
    PROVE  Standing(a, t)'
<1>1. dpc # "clear" /\ UNCHANGED <<dpc, i_buf, p_buf, todo>>
  BY DEF Trigger, readVars
<1>2. Banked(a, t)' /\ bank \notin t /\ (bank = 3 - a \/ (bank = a /\ Drained(3 - a)))
  BY BankedTrigger DEF Standing
<1>3. Place(a, t)'
  BY <1>1, PlaceSame DEF Standing
<1>4. Emptied(t)'
  <2>1. \A i \in Lrm : BankOf(i) \in t => lrm'[i] = lrm[i]
    BY <1>2, TriggerBanks
  <2>2. Loaded' => Loaded
    BY <1>1 DEF Loaded
  <2> QED BY <1>1, <2>1, <2>2, EmptiedSame DEF Standing
<1>5. Flow(a)'
  BY <1>2, FlowTrigger DEF Standing
<1> QED BY <1>2, <1>3, <1>4, <1>5 DEF Standing

\* A run begins: bank 1 is the older one, with nothing in it.
LEMMA StandingStart ==
    ASSUME Types, Types', Stages, AtStart, Fixed, PutStart
    PROVE  Standing(1, {})'
<1>1. dpc = "putstart" /\ dpc' = "loop" /\ p_buf' = p_buf
  BY DEF PutStart
<1>2. p_buf' = 1
  BY <1>1 DEF Stages, AtStart
<1>3. lrm' = [i \in Lrm |-> << >>] /\ avail' = {1, 2} /\ ff' = {} /\ bank' = 1 /\ event' = 0
  BY DEF PutStart, Begin
<1>4. Drained(1)' /\ Drained(2)'
  BY <1>3 DEF Drained, Fixed
<1>5. ~ BankFull(1)'
  BY <1>4, DrainedNotFull DEF Types
<1>6. Place(1, {})'
  BY <1>1, <1>2 DEF Place
<1>7. Banked(1, {})'
  <2>1. 3 - 1 = 2 /\ {1, 2} \ {} = {1, 2}
    OBVIOUS
  <2> QED BY <1>3, <1>4, <1>5, <2>1 DEF Banked
<1>8. ASSUME NEW m \in Pairs PROVE FlowOf(m, 1, 0)'
  <2>1. m \in Nat /\ 3 - 1 = 2
    <3>1. 1 \in {1, 2} /\ 3 - 1 = 2 /\ setup \in Setups
      BY DEF Types
    <3>2. m \in Nat
      BY <3>1, PairFacts
    <3> QED BY <3>1, <3>2
  <2>2. PutUpTo(m, 0)'
    BY <2>1, StartLogs DEF PutUpTo
  <2>3. Mem(1, m) \in Lrm /\ Mem(2, m) \in Lrm
    BY PairFacts DEF Types
  <2>4. lrm'[Mem(1, m)] = << >> /\ lrm'[Mem(2, m)] = << >>
    BY <1>3, <2>3
  <2>5. FlowOf(m, 1, 0)' <=> /\ PutUpTo(m, 0)' /\ Upward(lrm'[Mem(1, m)], 0)
                             /\ Upward(lrm'[Mem(2, m)], 0 + Len(lrm'[Mem(1, m)]))
                             /\ 0 + Len(lrm'[Mem(1, m)]) + Len(lrm'[Mem(2, m)]) = event'
    BY <2>1 DEF FlowOf, Upward
  <2>6. Len(<< >>) = 0 /\ 0 + 0 = 0
    OBVIOUS
  <2>7. Upward(<< >>, 0)
    BY DEF Upward
  <2> QED BY <1>3, <2>2, <2>4, <2>5, <2>6, <2>7
<1>9. Flow(1)'
  <2>1. 0 \in 0 .. event'
    BY <1>3
  <2> QED BY <1>8, <2>1 DEF Flow, Fixed
<1> QED BY <1>6, <1>7, <1>9, EmptiedNone DEF Standing

\* The flip-flops are read: the bank or the banks that are full.
LEMMA StandingFF ==
    ASSUME Types, Fixed, ReadFF, NEW a \in {1, 2}, NEW t \in SUBSET {1, 2}, Standing(a, t)
    PROVE  Standing(a, t)'
<1>1. /\ dpc = "loop" /\ dpc' = "clear" /\ p_buf' = p_buf /\ ff # {}
      /\ i_buf' = CASE ff = {1} -> 1 [] ff = {2} -> 2 [] OTHER -> 3
      /\ UNCHANGED <<todo, lrm, ff, avail, bank, event, log>>
  BY DEF ReadFF, hwVars, histVars
<1>2. a = 2 - p_buf /\ t = {}
  BY <1>1 DEF Standing, Place
<1>3. ff = BanksOf(i_buf')
  <2>1. ff \subseteq {1, 2}
    BY DEF Types, HwTypes
  <2>2. ff = {1} \/ ff = {2} \/ ff = {1, 2}
    BY <1>1, <2>1
  <2>3. ff = {1} => i_buf' = 1
    BY <1>1
  <2>4. ff = {2} => i_buf' = 2
    BY <1>1
  <2>5. ff = {1, 2} => i_buf' = 3
    BY <1>1
  <2> QED BY <2>2, <2>3, <2>4, <2>5 DEF BanksOf
<1>4. Place(a, t)'
  BY <1>1, <1>2, <1>3 DEF Place, BanksOf
<1>5. Banked(a, t)'
  BY <1>1, BankedSame DEF Standing
<1>6. Flow(a)'
  BY <1>1, FlowSame DEF Standing
<1> QED BY <1>2, <1>4, <1>5, <1>6, EmptiedNone DEF Standing

\* The flip-flops are cleared and their banks taken up.
LEMMA StandingClear ==
    ASSUME Types, Fixed, TodoShape, Clear, NEW a \in {1, 2}, NEW t \in SUBSET {1, 2}, Standing(a, t)
    PROVE  Standing(a, BanksOf(i_buf))'
<1>1. /\ dpc = "clear" /\ dpc' = "scaler" /\ p_buf' = p_buf /\ i_buf' = i_buf
      /\ ff' = {} /\ avail' = avail \ BanksOf(i_buf)
      /\ UNCHANGED <<todo, lrm, bank, event, log>>
  BY DEF Clear, histVars
<1>2. a = 2 - p_buf /\ t = {} /\ ff = BanksOf(i_buf)
  BY <1>1 DEF Standing, Place
<1>3. todo' = << >>
  BY <1>1 DEF TodoShape
<1>4. ~ Loaded'
  BY <1>1, <1>3 DEF Loaded
<1>5. \A b : Unread(b)'
  BY <1>4 DEF Unread
<1>6. Flow(a)'
  BY <1>1, FlowSame DEF Standing
<1>7. \A b : BankFull(b)' <=> BankFull(b)
  BY <1>1 DEF BankFull, Fixed, BankOf
<1>8. avail = {1, 2} /\ i_buf \in 1 .. 3
  BY <1>2 DEF Standing, Banked, Types, ReadTypes
<1>9. CASE i_buf = 3
  <2>1. ff = {1, 2} /\ bank = a
    <3>1. ff = {1, 2}
      BY <1>2, <1>9 DEF BanksOf
    <3>2. ff # {} /\ ff # {a}
      BY <3>1
    <3> QED BY <1>2, <3>1, <3>2 DEF Standing, Banked
  <2>2. avail' = {1, 2} \ {1, 2}
    BY <1>1, <1>2, <1>8, <2>1
  <2>3. Banked(a, {1, 2})'
    BY <1>1, <2>1, <2>2 DEF Banked
  <2>4. Place(a, {1, 2})'
    BY <1>1, <1>2, <1>5, <1>9 DEF Place
  <2>5. Emptied({1, 2})'
    BY <1>4 DEF Emptied
  <2>6. BanksOf(i_buf)' = {1, 2}
    BY <1>1, <1>9 DEF BanksOf
  <2> QED BY <1>6, <2>3, <2>4, <2>5, <2>6 DEF Standing
<1>10. CASE i_buf # 3
  <2>1. ff = {i_buf} /\ i_buf \in {1, 2}
    BY <1>2, <1>8, <1>10 DEF BanksOf
  <2>2. i_buf = a /\ bank = 3 - a /\ ~ BankFull(3 - a)
    <3>1. ff # {} /\ ff # {1, 2}
      BY <2>1
    <3>2. ff = {a} /\ bank = 3 - a /\ ~ BankFull(3 - a)
      BY <1>2, <3>1 DEF Standing, Banked
    <3> QED BY <2>1, <3>2
  <2>3. avail' = {1, 2} \ {a}
    BY <1>1, <1>2, <1>8, <2>1, <2>2
  <2>4. Banked(a, {a})'
    BY <1>1, <1>7, <2>2, <2>3 DEF Banked
  <2>5. Place(a, {a})'
    <3>1. i_buf' = 2 - p_buf' /\ Unread(i_buf)' /\ a = i_buf' /\ dpc' \in {"scaler", "read"}
      BY <1>1, <1>2, <1>5, <2>2
    <3> QED BY <3>1 DEF Place
  <2>6. Emptied({a})'
    BY <1>4 DEF Emptied
  <2>7. BanksOf(i_buf)' = {a}
    BY <1>1, <1>10, <2>2 DEF BanksOf
  <2> QED BY <1>6, <2>4, <2>5, <2>6, <2>7 DEF Standing
<1> QED BY <1>9, <1>10

\* Every bank has a memory.
LEMMA SomeMemory ==
    ASSUME setup \in Setups, NEW b \in {1, 2}
    PROVE  \E i \in Lrm : BankOf(i) = b
<1>1. 0 \in Pairs
  <2> PICK h \in Nat : MAX_LRM_NUM = 2 * h /\ h # 0 /\ Pairs = 0 .. h - 1 /\ Lrm = 0 .. 2 * h - 1
    BY Even
  <2> QED OBVIOUS
<1>2. Mem(b, 0) \in Lrm /\ BankOf(Mem(b, 0)) = b
  BY <1>1, PairFacts
<1> QED BY <1>2

\* A scaler block, and the memories of the banks taken up are listed.
LEMMA StandingScaler ==
    ASSUME Types, Fixed, PutScaler, NEW a \in {1, 2}, NEW t \in SUBSET {1, 2}, Standing(a, t)
    PROVE  Standing(a, t)'
<1>1. /\ dpc = "scaler" /\ dpc' = "read" /\ UNCHANGED <<p_buf, i_buf, ff, avail, bank, lrm, event>>
      /\ log' = Append(log, Scaler) /\ todo' = IF todo = << >> THEN Banks ELSE todo
  BY DEF PutScaler, hwVars
<1>2. Flow(a)'
  <2>1. Scaler \in Blk /\ Scaler.id = "scaler" /\ Appended(Scaler)
    BY <1>1, BlockFacts, LogAppend
  <2> QED BY <1>1, <2>1, FlowSame DEF Standing
<1>3. Banked(a, t)'
  BY <1>1, BankedSame DEF Standing
<1>4. Loaded'
  BY <1>1 DEF Loaded
<1>5. i_buf \in 1 .. 3 /\ p_buf \in 0 .. 1 /\ setup \in Setups
  BY DEF Types, ReadTypes
<1>6. CASE todo # << >>
  <2>1. todo' = todo /\ Loaded
    BY <1>1, <1>6 DEF Loaded
  <2>2. \A b : Unread(b)' <=> Unread(b)
    BY <1>4, <2>1 DEF Unread, BankOf
  <2>3. Place(a, t)'
    BY <1>1, <1>4, <1>6, <2>1, <2>2 DEF Standing, Place
  <2>4. Emptied(t)'
    BY <1>1, <2>1, EmptiedSame DEF Standing
  <2> QED BY <1>2, <1>3, <2>3, <2>4 DEF Standing
<1>7. CASE todo = << >>
  <2>1. ToRead(todo')
    BY <1>1, <1>5, <1>7, BanksListed
  <2>2. \A i \in Lrm : BankOf(i) \in BanksOf(i_buf) => \E j \in DOMAIN todo' : todo'[j] = i
    BY <2>1 DEF ToRead
  <2>3. ASSUME NEW b \in {1, 2}, b \in BanksOf(i_buf) PROVE Unread(b)'
    <3>1. PICK i \in Lrm : BankOf(i) = b
      BY <1>5, SomeMemory
    <3>2. PICK j \in DOMAIN todo' : todo'[j] = i
      BY <2>2, <2>3, <3>1
    <3> QED BY <3>1, <3>2 DEF Unread, BankOf
  <2>4. ~ Loaded
    BY <1>1, <1>7 DEF Loaded
  <2>5. (i_buf = 2 - p_buf /\ a = i_buf /\ t = {a}) \/ (i_buf = 3 /\ a = 2 - p_buf /\ t = {1, 2})
    BY <1>1, <2>4 DEF Standing, Place
  <2>6. t = BanksOf(i_buf)
    <3>1. 2 - p_buf # 3
      BY <1>5
    <3> QED BY <2>5, <3>1 DEF BanksOf
  <2>7. Place(a, t)'
    <3>1. CASE i_buf = 2 - p_buf /\ a = i_buf /\ t = {a}
      <4>1. Unread(a)'
        BY <2>3, <2>6, <3>1
      <4>2. Unread(i_buf)'
        BY <1>1, <3>1, <4>1 DEF Unread
      <4> QED BY <1>1, <3>1, <4>2 DEF Place
    <3>2. CASE i_buf = 3 /\ a = 2 - p_buf /\ t = {1, 2}
      <4>1. Unread(1)' /\ Unread(2)'
        BY <2>3, <2>6, <3>2
      <4> QED BY <1>1, <3>2, <4>1 DEF Place
    <3> QED BY <2>5, <3>1, <3>2
  <2>8. Emptied(t)'
    <3>1. \A i \in Lrm : BankOf(i) \in t => i \in Range(todo')
      BY <2>2, <2>6 DEF Range
    <3> QED BY <3>1 DEF Emptied, Fixed, BankOf
  <2> QED BY <1>2, <1>3, <2>7, <2>8 DEF Standing
<1> QED BY <1>6, <1>7

\* All has been read: back to the loop.
LEMMA StandingEnd ==
    ASSUME Types, Fixed, EndRead, NEW a \in {1, 2}, NEW t \in SUBSET {1, 2}, Standing(a, t)
    PROVE  Standing(a, t)'
<1>1. /\ dpc = "read" /\ dpc' = "loop" /\ todo = << >> /\ UNCHANGED <<todo, lrm, ff, avail, bank, event, log>>
      /\ p_buf' = IF i_buf = 3 THEN p_buf ELSE i_buf - 1
  BY DEF EndRead, hwVars, histVars
<1>2. i_buf \in 1 .. 3 /\ p_buf \in 0 .. 1
  BY DEF Types, ReadTypes
<1>3. \A b : ~ Unread(b)
  BY <1>1 DEF Unread, Loaded
<1>4. t = {} /\ ((i_buf = 2 - p_buf /\ a = 3 - i_buf) \/ (i_buf = 3 /\ a = 2 - p_buf))
  BY <1>1, <1>3 DEF Standing, Place
<1>5. a = 2 - p_buf'
  BY <1>1, <1>2, <1>4
<1>6. Place(a, t)'
  BY <1>1, <1>4, <1>5 DEF Place
<1>7. Banked(a, t)'
  BY <1>1, BankedSame DEF Standing
<1>8. Flow(a)'
  BY <1>1, FlowSame DEF Standing
<1> QED BY <1>4, <1>6, <1>7, <1>8, EmptiedNone DEF Standing

\* What reading a memory does to the banks.
LEMMA ReadBanks ==
    ASSUME Types, Fixed, ReadMemory
    PROVE  /\ todo[1] \in Lrm /\ lrm'[todo[1]] = << >>
           /\ \A i \in Lrm : i # todo[1] => lrm'[i] = lrm[i]
           /\ \A b \in {1, 2} : b # BankOf(todo[1]) => (BankFull(b)' <=> BankFull(b))
<1>1. todo[1] \in Lrm /\ lrm' = [lrm EXCEPT ![todo[1]] = << >>]
  BY ReadLogs DEF ReadMemory
<1>2. lrm \in [Lrm -> Seq(Nat)]
  BY DEF Types, HwTypes
<1>3. lrm'[todo[1]] = << >> /\ \A i \in Lrm : i # todo[1] => lrm'[i] = lrm[i]
  BY <1>1, <1>2
<1>4. ASSUME NEW b \in {1, 2}, b # BankOf(todo[1]) PROVE BankFull(b)' <=> BankFull(b)
  <2>1. BankFull(b)' <=> \E i \in Lrm : BankOf(i) = b /\ Len(lrm'[i]) >= Full
    BY DEF BankFull, Fixed, BankOf
  <2>2. \A i \in Lrm : BankOf(i) = b => lrm'[i] = lrm[i]
    BY <1>3, <1>4
  <2> QED BY <2>1, <2>2 DEF BankFull
<1> QED BY <1>1, <1>3, <1>4

\* What has been read is empty, the memory just read too.
LEMMA EmptiedRead ==
    ASSUME Types, Fixed, ReadMemory, NEW t \in SUBSET {1, 2}, Emptied(t)
    PROVE  Emptied(t)' /\ \A i \in Lrm : BankOf(i) \in t /\ i \notin Range(todo') => lrm'[i] = << >>
<1>1. todo # << >> /\ todo' = Tail(todo) /\ Loaded
  BY DEF ReadMemory, Reading, Loaded
<1>2. \A j \in DOMAIN todo : j = 1 \/ (j - 1 \in DOMAIN todo' /\ todo'[j - 1] = todo[j])
  BY <1>1, TailFacts
<1>3. \A i : i \in Range(todo) => i = todo[1] \/ i \in Range(todo')
  BY <1>2 DEF Range
<1>4. \A i \in Lrm : BankOf(i) \in t /\ i \notin Range(todo) => lrm[i] = << >>
  BY <1>1 DEF Emptied
<1>5. \A i \in Lrm : BankOf(i) \in t /\ i \notin Range(todo') => lrm'[i] = << >>
  BY <1>3, <1>4, ReadBanks
<1>6. Emptied(t)'
  BY <1>5 DEF Emptied, Fixed, BankOf
<1> QED BY <1>5, <1>6

\* A memory that is not the last of its bank.
LEMMA StandingRead ==
    ASSUME Types, Fixed, TodoShape, ReadMemory, dpc = "read", ~ LastOfBank,
           NEW a \in {1, 2}, NEW t \in SUBSET {1, 2}, Standing(a, t)
    PROVE  Standing(a, t)'
<1>1. todo # << >> /\ todo' = Tail(todo) /\ UNCHANGED <<i_buf, p_buf, ff, bank, event>>
  BY DEF ReadMemory
<1>2. dpc' = "read" /\ avail' = avail
  BY DEF ReadMemory, Following
<1>3. BankOf(todo[1]) = a /\ (OneBank(a, t) \/ FirstBank(a, t) \/ SecondBank(a, t))
  BY <1>1, ReadPlace DEF Standing
<1>4. 2 \in DOMAIN todo /\ BankOf(todo[2]) = a
  BY <1>1, <1>3, LastOfBankFacts
<1>5. /\ \A j \in DOMAIN todo' : j + 1 \in DOMAIN todo /\ todo'[j] = todo[j + 1]
      /\ \A j \in DOMAIN todo : j = 1 \/ (j - 1 \in DOMAIN todo' /\ todo'[j - 1] = todo[j])
  BY <1>1, TailFacts
<1>6. 1 \in DOMAIN todo' /\ todo'[1] = todo[2]
  BY <1>4, <1>5
<1>7. Loaded /\ Loaded'
  BY <1>2 DEF Loaded
<1>8. Unread(a)'
  BY <1>4, <1>6 DEF Unread, BankOf
<1>9. 3 - a \in {1, 2} /\ a # 3 - a /\ {1, 2} = {a, 3 - a} /\ p_buf \in 0 .. 1
  BY DEF Types, ReadTypes
<1>10. Unread(3 - a)' <=> Unread(3 - a)
  <2>1. Unread(3 - a)' <=> \E j \in DOMAIN todo' : BankOf(todo'[j]) = 3 - a
    BY <1>7 DEF Unread, BankOf
  <2>2. Unread(3 - a) <=> \E j \in DOMAIN todo : BankOf(todo[j]) = 3 - a
    BY <1>7 DEF Unread
  <2>3. ASSUME NEW j \in DOMAIN todo, BankOf(todo[j]) = 3 - a PROVE \E k \in DOMAIN todo' : BankOf(todo'[k]) = 3 - a
    <3>1. j # 1
      BY <1>3, <1>9, <2>3
    <3> QED BY <1>5, <2>3, <3>1
  <2> QED BY <1>5, <2>1, <2>2, <2>3
<1>11. Place(a, t)'
  <2>1. CASE OneBank(a, t)
    <3>1. Unread(i_buf)'
      BY <1>1, <1>8, <2>1 DEF OneBank, Unread
    <3> QED BY <1>1, <1>2, <2>1, <3>1 DEF OneBank, Place
  <2>2. CASE FirstBank(a, t)
    <3>1. Unread(1)' /\ Unread(2)'
      <4>1. Unread(3 - a)'
        BY <1>9, <1>10, <2>2 DEF FirstBank
      <4>2. CASE a = 1
        <5>1. 3 - a = 2
          BY <4>2
        <5> QED BY <1>8, <4>1, <4>2, <5>1
      <4>3. CASE a = 2
        <5>1. 3 - a = 1
          BY <4>3
        <5> QED BY <1>8, <4>1, <4>3, <5>1
      <4> QED BY <4>2, <4>3
    <3> QED BY <1>1, <1>2, <2>2, <3>1 DEF FirstBank, Place
  <2>3. CASE SecondBank(a, t)
    <3>1. 2 - p_buf = 3 - a /\ 2 - p_buf' = 3 - a
      BY <1>1, <1>9, <2>3 DEF SecondBank
    <3>2. ~ Unread(2 - p_buf)'
      <4>1. ~ Unread(3 - a)'
        BY <1>10, <2>3 DEF SecondBank
      <4> QED BY <3>1, <4>1 DEF Unread
    <3>3. todo' # << >>
      BY <1>6
    <3> QED BY <1>1, <1>2, <1>7, <2>3, <3>2, <3>3 DEF SecondBank, Place
  <2> QED BY <1>3, <2>1, <2>2, <2>3
<1>12. Banked(a, t)'
  <2>1. a \in t
    BY <1>3, <1>9 DEF OneBank, FirstBank, SecondBank
  <2>2. BankFull(3 - a)' <=> BankFull(3 - a)
    BY <1>3, <1>9, ReadBanks
  <2>3. Banked(a, t)
    BY DEF Standing
  <2>4. CASE t = {a} /\ ff = {} /\ bank = 3 - a /\ ~ BankFull(3 - a)
    BY <1>1, <1>2, <2>2, <2>3, <2>4 DEF Banked
  <2>5. CASE t = {a} /\ ff = {3 - a} /\ bank = a
    BY <1>1, <1>2, <2>2, <2>3, <2>5 DEF Banked
  <2>6. CASE t = {1, 2} /\ ff = {} /\ bank = a
    BY <1>1, <1>2, <2>3, <2>6 DEF Banked
  <2> QED BY <2>1, <2>3, <2>4, <2>5, <2>6 DEF Banked
<1>13. Emptied(t)'
  BY EmptiedRead DEF Standing
<1>14. Flow(a)'
  BY <1>3, FlowRead DEF Standing
<1> QED BY <1>11, <1>12, <1>13, <1>14 DEF Standing

\* A bank has been read to its end: the electronics, ...
LEMMA BankedLast ==
    ASSUME Types, Fixed, NEW a \in {1, 2}, NEW t \in SUBSET {1, 2}, Banked(a, t), a \in t,
           Drained(a)', BankFull(3 - a)' <=> BankFull(3 - a),
           avail' = avail \cup {a}, UNCHANGED <<ff, bank>>
    PROVE  Banked(3 - a, t \ {a})'
<1>1. 3 - a \in {1, 2} /\ a # 3 - a /\ 3 - (3 - a) = a /\ {1, 2} = {a, 3 - a}
  OBVIOUS
<1>2. ~ BankFull(a)'
  BY DrainedNotFull DEF Types
<1>3. avail' = {1, 2} \ (t \ {a})
  BY DEF Banked
<1>4. CASE t = {a} /\ ff = {} /\ bank = 3 - a /\ ~ BankFull(3 - a)
  <2>1. t \ {a} = {} /\ ff' = {} /\ bank' = 3 - a /\ ~ BankFull(3 - a)' /\ Drained(3 - (3 - a))'
    BY <1>1, <1>4
  <2> QED BY <1>3, <2>1 DEF Banked
<1>5. CASE t = {a} /\ ff = {3 - a} /\ bank = a
  <2>1. BankFull(3 - a)
    BY <1>5 DEF Banked
  <2>2. t \ {a} = {} /\ ff' = {3 - a} /\ bank' = 3 - (3 - a) /\ ~ BankFull(3 - (3 - a))'
    BY <1>1, <1>2, <1>5
  <2>3. \A x \in ff' : BankFull(x)'
    BY <2>1, <2>2
  <2> QED BY <1>3, <2>2, <2>3 DEF Banked
<1>6. CASE t = {1, 2} /\ ff = {} /\ bank = a
  <2>1. t \ {a} = {3 - a} /\ ff' = {} /\ bank' = 3 - (3 - a) /\ ~ BankFull(3 - (3 - a))'
    BY <1>1, <1>2, <1>6
  <2> QED BY <1>3, <2>1 DEF Banked
<1> QED BY <1>4, <1>5, <1>6 DEF Banked

\* ... and the readout.
LEMMA StandingLast ==
    ASSUME Types, Types', Fixed, TodoShape, ReadMemory, dpc = "read", LastOfBank,
           NEW a \in {1, 2}, NEW t \in SUBSET {1, 2}, Standing(a, t)
    PROVE  Standing(3 - a, t \ {a})'
<1>1. todo # << >> /\ todo' = Tail(todo) /\ UNCHANGED <<i_buf, p_buf, ff, bank, event>> /\ dpc' = Following
  BY DEF ReadMemory
<1>2. BankOf(todo[1]) = a /\ (OneBank(a, t) \/ FirstBank(a, t) \/ SecondBank(a, t))
  BY <1>1, ReadPlace DEF Standing
<1>3. 3 - a \in {1, 2} /\ a # 3 - a /\ 3 - (3 - a) = a /\ p_buf \in 0 .. 1 /\ i_buf \in 1 .. 3
  BY DEF Types, ReadTypes
<1>4. a \in t
  BY <1>2, <1>3 DEF OneBank, FirstBank, SecondBank
<1>5. avail' = avail \cup {a}
  <2>1. Head(todo) = todo[1]
    BY ReadLogs
  <2> QED BY <1>2, <2>1 DEF ReadMemory
<1>6. Len(todo) \in Nat /\ DOMAIN todo = 1 .. Len(todo) /\ 1 \in DOMAIN todo
  BY <1>1, TodoFacts
<1>7. /\ \A j \in DOMAIN todo' : j + 1 \in DOMAIN todo /\ todo'[j] = todo[j + 1] /\ j + 1 # 1
      /\ \A j \in DOMAIN todo : j = 1 \/ (j - 1 \in DOMAIN todo' /\ todo'[j - 1] = todo[j])
      /\ todo' = << >> <=> Len(todo) = 1
  BY <1>1, TailFacts
<1>8. \A j \in DOMAIN todo' : BankOf(todo'[j]) # a
  BY <1>1, <1>2, <1>7, LastOfBankFacts
<1>9. Drained(a)'
  <2>1. ASSUME NEW i \in Lrm, BankOf(i) = a PROVE lrm'[i] = << >>
    <3>1. i \notin Range(todo')
      BY <1>8, <2>1 DEF Range
    <3> QED BY <1>4, <2>1, <3>1, EmptiedRead DEF Standing
  <2> QED BY <2>1 DEF Drained, Fixed, BankOf
<1>10. Flow(3 - a)'
  <2>1. Flow(a)'
    BY <1>2, FlowRead DEF Standing
  <2> QED BY <1>9, <2>1, FlowSwitch
<1>11. Banked(3 - a, t \ {a})'
  <2>1. BankFull(3 - a)' <=> BankFull(3 - a)
    BY <1>2, <1>3, ReadBanks
  <2> QED BY <1>1, <1>4, <1>5, <1>9, <2>1, BankedLast DEF Standing
<1>12. Emptied(t \ {a})'
  BY EmptiedRead DEF Standing, Emptied
<1>13. Place(3 - a, t \ {a})'
  <2>1. CASE OneBank(a, t)
    <3>1. Len(todo) = 1
      <4>1. i_buf # 3
        BY <1>3, <2>1 DEF OneBank
      <4>2. ~ (Len(todo) > 1)
        BY <1>1, <4>1, LastOfBankFacts
      <4> QED BY <1>6, <4>2
    <3>2. todo' = << >> /\ dpc' = "read" /\ t \ {a} = {}
      BY <1>1, <1>7, <2>1, <3>1 DEF Following, OneBank
    <3> QED BY <1>1, <2>1, <3>2 DEF Place, OneBank
  <2>2. CASE FirstBank(a, t)
    <3>1. Loaded /\ Unread(3 - a)
      BY <1>3, <2>2 DEF FirstBank, Loaded
    <3>2. PICK j \in DOMAIN todo : BankOf(todo[j]) = 3 - a
      BY <3>1 DEF Unread
    <3>3. j # 1
      BY <1>2, <1>3, <3>2
    <3>4. j - 1 \in DOMAIN todo'
      BY <1>7, <3>3
    <3>5. todo' # << >> /\ dpc' \in {"scaler", "read"}
      BY <1>1, <3>4 DEF Following
    <3>6. Loaded'
      BY <3>5 DEF Loaded
    <3>7. ~ Unread(2 - p_buf)'
      <4>1. a = 2 - p_buf'
        BY <1>1, <2>2 DEF FirstBank
      <4> QED BY <1>8, <3>6, <4>1 DEF Unread, BankOf
    <3>8. 3 - a = p_buf + 1 /\ t \ {a} = {3 - a} /\ i_buf = 3
      BY <1>3, <2>2 DEF FirstBank
    <3> QED BY <1>1, <3>5, <3>6, <3>7, <3>8 DEF Place
  <2>3. CASE SecondBank(a, t)
    <3>1. Others(1)
      BY <1>2, <2>3 DEF SecondBank, Others
    <3>2. ~ (Len(todo) > 1)
      BY <1>1, <3>1, LastOfBankFacts
    <3>3. Len(todo) = 1
      BY <1>6, <3>2
    <3>4. todo' = << >> /\ dpc' = "read" /\ t \ {a} = {}
      BY <1>1, <1>7, <2>3, <3>3 DEF Following, SecondBank
    <3>5. 3 - a = 2 - p_buf /\ i_buf = 3
      BY <1>3, <2>3 DEF SecondBank
    <3> QED BY <1>1, <3>4, <3>5 DEF Place
  <2> QED BY <1>2, <2>1, <2>2, <2>3
<1> QED BY <1>10, <1>11, <1>12, <1>13 DEF Standing

\* The two banks while a run goes on: every step.
LEMMA RunningStep ==
    ASSUME Types, Stages, TodoShape, AtStart, Running, ~ setup.FastBanks, [GrNext]_grVars
    PROVE  Running'
<1>1. Fixed /\ (Quiet \/ Leave \/ Trigger \/ Readout) /\ Types'
  BY Steps, TypesStep
<1>2. SUFFICES ASSUME Taking' PROVE \E a \in {1, 2}, t \in SUBSET {1, 2} : Standing(a, t)'
  BY DEF Running
<1>3. ASSUME Taking PROVE \E a \in {1, 2}, t \in SUBSET {1, 2} : Standing(a, t)
  BY <1>3 DEF Running
<1>4. dpc' \in {"loop", "clear", "scaler", "read"}
  BY <1>2 DEF Taking, Serving
<1>5. CASE Quiet
  <2>1. Taking
    BY <1>2, <1>5, LogSame DEF Quiet, Taking, Serving
  <2> QED BY <1>1, <1>3, <1>5, <2>1, StandingQuiet
<1>6. CASE Trigger
  <2>1. Taking
    BY <1>2, <1>6, LogSame DEF Trigger, readVars, histVars, Taking, Serving
  <2> QED BY <1>1, <1>3, <1>6, <2>1, StandingTrigger
<1>7. CASE PutStart
  <2>1. 1 \in {1, 2} /\ {} \in SUBSET {1, 2}
    OBVIOUS
  <2>2. Standing(1, {})'
    BY <1>1, <1>7, StandingStart
  <2> QED BY <2>1, <2>2
<1>8. CASE ReadFF
  <2>1. Taking
    BY <1>8 DEF ReadFF, Stages, Taking
  <2> QED BY <1>1, <1>3, <1>8, <2>1, StandingFF
<1>9. CASE Clear
  <2>1. Taking
    BY <1>9 DEF Clear, Taking, Serving
  <2>2. PICK a \in {1, 2}, t \in SUBSET {1, 2} : Standing(a, t)
    BY <1>3, <2>1
  <2>3. Standing(a, BanksOf(i_buf))'
    BY <1>1, <1>9, <2>2, StandingClear
  <2>4. i_buf \in 1 .. 3 /\ i_buf' = i_buf
    BY <1>9 DEF Clear, Types, ReadTypes
  <2>5. BanksOf(i_buf) \in SUBSET {1, 2}
    BY <2>4 DEF BanksOf
  <2> PICK u \in SUBSET {1, 2} : u = BanksOf(i_buf)
    BY <2>5
  <2>6. Standing(a, u)'
    <3>1. u = BanksOf(i_buf)'
      BY <2>4 DEF BanksOf
    <3> QED BY <2>3, <3>1
  <2> QED BY <2>6
<1>10. CASE PutScaler
  <2>1. Taking
    BY <1>10 DEF PutScaler, Taking, Serving
  <2> QED BY <1>1, <1>3, <1>10, <2>1, StandingScaler
<1>11. CASE ReadMemory
  <2>1. dpc = "read"
    BY <1>4, <1>11 DEF ReadMemory, Reading, Following
  <2>2. Taking
    BY <2>1 DEF Taking, Serving
  <2>3. PICK a \in {1, 2}, t \in SUBSET {1, 2} : Standing(a, t)
    BY <1>3, <2>2
  <2>4. CASE LastOfBank
    <3>1. Standing(3 - a, t \ {a})'
      BY <1>1, <1>11, <2>1, <2>3, <2>4, StandingLast
    <3>2. 3 - a \in {1, 2} /\ t \ {a} \in SUBSET {1, 2}
      OBVIOUS
    <3> QED BY <3>1, <3>2
  <2>5. CASE ~ LastOfBank
    BY <1>1, <1>11, <2>1, <2>3, <2>5, StandingRead
  <2> QED BY <2>4, <2>5
<1>12. CASE EndRead
  <2>1. Taking
    BY <1>12 DEF EndRead, Taking, Serving
  <2> QED BY <1>1, <1>3, <1>12, <2>1, StandingEnd
<1>13. CASE Leave \/ LookStart \/ EncodeStart \/ LookStop \/ StopScaler
  BY <1>4, <1>13 DEF Leave, LookStart, EncodeStart, LookStop, StopScaler
<1>14. CASE PutEnd
  <2> DEFINE b == Block("end", <<cmb.run>>, 0)
  <2>1. log' = Append(log, b) /\ dpc' = "loop"
    BY <1>14 DEF PutEnd
  <2>2. b \in Blk /\ b.id = "end"
    BY BlockFacts DEF Block
  <2> HIDE DEF b
  <2>3. Over'
    BY <2>1, <2>2, LogAppend, AppendedRun
  <2> QED BY <1>2, <2>1, <2>3 DEF Taking, Serving, Going
<1> QED BY <1>1, <1>5, <1>6, <1>7, <1>8, <1>9, <1>10, <1>11, <1>12, <1>13, <1>14 DEF Readout

\* A block put before the end: the run was announced before.
LEMMA AnnouncedBefore ==
    ASSUME Types, NEW b \in Blk, Appended(b), b.id # "start", Announced'
    PROVE  Announced /\ log # << >>
  BY AppendedRun DEF Announced

\* The bank read after a stop: every step.
LEMMA StoppingStep ==
    ASSUME Types, Stages, TodoShape, AtStart, Running, Stopping, [GrNext]_grVars
    PROVE  Stopping'
<1>1. Fixed /\ (Quiet \/ Leave \/ Trigger \/ Readout) /\ Types'
  BY Steps, TypesStep
<1>2. SUFFICES ASSUME Ending', Announced', Collect.last, NEW a \in {1, 2}, a = p_buf' + 1 PROVE Leaving(a)'
  BY <1>1 DEF Stopping, Fixed
<1>3. dpc' \in {"stopscaler", "last"}
  BY <1>2 DEF Ending
<1>4. p_buf \in 0 .. 1 /\ setup \in Setups /\ 3 - a \in {1, 2} /\ a # 3 - a
  BY DEF Types, ReadTypes
<1>5. CASE Quiet
  <2>1. UNCHANGED <<dpc, p_buf, todo, ff, lrm, event, log>>
    BY <1>5 DEF Quiet
  <2>2. Leaving(a)
    BY <1>2, <2>1, LogSame DEF Stopping, Ending
  <2>3. Flow(a)'
    BY <1>1, <2>1, <2>2, FlowSame DEF Leaving
  <2>4. ff' = {} => Drained(3 - a)'
    BY <1>1, <2>1, <2>2 DEF Leaving, Drained, Fixed, BankOf
  <2>5. dpc' = "last" => Emptied({a})'
    <3>1. {a} \in SUBSET {1, 2} /\ (Loaded' => Loaded)
      BY <2>1 DEF Loaded
    <3> QED BY <1>1, <2>1, <2>2, <3>1, EmptiedSame DEF Leaving
  <2> QED BY <2>3, <2>4, <2>5 DEF Leaving
<1>6. CASE Trigger
  <2>1. ~ veto /\ dpc \in {"stopscaler", "last"}
    BY <1>3, <1>6 DEF Trigger, readVars
  <2> QED BY <2>1 DEF Stages, Taking, Serving
<1>7. CASE LookStop
  <2>1. /\ dpc = "loop" /\ dpc' = "stopscaler" /\ log' = (IF Over THEN << >> ELSE log)
        /\ p_buf' = 1 - p_buf /\ UNCHANGED <<lrm, ff, event>>
    BY <1>2, <1>7 DEF LookStop
  <2>2. ~ Over /\ log' = log
    BY <1>2, <2>1 DEF Announced
  <2>3. Taking
    BY <1>2, <2>1, <2>2, LogSame DEF Taking, Going
  <2>4. PICK x \in {1, 2}, t \in SUBSET {1, 2} : Standing(x, t)
    BY <2>3 DEF Running
  <2>5. x = 2 - p_buf /\ t = {}
    BY <2>1, <2>4 DEF Standing, Place
  <2>6. x = a
    BY <1>2, <1>4, <2>1, <2>5
  <2>7. Flow(a)'
    BY <1>1, <2>1, <2>2, <2>4, <2>6, FlowSame DEF Standing
  <2>8. ASSUME ff' = {} PROVE Drained(3 - a)'
    <3>1. ff = {}
      BY <2>1, <2>8
    <3>2. Drained(3 - a)
      BY <2>4, <2>5, <2>6, <3>1 DEF Standing, Banked
    <3> QED BY <1>1, <2>1, <3>2 DEF Drained, Fixed, BankOf
  <2> QED BY <2>1, <2>7, <2>8 DEF Leaving
<1>8. CASE StopScaler
  <2>1. /\ dpc = "stopscaler" /\ dpc' = "last" /\ log' = Append(log, Scaler) /\ todo' = EveryOther(p_buf)
        /\ UNCHANGED <<p_buf, lrm, ff, event>>
    BY <1>2, <1>8 DEF StopScaler, LastBank, hwVars
  <2>2. Scaler \in Blk /\ Scaler.id = "scaler" /\ Appended(Scaler)
    BY <2>1, BlockFacts, LogAppend
  <2>3. Leaving(a)
    BY <1>2, <2>1, <2>2, AnnouncedBefore DEF Stopping, Ending
  <2>4. Flow(a)'
    BY <1>1, <2>1, <2>2, <2>3, FlowSame DEF Leaving
  <2>5. ff' = {} => Drained(3 - a)'
    BY <1>1, <2>1, <2>3 DEF Leaving, Drained, Fixed, BankOf
  <2>6. Emptied({a})'
    <3>1. Lists(todo', a)
      BY <1>2, <1>4, <2>1, EveryOtherLists
    <3>2. \A i \in Lrm : BankOf(i) = a => i \in Range(todo')
      BY <3>1 DEF Lists, Range
    <3> QED BY <1>1, <3>2 DEF Emptied, Fixed, BankOf
  <2> QED BY <2>4, <2>5, <2>6 DEF Leaving
<1>9. CASE ReadMemory
  <2>1. dpc = "last" /\ dpc' = "last" /\ UNCHANGED <<p_buf, ff, event>> /\ todo # << >> /\ 1 \in DOMAIN todo
    BY <1>3, <1>9, TodoFacts DEF ReadMemory, Reading, Following
  <2>2. Announced
    BY <1>2, <1>9, LogSame, ReadLogs, AnnouncedBefore
  <2>3. Leaving(a)
    BY <1>2, <2>1, <2>2 DEF Stopping, Ending
  <2>4. BankOf(todo[1]) = a
    BY <1>2, <2>1 DEF TodoShape, Others
  <2>5. Flow(a)'
    BY <1>1, <1>9, <2>3, <2>4, FlowRead DEF Leaving
  <2>6. ASSUME ff' = {} PROVE Drained(3 - a)'
    <3>1. Drained(3 - a)
      BY <2>1, <2>3, <2>6 DEF Leaving
    <3>2. \A i \in Lrm : BankOf(i) = 3 - a => lrm'[i] = lrm[i]
      BY <1>1, <1>4, <1>9, <2>4, ReadBanks
    <3> QED BY <1>1, <3>1, <3>2 DEF Drained, Fixed, BankOf
  <2>7. Emptied({a})'
    <3>1. {a} \in SUBSET {1, 2} /\ Emptied({a})
      BY <2>1, <2>3 DEF Leaving
    <3> QED BY <1>1, <1>9, <3>1, EmptiedRead
  <2> QED BY <2>5, <2>6, <2>7 DEF Leaving
<1>10. CASE Leave \/ LookStart \/ EncodeStart \/ PutStart \/ ReadFF \/ Clear \/ PutScaler \/ EndRead \/ PutEnd
  BY <1>3, <1>10 DEF Leave, LookStart, EncodeStart, PutStart, ReadFF, Clear, PutScaler, EndRead, PutEnd
<1> QED BY <1>1, <1>5, <1>6, <1>7, <1>8, <1>9, <1>10 DEF Readout

\* The run end block is put when every event has been.
LEMMA StoppedEnd ==
    ASSUME Types, Fixed, Stopping, PutEnd, Announced', Collect.last, ff' = {}, NEW m \in Pairs
    PROVE  PutUpTo(m, event)'
<1> DEFINE b == Block("end", <<cmb.run>>, 0)
<1>1. /\ log' = Append(log, b) /\ dpc = "last" /\ todo = << >> /\ ff = {} /\ event' = event
  BY DEF PutEnd, hwVars
<1>2. b \in Blk /\ b.id = "end"
  BY BlockFacts DEF Block
<1> HIDE DEF b
<1>3. Appended(b) /\ Announced
  BY <1>1, <1>2, LogAppend, AnnouncedBefore
<1> PICK a \in {1, 2} : a = p_buf + 1
  BY DEF Types, ReadTypes
<1>4. Flow(a) /\ Drained(3 - a) /\ Emptied({a})
  BY <1>1, <1>3 DEF Stopping, Ending, Leaving
<1>5. Drained(a)
  <2>1. Range(todo) = {} /\ Loaded
    BY <1>1 DEF Range, Loaded
  <2> QED BY <1>4, <2>1 DEF Emptied, Drained
<1> PICK n \in 0 .. event : FlowOf(m, a, n)
  BY <1>4 DEF Flow
<1>6. lrm[Mem(a, m)] = << >> /\ lrm[Mem(3 - a, m)] = << >> /\ m \in Nat /\ event \in Nat
  BY <1>4, <1>5, Pair DEF Drained
<1>7. n \in Nat
  BY <1>6
<1>8. PutUpTo(m, n) /\ n + 0 + 0 = event
  <2>1. Len(<< >>) = 0
    OBVIOUS
  <2> QED BY <1>6, <2>1 DEF FlowOf
<1>9. n = event
  BY <1>7, <1>8
<1>10. PutUpTo(m, n)'
  BY <1>2, <1>3, <1>6, <1>7, <1>8, PutOther
<1> QED BY <1>1, <1>9, <1>10 DEF PutUpTo

\* A run that is over has put every event: every step.
LEMMA StoppedStep ==
    ASSUME Types, Stages, Stopping, Stopped, [GrNext]_grVars
    PROVE  Stopped'
<1>1. Fixed /\ (Quiet \/ Leave \/ Trigger \/ Readout)
  BY Steps
<1>2. SUFFICES ASSUME Over', Announced', Collect.last, ff' = {}, dpc' # "exit", NEW m \in Pairs
               PROVE  PutUpTo(m, event)'
  BY <1>1 DEF Stopped, Fixed
<1>3. Going => ~ Over
  BY DEF Going
<1>4. CASE UNCHANGED <<log, event, ff>> /\ dpc # "exit"
  <2>1. Over /\ Announced
    BY <1>2, <1>4, LogSame
  <2>2. PutUpTo(m, event)
    BY <1>2, <1>4, <2>1 DEF Stopped
  <2> QED BY <1>4, <2>2 DEF PutUpTo, DataOf
<1>5. CASE Quiet \/ LookStart \/ EncodeStart
  BY <1>2, <1>4, <1>5 DEF Quiet, LookStart, EncodeStart, hwVars, histVars
<1>6. CASE Leave
  BY <1>2, <1>6 DEF Leave
<1>7. CASE Trigger
  <2>1. ~ veto /\ dpc # "exit" /\ log' = log
    BY <1>2, <1>7 DEF Trigger, readVars, histVars
  <2>2. Taking
    BY <2>1 DEF Stages
  <2>3. Going
    BY <2>2 DEF Taking, Stages
  <2> QED BY <1>2, <1>3, <2>1, <2>3, LogSame
<1>8. CASE ReadFF \/ Clear \/ EndRead
  <2>1. Going /\ log' = log
    BY <1>8 DEF ReadFF, Clear, EndRead, histVars, Stages, Serving
  <2> QED BY <1>2, <1>3, <2>1, LogSame
<1>9. CASE PutStart
  BY <1>2, <1>9, StartLogs DEF Going
<1>10. CASE PutScaler \/ StopScaler
  <2>1. log' = Append(log, Scaler) /\ Scaler \in Blk /\ Scaler.id = "scaler"
    BY <1>10, BlockFacts DEF PutScaler, StopScaler
  <2> QED BY <1>2, <2>1, LogAppend, AppendedRun
<1>11. CASE ReadMemory
  <2>1. ~ Over
    BY <1>3, <1>11 DEF ReadMemory, Reading, Stages, Serving
  <2> QED BY <1>2, <1>11, <2>1, ReadLogs, LogSame, AppendedRun
<1>12. CASE LookStop
  <2>1. log' = IF Over THEN << >> ELSE log
    BY <1>12 DEF LookStop
  <2>2. log' # << >>
    BY <1>2 DEF Announced
  <2> QED BY <1>2, <2>1, <2>2, LogSame
<1>13. CASE PutEnd
  BY <1>1, <1>2, <1>13, StoppedEnd
<1> QED BY <1>1, <1>5, <1>6, <1>7, <1>8, <1>9, <1>10, <1>11, <1>12, <1>13 DEF Readout

-----------------------------------------------------------------------------
(* The theorems *)

\* The invariant holds at the beginning.
LEMMA InvInit == GrInit => GrInv
<1> SUFFICES ASSUME GrInit PROVE GrInv
  OBVIOUS
<1> USE DEF GrInit
<1>1. NoCmd \in Msgs
  BY DEF NoCmd, Msg, Msgs
<1>2. log = << >> /\ ~ Announced /\ ~ Over /\ ~ Going /\ Resting /\ DOMAIN log = {}
  BY DEF Announced, Over, Going, Resting
<1>3. Types
  <2>1. CmdTypes
    BY <1>1 DEF CmdTypes
  <2>2. ReadTypes
    BY DEF ReadTypes
  <2>3. HwTypes
    <3>1. 0 \in 0 .. setup.MaxEvents /\ << >> \in Seq(Nat)
      BY SetupFacts
    <3> QED BY <3>1 DEF HwTypes
  <2>4. LogTypes
    <3>1. 0 <= setup.max_que_num /\ << >> \in Seq(Blk) /\ Len(<< >>) = 0
      BY SetupFacts
    <3> QED BY <3>1 DEF LogTypes
  <2> QED BY <2>1, <2>2, <2>3, <2>4 DEF Types
<1>4. ~ Taking /\ ~ Ending /\ ~ Serving
  BY <1>2 DEF Taking, Ending, Serving
<1>5. Stages
  BY <1>2, <1>4 DEF Stages
<1>6. LogShape
  BY <1>2 DEF LogShape, Ordered
<1>7. TodoShape /\ Apart
  <2>1. DOMAIN todo = {} /\ 1 .. Len(log) - 1 = {}
    BY <1>2
  <2> QED BY <2>1 DEF TodoShape, Apart, BankScaler
<1>8. Events
  BY <1>2, <1>4 DEF Events, AtStart, InOrder, Running, Stopping, Stopped
<1> QED BY <1>3, <1>5, <1>6, <1>7, <1>8 DEF GrInv, Shapes

\* Every step keeps it.
LEMMA InvStep == GrInv /\ [GrNext]_grVars => GrInv'
<1> SUFFICES ASSUME GrInv, [GrNext]_grVars PROVE GrInv'
  OBVIOUS
<1>1. Types /\ Stages /\ LogShape /\ TodoShape /\ Apart
  BY DEF GrInv, Shapes
<1>2. Shapes'
  BY <1>1, TypesStep, StagesStep, LogShapeStep, TodoStep, ApartStep DEF Shapes
<1>3. setup' = setup
  BY Steps DEF Fixed
<1>4. ASSUME ~ setup.FastBanks PROVE Events'
  <2>1. AtStart /\ InOrder /\ Running /\ Stopping /\ Stopped
    BY <1>4 DEF GrInv, Events
  <2> QED BY <1>1, <1>4, <2>1, AtStartStep, InOrderStep, RunningStep, StoppingStep, StoppedStep DEF Events
<1> QED BY <1>2, <1>3, <1>4 DEF GrInv

\* A bank that is read is not written.
LEMMA RestOfReading ==
    ASSUME Types, TodoShape, Running
    PROVE  ReadBanksRest
<1> SUFFICES ASSUME dpc \in {"read", "scaler"}, NEW i \in Range(todo), BankOf(i) = bank, bank \in avail
             PROVE  FALSE
  BY DEF ReadBanksRest
<1>1. PICK a \in {1, 2}, t \in SUBSET {1, 2} : Standing(a, t)
  BY DEF Running, Taking, Serving
<1>2. PICK j \in DOMAIN todo : todo[j] = i
  BY DEF Range
<1>3. todo # << >> /\ Loaded /\ BankOf(i) \in {1, 2} /\ p_buf \in 0 .. 1
  BY <1>2, TodoFacts, MemoryFacts DEF Loaded, Types, ReadTypes
<1>4. BankOf(i) \notin t
  BY <1>1 DEF Standing, Banked
<1>5. CASE i_buf = 2 - p_buf
  <2>1. i_buf # 3
    BY <1>3, <1>5
  <2>2. t = {i_buf} /\ BankOf(i) = i_buf
    BY <1>1, <1>2, <1>3, <1>5, <2>1 DEF Standing, Place, TodoShape
  <2> QED BY <1>4, <2>2
<1>6. CASE i_buf = 3 /\ t = {1, 2}
  BY <1>3, <1>4, <1>6
<1>7. CASE i_buf = 3 /\ ~ Unread(2 - p_buf) /\ a = p_buf + 1 /\ t = {a}
  <2>1. BankOf(i) # 2 - p_buf
    BY <1>2, <1>7 DEF Unread
  <2> QED BY <1>3, <1>4, <1>7, <2>1
<1> QED BY <1>1, <1>3, <1>5, <1>6, <1>7 DEF Standing, Place

\* A full bank is known.
LEMMA FullKnown ==
    ASSUME Types, Stages, Running
    PROVE  OverflowKnown
<1> SUFFICES ASSUME ~ veto, dpc # "exit", NEW b \in {1, 2}, BankFull(b)
             PROVE  b \in ff \/ (dpc \in {"clear", "scaler", "read"} /\ b \in BanksOf(i_buf))
  BY DEF OverflowKnown
<1>1. PICK a \in {1, 2}, t \in SUBSET {1, 2} : Standing(a, t)
  BY DEF Running, Stages
<1>2. b = a \/ b = 3 - a
  OBVIOUS
<1>3. 3 - a \in {1, 2} /\ a # 3 - a /\ p_buf \in 0 .. 1
  BY DEF Types, ReadTypes
<1>4. b \in ff \/ b \in t
  <2>1. CASE t = {} /\ ff = {} /\ bank = a /\ ~ BankFull(a) /\ Drained(3 - a)
    <3>1. ~ BankFull(3 - a)
      <4>1. Full \in Nat /\ Full # 0
        BY SetupFacts DEF Types
      <4>2. ~ (Len(<< >>) >= Full)
        BY <4>1
      <4> QED BY <2>1, <4>2 DEF Drained, BankFull
    <3> QED BY <1>2, <2>1, <3>1
  <2>2. CASE t = {} /\ ff = {a} /\ bank = 3 - a /\ ~ BankFull(3 - a)
    BY <1>2, <2>2
  <2>3. CASE t = {} /\ ff = {1, 2} /\ bank = a
    BY <2>3
  <2>4. CASE t = {a} /\ ff = {} /\ bank = 3 - a /\ ~ BankFull(3 - a)
    BY <1>2, <2>4
  <2>5. CASE t = {a} /\ ff = {3 - a} /\ bank = a
    BY <1>2, <2>5
  <2>6. CASE t = {1, 2} /\ ff = {} /\ bank = a
    BY <2>6
  <2> QED BY <1>1, <2>1, <2>2, <2>3, <2>4, <2>5, <2>6 DEF Standing, Banked
<1>5. ASSUME b \in t PROVE dpc \in {"clear", "scaler", "read"} /\ b \in BanksOf(i_buf)
  <2>1. dpc \in {"scaler", "read"} /\ ((i_buf = 2 - p_buf /\ a = i_buf /\ t = {a}) \/ i_buf = 3)
    BY <1>1, <1>5 DEF Standing, Place
  <2> QED BY <1>3, <1>5, <2>1 DEF BanksOf
<1> QED BY <1>4, <1>5

\* What the invariant gives.
LEMMA InvGives == GrInv => CollectorRight /\ GrTypeOK
<1> SUFFICES ASSUME GrInv PROVE CollectorRight /\ GrTypeOK
  OBVIOUS
<1>1. Types /\ Stages /\ LogShape /\ TodoShape /\ Apart
  BY DEF GrInv, Shapes
<1>2. RunShape
  BY <1>1, ShapeOfRun
<1>3. ASSUME ~ setup.FastBanks PROVE InOrder /\ ReadBanksRest /\ OverflowKnown /\ (Collect.last => TailRead)
  <2>1. InOrder /\ Running /\ Stopped
    BY <1>3 DEF GrInv, Events
  <2>2. Collect.last => TailRead
    BY <2>1 DEF Stopped, TailRead
  <2> QED BY <1>1, <2>1, <2>2, RestOfReading, FullKnown
<1>4. Collect.scaler = "bank" => BankScaler
  BY <1>1 DEF Apart
<1>5. GrTypeOK
  BY <1>1 DEF GrTypeOK, Types, CmdTypes, ReadTypes, HwTypes, LogTypes
<1> QED BY <1>2, <1>3, <1>4, <1>5 DEF CollectorRight

\* The invariant always holds.
THEOREM CollectorInvariant == GrSpec => []GrInv
  BY InvInit, InvStep, PTL DEF GrSpec

\* collect_data in every set-up (any even number of memories, any size of the banks and of the
\* ring, any of its versions, any number of commands under way): the state has its type and the
\* ring never holds more blocks than it takes.
THEOREM CollectorTypes == GrSpec => []GrTypeOK
<1>1. GrInv => GrTypeOK
  BY InvGives
<1> QED BY <1>1, CollectorInvariant, PTL

\* collect_data in every set-up: a run is a start block, scaler blocks followed by data and one end
\* block with the run number of the start; with electronics as expected the data of every pair of
\* memories are the events 1, 2, 3, ..., each once, and all of them when the run is over (unless an
\* overflow was pending at the stop), a bank being read is not written, and a full bank is known.
THEOREM CollectorCorrect == GrSpec => []CollectorRight
<1>1. GrInv => CollectorRight
  BY InvGives
<1> QED BY <1>1, CollectorInvariant, PTL

=============================================================================
