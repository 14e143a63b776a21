--------------------------- MODULE Vmedaq_proofs ---------------------------
(***************************************************************************)
(* Proofs about vmedaq: the numbers of the events and of the blocks are    *)
(* right, no event is missing, and with -n the data go to the client only, *)
(* for every crate, any number of modules, triggers, clients and signals.  *)
(*                                                                         *)
(* The argument: while ALMOST_FULL is seen no trigger is accepted, so a    *)
(* pass that reads nothing has found every module empty, and the scaler    *)
(* read last counts the triggers of all of them.  From there on the offset *)
(* plus the counter of a module is the number of triggers, until the       *)
(* counters are cleared another time.                                      *)
(***************************************************************************)
EXTENDS Vmedaq, SequenceTheorems, TLAPS

-----------------------------------------------------------------------------
(* Sequences *)

\* The elements of a sequence, of a concatenation and of a tail.
LEMMA ToSetOf ==
    ASSUME NEW S, NEW s \in Seq(S)
    PROVE  /\ ToSet(s) \subseteq S
           /\ \A i \in 1 .. Len(s) : s[i] \in ToSet(s)
           /\ \A x \in ToSet(s) : \E i \in 1 .. Len(s) : s[i] = x
BY DEF ToSet

\* The elements of two sequences one behind the other.
LEMMA ToSetConcat ==
    ASSUME NEW S, NEW s \in Seq(S), NEW t \in Seq(S)
    PROVE  ToSet(s \o t) = ToSet(s) \cup ToSet(t)
<1>. DEFINE c == s \o t
<1>1. c \in Seq(S) /\ Len(c) = Len(s) + Len(t)
  OBVIOUS
<1>2. \A i \in 1 .. Len(s) : c[i] = s[i]
  OBVIOUS
<1>3. \A i \in 1 .. Len(t) : c[Len(s) + i] = t[i]
  OBVIOUS
<1>4. \A i \in 1 .. Len(c) : i \in 1 .. Len(s) \/ (i - Len(s) \in 1 .. Len(t) /\ c[i] = t[i - Len(s)])
  BY <1>1, <1>3
<1>. HIDE DEF c
<1>5. ToSet(c) \subseteq ToSet(s) \cup ToSet(t)
  BY <1>1, <1>2, <1>4 DEF ToSet
<1>6. ToSet(s) \subseteq ToSet(c)
  <2>1. ASSUME NEW i \in 1 .. Len(s) PROVE s[i] \in ToSet(c)
    <3>1. i \in 1 .. Len(c) /\ c[i] = s[i]
      BY <1>1, <1>2, <2>1
    <3>. QED BY <1>1, <3>1, ToSetOf
  <2>. QED BY <2>1 DEF ToSet
<1>7. ToSet(t) \subseteq ToSet(c)
  <2>1. ASSUME NEW i \in 1 .. Len(t) PROVE t[i] \in ToSet(c)
    <3>1. Len(s) \in Nat /\ Len(t) \in Nat
      OBVIOUS
    <3>2. Len(s) + i \in 1 .. Len(c) /\ c[Len(s) + i] = t[i]
      BY <1>1, <1>3, <2>1, <3>1
    <3>. QED BY <1>1, <3>2, ToSetOf
  <2>. QED BY <2>1 DEF ToSet
<1>. QED BY <1>5, <1>6, <1>7 DEF c

\* The element of a sequence of length one.
LEMMA ToSetOne == ASSUME NEW x PROVE ToSet(<<x>>) = {x}
BY DEF ToSet

\* The elements of what is left when the first is taken.
LEMMA ToSetTail ==
    ASSUME NEW S, NEW s \in Seq(S), s # <<>>
    PROVE  /\ ToSet(Tail(s)) \subseteq ToSet(s)
           /\ \A x \in ToSet(s) : x \in ToSet(Tail(s)) \/ x = Head(s)
           /\ Tail(s) \in Seq(S) /\ Head(s) \in ToSet(s)
<1>1. Tail(s) \in Seq(S) /\ Len(Tail(s)) = Len(s) - 1 /\ Len(s) \in Nat /\ Len(s) # 0
  OBVIOUS
<1>2. \A i \in 1 .. Len(s) - 1 : Tail(s)[i] = s[i + 1]
  OBVIOUS
<1>3. ToSet(Tail(s)) \subseteq ToSet(s)
  BY <1>1, <1>2 DEF ToSet
<1>4. ASSUME NEW i \in 1 .. Len(s) PROVE s[i] \in ToSet(Tail(s)) \/ s[i] = Head(s)
  <2>1. CASE i = 1
    BY <2>1, <1>1
  <2>2. CASE i # 1
    <3>1. i - 1 \in 1 .. Len(Tail(s)) /\ Tail(s)[i - 1] = s[i]
      BY <1>1, <1>2, <2>2
    <3>2. Tail(s)[i - 1] \in ToSet(Tail(s))
      BY <3>1, <1>1, ToSetOf
    <3>. QED BY <3>1, <3>2
  <2>. QED BY <2>1, <2>2
<1>5. Head(s) \in ToSet(s)
  BY <1>1 DEF ToSet
<1>. QED BY <1>1, <1>3, <1>4, <1>5 DEF ToSet

-----------------------------------------------------------------------------
(* Streams: what is known after block Len(s) *)

\* The last block of a type, when a block is appended.
LEMMA LatestAppend ==
    ASSUME NEW S, NEW s \in Seq(S), NEW b \in S, NEW t, NEW o \in 0 .. Len(s) + 1,
           Latest(Append(s, b), o, t, Len(s) + 2)
    PROVE  /\ b.type = t => o = Len(s) + 1
           /\ b.type # t => o \in 0 .. Len(s) /\ Latest(s, o, t, Len(s) + 1)
<1>1. /\ Len(s) \in Nat /\ Append(s, b)[Len(s) + 1] = b
      /\ \A i \in 1 .. Len(s) : Append(s, b)[i] = s[i]
  OBVIOUS
<1>2. b.type = t => o = Len(s) + 1
  BY <1>1 DEF Latest
<1>3. b.type # t => o # Len(s) + 1
  BY <1>1 DEF Latest
<1>4. ASSUME o # Len(s) + 1 PROVE o \in 0 .. Len(s) /\ Latest(s, o, t, Len(s) + 1)
  <2>1. o \in 0 .. Len(s)
    BY <1>1, <1>4
  <2>2. o # 0 => s[o].type = t
    BY <1>1, <2>1 DEF Latest
  <2>3. ASSUME NEW j \in o + 1 .. Len(s) PROVE s[j].type # t
    <3>1. j \in o + 1 .. Len(s) + 2 - 1 /\ j \in 1 .. Len(s)
      BY <1>1, <2>1
    <3>. QED BY <1>1, <3>1 DEF Latest
  <2>. QED BY <1>1, <2>1, <2>2, <2>3 DEF Latest
<1>. QED BY <1>2, <1>3, <1>4

\* A block that is appended changes nothing about the earlier ones.
LEMMA ValuesPrefix ==
    ASSUME NEW S, NEW s \in Seq(S), NEW b \in S, NEW o \in 0 .. Len(s)
    PROVE  /\ OffsetOf(Append(s, b), o) = OffsetOf(s, o)
           /\ DueAfter(Append(s, b), o) = DueAfter(s, o)
<1>1. o # 0 => Append(s, b)[o] = s[o]
  OBVIOUS
<1>. QED BY <1>1 DEF OffsetOf, DueAfter

\* Nor does it change which of them was the last of its type.
LEMMA LatestPrefix ==
    ASSUME NEW S, NEW s \in Seq(S), NEW b \in S, NEW t, NEW i \in 1 .. Len(s) + 1,
           NEW o \in 0 .. i - 1
    PROVE  /\ Latest(Append(s, b), o, t, i) => Latest(s, o, t, i)
           /\ OffsetOf(Append(s, b), o) = OffsetOf(s, o)
           /\ DueAfter(Append(s, b), o) = DueAfter(s, o)
<1>1. Len(s) \in Nat /\ \A j \in 1 .. Len(s) : Append(s, b)[j] = s[j]
  OBVIOUS
<1>2. o # 0 => Append(s, b)[o] = s[o]
  BY <1>1
<1>3. \A j \in o + 1 .. i - 1 : Append(s, b)[j] = s[j]
  BY <1>1
<1>4. Latest(Append(s, b), o, t, i) => Latest(s, o, t, i)
  BY <1>2, <1>3 DEF Latest
<1>5. OffsetOf(Append(s, b), o) = OffsetOf(s, o) /\ DueAfter(Append(s, b), o) = DueAfter(s, o)
  BY <1>2 DEF OffsetOf, DueAfter
<1>. QED BY <1>4, <1>5

\* So what is right of them stays right.
LEMMA RightPrefix ==
    ASSUME NEW S, NEW s \in Seq(S), NEW b \in S, NEW i \in 1 .. Len(s)
    PROVE  /\ Append(s, b)[i] = s[i]
           /\ NumberedRight(s, i) => NumberedRight(Append(s, b), i)
           /\ NoneMissing(s, i) => NoneMissing(Append(s, b), i)
<1>1. Append(s, b)[i] = s[i] /\ i \in 1 .. Len(s) + 1
  OBVIOUS
<1>2. NumberedRight(s, i) => NumberedRight(Append(s, b), i)
  BY <1>1, LatestPrefix DEF NumberedRight
<1>3. NoneMissing(s, i) => NoneMissing(Append(s, b), i)
  <2>1. SUFFICES ASSUME NoneMissing(s, i), NEW m \in Modules, NEW o \in 0 .. i - 1,
                        Latest(Append(s, b), o, m, i)
                 PROVE  /\ s[i].type = m => \A j \in DOMAIN s[i].ev :
                                              s[i].ev[j].g = DueAfter(Append(s, b), o) + j - 1
                        /\ s[i].type = "offset" => s[i].ev[1] = DueAfter(Append(s, b), o)
    BY <1>1 DEF NoneMissing
  <2>2. Latest(s, o, m, i) /\ DueAfter(Append(s, b), o) = DueAfter(s, o)
    BY <1>1, <2>1, LatestPrefix
  <2>. QED BY <2>1, <2>2 DEF NoneMissing
<1>. QED BY <1>1, <1>2, <1>3

-----------------------------------------------------------------------------
(* The crate *)

Nums == ToSet(Numbered)
Names == STRING \cup {"v830", "zero"}
Writes == Modules \cup {"v830", "zero"}

\* The modules of a crate.
ModulesRight ==
    /\ Modules = Nums \cup ToSet(Stamped) /\ ToSet(Tdcs) \subseteq Nums
    /\ "v830" \notin Modules /\ "zero" \notin Modules /\ "offset" \notin Modules

\* A pass reads the V830 and every module.
PassRight ==
    /\ Len(Pass) \in Nat
    /\ \A i \in 1 .. Len(Pass) : Pass[i] \in Modules \cup {"v830"}
    /\ \A m \in Modules \cup {"v830"} : \E i \in 1 .. Len(Pass) : Pass[i] = m

\* The registers that are written.
WritesRight ==
    /\ clear_event_counters \in Seq(Writes) /\ ToSet(clear_event_counters) = Nums
    /\ reset_event_counters \in Seq(Writes) /\ ToSet(reset_event_counters) = Writes

\* The options.
OptionsRight ==
    /\ Net \in BOOLEAN /\ Version \in {"2020", "2016", "e404"}
    /\ crate.NScalers \in Nat /\ crate.Hits0 \in Nat /\ crate.MaxConns \in Nat
    /\ crate.MaxHups \in Nat

CrateRight == ModulesRight /\ PassRight /\ WritesRight /\ OptionsRight

\* The lists and the options of a crate, from the assumptions.
LEMMA Parts ==
    ASSUME crate \in Crates
    PROVE  /\ Tdcs \in Seq(Names) /\ Madcs \in Seq(Names)
           /\ Mqdcs \in Seq(Names) /\ MyRIAD \in Seq(Names)
           /\ \A x \in {"v830", "zero", "offset"} :
                x \notin ToSet(Tdcs) /\ x \notin ToSet(Madcs)
                /\ x \notin ToSet(Mqdcs) /\ x \notin ToSet(MyRIAD)
           /\ OptionsRight
<1>1. crate \in CrateType
  BY CratesAssumption
<1>2. \A f \in {"Tdcs", "Madcs", "Mqdcs", "MyRIAD"} :
        {"v830", "zero", "offset"} \cap ToSet(crate[f]) = {}
  BY NamesAssumption
<1>3. /\ Tdcs \in Seq(STRING) /\ Madcs \in Seq(STRING)
      /\ Mqdcs \in Seq(STRING) /\ MyRIAD \in Seq(STRING) /\ OptionsRight
  BY <1>1 DEF CrateType, Tdcs, Madcs, Mqdcs, MyRIAD, OptionsRight, Net, Version
<1>4. /\ {"v830", "zero", "offset"} \cap ToSet(Tdcs) = {}
      /\ {"v830", "zero", "offset"} \cap ToSet(Madcs) = {}
      /\ {"v830", "zero", "offset"} \cap ToSet(Mqdcs) = {}
      /\ {"v830", "zero", "offset"} \cap ToSet(MyRIAD) = {}
  BY <1>2 DEF Tdcs, Madcs, Mqdcs, MyRIAD
<1>5. \A s \in Seq(STRING) : s \in Seq(Names)
  BY DEF Names
<1>. QED BY <1>3, <1>4, <1>5

\* The elements of three sequences one behind the other.
LEMMA ToSetThree ==
    ASSUME NEW S, NEW a \in Seq(S), NEW b \in Seq(S), NEW c \in Seq(S)
    PROVE  /\ a \o b \o c \in Seq(S)
           /\ ToSet(a \o b \o c) = ToSet(a) \cup ToSet(b) \cup ToSet(c)
<1>0. a \o b \in Seq(S)
  OBVIOUS
<1>1. PICK d \in Seq(S) : d = a \o b
  BY <1>0, Zenon
<1>2. d \o c \in Seq(S)
  OBVIOUS
<1>3. ToSet(d \o c) = ToSet(d) \cup ToSet(c)
  BY ToSetConcat
<1>4. ToSet(a \o b) = ToSet(a) \cup ToSet(b)
  BY ToSetConcat
<1>. QED BY <1>1, <1>2, <1>3, <1>4

\* A sequence is one of its elements.
LEMMA SeqOfSet == ASSUME NEW S, NEW s \in Seq(S), NEW T, ToSet(s) \subseteq T PROVE s \in Seq(T)
<1>1. \A i \in 1 .. Len(s) : s[i] \in T
  BY ToSetOf
<1>. QED BY <1>1

\* Every crate is such.
LEMMA CrateIsRight == ASSUME crate \in Crates PROVE CrateRight
<1>. DEFINE V == <<"v830">>
            Z == <<"zero">>
<1>0. OptionsRight /\ Version \in {"2020", "2016", "e404"}
  BY Parts DEF OptionsRight
<1>1. V \in Seq(Names) /\ Z \in Seq(Names) /\ ToSet(V) = {"v830"} /\ ToSet(Z) = {"zero"}
  BY ToSetOne DEF Names
<1>. HIDE DEF V, Z
<1>2. /\ Tdcs \o Madcs \in Seq(Names) /\ ToSet(Tdcs \o Madcs) = ToSet(Tdcs) \cup ToSet(Madcs)
  <2>1. Tdcs \in Seq(Names) /\ Madcs \in Seq(Names)
    BY Parts
  <2>. QED BY <2>1, ToSetConcat
<1>3. /\ Tdcs \o Madcs \o Mqdcs \in Seq(Names)
      /\ ToSet(Tdcs \o Madcs \o Mqdcs) = ToSet(Tdcs) \cup ToSet(Madcs) \cup ToSet(Mqdcs)
  <2>1. Tdcs \in Seq(Names) /\ Madcs \in Seq(Names) /\ Mqdcs \in Seq(Names)
    BY Parts
  <2>. QED BY <2>1, ToSetThree
<1>4. /\ Numbered \in Seq(Names)
      /\ Version = "2020" => Nums = ToSet(Tdcs) \cup ToSet(Madcs) \cup ToSet(Mqdcs)
      /\ Version # "2020" => Nums = ToSet(Tdcs) \cup ToSet(Madcs)
  BY <1>2, <1>3 DEF Numbered, Nums
<1>5. ToSet(<<>>) = {} /\ <<>> \in Seq(Names)
  BY DEF ToSet
<1>6. /\ Stamped \in Seq(Names)
      /\ Version = "2020" => ToSet(Stamped) = ToSet(MyRIAD)
      /\ Version # "2020" => ToSet(Stamped) = {}
  BY <1>5, Parts DEF Stamped
<1>7. \A x \in {"v830", "zero", "offset"} : x \notin Modules
  BY <1>4, <1>6, Parts DEF Modules, Nums
<1>8. ModulesRight
  BY <1>4, <1>7 DEF ModulesRight, Modules, Nums
<1>9. /\ V \o Tdcs \o Madcs \in Seq(Names)
      /\ ToSet(V \o Tdcs \o Madcs) = {"v830"} \cup ToSet(Tdcs) \cup ToSet(Madcs)
  <2>1. Tdcs \in Seq(Names) /\ Madcs \in Seq(Names)
    BY Parts
  <2>. QED BY <1>1, <2>1, ToSetThree
<1>10. Pass \in Seq(Names) /\ ToSet(Pass) = Modules \cup {"v830"}
  <2>1. CASE Version = "2020"
    <3>. DEFINE A == V \o Tdcs \o Madcs
    <3>1. A \in Seq(Names) /\ Mqdcs \in Seq(Names) /\ MyRIAD \in Seq(Names)
      BY <1>9, Parts
    <3>2. Pass = A \o Mqdcs \o MyRIAD
      BY <2>1 DEF Pass, read_data_2020, V
    <3>3. ToSet(A) = {"v830"} \cup ToSet(Tdcs) \cup ToSet(Madcs)
      BY <1>9
    <3>. HIDE DEF A
    <3>4. Pass \in Seq(Names) /\ ToSet(Pass) = ToSet(A) \cup ToSet(Mqdcs) \cup ToSet(MyRIAD)
      BY <3>1, <3>2, ToSetThree
    <3>. QED BY <1>4, <1>6, <2>1, <3>3, <3>4 DEF Modules, Nums
  <2>2. CASE Version # "2020"
    <3>1. Pass = V \o Tdcs \o Madcs
      BY <1>0, <2>2 DEF Pass, read_data_2016, read_data_e404, V
    <3>. QED BY <1>4, <1>6, <1>9, <2>2, <3>1 DEF Modules, Nums
  <2>. QED BY <2>1, <2>2
<1>11. PassRight
  BY <1>10, ToSetOf DEF PassRight
<1>12. WritesRight
  <2>. DEFINE B == Numbered \o V \o Stamped
  <2>1. B \in Seq(Names) /\ ToSet(B) = Nums \cup {"v830"} \cup ToSet(Stamped)
    BY <1>1, <1>4, <1>6, ToSetThree DEF Nums
  <2>2. reset_event_counters = B \o Z
    BY DEF reset_event_counters, clear_event_counters, V, Z
  <2>. HIDE DEF B
  <2>3. B \o Z \in Seq(Names) /\ ToSet(B \o Z) = ToSet(B) \cup {"zero"}
    BY <1>1, <2>1, ToSetConcat
  <2>4. ToSet(reset_event_counters) = Writes
    BY <2>1, <2>2, <2>3, <1>8 DEF Writes, ModulesRight
  <2>5. reset_event_counters \in Seq(Writes)
    BY <2>2, <2>3, <2>4, SeqOfSet
  <2>6. clear_event_counters \in Seq(Names) /\ ToSet(clear_event_counters) = Nums
    BY <1>4 DEF clear_event_counters, Nums
  <2>7. Nums \subseteq Writes
    BY <1>8 DEF Writes, ModulesRight
  <2>8. clear_event_counters \in Seq(Writes)
    BY <2>6, <2>7, SeqOfSet
  <2>. QED BY <2>4, <2>5, <2>6, <2>8 DEF WritesRight
<1>. QED BY <1>0, <1>8, <1>11, <1>12 DEF CrateRight

-----------------------------------------------------------------------------
(* Types *)

Blocks ==
    [type : Modules, counter : Nat, ev : Seq(Event) \ {<<>>}] \cup
    [type : {"v830"}, counter : Nat, ev : Seq(Nat)] \cup
    [type : {"offset"}, counter : Nat, ev : {<<v>> : v \in Nat}]

TypedHw ==
    /\ inhibit \in BOOLEAN /\ latch \in BOOLEAN
    /\ ctr \in [Modules -> Nat] /\ fifo \in [Modules -> Seq(Event)]
    /\ hits \in Nat /\ meb \in Seq(Nat) /\ triggers \in Nat

TypedProg ==
    /\ pc \in {"loop", "accept", "release", "read", "pass", "clear", "idle", "lost", "end"}
    /\ k \in 1 .. Len(Pass) + 1 /\ nd \in 0 .. k - 1 /\ val \in BOOLEAN
    /\ scaler \in Nat /\ blk \in Nat /\ work \in Seq(Writes) /\ hwork \in Seq(Writes)
    /\ periods \in Nat /\ hups \in Nat

TypedNet ==
    /\ sd \in {0, 3} /\ stdin \in {"null", "shut", "client"} /\ peer \in {"none", "up", "gone"}
    /\ sink \in Seq(Blocks) /\ local \in Seq(Blocks) /\ mark \in 0 .. Len(sink) /\ conns \in Nat

Typed == crate \in Crates /\ TypedHw /\ TypedProg /\ TypedNet

\* The crate stays, and with it all that depends on it.
Rigid ==
    /\ crate' = crate /\ Modules' = Modules /\ Nums' = Nums /\ Pass' = Pass /\ Writes' = Writes
    /\ Blocks' = Blocks /\ Net' = Net /\ Version' = Version
    /\ ToSet(Tdcs)' = ToSet(Tdcs) /\ ToSet(Stamped)' = ToSet(Stamped) /\ Tdcs' = Tdcs
    /\ Quiet' = Quiet /\ Undisturbed' = Undisturbed /\ Counting' = Counting

\* What is defined by the crate alone does not change when the crate does not.
LEMMA IsRigid == ASSUME crate' = crate PROVE Rigid
<1>1. /\ Tdcs' = Tdcs /\ Madcs' = Madcs /\ Mqdcs' = Mqdcs /\ MyRIAD' = MyRIAD
      /\ Net' = Net /\ Version' = Version
  BY DEF Tdcs, Madcs, Mqdcs, MyRIAD, Net, Version
<1>2. Numbered' = Numbered /\ Stamped' = Stamped /\ Pass' = Pass
  BY <1>1 DEF Numbered, Stamped, Pass, read_data_2020, read_data_2016, read_data_e404
<1>3. Modules' = Modules /\ Nums' = Nums /\ Writes' = Writes
  BY <1>2 DEF Modules, Nums, Writes
<1>4. Blocks' = Blocks
  BY <1>3 DEF Blocks
<1>5. ToSet(Tdcs)' = ToSet(Tdcs) /\ ToSet(Stamped)' = ToSet(Stamped)
  BY <1>1, <1>2
<1>6. Quiet' = Quiet
  BY DEF Quiet
<1>7. Undisturbed' = Undisturbed
  BY <1>1, <1>3, <1>5, <1>6 DEF Undisturbed, Nums
<1>8. Counting' = Counting
  BY <1>1 DEF Counting
<1>. QED BY <1>1, <1>2, <1>3, <1>4, <1>5, <1>6, <1>7, <1>8 DEF Rigid

\* No step changes the crate.
LEMMA CrateStays == ASSUME [VmeNext]_crateVars PROVE crate' = crate
BY DEF VmeNext, crateVars, Trigger, Program, accept_connection, PeerFails, DiskFreed, sighup,
       HandlerWrite, MainWrite, periodic_clear, Release, ReadV977, ReadModule, EndPass,
       ClearV977, KeepAlive, Lost, Main

\* What a write to a register does, module by module.
Written(r) ==
    /\ \A m \in Modules :
         /\ fifo'[m] = IF m = r /\ m \in ToSet(Tdcs) \cup ToSet(Stamped) THEN <<>> ELSE fifo[m]
         /\ ctr'[m] = IF m = r /\ m \in Nums THEN 0 ELSE ctr[m]
    /\ hits' = (IF r = "v830" THEN 0 ELSE hits) /\ meb' = (IF r = "v830" THEN <<>> ELSE meb)
    /\ scaler' = (IF r = "v830" THEN 0 ELSE scaler) /\ blk' = IF r = "zero" THEN 0 ELSE blk

\* It is what RegisterWrite does.
LEMMA RegisterWritten ==
    ASSUME Typed, NEW r, RegisterWrite(r)
    PROVE  /\ Written(r)
           /\ fifo' \in [Modules -> Seq(Event)] /\ ctr' \in [Modules -> Nat]
           /\ hits' \in Nat /\ meb' \in Seq(Nat) /\ scaler' \in Nat /\ blk' \in Nat
<1>0. /\ fifo \in [Modules -> Seq(Event)] /\ ctr \in [Modules -> Nat] /\ hits \in Nat
      /\ meb \in Seq(Nat) /\ scaler \in Nat /\ blk \in Nat
  BY DEF Typed, TypedHw, TypedProg
<1>1. ToSet(Tdcs) \cup ToSet(Stamped) \subseteq Modules /\ Nums \subseteq Modules
  BY CrateIsRight DEF Typed, CrateRight, ModulesRight
<1>. DEFINE T == ToSet(Tdcs) \cup ToSet(Stamped)
<1>2. fifo' = IF r \in T THEN [fifo EXCEPT ![r] = <<>>] ELSE fifo
  BY DEF RegisterWrite
<1>3. ctr' = IF r \in Nums THEN [ctr EXCEPT ![r] = 0] ELSE ctr
  BY DEF RegisterWrite, Nums
<1>4. T \subseteq Modules /\ <<>> \in Seq(Event)
  BY <1>1
<1>. HIDE DEF T
<1>5. fifo' \in [Modules -> Seq(Event)]
  BY <1>0, <1>2, <1>4
<1>6. \A m \in Modules : fifo'[m] = IF m = r /\ m \in T THEN <<>> ELSE fifo[m]
  BY <1>0, <1>2, <1>4
<1>7. ctr' \in [Modules -> Nat] /\ \A m \in Modules : ctr'[m] = IF m = r /\ m \in Nums THEN 0 ELSE ctr[m]
  BY <1>0, <1>1, <1>3
<1>8. /\ hits' = (IF r = "v830" THEN 0 ELSE hits) /\ meb' = (IF r = "v830" THEN <<>> ELSE meb)
      /\ scaler' = (IF r = "v830" THEN 0 ELSE scaler) /\ blk' = IF r = "zero" THEN 0 ELSE blk
  BY DEF RegisterWrite
<1>9. hits' \in Nat /\ meb' \in Seq(Nat) /\ scaler' \in Nat /\ blk' \in Nat
  BY <1>0, <1>8
<1>. QED BY <1>5, <1>6, <1>7, <1>8, <1>9 DEF Written, T

\* What a trigger does, module by module.
Triggered ==
    /\ ~inhibit /\ ~latch /\ hits' = hits + 1 /\ meb' = Append(meb, hits + 1)
    /\ \A m \in Modules :
         fifo'[m] = Append(fifo[m], [n |-> ctr[m], g |-> hits]) /\ ctr'[m] = ctr[m] + 1

\* It is what Trigger does.
LEMMA TriggerDone ==
    ASSUME Typed, Trigger
    PROVE  /\ Triggered
           /\ fifo' \in [Modules -> Seq(Event)] /\ ctr' \in [Modules -> Nat]
           /\ hits' \in Nat /\ meb' \in Seq(Nat) /\ latch' \in BOOLEAN /\ triggers' \in Nat
<1>0. /\ fifo \in [Modules -> Seq(Event)] /\ ctr \in [Modules -> Nat] /\ hits \in Nat
      /\ meb \in Seq(Nat) /\ triggers \in Nat
  BY DEF Typed, TypedHw
<1>1. /\ fifo' = [m \in Modules |-> Append(fifo[m], [n |-> ctr[m], g |-> hits])]
      /\ ctr' = [m \in Modules |-> ctr[m] + 1]
      /\ ~inhibit /\ ~latch /\ hits' = hits + 1 /\ meb' = Append(meb, hits + 1)
      /\ triggers' = triggers + 1
  BY DEF Trigger
<1>2. latch' \in BOOLEAN
  BY DEF Trigger
<1>3. ASSUME NEW m \in Modules PROVE Append(fifo[m], [n |-> ctr[m], g |-> hits]) \in Seq(Event)
  <2>1. [n |-> ctr[m], g |-> hits] \in Event
    BY <1>0, <1>3 DEF Event
  <2>2. fifo[m] \in Seq(Event)
    BY <1>0, <1>3
  <2>. QED BY <2>1, <2>2
<1>4. fifo' \in [Modules -> Seq(Event)]
  BY <1>1, <1>3
<1>5. ctr' \in [Modules -> Nat] /\ hits' \in Nat /\ triggers' \in Nat
  BY <1>0, <1>1
<1>6. meb' \in Seq(Nat)
  BY <1>0, <1>1
<1>7. Triggered
  BY <1>1 DEF Triggered
<1>. QED BY <1>2, <1>4, <1>5, <1>6, <1>7

\* Where a block goes: to the client or the file, or to fd although there is -n.
Sent(b)  == sink' = Append(sink, b) /\ local' = local /\ peer = "up" /\ (Net => sd # 0)
Stray(b) == sink' = sink /\ local' = Append(local, b) /\ Net /\ sd = 0
Kept     == sink' = sink /\ local' = local

\* Where write_data writes, and when it fails.
LEMMA Output ==
    ASSUME NEW b
    PROVE  (write_data(b) => Sent(b) \/ Stray(b)) /\ (WriteFails => peer # "up")
BY DEF write_data, WriteFails, CanSend, Sent, Stray

\* What the read of a module does.
Drained(m) ==
    IF m = "v830" THEN meb' = <<>> /\ scaler' = v830_scalers /\ fifo' = fifo
                  ELSE /\ \A x \in Modules : fifo'[x] = IF x = m THEN <<>> ELSE fifo[x]
                       /\ meb' = meb /\ scaler' = scaler

ReadDone(m) ==
    \/ Block(m).ev = <<>> /\ k' = k + 1 /\ pc' = pc /\ nd' = nd /\ blk' = blk /\ Kept
    \/ /\ Block(m).ev # <<>> /\ k' = k + 1 /\ pc' = pc /\ nd' = nd + 1 /\ blk' = blk + 1
       /\ Sent(Block(m)) \/ Stray(Block(m))
    \/ /\ Block(m).ev # <<>> /\ k' = k /\ pc' = "lost" /\ nd' = nd /\ blk' = blk + 1
       /\ Kept /\ peer # "up"

ReadRest ==
    /\ k \in 1 .. Len(Pass) /\ pc = "pass" /\ hwork = <<>>
    /\ UNCHANGED <<crate, hwork, hups, inhibit, latch, ctr, hits, triggers, val, work, sd, stdin,
                   peer, conns, mark, periods>>

\* It is what ReadModule does.
LEMMA ModuleRead ==
    ASSUME Typed, ReadModule
    PROVE  /\ Pass[k] \in Modules \cup {"v830"}
           /\ Block(Pass[k]).ev # <<>> => Block(Pass[k]) \in Blocks
           /\ Drained(Pass[k]) /\ ReadDone(Pass[k]) /\ ReadRest
           /\ fifo' \in [Modules -> Seq(Event)] /\ meb' \in Seq(Nat) /\ scaler' \in Nat
<1>0. /\ fifo \in [Modules -> Seq(Event)] /\ meb \in Seq(Nat) /\ scaler \in Nat /\ blk \in Nat
      /\ k \in 1 .. Len(Pass) + 1
  BY DEF Typed, TypedHw, TypedProg
<1>1. CrateRight
  BY CrateIsRight DEF Typed
<1>2. ReadRest
  BY <1>0, <1>1 DEF ReadModule, Main, ReadRest, CrateRight, PassRight
<1>3. Pass[k] \in Modules \cup {"v830"} /\ "v830" \notin Modules
  BY <1>1, <1>2 DEF CrateRight, PassRight, ModulesRight, ReadRest
<1>4. PICK m \in Modules \cup {"v830"} : m = Pass[k]
  BY <1>3
<1>5. /\ (Block(m).ev # <<>> => Block(m) \in Blocks) /\ Drained(m)
      /\ fifo' \in [Modules -> Seq(Event)] /\ meb' \in Seq(Nat) /\ scaler' \in Nat
  <2>1. CASE m = "v830"
    <3>1. Block(m) = [type |-> "v830", counter |-> blk, ev |-> meb]
      BY <1>1, <2>1 DEF Block, v830_check_data, CrateRight, ModulesRight
    <3>2. Block(m) \in Blocks
      BY <1>0, <3>1 DEF Blocks
    <3>3. meb' = <<>> /\ scaler' = v830_scalers /\ fifo' = fifo
      BY <1>4, <2>1 DEF ReadModule
    <3>4. v830_scalers \in Nat
      BY <1>0 DEF v830_scalers, Last
    <3>. QED BY <1>0, <2>1, <3>2, <3>3, <3>4 DEF Drained
  <2>2. CASE m # "v830"
    <3>1. m \in Modules
      BY <2>2
    <3>2. PICK e \in Seq(Event) : Block(m) = [type |-> m, counter |-> blk, ev |-> e]
      <4>1. fifo[m] \in Seq(Event) /\ <<>> \in Seq(Event)
        BY <1>0, <3>1
      <4>2. CASE m \in ToSet(Tdcs)
        BY <2>2, <4>1, <4>2 DEF Block, v1190_check_data
      <4>3. CASE m \notin ToSet(Tdcs)
        BY <2>2, <4>1, <4>3 DEF Block, adc_check_data
      <4>. QED BY <4>2, <4>3
    <3>3. Block(m).ev # <<>> => Block(m) \in Blocks
      BY <1>0, <3>1, <3>2 DEF Blocks
    <3>4. fifo' = [fifo EXCEPT ![m] = <<>>] /\ meb' = meb /\ scaler' = scaler
      BY <1>4, <2>2 DEF ReadModule
    <3>5. fifo' \in [Modules -> Seq(Event)]
          /\ \A x \in Modules : fifo'[x] = IF x = m THEN <<>> ELSE fifo[x]
      BY <1>0, <3>1, <3>4
    <3>. QED BY <1>0, <2>2, <3>3, <3>4, <3>5 DEF Drained
  <2>. QED BY <2>1, <2>2
<1>6. ReadDone(m)
  <2>1. CASE Block(m).ev = <<>>
    BY <1>4, <2>1 DEF ReadModule, ReadDone, Kept
  <2>2. CASE Block(m).ev # <<>>
    <3>1. /\ blk' = blk + 1
          /\ \/ write_data(Block(m)) /\ nd' = nd + 1 /\ k' = k + 1 /\ pc' = pc
             \/ WriteFails /\ pc' = "lost" /\ nd' = nd /\ k' = k /\ sink' = sink /\ local' = local
      BY <1>4, <2>2 DEF ReadModule
    <3>. QED BY <2>2, <3>1, Output DEF ReadDone, Kept
  <2>. QED BY <2>1, <2>2
<1>. QED BY <1>2, <1>3, <1>4, <1>5, <1>6

\* What the end of a pass does.
Offset == [type |-> "offset", counter |-> blk, ev |-> <<scaler>>]

OffsetDone ==
    /\ nd = 0 /\ val /\ pc' = "clear" /\ work' = clear_event_counters
    /\ blk' = IF OffsetHeader THEN blk + 1 ELSE blk
    /\ \/ Sent(Offset) /\ mark' = mark /\ OffsetHeader
       \/ Stray(Offset) /\ mark' = mark
       \/ Kept /\ peer # "up" /\ mark' = Len(sink)
       \/ Kept /\ sd = 0 /\ Version # "2020" /\ mark' = mark

EndDone ==
    \/ pc' \in {"loop", "idle"} /\ UNCHANGED <<work, blk, sink, local, mark>>
    \/ OffsetDone

EndRest ==
    /\ k > Len(Pass) /\ pc = "pass" /\ hwork = <<>>
    /\ UNCHANGED <<crate, hwork, hups, hwVars, k, val, nd, scaler, sd, stdin, peer, conns, periods>>

\* It is what EndPass does.
LEMMA PassEnded == ASSUME Typed, EndPass PROVE EndDone /\ EndRest /\ Offset \in Blocks
<1>1. EndRest
  BY DEF EndPass, EndRest, Main
<1>2. Offset \in Blocks
  <2>1. scaler \in Nat /\ blk \in Nat
    BY DEF Typed, TypedProg
  <2>. QED BY <2>1 DEF Offset, Blocks
<1>3. EndDone
  <2>1. CASE nd > 0 /\ pc' = "loop" /\ UNCHANGED <<work, blk, sink, local, mark>>
    BY <2>1 DEF EndDone
  <2>2. CASE nd = 0 /\ ~val /\ pc' = "idle" /\ UNCHANGED <<work, blk, sink, local, mark>>
    BY <2>2 DEF EndDone
  <2>3. CASE /\ nd = 0 /\ val /\ pc' = "clear" /\ work' = clear_event_counters
             /\ blk' = IF OffsetHeader THEN blk + 1 ELSE blk
             /\ CASE Version = "2020" -> send_counter_offset(Offset)
                  [] Version = "2016" -> send_counter_offset_2016(Offset)
                  [] Version = "e404" -> send_counter_offset_e404(Offset)
    <3>1. Version \in {"2020", "2016", "e404"}
      BY CrateIsRight DEF Typed, CrateRight, OptionsRight
    <3>2. send_counter_offset(Offset) =>
            \/ (Sent(Offset) \/ Stray(Offset)) /\ mark' = mark
            \/ Kept /\ peer # "up" /\ mark' = Len(sink)
      BY Output DEF send_counter_offset, Kept
    <3>3. CASE Version = "2020"
      <4>1. send_counter_offset(Offset) /\ OffsetHeader
        BY <2>3, <3>3 DEF OffsetHeader
      <4>. QED BY <2>3, <3>2, <4>1 DEF EndDone, OffsetDone
    <3>4. CASE Version # "2020"
      <4>1. IF sd # 0 THEN send_counter_offset(Offset) ELSE UNCHANGED <<sink, local, mark>>
        BY <2>3, <3>1, <3>4 DEF send_counter_offset_2016, send_counter_offset_e404
      <4>2. CASE sd # 0
        BY <2>3, <3>2, <4>1, <4>2 DEF EndDone, OffsetDone, OffsetHeader
      <4>3. CASE sd = 0
        BY <2>3, <3>4, <4>1, <4>3 DEF EndDone, OffsetDone, Kept
      <4>. QED BY <4>2, <4>3
    <3>. QED BY <3>3, <3>4
  <2>. QED BY <2>1, <2>2, <2>3 DEF EndPass, Offset
<1>. QED BY <1>1, <1>2, <1>3

\* The types hold at the start.
LEMMA TypedInit == ASSUME VmeInit PROVE Typed
<1>0. crate \in Crates /\ CrateRight
  BY CrateIsRight DEF VmeInit
<1>1. TypedHw
  BY <1>0 DEF VmeInit, TypedHw, CrateRight, OptionsRight
<1>2. TypedProg
  <2>1. Len(Pass) \in Nat
    BY <1>0 DEF CrateRight, PassRight
  <2>2. k \in 1 .. Len(Pass) + 1 /\ nd \in 0 .. k - 1
    BY <2>1 DEF VmeInit
  <2>3. work \in Seq(Writes) /\ hwork \in Seq(Writes)
    BY DEF VmeInit
  <2>4. /\ pc = "loop" /\ val \in BOOLEAN /\ scaler \in Nat /\ blk \in Nat
        /\ periods \in Nat /\ hups \in Nat
    BY DEF VmeInit
  <2>. QED BY <2>2, <2>3, <2>4 DEF TypedProg
<1>3. TypedNet
  BY DEF VmeInit, TypedNet
<1>. QED BY <1>0, <1>1, <1>2, <1>3 DEF Typed

\* And a step keeps them: the hardware,
LEMMA TypedHwStep == ASSUME Typed, [VmeNext]_crateVars PROVE TypedHw'
<1>0. Rigid /\ TypedHw
  BY IsRigid, CrateStays DEF Typed
<1>1. CASE Trigger
  BY <1>0, <1>1, TriggerDone DEF TypedHw, Rigid, Trigger
<1>2. CASE MainWrite
  BY <1>0, <1>2, RegisterWritten DEF TypedHw, Rigid, MainWrite
<1>3. CASE HandlerWrite
  BY <1>0, <1>3, RegisterWritten DEF TypedHw, Rigid, HandlerWrite
<1>4. CASE ReadModule
  BY <1>0, <1>4, ModuleRead DEF TypedHw, Rigid, ReadRest
<1>5. CASE periodic_clear
  BY <1>0, <1>5 DEF TypedHw, Rigid, periodic_clear
<1>6. CASE Release
  BY <1>0, <1>6 DEF TypedHw, Rigid, Release
<1>7. CASE ClearV977
  BY <1>0, <1>7 DEF TypedHw, Rigid, ClearV977
<1>8. CASE Lost
  BY <1>0, <1>8 DEF TypedHw, Rigid, Lost
<1>9. CASE UNCHANGED hwVars
  BY <1>0, <1>9 DEF TypedHw, Rigid, hwVars
<1>. QED BY <1>1, <1>2, <1>3, <1>4, <1>5, <1>6, <1>7, <1>8, <1>9
         DEF VmeNext, crateVars, Program, accept_connection, PeerFails, DiskFreed, sighup,
             ReadV977, EndPass, KeepAlive

\* the program,
LEMMA TypedProgStep == ASSUME Typed, [VmeNext]_crateVars PROVE TypedProg'
<1>0. Rigid /\ TypedProg /\ CrateRight
  BY IsRigid, CrateStays, CrateIsRight DEF Typed
<1>1. CASE MainWrite
  <2>1. work # <<>> /\ work' = Tail(work) /\ UNCHANGED <<pc, k, val, nd, hwork, hups, periods>>
    BY <1>1 DEF MainWrite, Main
  <2>2. work' \in Seq(Writes)
    BY <1>0, <2>1 DEF TypedProg
  <2>3. scaler' \in Nat /\ blk' \in Nat
    BY <1>1, RegisterWritten DEF MainWrite
  <2>. QED BY <1>0, <2>1, <2>2, <2>3 DEF TypedProg, Rigid
<1>2. CASE HandlerWrite
  <2>1. hwork # <<>> /\ hwork' = Tail(hwork) /\ UNCHANGED <<pc, k, val, nd, work, hups, periods>>
    BY <1>2 DEF HandlerWrite
  <2>2. hwork' \in Seq(Writes)
    BY <1>0, <2>1 DEF TypedProg
  <2>3. scaler' \in Nat /\ blk' \in Nat
    BY <1>2, RegisterWritten DEF HandlerWrite
  <2>. QED BY <1>0, <2>1, <2>2, <2>3 DEF TypedProg, Rigid
<1>3. CASE periodic_clear
  BY <1>0, <1>3 DEF TypedProg, Rigid, periodic_clear, Main
<1>4. CASE accept_connection
  BY <1>0, <1>4 DEF TypedProg, Rigid, accept_connection, Main, CrateRight, WritesRight
<1>5. CASE ReadV977
  BY <1>0, <1>5 DEF TypedProg, Rigid, ReadV977, Main, CrateRight, PassRight, Typed, TypedHw
<1>6. CASE ReadModule
  <2>1. ReadDone(Pass[k]) /\ ReadRest /\ scaler' \in Nat
    BY <1>6, ModuleRead
  <2>2. k' \in 1 .. Len(Pass) + 1 /\ nd' \in 0 .. k' - 1
    <3>1. k \in 1 .. Len(Pass) /\ nd \in 0 .. k - 1 /\ Len(Pass) \in Nat
      BY <1>0, <2>1 DEF ReadRest, TypedProg, CrateRight, PassRight
    <3>2. k' \in {k, k + 1} /\ (nd' = nd \/ (nd' = nd + 1 /\ k' = k + 1))
      BY <2>1 DEF ReadDone
    <3>. QED BY <3>1, <3>2
  <2>3. blk' \in Nat /\ (pc' = pc \/ pc' = "lost")
    BY <1>0, <2>1 DEF ReadDone, TypedProg
  <2>. QED BY <1>0, <2>1, <2>2, <2>3 DEF TypedProg, Rigid, ReadRest
<1>7. CASE EndPass
  <2>1. EndDone /\ EndRest
    BY <1>7, PassEnded
  <2>2. work' \in Seq(Writes) /\ blk' \in Nat /\ pc' \in {"loop", "idle", "clear"}
    BY <1>0, <2>1 DEF EndDone, OffsetDone, TypedProg, CrateRight, WritesRight
  <2>. QED BY <1>0, <2>1, <2>2 DEF TypedProg, Rigid, EndRest
<1>8. CASE sighup
  BY <1>0, <1>8 DEF TypedProg, Rigid, sighup, progVars, CrateRight, WritesRight
<1>9. CASE Trigger \/ PeerFails \/ DiskFreed \/ UNCHANGED crateVars
  BY <1>0, <1>9 DEF TypedProg, Rigid, Trigger, PeerFails, DiskFreed, progVars, crateVars
<1>10. CASE Release \/ ClearV977 \/ KeepAlive \/ Lost
  BY <1>0, <1>10 DEF TypedProg, Rigid, Release, ClearV977, KeepAlive, Lost, Main
<1>. QED BY <1>1, <1>2, <1>3, <1>4, <1>5, <1>6, <1>7, <1>8, <1>9, <1>10 DEF VmeNext, Program

\* and the output.
LEMMA TypedNetStep == ASSUME Typed, [VmeNext]_crateVars PROVE TypedNet'
<1>0. Rigid /\ TypedNet /\ CrateRight
  BY IsRigid, CrateStays, CrateIsRight DEF Typed
<1>1. CASE ReadModule
  <2>1. ReadDone(Pass[k]) /\ ReadRest /\ (Block(Pass[k]).ev # <<>> => Block(Pass[k]) \in Blocks)
    BY <1>1, ModuleRead
  <2>2. Kept \/ \E b \in Blocks : Sent(b) \/ Stray(b)
    BY <2>1 DEF ReadDone
  <2>3. sink \in Seq(Blocks) /\ local \in Seq(Blocks)
    BY <1>0 DEF TypedNet
  <2>4. sink' \in Seq(Blocks) /\ local' \in Seq(Blocks) /\ Len(sink') >= Len(sink)
    <3>1. CASE Kept
      BY <2>3, <3>1 DEF Kept
    <3>2. ASSUME NEW b \in Blocks, Sent(b)
          PROVE  sink' \in Seq(Blocks) /\ local' \in Seq(Blocks) /\ Len(sink') >= Len(sink)
      BY <2>3, <3>2 DEF Sent
    <3>3. ASSUME NEW b \in Blocks, Stray(b)
          PROVE  sink' \in Seq(Blocks) /\ local' \in Seq(Blocks) /\ Len(sink') >= Len(sink)
      BY <2>3, <3>3 DEF Stray
    <3>. QED BY <2>2, <3>1, <3>2, <3>3
  <2>. QED BY <1>0, <2>1, <2>4 DEF TypedNet, Rigid, ReadRest
<1>2. CASE EndPass
  <2>1. EndDone /\ EndRest /\ Offset \in Blocks
    BY <1>2, PassEnded
  <2>2. \/ mark' \in {mark, Len(sink)} /\ Kept
        \/ mark' = mark /\ (Sent(Offset) \/ Stray(Offset))
    BY <2>1 DEF EndDone, OffsetDone, Kept
  <2>3. sink' \in Seq(Blocks) /\ local' \in Seq(Blocks) /\ mark' \in 0 .. Len(sink')
    <3>1. sink \in Seq(Blocks) /\ local \in Seq(Blocks) /\ mark \in 0 .. Len(sink) /\ Len(sink) \in Nat
      BY <1>0 DEF TypedNet
    <3>2. CASE Kept
      BY <2>2, <3>1, <3>2 DEF Kept, Sent, Stray
    <3>3. CASE Sent(Offset) /\ mark' = mark
      <4>1. sink' = Append(sink, Offset) /\ local' = local
        BY <3>3 DEF Sent
      <4>2. sink' \in Seq(Blocks) /\ Len(sink') = Len(sink) + 1
        BY <2>1, <3>1, <4>1
      <4>. QED BY <3>1, <3>3, <4>1, <4>2
    <3>4. CASE Stray(Offset) /\ mark' = mark
      <4>1. local' = Append(local, Offset) /\ sink' = sink
        BY <3>4 DEF Stray
      <4>2. local' \in Seq(Blocks)
        BY <2>1, <3>1, <4>1
      <4>. QED BY <3>1, <3>4, <4>1, <4>2
    <3>. QED BY <2>2, <3>2, <3>3, <3>4
  <2>. QED BY <1>0, <2>1, <2>3 DEF TypedNet, Rigid, EndRest
<1>3. CASE accept_connection
  <2>1. sink' \in Seq(Blocks) /\ mark' \in 0 .. Len(sink')
    <3>1. (sink' = <<>> /\ mark' = 0) \/ (sink' = sink /\ mark' = mark)
      BY <1>3 DEF accept_connection
    <3>2. CASE sink' = <<>> /\ mark' = 0
      <4>1. <<>> \in Seq(Blocks) /\ Len(<<>>) = 0
        OBVIOUS
      <4>. QED BY <3>2, <4>1
    <3>3. CASE sink' = sink /\ mark' = mark
      BY <1>0, <3>3 DEF TypedNet
    <3>. QED BY <3>1, <3>2, <3>3
  <2>2. sd' \in {0, 3} /\ stdin' \in {"null", "shut", "client"} /\ peer' \in {"none", "up", "gone"}
    BY <1>0, <1>3 DEF TypedNet, accept_connection
  <2>3. conns' \in Nat /\ local' = local
    BY <1>0, <1>3 DEF TypedNet, accept_connection
  <2>. QED BY <1>0, <2>1, <2>2, <2>3 DEF TypedNet, Rigid
<1>4. CASE HandlerWrite
  BY <1>0, <1>4 DEF TypedNet, Rigid, HandlerWrite
<1>5. CASE Lost
  BY <1>0, <1>5 DEF TypedNet, Rigid, Lost
<1>6. CASE PeerFails \/ DiskFreed
  BY <1>0, <1>6 DEF TypedNet, Rigid, PeerFails, DiskFreed
<1>7. CASE UNCHANGED netVars
  BY <1>0, <1>7 DEF TypedNet, Rigid, netVars
<1>. QED BY <1>1, <1>2, <1>3, <1>4, <1>5, <1>6, <1>7
         DEF VmeNext, crateVars, Program, Trigger, sighup, MainWrite, periodic_clear, Release,
             ReadV977, ClearV977, KeepAlive

\* Together:
LEMMA TypedStep == ASSUME Typed, [VmeNext]_crateVars PROVE Typed'
BY TypedHwStep, TypedProgStep, TypedNetStep, CrateStays DEF Typed

-----------------------------------------------------------------------------
(* The invariant *)

\* Where the program can be.
Controls ==
    /\ crate.MaxHups = 0 => hwork = <<>>
    /\ work # <<>> => pc \in {"release", "clear"}
    /\ pc = "clear" => val /\ ToSet(work) \subseteq Nums
    /\ val /\ pc \in {"pass", "clear"} => latch
    /\ ~Net => sd = 0 /\ pc \notin {"accept", "release"}
    /\ Net /\ conns = 0 => sd = 0 /\ pc \in {"loop", "accept"}
    /\ pc = "accept" => sd = 0
    /\ pc = "release" => sd = 0 \/ sink = <<>>

\* A pass that began with ALMOST_FULL and has read nothing has left the modules empty.
Emptied ==
    /\ pc = "pass" /\ val /\ nd = 0 =>
         \A i \in 1 .. k - 1 : IF Pass[i] = "v830" THEN meb = <<>> ELSE fifo[Pass[i]] = <<>>
    /\ pc = "clear" => meb = <<>> /\ \A m \in Modules : fifo[m] = <<>>

\* The V830 has counted what was read from it last, or what is in its buffer; with -n, from
\* the time when it was cleared for the first client.
Settled == Net => conns # 0 /\ (pc = "release" => "v830" \notin ToSet(work))
Scaled == Counting /\ Settled => hits = IF meb = <<>> THEN scaler ELSE Last(meb)

\* With -n the program waits for a client, the trigger inhibited, or has one.
Waiting ==
    Net /\ Quiet =>
        /\ stdin = "null" /\ local = <<>>
        /\ sd = 0 => inhibit /\ pc \in {"loop", "accept"}
        /\ conns = 0 => \A m \in Modules : fifo[m] = <<>>
        /\ pc = "release" => inhibit /\ sink = <<>> /\ ("zero" \notin ToSet(work) => blk = 0)

\* For a new client everything is cleared before the trigger is released.
Fresh ==
    pc = "release" /\ Undisturbed =>
        /\ "v830" \notin ToSet(work) => hits = 0 /\ meb = <<>>
        /\ \A m \in Modules : m \notin ToSet(work) =>
               fifo[m] = <<>> /\ (m \in Nums => ctr[m] = 0)
        /\ \A m \in Modules : m \notin ToSet(Tdcs) \cup ToSet(Stamped) => fifo[m] = <<>>

\* The offset in force is the right one.
Known ==
    \/ Undisturbed /\ peer = "up"
    \/ (Net => sd # 0) /\ \E o \in mark + 1 .. Len(sink) : sink[o].type = "offset"

\* Then offset v plus counter is the number of triggers, and what is stored is numbered right.
InStep(m, v) ==
    /\ pc \notin {"release", "clear"} =>
         hits = v + ctr[m] /\ \A j \in DOMAIN fifo[m] : v + fifo[m][j].n = fifo[m][j].g
    /\ pc = "clear" => hits = v /\ (m \notin ToSet(work) => ctr[m] = 0)

Numbers ==
    Counting /\ Known => \A o \in 0 .. Len(sink) : Latest(sink, o, "offset", Len(sink) + 1) =>
        \A m \in Nums : InStep(m, OffsetOf(sink, o))

\* The block counter is the number of blocks, as long as they arrive.
Counted == Quiet /\ peer = "up" /\ pc # "release" => blk = Len(sink)

\* The older copies write no offset to a file.
NoOffsets == ~Net /\ Version # "2020" => \A i \in DOMAIN sink : sink[i].type # "offset"

\* What a module stores follows what it has delivered.
Following(m, v) ==
    hits = v + Len(fifo[m]) /\ \A j \in DOMAIN fifo[m] : fifo[m][j].g = v + j - 1

Dues ==
    Undisturbed /\ Counting /\ (crate.Dma => Tdcs = <<>>) /\ peer = "up" /\ pc # "release" =>
        \A m \in Modules, o \in 0 .. Len(sink) : Latest(sink, o, m, Len(sink) + 1) =>
            Following(m, DueAfter(sink, o))

\* A module has a last block, or none.
Lasts == \A m \in Modules : \E o \in 0 .. Len(sink) : Latest(sink, o, m, Len(sink) + 1)

VmeInv ==
    /\ Typed /\ Controls /\ Emptied /\ Scaled /\ Waiting /\ Fresh /\ Numbers /\ Counted
    /\ NoOffsets /\ Lasts /\ Dues /\ EventNumber /\ BlockNumbers /\ Complete

-----------------------------------------------------------------------------
(* Where the program can be *)

\* ALMOST_FULL stays set from the beginning of a pass that saw it until it is cleared; with -n
\* there is a first client before anything is read.
LEMMA ControlsStep == ASSUME Typed, Controls, [VmeNext]_crateVars PROVE Controls'
<1>0. Rigid /\ CrateRight
  BY IsRigid, CrateStays, CrateIsRight DEF Typed
<1>1. CASE Trigger
  <2>1. ~latch /\ UNCHANGED <<pc, val, work, hwork, sd, conns, sink>>
    BY <1>1 DEF Trigger, progVars, netVars
  <2>. QED BY <1>0, <2>1 DEF Controls, Rigid
<1>2. CASE MainWrite
  <2>1. work # <<>> /\ work' = Tail(work) /\ UNCHANGED <<pc, val, latch, hwork, sd, conns, sink>>
    BY <1>2 DEF MainWrite, Main, netVars
  <2>2. ToSet(work') \subseteq ToSet(work)
    BY <2>1, ToSetTail DEF Typed, TypedProg
  <2>. QED BY <1>0, <2>1, <2>2 DEF Controls, Rigid
<1>3. CASE HandlerWrite
  <2>1. hwork # <<>> /\ UNCHANGED <<pc, val, latch, work, sd, conns, sink>>
    BY <1>3 DEF HandlerWrite
  <2>. QED BY <1>0, <2>1 DEF Controls, Rigid
<1>4. CASE sighup
  <2>1. crate.MaxHups # 0 /\ UNCHANGED <<pc, val, latch, work, sd, conns, sink>>
    BY <1>4 DEF sighup, hwVars, progVars, netVars, Typed, TypedProg
  <2>. QED BY <1>0, <2>1 DEF Controls, Rigid
<1>5. CASE accept_connection
  <2>1. /\ pc = "accept" /\ pc' = "release" /\ conns' # 0 /\ hwork' = hwork
        /\ (sink' = <<>> \/ sd' = sd) /\ val' = val /\ latch' = latch
    BY <1>5 DEF accept_connection, Main, hwVars, Typed, TypedNet
  <2>2. Net
    BY <2>1 DEF Controls
  <2>. QED BY <1>0, <2>1, <2>2 DEF Controls, Rigid
<1>6. CASE ReadModule
  <2>1. ReadDone(Pass[k]) /\ ReadRest
    BY <1>6, ModuleRead
  <2>2. pc' \in {"pass", "lost"} /\ UNCHANGED <<val, latch, work, hwork, sd, conns>>
    BY <2>1 DEF ReadDone, ReadRest
  <2>. QED BY <1>0, <2>1, <2>2 DEF Controls, Rigid, ReadRest
<1>7. CASE EndPass
  <2>1. EndDone /\ EndRest
    BY <1>7, PassEnded
  <2>2. pc = "pass" /\ UNCHANGED <<val, latch, hwork, sd, conns>>
    BY <2>1 DEF EndRest, hwVars
  <2>3. CASE pc' \in {"loop", "idle"} /\ work' = work
    <3>1. Net => conns # 0
      BY <2>2 DEF Controls
    <3>. QED BY <1>0, <2>2, <2>3, <3>1 DEF Controls, Rigid
  <2>4. CASE OffsetDone
    <3>1. pc' = "clear" /\ val /\ ToSet(work') = Nums
      BY <1>0, <2>4 DEF OffsetDone, CrateRight, WritesRight
    <3>. QED BY <1>0, <2>2, <3>1 DEF Controls, Rigid
  <2>. QED BY <2>1, <2>3, <2>4 DEF EndDone
<1>8. CASE periodic_clear
  <2>1. /\ pc = "loop" /\ pc' = (IF Net /\ sd = 0 THEN "accept" ELSE "read") /\ work = <<>>
        /\ UNCHANGED <<val, work, hwork, sd, conns, sink>>
    BY <1>8 DEF periodic_clear, Main, netVars
  <2>. QED BY <1>0, <2>1 DEF Controls, Rigid
<1>9. CASE Lost
  <2>1. /\ pc = "lost" /\ pc' = (IF Net THEN "loop" ELSE "end") /\ sd' = 0
        /\ UNCHANGED <<val, latch, work, hwork, conns, sink>>
    BY <1>9 DEF Lost, Main
  <2>. QED BY <1>0, <2>1 DEF Controls, Rigid
<1>10. CASE ReadV977
  <2>1. /\ pc = "read" /\ pc' = "pass" /\ val' = latch
        /\ UNCHANGED <<latch, work, hwork, sd, conns, sink>>
    BY <1>10 DEF ReadV977, Main, hwVars, netVars
  <2>. QED BY <1>0, <2>1 DEF Controls, Rigid
<1>11. CASE Release \/ ClearV977 \/ KeepAlive
  <2>1. /\ pc \in {"release", "clear", "idle"} /\ pc' \in {"read", "idle", "loop", "lost"}
        /\ pc \in {"release", "clear"} => work = <<>>
        /\ UNCHANGED <<val, work, hwork, sd, conns, sink>>
    BY <1>11 DEF Release, ClearV977, KeepAlive, Main, netVars
  <2>2. work = <<>>
    BY <2>1 DEF Controls
  <2>. QED BY <1>0, <2>1, <2>2 DEF Controls, Rigid
<1>12. CASE PeerFails \/ DiskFreed \/ UNCHANGED crateVars
  <2>1. UNCHANGED <<pc, val, latch, work, hwork, sd, conns, sink>>
    BY <1>12 DEF PeerFails, DiskFreed, crateVars, hwVars, progVars, netVars
  <2>. QED BY <1>0, <2>1 DEF Controls, Rigid
<1>. QED BY <1>1, <1>2, <1>3, <1>4, <1>5, <1>6, <1>7, <1>8, <1>9, <1>10, <1>11, <1>12
         DEF VmeNext, Program

-----------------------------------------------------------------------------
(* The modules are empty when the counters are cleared *)

\* While ALMOST_FULL is set no trigger comes, so what was found empty stays empty.
LEMMA EmptiedStep == ASSUME Typed, Controls, Emptied, [VmeNext]_crateVars PROVE Emptied'
<1>0. Rigid /\ CrateRight
  BY IsRigid, CrateStays, CrateIsRight DEF Typed
<1>1. ASSUME UNCHANGED <<pc, val, nd, k>>, meb' = meb \/ meb' = <<>>,
             \A m \in Modules : fifo'[m] = fifo[m] \/ fifo'[m] = <<>>
      PROVE  Emptied'
  <2>1. ASSUME pc' = "pass", val', nd' = 0, NEW i \in 1 .. k - 1
        PROVE  IF Pass[i] = "v830" THEN meb' = <<>> ELSE fifo'[Pass[i]] = <<>>
    <3>1. i \in 1 .. Len(Pass)
      BY <1>0, <2>1 DEF Typed, TypedProg, CrateRight, PassRight
    <3>2. Pass[i] \in Modules \cup {"v830"}
      BY <1>0, <3>1 DEF CrateRight, PassRight
    <3>3. IF Pass[i] = "v830" THEN meb = <<>> ELSE fifo[Pass[i]] = <<>>
      BY <1>1, <2>1 DEF Emptied
    <3>. QED BY <1>1, <3>2, <3>3
  <2>2. ASSUME pc' = "clear" PROVE meb' = <<>> /\ \A m \in Modules : fifo'[m] = <<>>
    BY <1>1, <2>2 DEF Emptied
  <2>. QED BY <1>0, <1>1, <2>1, <2>2 DEF Emptied, Rigid
<1>2. ASSUME pc' \notin {"pass", "clear"} PROVE Emptied'
  BY <1>2 DEF Emptied
<1>3. CASE Trigger
  <2>1. ~latch /\ pc' = pc /\ val' = val
    BY <1>3 DEF Trigger, progVars
  <2>. QED BY <2>1 DEF Emptied, Controls
<1>4. CASE MainWrite
  <2>1. RegisterWrite(Head(work)) /\ UNCHANGED <<pc, val, nd, k>>
    BY <1>4 DEF MainWrite
  <2>2. Written(Head(work))
    BY <2>1, RegisterWritten
  <2>. QED BY <1>1, <2>1, <2>2 DEF Written
<1>5. CASE HandlerWrite
  <2>1. RegisterWrite(Head(hwork)) /\ UNCHANGED <<pc, val, nd, k>>
    BY <1>5 DEF HandlerWrite
  <2>2. Written(Head(hwork))
    BY <2>1, RegisterWritten
  <2>. QED BY <1>1, <2>1, <2>2 DEF Written
<1>6. CASE ReadV977
  <2>1. pc' = "pass" /\ k' = 1
    BY <1>6 DEF ReadV977
  <2>. QED BY <2>1 DEF Emptied
<1>7. CASE ReadModule
  <2>1. Pass[k] \in Modules \cup {"v830"} /\ Drained(Pass[k]) /\ ReadDone(Pass[k]) /\ ReadRest
    BY <1>7, ModuleRead
  <2>2. nd \in Nat /\ k \in Nat
    BY DEF Typed, TypedProg
  <2>3. ASSUME pc' = "pass", val', nd' = 0, NEW i \in 1 .. k' - 1
        PROVE  IF Pass[i] = "v830" THEN meb' = <<>> ELSE fifo'[Pass[i]] = <<>>
    <3>1. k' = k + 1 /\ nd = 0 /\ val /\ pc = "pass" /\ k \in 1 .. Len(Pass)
      BY <2>1, <2>2, <2>3 DEF ReadDone, ReadRest
    <3>2. CASE i = k
      BY <2>1, <3>2 DEF Drained
    <3>3. CASE i # k
      <4>1. i \in 1 .. k - 1 /\ i \in 1 .. Len(Pass)
        BY <2>2, <2>3, <3>1, <3>3
      <4>2. Pass[i] \in Modules \cup {"v830"}
        BY <1>0, <4>1 DEF CrateRight, PassRight
      <4>3. IF Pass[i] = "v830" THEN meb = <<>> ELSE fifo[Pass[i]] = <<>>
        BY <3>1, <4>1 DEF Emptied
      <4>. QED BY <2>1, <4>2, <4>3 DEF Drained
    <3>. QED BY <3>2, <3>3
  <2>4. pc' # "clear"
    BY <2>1 DEF ReadDone, ReadRest
  <2>. QED BY <1>0, <2>3, <2>4 DEF Emptied, Rigid
<1>8. CASE EndPass
  <2>1. EndDone /\ EndRest
    BY <1>8, PassEnded
  <2>2. UNCHANGED <<meb, fifo>> /\ k > Len(Pass) /\ pc = "pass" /\ k \in Nat
    BY <2>1 DEF EndRest, hwVars, Typed, TypedProg
  <2>3. CASE OffsetDone
    <3>1. pc' = "clear" /\ nd = 0 /\ val
      BY <2>3 DEF OffsetDone
    <3>2. \A i \in 1 .. Len(Pass) : IF Pass[i] = "v830" THEN meb = <<>> ELSE fifo[Pass[i]] = <<>>
      BY <1>0, <2>2, <3>1 DEF Emptied, CrateRight, PassRight
    <3>3. meb = <<>>
      BY <1>0, <3>2 DEF CrateRight, PassRight
    <3>4. \A m \in Modules : fifo[m] = <<>>
      BY <1>0, <3>2 DEF CrateRight, PassRight, ModulesRight
    <3>. QED BY <1>0, <2>2, <3>1, <3>3, <3>4 DEF Emptied, Rigid
  <2>. QED BY <1>2, <2>1, <2>3 DEF EndDone
<1>9. CASE accept_connection \/ periodic_clear \/ Release \/ ClearV977 \/ KeepAlive \/ Lost
  <2>1. pc' \notin {"pass", "clear"}
    BY <1>9 DEF accept_connection, periodic_clear, Release, ClearV977, KeepAlive, Lost
  <2>. QED BY <1>2, <2>1
<1>10. CASE PeerFails \/ DiskFreed \/ sighup \/ UNCHANGED crateVars
  <2>1. UNCHANGED <<pc, val, nd, k, meb, fifo>>
    BY <1>10 DEF PeerFails, DiskFreed, sighup, crateVars, hwVars, progVars
  <2>. QED BY <1>1, <2>1
<1>. QED BY <1>3, <1>4, <1>5, <1>6, <1>7, <1>8, <1>9, <1>10 DEF VmeNext, Program

-----------------------------------------------------------------------------
(* The scaler is the number of triggers *)

\* The scaler read last is the number of triggers, once the V830 was cleared or counts from 0.
LEMMA ScaledStep == ASSUME Typed, Controls, Scaled, [VmeNext]_crateVars PROVE Scaled'
<1>0. Rigid /\ CrateRight
  BY IsRigid, CrateStays, CrateIsRight DEF Typed
<1>1. ASSUME UNCHANGED <<hits, meb, scaler>>, Settled' => Settled PROVE Scaled'
  BY <1>0, <1>1 DEF Scaled, Rigid
<1>2. ASSUME UNCHANGED conns, pc # "release", pc' # "release" PROVE Settled' => Settled
  BY <1>0, <1>2 DEF Settled, Rigid
<1>3. ASSUME UNCHANGED <<conns, pc, work>> PROVE Settled' => Settled
  BY <1>0, <1>3 DEF Settled, Rigid
<1>4. CASE Trigger
  <2>1. hits' = hits + 1 /\ meb' = Append(meb, hits + 1) /\ meb \in Seq(Nat) /\ hits \in Nat
    BY <1>4 DEF Trigger, Typed, TypedHw
  <2>2. meb' # <<>> /\ Last(meb') = hits + 1
    BY <2>1 DEF Last
  <2>. QED BY <2>1, <2>2 DEF Scaled
<1>5. ASSUME NEW r, Written(r), r # "v830" => (Settled' => Settled) PROVE Scaled'
  <2>1. CASE r = "v830"
    BY <1>5, <2>1 DEF Scaled, Written
  <2>2. CASE r # "v830"
    BY <1>1, <1>5, <2>2 DEF Written
  <2>. QED BY <2>1, <2>2
<1>6. CASE MainWrite
  <2>1. /\ RegisterWrite(Head(work)) /\ UNCHANGED <<conns, pc>>
        /\ work # <<>> /\ work' = Tail(work) /\ work \in Seq(Writes)
    BY <1>6 DEF MainWrite, netVars, Typed, TypedProg
  <2>2. Written(Head(work))
    BY <2>1, RegisterWritten
  <2>3. "v830" \in ToSet(work) => "v830" \in ToSet(work') \/ Head(work) = "v830"
    BY <2>1, ToSetTail
  <2>4. Head(work) # "v830" => (Settled' => Settled)
    BY <1>0, <2>1, <2>3 DEF Settled, Rigid
  <2>. QED BY <1>5, <2>2, <2>4
<1>7. CASE HandlerWrite
  <2>1. RegisterWrite(Head(hwork)) /\ UNCHANGED <<conns, pc, work>>
    BY <1>7 DEF HandlerWrite
  <2>2. Written(Head(hwork))
    BY <2>1, RegisterWritten
  <2>. QED BY <1>3, <1>5, <2>1, <2>2
<1>8. CASE ReadModule
  <2>1. Pass[k] \in Modules \cup {"v830"} /\ Drained(Pass[k]) /\ ReadDone(Pass[k]) /\ ReadRest
    BY <1>8, ModuleRead
  <2>2. Settled' => Settled
    BY <1>2, <2>1 DEF ReadDone, ReadRest
  <2>3. hits' = hits
    BY <2>1 DEF ReadRest
  <2>4. CASE Pass[k] = "v830"
    <3>1. meb' = <<>> /\ scaler' = v830_scalers
      BY <2>1, <2>4 DEF Drained
    <3>2. Counting => scaler' = IF meb = <<>> THEN scaler ELSE Last(meb)
      BY <3>1 DEF v830_scalers, Counting
    <3>. QED BY <1>0, <2>2, <2>3, <3>1, <3>2 DEF Scaled, Rigid
  <2>5. CASE Pass[k] # "v830"
    BY <1>1, <2>1, <2>2, <2>3, <2>5 DEF Drained
  <2>. QED BY <2>4, <2>5
<1>9. CASE EndPass
  <2>1. EndDone /\ EndRest
    BY <1>9, PassEnded
  <2>2. pc = "pass" /\ pc' # "release" /\ UNCHANGED <<conns, hits, meb, scaler>>
    BY <2>1 DEF EndDone, OffsetDone, EndRest, hwVars
  <2>. QED BY <1>1, <1>2, <2>2
<1>10. CASE accept_connection
  <2>1. pc = "accept" /\ pc' = "release" /\ ToSet(work') = Writes
    BY <1>0, <1>10 DEF accept_connection, CrateRight, WritesRight
  <2>2. Net /\ "v830" \in Writes
    BY <2>1 DEF Controls, Writes
  <2>. QED BY <1>0, <2>1, <2>2 DEF Scaled, Settled, Rigid
<1>11. CASE Release
  <2>1. /\ pc = "release" /\ pc' = "read" /\ work = <<>> /\ UNCHANGED <<conns, hits, meb, scaler>>
    BY <1>11 DEF Release, netVars
  <2>2. "v830" \notin ToSet(work)
    BY <2>1 DEF ToSet
  <2>. QED BY <1>0, <1>1, <2>1, <2>2 DEF Settled, Rigid
<1>12. CASE periodic_clear \/ ReadV977 \/ ClearV977 \/ KeepAlive \/ Lost
  <2>1. pc # "release" /\ pc' # "release" /\ UNCHANGED <<conns, hits, meb, scaler>>
    BY <1>12 DEF periodic_clear, ReadV977, ClearV977, KeepAlive, Lost, hwVars, netVars
  <2>. QED BY <1>1, <1>2, <2>1
<1>13. CASE PeerFails \/ DiskFreed \/ sighup \/ UNCHANGED crateVars
  <2>1. UNCHANGED <<conns, pc, work, hits, meb, scaler>>
    BY <1>13 DEF PeerFails, DiskFreed, sighup, crateVars, hwVars, progVars, netVars
  <2>. QED BY <1>1, <1>3, <2>1
<1>. QED BY <1>4, <1>6, <1>7, <1>8, <1>9, <1>10, <1>11, <1>12, <1>13 DEF VmeNext, Program

-----------------------------------------------------------------------------
(* Waiting for a client *)

\* Without disturbance the trigger is inhibited from the loss of a client to the release for the
\* next one.
LEMMA WaitingStep == ASSUME Typed, Controls, Waiting, [VmeNext]_crateVars PROVE Waiting'
<1>0. Rigid /\ CrateRight
  BY IsRigid, CrateStays, CrateIsRight DEF Typed
<1>. SUFFICES ASSUME Net, Quiet
              PROVE  /\ stdin' = "null" /\ local' = <<>>
                     /\ sd' = 0 => inhibit' /\ pc' \in {"loop", "accept"}
                     /\ conns' = 0 => \A m \in Modules : fifo'[m] = <<>>
                     /\ pc' = "release" =>
                          inhibit' /\ sink' = <<>> /\ ("zero" \notin ToSet(work') => blk' = 0)
  BY <1>0 DEF Waiting, Rigid
<1>1. /\ stdin = "null" /\ local = <<>>
      /\ sd = 0 => inhibit /\ pc \in {"loop", "accept"}
      /\ conns = 0 => \A m \in Modules : fifo[m] = <<>>
      /\ pc = "release" =>
           inhibit /\ sink = <<>> /\ ("zero" \notin ToSet(work) => blk = 0)
  BY DEF Waiting
<1>2. hwork = <<>> /\ crate.MaxHups = 0 /\ ~crate.BadHandshake
  BY DEF Quiet, Controls
<1>3. conns = 0 => sd = 0
  BY DEF Controls
<1>4. CASE Trigger
  <2>1. ~inhibit /\ UNCHANGED <<stdin, local, sd, pc, conns>>
    BY <1>4 DEF Trigger, progVars, netVars
  <2>. QED BY <1>1, <1>3, <2>1
<1>5. CASE MainWrite
  <2>1. /\ RegisterWrite(Head(work)) /\ UNCHANGED <<conns, pc, inhibit, stdin, local, sd, sink>>
        /\ work # <<>> /\ work' = Tail(work) /\ work \in Seq(Writes)
    BY <1>5 DEF MainWrite, netVars, Typed, TypedProg
  <2>2. Written(Head(work))
    BY <2>1, RegisterWritten
  <2>3. "zero" \in ToSet(work) => "zero" \in ToSet(work') \/ Head(work) = "zero"
    BY <2>1, ToSetTail
  <2>4. blk' = IF Head(work) = "zero" THEN 0 ELSE blk
    BY <2>2 DEF Written
  <2>5. \A m \in Modules : fifo'[m] = <<>> \/ fifo'[m] = fifo[m]
    BY <2>2 DEF Written
  <2>. QED BY <1>1, <2>1, <2>3, <2>4, <2>5
<1>6. CASE periodic_clear
  <2>1. /\ pc' = (IF sd = 0 THEN "accept" ELSE "read")
        /\ UNCHANGED <<conns, inhibit, stdin, local, sd, fifo>>
    BY <1>6 DEF periodic_clear, netVars
  <2>. QED BY <1>1, <2>1
<1>7. CASE accept_connection
  <2>1. pc = "accept" /\ pc' = "release" /\ ToSet(work') = Writes /\ conns' = conns + 1
    BY <1>0, <1>7 DEF accept_connection, CrateRight, WritesRight
  <2>2. inhibit /\ inhibit' = inhibit
    BY <1>1, <1>7, <2>1 DEF accept_connection, hwVars, Controls
  <2>3. sink' = <<>> /\ sd' = 3 /\ stdin' = stdin /\ local' = local
    BY <1>1, <1>2, <1>7 DEF accept_connection
  <2>4. "zero" \in Writes /\ conns \in Nat
    BY DEF Writes, Typed, TypedNet
  <2>. QED BY <1>1, <2>1, <2>2, <2>3, <2>4
<1>8. CASE ReadModule
  <2>1. Pass[k] \in Modules \cup {"v830"} /\ Drained(Pass[k]) /\ ReadDone(Pass[k]) /\ ReadRest
    BY <1>8, ModuleRead
  <2>2. pc = "pass" /\ sd # 0 /\ UNCHANGED <<conns, stdin, sd>>
    BY <1>1, <2>1 DEF ReadRest
  <2>3. local' = local /\ pc' # "release"
    BY <2>1, <2>2 DEF ReadDone, Sent, Stray, Kept
  <2>. QED BY <1>1, <1>3, <2>2, <2>3
<1>9. CASE EndPass
  <2>1. EndDone /\ EndRest
    BY <1>9, PassEnded
  <2>2. pc = "pass" /\ sd # 0 /\ UNCHANGED <<conns, stdin, sd>>
    BY <1>1, <2>1 DEF EndRest
  <2>3. local' = local /\ pc' # "release"
    BY <2>1, <2>2 DEF EndDone, OffsetDone, Sent, Stray, Kept
  <2>. QED BY <1>1, <1>3, <2>2, <2>3
<1>10. CASE Release \/ ReadV977 \/ ClearV977 \/ KeepAlive
  <2>1. /\ pc \notin {"loop", "accept"} /\ pc' # "release"
        /\ UNCHANGED <<conns, stdin, local, sd>>
    BY <1>10 DEF Release, ReadV977, ClearV977, KeepAlive, netVars
  <2>. QED BY <1>1, <1>3, <2>1
<1>11. CASE Lost
  <2>1. /\ pc = "lost" /\ pc' = "loop" /\ inhibit' = TRUE /\ UNCHANGED <<conns, local, fifo>>
        /\ stdin' = IF sd = 0 THEN "shut" ELSE stdin
    BY <1>11 DEF Lost
  <2>. QED BY <1>1, <2>1
<1>12. CASE HandlerWrite \/ sighup
  BY <1>2, <1>12 DEF HandlerWrite, sighup, Typed, TypedProg
<1>13. CASE PeerFails \/ DiskFreed \/ UNCHANGED crateVars
  <2>1. UNCHANGED <<conns, pc, inhibit, stdin, local, sd, sink, work, blk, fifo>>
    BY <1>13 DEF PeerFails, DiskFreed, crateVars, hwVars, progVars, netVars
  <2>. QED BY <1>1, <2>1
<1>. QED BY <1>4, <1>5, <1>6, <1>7, <1>8, <1>9, <1>10, <1>11, <1>12, <1>13 DEF VmeNext, Program

-----------------------------------------------------------------------------
(* A new client *)

\* What is cleared for a new client stays clear, as the trigger is inhibited.
LEMMA FreshStep == ASSUME Typed, Controls, Waiting, Fresh, [VmeNext]_crateVars PROVE Fresh'
<1>0. Rigid /\ CrateRight
  BY IsRigid, CrateStays, CrateIsRight DEF Typed
<1>. DEFINE Emptying == ToSet(Tdcs) \cup ToSet(Stamped)
<1>. SUFFICES ASSUME pc' = "release", Undisturbed
              PROVE  /\ "v830" \notin ToSet(work') => hits' = 0 /\ meb' = <<>>
                     /\ \A m \in Modules : m \notin ToSet(work') =>
                            fifo'[m] = <<>> /\ (m \in Nums => ctr'[m] = 0)
                     /\ \A m \in Modules : m \notin Emptying => fifo'[m] = <<>>
  BY <1>0 DEF Fresh, Rigid
<1>. HIDE DEF Emptying
<1>1. Quiet /\ crate.MaxHups = 0 /\ hwork = <<>>
  BY DEF Undisturbed, Quiet, Controls
<1>2. ASSUME pc = "release"
      PROVE  /\ "v830" \notin ToSet(work) => hits = 0 /\ meb = <<>>
             /\ \A m \in Modules : m \notin ToSet(work) =>
                    fifo[m] = <<>> /\ (m \in Nums => ctr[m] = 0)
             /\ \A m \in Modules : m \notin Emptying => fifo[m] = <<>>
  BY <1>2 DEF Fresh, Emptying
<1>3. pc = "release" => inhibit
  BY <1>1 DEF Waiting, Controls
<1>4. CASE accept_connection
  <2>1. pc = "accept" /\ ToSet(work') = Writes /\ fifo' = fifo /\ conns < crate.MaxConns
    BY <1>0, <1>4 DEF accept_connection, CrateRight, WritesRight, hwVars
  <2>2. Net
    BY <2>1 DEF Controls
  <2>3. ASSUME NEW m \in Modules, m \notin Emptying PROVE fifo[m] = <<>>
    <3>1. CASE crate.MaxConns <= 1
      <4>1. conns = 0
        BY <1>0, <2>1, <3>1 DEF Typed, TypedNet, CrateRight, OptionsRight
      <4>. QED BY <1>1, <2>2, <4>1 DEF Waiting
    <3>2. CASE Nums \subseteq ToSet(Tdcs)
      BY <1>0, <2>3, <3>2 DEF Emptying, CrateRight, ModulesRight
    <3>. QED BY <2>2, <3>1, <3>2 DEF Undisturbed, Nums
  <2>. QED BY <2>1, <2>3 DEF Writes
<1>5. CASE MainWrite
  <2>1. /\ RegisterWrite(Head(work)) /\ pc = "release"
        /\ work # <<>> /\ work' = Tail(work) /\ work \in Seq(Writes)
    BY <1>5 DEF MainWrite, Typed, TypedProg
  <2>2. Written(Head(work))
    BY <2>1, RegisterWritten
  <2>3. \A x \in ToSet(work) : x \in ToSet(work') \/ x = Head(work)
    BY <2>1, ToSetTail
  <2>4. "v830" \notin ToSet(work') => hits' = 0 /\ meb' = <<>>
    BY <1>2, <2>1, <2>2, <2>3 DEF Written
  <2>5. ASSUME NEW m \in Modules
        PROVE  /\ fifo'[m] = (IF m = Head(work) /\ m \in Emptying THEN <<>> ELSE fifo[m])
               /\ ctr'[m] = IF m = Head(work) /\ m \in Nums THEN 0 ELSE ctr[m]
    BY <2>2 DEF Written, Emptying
  <2>6. ASSUME NEW m \in Modules, m \notin ToSet(work')
        PROVE  fifo'[m] = <<>> /\ (m \in Nums => ctr'[m] = 0)
    <3>1. CASE m = Head(work)
      BY <1>2, <2>1, <2>5, <3>1
    <3>2. CASE m # Head(work)
      BY <1>2, <2>1, <2>3, <2>5, <2>6, <3>2
    <3>. QED BY <3>1, <3>2
  <2>7. ASSUME NEW m \in Modules, m \notin Emptying PROVE fifo'[m] = <<>>
    BY <1>2, <2>1, <2>5, <2>7
  <2>. QED BY <2>4, <2>6, <2>7
<1>6. CASE Trigger
  BY <1>3, <1>6 DEF Trigger, progVars
<1>7. CASE HandlerWrite \/ sighup
  BY <1>1, <1>7 DEF HandlerWrite, sighup, Typed, TypedProg
<1>8. CASE PeerFails \/ DiskFreed \/ UNCHANGED crateVars
  <2>1. UNCHANGED <<pc, work, hits, meb, fifo, ctr>>
    BY <1>8 DEF PeerFails, DiskFreed, crateVars, hwVars, progVars
  <2>. QED BY <1>2, <2>1
<1>9. CASE periodic_clear \/ Release \/ ReadV977 \/ ClearV977 \/ KeepAlive \/ Lost
  BY <1>9 DEF periodic_clear, Release, ReadV977, ClearV977, KeepAlive, Lost
<1>10. CASE ReadModule
  BY <1>10, ModuleRead DEF ReadDone, ReadRest
<1>11. CASE EndPass
  BY <1>11, PassEnded DEF EndDone, OffsetDone
<1>. QED BY <1>4, <1>5, <1>6, <1>7, <1>8, <1>9, <1>10, <1>11 DEF VmeNext, Program

-----------------------------------------------------------------------------
(* The blocks *)

\* The block of a module.
BlockOf(m) ==
    /\ Block(m).type = m /\ Block(m).counter = blk
    /\ m \in Modules => Block(m).ev = IF crate.Dma /\ m \in ToSet(Tdcs) THEN <<>> ELSE fifo[m]

\* It is what the check_data functions make.
LEMMA BlockIs == ASSUME Typed, NEW m \in Modules \cup {"v830"} PROVE BlockOf(m)
<1>1. "v830" \notin Modules /\ ToSet(Tdcs) \subseteq Modules
  BY CrateIsRight DEF Typed, CrateRight, ModulesRight
<1>2. CASE m = "v830"
  BY <1>1, <1>2 DEF Block, v830_check_data, BlockOf
<1>3. CASE m # "v830" /\ m \in ToSet(Tdcs)
  BY <1>3 DEF Block, v1190_check_data, BlockOf
<1>4. CASE m # "v830" /\ m \notin ToSet(Tdcs)
  BY <1>4 DEF Block, adc_check_data, BlockOf
<1>. QED BY <1>2, <1>3, <1>4

\* What can happen to the stream: nothing; a new client; a block, under the next number.
NewBlock(b) ==
    /\ Sent(b) /\ b \in Blocks /\ b.counter = blk /\ blk' = blk + 1
    /\ pc = "pass" /\ UNCHANGED <<mark, peer, sd, conns, hits, ctr>>
    /\ \/ ReadModule /\ b = Block(Pass[k]) /\ pc' = "pass" /\ b.type = Pass[k]
          /\ b.type \in Modules \cup {"v830"}
       \/ EndPass /\ OffsetDone /\ b = Offset /\ pc' = "clear" /\ OffsetHeader

StreamStep ==
    \/ sink' = sink
    \/ accept_connection /\ sink' = <<>>
    \/ \E b \in Blocks : NewBlock(b)

\* Nothing else happens to it.
LEMMA StreamSteps == ASSUME Typed, [VmeNext]_crateVars PROVE StreamStep
<1>1. CASE ReadModule
  <2>1. /\ Pass[k] \in Modules \cup {"v830"}
        /\ Block(Pass[k]).ev # <<>> => Block(Pass[k]) \in Blocks
        /\ ReadDone(Pass[k]) /\ ReadRest
    BY <1>1, ModuleRead
  <2>2. Block(Pass[k]).type = Pass[k] /\ Block(Pass[k]).counter = blk
    BY <2>1, BlockIs DEF BlockOf
  <2>3. ASSUME Sent(Block(Pass[k])), pc' = pc, blk' = blk + 1, Block(Pass[k]).ev # <<>>
        PROVE  NewBlock(Block(Pass[k])) /\ Block(Pass[k]) \in Blocks
    BY <1>1, <2>1, <2>2, <2>3 DEF NewBlock, ReadRest
  <2>. QED BY <2>1, <2>3 DEF ReadDone, StreamStep, Kept, Stray
<1>2. CASE EndPass
  <2>1. EndDone /\ EndRest /\ Offset \in Blocks
    BY <1>2, PassEnded
  <2>2. ASSUME OffsetDone, Sent(Offset), mark' = mark, OffsetHeader PROVE NewBlock(Offset)
    <3>1. blk' = blk + 1 /\ pc' = "clear" /\ Offset.counter = blk
      BY <2>2 DEF OffsetDone, Offset
    <3>. QED BY <1>2, <2>1, <2>2, <3>1 DEF NewBlock, EndRest, hwVars
  <2>. QED BY <2>1, <2>2 DEF EndDone, OffsetDone, StreamStep, Kept, Stray
<1>3. CASE accept_connection
  BY <1>3 DEF accept_connection, StreamStep
<1>4. CASE UNCHANGED sink
  BY <1>4 DEF StreamStep
<1>. QED BY <1>1, <1>2, <1>3, <1>4
         DEF VmeNext, crateVars, Program, Trigger, PeerFails, DiskFreed, sighup, HandlerWrite,
             MainWrite, periodic_clear, Release, ReadV977, ClearV977, KeepAlive, Lost, netVars

\* The older copies never begin to write offsets to a file.
LEMMA NoOffsetsStep ==
    ASSUME Typed, Controls, NoOffsets, [VmeNext]_crateVars PROVE NoOffsets'
<1>0. Rigid /\ CrateRight
  BY IsRigid, CrateStays, CrateIsRight DEF Typed
<1>. SUFFICES ASSUME ~Net, Version # "2020" PROVE \A i \in DOMAIN sink' : sink'[i].type # "offset"
  BY <1>0 DEF NoOffsets, Rigid
<1>1. \A i \in DOMAIN sink : sink[i].type # "offset"
  BY DEF NoOffsets
<1>2. sd = 0 /\ sink \in Seq(Blocks)
  BY DEF Controls, Typed, TypedNet
<1>3. CASE \E b \in Blocks : NewBlock(b)
  <2>1. PICK b \in Blocks : NewBlock(b)
    BY <1>3
  <2>2. b.type # "offset"
    BY <1>0, <1>2, <2>1 DEF NewBlock, OffsetHeader, CrateRight, ModulesRight
  <2>3. sink' = Append(sink, b)
    BY <2>1 DEF NewBlock, Sent
  <2>4. DOMAIN sink' = 1 .. Len(sink) + 1 /\ DOMAIN sink = 1 .. Len(sink) /\ Len(sink) \in Nat
    BY <1>2, <2>3
  <2>5. ASSUME NEW i \in 1 .. Len(sink) + 1 PROVE sink'[i].type # "offset"
    <3>1. CASE i = Len(sink) + 1
      BY <1>2, <2>2, <2>3, <3>1
    <3>2. CASE i # Len(sink) + 1
      <4>1. i \in 1 .. Len(sink)
        BY <2>4, <3>2
      <4>2. sink'[i] = sink[i]
        BY <1>2, <2>3, <4>1
      <4>. QED BY <1>1, <2>4, <4>1, <4>2
    <3>. QED BY <3>1, <3>2
  <2>. QED BY <2>4, <2>5
<1>4. CASE sink' = <<>>
  BY <1>4
<1>5. CASE sink' = sink
  BY <1>1, <1>5
<1>. QED BY <1>3, <1>4, <1>5, StreamSteps DEF StreamStep

\* The block counter keeps up with the blocks.
LEMMA CountedStep ==
    ASSUME Typed, Controls, Waiting, Counted, [VmeNext]_crateVars PROVE Counted'
<1>0. Rigid /\ CrateRight
  BY IsRigid, CrateStays, CrateIsRight DEF Typed
<1>. SUFFICES ASSUME Quiet, peer' = "up", pc' # "release" PROVE blk' = Len(sink')
  BY <1>0 DEF Counted, Rigid
<1>1. hwork = <<>> /\ crate.MaxHups = 0 /\ ~crate.DiskRecovers
  BY DEF Quiet, Controls
<1>2. ASSUME UNCHANGED <<blk, sink, peer>>, pc # "release" PROVE blk' = Len(sink')
  BY <1>2 DEF Counted
<1>3. Net /\ sd = 0 => pc \in {"loop", "accept"}
  BY DEF Waiting
<1>5. CASE MainWrite
  <2>1. /\ RegisterWrite(Head(work)) /\ UNCHANGED <<pc, peer, sink>>
        /\ work # <<>> /\ work \in Seq(Writes)
    BY <1>5 DEF MainWrite, netVars, Typed, TypedProg
  <2>2. Head(work) \in Nums
    BY <2>1, ToSetTail DEF Controls
  <2>3. Head(work) # "zero"
    BY <1>0, <2>2 DEF CrateRight, ModulesRight
  <2>4. blk' = blk
    BY <2>1, <2>3 DEF RegisterWrite
  <2>. QED BY <1>2, <2>1, <2>4
<1>6. CASE Release
  <2>1. pc = "release" /\ work = <<>> /\ UNCHANGED <<blk, sink>>
    BY <1>6 DEF Release, netVars
  <2>2. "zero" \notin ToSet(work) /\ Net
    BY <2>1 DEF ToSet, Controls
  <2>. QED BY <2>1, <2>2 DEF Waiting
<1>7. CASE ReadModule
  <2>1. ReadDone(Pass[k]) /\ ReadRest /\ Pass[k] \in Modules \cup {"v830"}
    BY <1>7, ModuleRead
  <2>2. pc = "pass" /\ peer' = peer
    BY <2>1 DEF ReadRest
  <2>3. CASE blk' = blk /\ Kept
    BY <1>2, <2>2, <2>3 DEF Kept
  <2>4. CASE Sent(Block(Pass[k])) /\ blk' = blk + 1
    <3>1. sink \in Seq(Blocks) /\ sink' = Append(sink, Block(Pass[k])) /\ blk = Len(sink)
      BY <2>2, <2>4 DEF Sent, Counted, Typed, TypedNet
    <3>2. Len(sink') = Len(sink) + 1
      BY <3>1
    <3>. QED BY <2>4, <3>1, <3>2
  <2>. QED BY <1>3, <2>1, <2>2, <2>3, <2>4 DEF ReadDone, Stray
<1>8. CASE EndPass
  <2>1. EndDone /\ EndRest
    BY <1>8, PassEnded
  <2>2. pc = "pass" /\ peer' = peer
    BY <2>1 DEF EndRest
  <2>3. CASE blk' = blk /\ sink' = sink
    BY <1>2, <2>2, <2>3
  <2>4. CASE Sent(Offset) /\ blk' = blk + 1
    <3>1. sink \in Seq(Blocks) /\ sink' = Append(sink, Offset) /\ blk = Len(sink)
      BY <2>2, <2>4 DEF Sent, Counted, Typed, TypedNet
    <3>2. Len(sink') = Len(sink) + 1
      BY <3>1
    <3>. QED BY <2>4, <3>1, <3>2
  <2>. QED BY <1>3, <2>1, <2>2, <2>3, <2>4 DEF EndDone, OffsetDone, OffsetHeader, Stray, Kept
<1>9. CASE Lost
  <2>1. pc = "lost" /\ UNCHANGED <<blk, sink>> /\ peer' = IF Net THEN "none" ELSE peer
    BY <1>9 DEF Lost
  <2>. QED BY <1>2, <2>1
<1>10. CASE accept_connection \/ PeerFails \/ DiskFreed \/ HandlerWrite \/ sighup
  BY <1>1, <1>10 DEF accept_connection, PeerFails, DiskFreed, HandlerWrite, sighup, Typed, TypedProg
<1>11. CASE Trigger \/ UNCHANGED crateVars
  <2>1. UNCHANGED <<pc, blk, sink, peer>>
    BY <1>11 DEF Trigger, crateVars, progVars, netVars
  <2>. QED BY <1>2, <2>1
<1>12. CASE periodic_clear \/ ReadV977 \/ ClearV977 \/ KeepAlive
  <2>1. pc # "release" /\ UNCHANGED <<blk, sink, peer>>
    BY <1>12 DEF periodic_clear, ReadV977, ClearV977, KeepAlive, netVars
  <2>. QED BY <1>2, <2>1
<1>. QED BY <1>5, <1>6, <1>7, <1>8, <1>9, <1>10, <1>11, <1>12 DEF VmeNext, Program

\* So the blocks are numbered from 0 without a gap.
LEMMA BlockNumbersStep ==
    ASSUME Typed, Counted, BlockNumbers, [VmeNext]_crateVars PROVE BlockNumbers'
<1>0. Rigid
  BY IsRigid, CrateStays
<1>. SUFFICES ASSUME Quiet PROVE \A i \in DOMAIN sink' : sink'[i].counter = i - 1
  BY <1>0 DEF BlockNumbers, Rigid
<1>1. \A i \in DOMAIN sink : sink[i].counter = i - 1
  BY DEF BlockNumbers
<1>2. ASSUME NEW b \in Blocks, NewBlock(b) PROVE \A i \in DOMAIN sink' : sink'[i].counter = i - 1
  <2>1. sink \in Seq(Blocks) /\ sink' = Append(sink, b) /\ b.counter = Len(sink)
    BY <1>2 DEF NewBlock, Sent, Counted, Typed, TypedNet
  <2>2. DOMAIN sink' = 1 .. Len(sink) + 1 /\ DOMAIN sink = 1 .. Len(sink) /\ Len(sink) \in Nat
    BY <2>1
  <2>3. ASSUME NEW i \in 1 .. Len(sink) + 1 PROVE sink'[i].counter = i - 1
    <3>1. CASE i = Len(sink) + 1
      BY <2>1, <2>2, <3>1
    <3>2. CASE i # Len(sink) + 1
      <4>1. i \in 1 .. Len(sink)
        BY <2>2, <3>2
      <4>2. sink'[i] = sink[i]
        BY <2>1, <4>1
      <4>. QED BY <1>1, <2>2, <4>1, <4>2
    <3>. QED BY <3>1, <3>2
  <2>. QED BY <2>2, <2>3
<1>. QED BY <1>1, <1>2, StreamSteps DEF StreamStep

-----------------------------------------------------------------------------
(* The numbers of the events *)

\* The same after the step.
InStepAfter(m, v) ==
    /\ pc' \notin {"release", "clear"} =>
         hits' = v + ctr'[m] /\ \A j \in DOMAIN fifo'[m] : v + fifo'[m][j].n = fifo'[m][j].g
    /\ pc' = "clear" => hits' = v /\ (m \notin ToSet(work') => ctr'[m] = 0)

\* An offset that is right stays right until a client comes, a signal is handled or the
\* counters are about to be cleared another time.
LEMMA InStepStays ==
    ASSUME Typed, Controls, Emptied, [VmeNext]_crateVars, NEW m \in Nums, NEW v \in Nat,
           InStep(m, v), pc # "release", ~accept_connection, ~HandlerWrite,
           ~(EndPass /\ OffsetDone)
    PROVE  InStepAfter(m, v)
<1>0. Rigid /\ CrateRight /\ m \in Modules
  BY IsRigid, CrateStays, CrateIsRight DEF Typed, CrateRight, ModulesRight
<1>1. ctr[m] \in Nat /\ fifo[m] \in Seq(Event) /\ hits \in Nat
  BY <1>0 DEF Typed, TypedHw
<1>2. ASSUME hits' = hits, ctr'[m] = ctr[m], fifo'[m] = fifo[m] \/ fifo'[m] = <<>>,
             pc \notin {"release", "clear"}, pc' \notin {"release", "clear"}
      PROVE  InStepAfter(m, v)
  BY <1>2 DEF InStep, InStepAfter
<1>3. CASE Trigger
  <2>1. Triggered /\ pc' = pc /\ pc # "clear"
    BY <1>3, TriggerDone DEF Controls, Trigger, progVars
  <2>2. /\ hits' = hits + 1 /\ ctr'[m] = ctr[m] + 1
        /\ fifo'[m] = Append(fifo[m], [n |-> ctr[m], g |-> hits])
    BY <1>0, <2>1 DEF Triggered
  <2>3. hits = v + ctr[m] /\ \A j \in 1 .. Len(fifo[m]) : v + fifo[m][j].n = fifo[m][j].g
    BY <1>1, <2>1 DEF InStep
  <2>4. hits' = v + ctr'[m]
    BY <1>1, <2>2, <2>3
  <2>5. [n |-> ctr[m], g |-> hits] \in Event
    BY <1>1 DEF Event
  <2>6. DOMAIN fifo'[m] = 1 .. Len(fifo[m]) + 1 /\ Len(fifo[m]) \in Nat
    BY <1>1, <2>2, <2>5
  <2>7. ASSUME NEW j \in 1 .. Len(fifo[m]) + 1 PROVE v + fifo'[m][j].n = fifo'[m][j].g
    <3>1. CASE j = Len(fifo[m]) + 1
      <4>1. fifo'[m][j] = [n |-> ctr[m], g |-> hits]
        BY <1>1, <2>2, <2>5, <3>1
      <4>. QED BY <2>3, <4>1
    <3>2. CASE j # Len(fifo[m]) + 1
      <4>1. j \in 1 .. Len(fifo[m])
        BY <2>6, <3>2
      <4>2. fifo'[m][j] = fifo[m][j]
        BY <1>1, <2>2, <2>5, <4>1
      <4>. QED BY <2>3, <4>1, <4>2
    <3>. QED BY <3>1, <3>2
  <2>. QED BY <2>1, <2>4, <2>6, <2>7 DEF InStepAfter
<1>4. CASE MainWrite
  <2>1. /\ RegisterWrite(Head(work)) /\ pc' = pc
        /\ work # <<>> /\ work' = Tail(work) /\ work \in Seq(Writes)
    BY <1>4 DEF MainWrite, Typed, TypedProg
  <2>2. pc = "clear" /\ ToSet(work) \subseteq Nums
    BY <2>1 DEF Controls
  <2>3. Head(work) \in Nums /\ \A x \in ToSet(work) : x \in ToSet(work') \/ x = Head(work)
    BY <2>1, <2>2, ToSetTail
  <2>4. Head(work) # "v830"
    BY <1>0, <2>3 DEF CrateRight, ModulesRight
  <2>5. Written(Head(work))
    BY <2>1, RegisterWritten
  <2>6. hits' = hits /\ ctr'[m] = IF m = Head(work) THEN 0 ELSE ctr[m]
    BY <1>0, <2>4, <2>5 DEF Written
  <2>. QED BY <2>1, <2>2, <2>3, <2>6 DEF InStep, InStepAfter
<1>5. CASE ReadModule
  <2>1. /\ Pass[k] \in Modules \cup {"v830"} /\ Drained(Pass[k]) /\ ReadDone(Pass[k]) /\ ReadRest
    BY <1>5, ModuleRead
  <2>2. pc = "pass" /\ pc' \in {"pass", "lost"} /\ hits' = hits /\ ctr' = ctr
    BY <2>1 DEF ReadDone, ReadRest
  <2>3. fifo'[m] = fifo[m] \/ fifo'[m] = <<>>
    BY <1>0, <2>1 DEF Drained
  <2>. QED BY <1>2, <2>2, <2>3
<1>6. CASE EndPass
  <2>1. EndDone /\ EndRest
    BY <1>6, PassEnded
  <2>2. pc = "pass" /\ pc' \in {"loop", "idle"} /\ UNCHANGED <<hits, ctr, fifo>>
    BY <1>6, <2>1 DEF EndDone, EndRest, hwVars
  <2>. QED BY <1>2, <2>2
<1>7. CASE ClearV977
  <2>1. pc = "clear" /\ work = <<>> /\ pc' = "idle" /\ UNCHANGED <<hits, ctr, fifo>>
    BY <1>7 DEF ClearV977
  <2>2. m \notin ToSet(work)
    BY <2>1 DEF ToSet
  <2>3. hits = v /\ ctr[m] = 0 /\ fifo[m] = <<>>
    BY <1>0, <2>1, <2>2 DEF InStep, Emptied
  <2>. QED BY <2>1, <2>3 DEF InStepAfter
<1>8. CASE periodic_clear \/ Release \/ ReadV977 \/ KeepAlive \/ Lost
  <2>1. /\ pc \notin {"release", "clear"} /\ pc' \notin {"release", "clear"}
        /\ UNCHANGED <<hits, ctr, fifo>>
    BY <1>8 DEF periodic_clear, Release, ReadV977, KeepAlive, Lost, hwVars
  <2>. QED BY <1>2, <2>1
<1>9. CASE PeerFails \/ DiskFreed \/ sighup \/ UNCHANGED crateVars
  <2>1. UNCHANGED <<pc, work, hits, ctr, fifo>>
    BY <1>9 DEF PeerFails, DiskFreed, sighup, crateVars, hwVars, progVars
  <2>. QED BY <2>1 DEF InStep, InStepAfter
<1>. QED BY <1>3, <1>4, <1>5, <1>6, <1>7, <1>8, <1>9 DEF VmeNext, Program

\* An offset in force was in force before; no signal was handled and no offset was lost.
LEMMA KnownStays ==
    ASSUME Typed, Controls, Waiting, NoOffsets, [VmeNext]_crateVars, Known', sink' = sink,
           ~accept_connection
    PROVE  Known /\ ~HandlerWrite /\ ~(EndPass /\ OffsetDone)
<1>0. Rigid /\ CrateRight /\ Len(sink) \in Nat /\ mark \in Nat
  BY IsRigid, CrateStays, CrateIsRight DEF Typed, TypedNet
<1>1. \/ Undisturbed /\ peer' = "up"
      \/ (Net => sd' # 0) /\ \E o \in mark' + 1 .. Len(sink) : sink[o].type = "offset"
  BY <1>0 DEF Known, Rigid
<1>2. Undisturbed => Quiet /\ crate.MaxHups = 0 /\ ~crate.DiskRecovers
  BY DEF Undisturbed, Quiet
<1>3. ~HandlerWrite
  <2>1. SUFFICES ASSUME HandlerWrite PROVE FALSE
    OBVIOUS
  <2>2. hwork # <<>> /\ mark' = Len(sink)
    BY <2>1 DEF HandlerWrite
  <2>3. ~Undisturbed
    BY <1>2, <2>2 DEF Controls
  <2>. QED BY <1>0, <1>1, <2>2, <2>3
<1>4. ~(EndPass /\ OffsetDone)
  <2>1. SUFFICES ASSUME EndPass, OffsetDone PROVE FALSE
    OBVIOUS
  <2>2. EndRest
    BY <2>1, PassEnded
  <2>3. pc = "pass" /\ sd' = sd /\ peer' = peer
    BY <2>2 DEF EndRest
  <2>4. Net => sd # 0
    BY <1>1, <1>2, <2>3 DEF Waiting
  <2>5. sink' # Append(sink, Offset)
    BY <1>0 DEF Typed, TypedNet
  <2>6. (peer # "up" /\ mark' = Len(sink)) \/ (sd = 0 /\ Version # "2020" /\ mark' = mark)
    BY <2>1, <2>4, <2>5 DEF OffsetDone, Sent, Stray
  <2>7. CASE peer # "up" /\ mark' = Len(sink)
    BY <1>0, <1>1, <2>3, <2>7
  <2>8. CASE sd = 0 /\ Version # "2020" /\ mark' = mark
    <3>1. ~Net /\ ~Undisturbed
      BY <2>4, <2>8 DEF Undisturbed
    <3>2. \E o \in mark + 1 .. Len(sink) : sink[o].type = "offset"
      BY <1>1, <2>8, <3>1
    <3>3. \E o \in 1 .. Len(sink) : sink[o].type = "offset"
      BY <1>0, <3>2
    <3>4. DOMAIN sink = 1 .. Len(sink)
      BY DEF Typed, TypedNet
    <3>. QED BY <2>8, <3>1, <3>3, <3>4 DEF NoOffsets
  <2>. QED BY <2>6, <2>7, <2>8
<1>5. mark' = mark
  <2>1. CASE EndPass
    BY <1>4, <2>1, PassEnded DEF EndDone
  <2>2. CASE ReadModule
    BY <2>2, ModuleRead DEF ReadRest
  <2>3. CASE UNCHANGED mark
    BY <2>3
  <2>. QED BY <1>3, <2>1, <2>2, <2>3
       DEF VmeNext, crateVars, Program, Trigger, PeerFails, DiskFreed, sighup,
           MainWrite, periodic_clear, Release, ReadV977, ClearV977, KeepAlive, Lost, netVars
<1>6. /\ Net /\ sd = 0 => sd' = 0
      /\ Undisturbed /\ peer' = "up" => peer = "up"
  <2>1. CASE EndPass
    BY <2>1, PassEnded DEF EndRest
  <2>2. CASE ReadModule
    BY <2>2, ModuleRead DEF ReadRest
  <2>3. CASE Lost \/ PeerFails \/ DiskFreed
    BY <1>2, <2>3 DEF Lost, PeerFails, DiskFreed
  <2>4. CASE UNCHANGED <<sd, peer>>
    BY <2>4
  <2>. QED BY <1>3, <2>1, <2>2, <2>3, <2>4
       DEF VmeNext, crateVars, Program, Trigger, sighup,
           MainWrite, periodic_clear, Release, ReadV977, ClearV977, KeepAlive, netVars
<1>. QED BY <1>1, <1>3, <1>4, <1>5, <1>6 DEF Known


\* The value of an offset is a number.
LEMMA OffsetTyped == ASSUME Typed, NEW o \in 0 .. Len(sink), o # 0 => sink[o].type = "offset"
                     PROVE  OffsetOf(sink, o) \in Nat
<1>1. CASE o = 0
  BY <1>1 DEF OffsetOf
<1>2. CASE o # 0
  <2>1. sink[o] \in Blocks /\ sink[o].type = "offset"
    BY <1>2 DEF Typed, TypedNet
  <2>2. "offset" \notin Modules
    BY CrateIsRight DEF Typed, CrateRight, ModulesRight
  <2>3. \E v \in Nat : sink[o].ev = <<v>>
    BY <2>1, <2>2 DEF Blocks
  <2>. QED BY <1>2, <2>3 DEF OffsetOf
<1>. QED BY <1>1, <1>2

\* An offset is sent when the modules are empty and the scaler counts all the triggers.
LEMMA OffsetRight ==
    ASSUME Typed, Controls, Emptied, Scaled, [VmeNext]_crateVars, Counting, EndPass, OffsetDone
    PROVE  scaler = hits /\ pc = "pass" /\ \A m \in Modules : fifo[m] = <<>>
<1>1. EndRest
  BY PassEnded
<1>2. /\ pc = "pass" /\ pc' = "clear" /\ UNCHANGED <<meb, fifo>> /\ crate' = crate
  BY <1>1 DEF EndRest, OffsetDone, hwVars
<1>3. Modules' = Modules
  BY <1>2, IsRigid DEF Rigid
<1>4. meb = <<>> /\ \A m \in Modules : fifo[m] = <<>>
  BY <1>2, <1>3, EmptiedStep DEF Emptied
<1>5. Settled
  BY <1>2 DEF Settled, Controls
<1>. QED BY <1>2, <1>4, <1>5 DEF Scaled

\* The offset in force is the number of triggers less the counter of each module.
LEMMA NumbersStep ==
    ASSUME Typed, Controls, Emptied, Scaled, Waiting, Fresh, NoOffsets, Numbers,
           [VmeNext]_crateVars
    PROVE  Numbers'
<1>0. Rigid /\ CrateRight /\ sink \in Seq(Blocks) /\ Len(sink) \in Nat
  BY IsRigid, CrateStays, CrateIsRight DEF Typed, TypedNet
<1>1. SUFFICES ASSUME Counting, Known', NEW o \in 0 .. Len(sink'),
                      Latest(sink', o, "offset", Len(sink') + 1), NEW m \in Nums
               PROVE  InStepAfter(m, OffsetOf(sink', o))
  BY <1>0 DEF Numbers, Rigid, InStep, InStepAfter
<1>2. m \in Modules
  BY <1>0 DEF CrateRight, ModulesRight
<1>3. ASSUME Known, NEW q \in 0 .. Len(sink), Latest(sink, q, "offset", Len(sink) + 1)
      PROVE  InStep(m, OffsetOf(sink, q)) /\ OffsetOf(sink, q) \in Nat
  <2>1. InStep(m, OffsetOf(sink, q))
    BY <1>1, <1>3 DEF Numbers
  <2>2. q # 0 => sink[q].type = "offset"
    BY <1>3 DEF Latest
  <2>. QED BY <2>1, <2>2, OffsetTyped
<1>4. CASE accept_connection
  BY <1>4 DEF accept_connection, InStepAfter
<1>5. CASE sink' = sink /\ ~accept_connection
  <2>1. Known /\ ~HandlerWrite /\ ~(EndPass /\ OffsetDone)
    BY <1>1, <1>5, KnownStays
  <2>2. InStep(m, OffsetOf(sink, o)) /\ OffsetOf(sink, o) \in Nat
    BY <1>1, <1>3, <1>5, <2>1
  <2>3. CASE pc # "release"
    BY <1>5, <2>1, <2>2, <2>3, InStepStays
  <2>4. CASE pc' = "release"
    BY <2>4 DEF InStepAfter
  <2>5. CASE pc = "release" /\ pc' # "release"
    <3>1. Release
      <4>1. ~EndPass /\ ~ReadModule
        BY <2>5 DEF EndPass, ReadModule
      <4>. QED BY <1>5, <2>1, <2>5, <4>1
           DEF VmeNext, crateVars, Program, Trigger, PeerFails, DiskFreed, sighup, MainWrite,
               periodic_clear, ReadV977, ClearV977, KeepAlive, Lost, progVars
    <3>2. work = <<>> /\ pc' = "read" /\ UNCHANGED <<hits, ctr, fifo, sd>>
      BY <3>1 DEF Release, netVars
    <3>3. Net /\ (sd = 0 \/ sink = <<>>)
      BY <2>5 DEF Controls
    <3>4. Undisturbed
      <4>1. sink = <<>> => Len(sink) = 0
        OBVIOUS
      <4>2. mark \in Nat
        BY <1>0 DEF Typed, TypedNet
      <4>. QED BY <2>1, <3>3, <4>1, <4>2 DEF Known
    <3>5. sink = <<>>
      BY <2>5, <3>3, <3>4 DEF Waiting, Undisturbed
    <3>6. \A x : x \notin ToSet(work)
      BY <3>2 DEF ToSet
    <3>7. hits = 0 /\ ctr[m] = 0 /\ fifo[m] = <<>>
      BY <1>2, <2>5, <3>4, <3>6 DEF Fresh
    <3>8. OffsetOf(sink', o) = 0
      BY <1>1, <1>5, <3>5 DEF OffsetOf
    <3>. QED BY <3>2, <3>7, <3>8 DEF InStepAfter
  <2>. QED BY <2>3, <2>4, <2>5
<1>6. ASSUME NEW b \in Blocks, NewBlock(b), ~accept_connection PROVE InStepAfter(m, OffsetOf(sink', o))
  <2>1. /\ sink' = Append(sink, b) /\ peer = "up" /\ (Net => sd # 0) /\ pc = "pass"
        /\ mark' = mark
    BY <1>6 DEF NewBlock, Sent
  <2>2. Len(sink') + 1 = Len(sink) + 2 /\ Len(sink') = Len(sink) + 1
    BY <1>0, <2>1
  <2>3. /\ b.type = "offset" => o = Len(sink) + 1
        /\ b.type # "offset" => o \in 0 .. Len(sink) /\ Latest(sink, o, "offset", Len(sink) + 1)
    BY <1>0, <1>1, <2>1, <2>2, LatestAppend
  <2>4. CASE b.type # "offset"
    <3>1. ReadModule
      BY <1>6, <2>4 DEF NewBlock, Offset
    <3>2. Known
      <4>1. CASE Undisturbed
        BY <2>1, <4>1 DEF Known
      <4>2. CASE ~Undisturbed
        <5>1. PICK q \in mark + 1 .. Len(sink) + 1 : sink'[q].type = "offset"
          BY <1>0, <1>1, <2>1, <2>2, <4>2 DEF Known, Rigid
        <5>2. mark \in Nat
          BY DEF Typed, TypedNet
        <5>3. q # Len(sink) + 1
          BY <1>0, <2>1, <2>4, <5>1
        <5>4. q \in mark + 1 .. Len(sink) /\ q \in 1 .. Len(sink)
          BY <1>0, <5>1, <5>2, <5>3
        <5>5. sink'[q] = sink[q]
          BY <1>0, <2>1, <5>4
        <5>. QED BY <2>1, <5>1, <5>4, <5>5 DEF Known
      <4>. QED BY <4>1, <4>2
    <3>4. OffsetOf(sink', o) = OffsetOf(sink, o)
      BY <1>0, <2>1, <2>3, <2>4, ValuesPrefix
    <3>5. InStep(m, OffsetOf(sink, o)) /\ OffsetOf(sink, o) \in Nat
      BY <1>3, <2>3, <2>4, <3>2
    <3>6. ~HandlerWrite /\ ~EndPass
      BY <3>1 DEF HandlerWrite, ReadModule, EndPass, Main, Typed, TypedProg
    <3>. QED BY <1>6, <2>1, <3>4, <3>5, <3>6, InStepStays
  <2>5. CASE b.type = "offset"
    <3>1. EndPass /\ OffsetDone /\ b = Offset
      BY <1>0, <1>6, <2>5 DEF NewBlock, CrateRight, ModulesRight
    <3>2. scaler = hits /\ hits' = hits
      BY <1>1, <1>6, <3>1, OffsetRight DEF NewBlock
    <3>3. sink'[o] = Offset /\ o # 0
      BY <1>0, <2>1, <2>3, <2>5, <3>1
    <3>4. OffsetOf(sink', o) = scaler
      BY <3>3 DEF OffsetOf, Offset
    <3>5. pc' = "clear" /\ m \in ToSet(work')
      BY <1>0, <3>1 DEF OffsetDone, CrateRight, WritesRight
    <3>. QED BY <3>2, <3>4, <3>5 DEF InStepAfter
  <2>. QED BY <2>4, <2>5
<1>. QED BY <1>4, <1>5, <1>6, StreamSteps DEF StreamStep


\* The mark moves to the end of the stream only.
LEMMA MarkMoves == ASSUME Typed, [VmeNext]_crateVars
                   PROVE  mark' = mark \/ mark' = Len(sink) \/ sink' = <<>>
<1>1. CASE EndPass
  BY <1>1, PassEnded DEF EndDone, OffsetDone
<1>2. CASE ReadModule
  BY <1>2, ModuleRead DEF ReadRest
<1>3. CASE accept_connection
  BY <1>3 DEF accept_connection
<1>4. CASE HandlerWrite
  BY <1>4 DEF HandlerWrite
<1>5. CASE UNCHANGED mark
  BY <1>5
<1>. QED BY <1>1, <1>2, <1>3, <1>4, <1>5
     DEF VmeNext, crateVars, Program, Trigger, PeerFails, DiskFreed, sighup,
         MainWrite, periodic_clear, Release, ReadV977, ClearV977, KeepAlive, Lost, netVars

\* A block that is sent with the right offset in force is numbered right.
LEMMA BlockNumberedRight ==
    ASSUME Typed, Numbers, Counting, Known, NEW b \in Blocks, NewBlock(b), b.type \in Nums
    PROVE  NumberedRight(sink', Len(sink) + 1)
<1>0. CrateRight /\ sink \in Seq(Blocks) /\ Len(sink) \in Nat /\ sink' = Append(sink, b)
  BY CrateIsRight DEF Typed, TypedNet, NewBlock, Sent
<1>1. sink'[Len(sink) + 1] = b /\ Len(sink) + 1 - 1 = Len(sink) /\ Len(sink) + 1 \in 1 .. Len(sink) + 1
  BY <1>0
<1>2. pc = "pass" /\ b = Block(Pass[k]) /\ b.type = Pass[k]
  BY <1>0 DEF NewBlock, Offset, CrateRight, ModulesRight
<1>3. b.type \in Modules
  BY <1>0 DEF CrateRight, ModulesRight
<1>4. b.ev = fifo[b.type] \/ b.ev = <<>>
  BY <1>2, <1>3, BlockIs DEF BlockOf
<1>5. ASSUME NEW o \in 0 .. Len(sink), Latest(sink', o, "offset", Len(sink) + 1), NEW j \in DOMAIN b.ev
      PROVE  OffsetOf(sink', o) + b.ev[j].n = b.ev[j].g
  <2>1. o \in 0 .. Len(sink) + 1 - 1
    BY <1>1
  <2>2. Latest(sink, o, "offset", Len(sink) + 1)
    BY <1>0, <1>1, <1>5, <2>1, LatestPrefix
  <2>3. OffsetOf(sink', o) = OffsetOf(sink, o)
    BY <1>0, ValuesPrefix
  <2>4. InStep(b.type, OffsetOf(sink, o))
    BY <2>2 DEF Numbers
  <2>5. \A i \in DOMAIN fifo[b.type] :
            OffsetOf(sink, o) + fifo[b.type][i].n = fifo[b.type][i].g
    BY <1>2, <2>4 DEF InStep
  <2>6. b.ev # <<>>
    BY <1>5
  <2>. QED BY <1>4, <2>3, <2>5, <2>6
<1>. QED BY <1>1, <1>5 DEF NumberedRight

\* So every block that comes is numbered right.
LEMMA EventNumberStep ==
    ASSUME Typed, Numbers, EventNumber, [VmeNext]_crateVars PROVE EventNumber'
<1>0. Rigid /\ sink \in Seq(Blocks) /\ Len(sink) \in Nat /\ mark \in 0 .. Len(sink)
  BY IsRigid, CrateStays DEF Typed, TypedNet
<1>1. SUFFICES ASSUME Counting, NEW i \in DOMAIN sink', sink'[i].type \in Nums,
                      Undisturbed \/ \E o \in mark' + 1 .. i - 1 : sink'[o].type = "offset"
               PROVE  NumberedRight(sink', i)
  BY <1>0 DEF EventNumber, Rigid, Nums
<1>2. ASSUME i \in 1 .. Len(sink), sink[i].type \in Nums,
             Undisturbed \/ \E o \in mark + 1 .. i - 1 : sink[o].type = "offset"
      PROVE  NumberedRight(sink, i)
  <2>1. i \in DOMAIN sink
    BY <1>0, <1>2
  <2>. QED BY <1>1, <1>2, <2>1 DEF EventNumber, Nums
<1>3. CASE sink' = <<>>
  BY <1>1, <1>3
<1>4. CASE sink' = sink /\ sink' # <<>>
  <2>1. i \in 1 .. Len(sink) /\ sink[i].type \in Nums
    BY <1>0, <1>1, <1>4
  <2>2. mark' = mark \/ mark' = Len(sink)
    BY <1>4, MarkMoves
  <2>3. CASE mark' = mark
    BY <1>1, <1>2, <1>4, <2>1, <2>3
  <2>4. CASE mark' = Len(sink)
    <3>1. Undisturbed
      BY <1>0, <1>1, <2>1, <2>4
    <3>. QED BY <1>2, <1>4, <2>1, <3>1
  <2>. QED BY <2>2, <2>3, <2>4
<1>5. ASSUME NEW b \in Blocks, NewBlock(b) PROVE NumberedRight(sink', i)
  <2>1. /\ sink' = Append(sink, b) /\ peer = "up" /\ (Net => sd # 0) /\ mark' = mark
    BY <1>5 DEF NewBlock, Sent
  <2>2. i \in 1 .. Len(sink) + 1
    BY <1>0, <1>1, <2>1
  <2>3. \A o \in 1 .. Len(sink) : sink'[o] = sink[o]
    BY <1>0, <2>1
  <2>4. Undisturbed \/ \E o \in mark + 1 .. i - 1 : sink[o].type = "offset"
    <3>1. CASE Undisturbed
      BY <3>1
    <3>2. CASE ~Undisturbed
      <4>1. PICK o \in mark + 1 .. i - 1 : sink'[o].type = "offset"
        BY <1>1, <2>1, <3>2
      <4>2. o \in 1 .. Len(sink)
        BY <1>0, <2>2, <4>1
      <4>. QED BY <2>3, <4>1, <4>2
    <3>. QED BY <3>1, <3>2
  <2>5. CASE i = Len(sink) + 1
    <3>1. sink'[i] = b
      BY <1>0, <2>1, <2>5
    <3>2. Known
      <4>1. i - 1 = Len(sink)
        BY <1>0, <2>5
      <4>. QED BY <2>1, <2>4, <4>1 DEF Known
    <3>. QED BY <1>1, <1>5, <2>5, <3>1, <3>2, BlockNumberedRight
  <2>6. CASE i # Len(sink) + 1
    <3>1. i \in 1 .. Len(sink)
      BY <1>0, <2>2, <2>6
    <3>2. NumberedRight(sink, i)
      BY <1>1, <1>2, <2>3, <2>4, <3>1
    <3>. QED BY <1>0, <2>1, <3>1, <3>2, RightPrefix
  <2>. QED BY <2>5, <2>6
<1>. QED BY <1>3, <1>4, <1>5, StreamSteps DEF StreamStep


-----------------------------------------------------------------------------
(* No event is missing *)

\* A module goes on having a last block, or none.
LEMMA LastsStep == ASSUME Typed, Lasts, [VmeNext]_crateVars PROVE Lasts'
<1>0. Rigid /\ sink \in Seq(Blocks) /\ Len(sink) \in Nat
  BY IsRigid, CrateStays DEF Typed, TypedNet
<1>1. SUFFICES ASSUME NEW m \in Modules
               PROVE  \E o \in 0 .. Len(sink') : Latest(sink', o, m, Len(sink') + 1)
  BY <1>0 DEF Lasts, Rigid
<1>2. PICK q \in 0 .. Len(sink) : Latest(sink, q, m, Len(sink) + 1)
  BY <1>1 DEF Lasts
<1>3. CASE sink' = sink
  BY <1>2, <1>3
<1>4. CASE sink' = <<>>
  <2>1. Len(sink') = 0
    BY <1>4
  <2>2. Latest(sink', 0, m, 1)
    BY DEF Latest
  <2>. QED BY <2>1, <2>2
<1>5. ASSUME NEW b \in Blocks, NewBlock(b)
      PROVE  \E o \in 0 .. Len(sink') : Latest(sink', o, m, Len(sink') + 1)
  <2>1. sink' = Append(sink, b)
    BY <1>5 DEF NewBlock, Sent
  <2>2. /\ Len(sink') = Len(sink) + 1 /\ sink'[Len(sink) + 1] = b
        /\ \A j \in 1 .. Len(sink) : sink'[j] = sink[j]
    BY <1>0, <2>1
  <2>3. CASE b.type = m
    <3>1. Latest(sink', Len(sink) + 1, m, Len(sink) + 2)
      BY <1>0, <2>2, <2>3 DEF Latest
    <3>2. Len(sink') + 1 = Len(sink) + 2 /\ Len(sink) + 1 \in 0 .. Len(sink')
      BY <1>0, <2>2
    <3>. QED BY <3>1, <3>2
  <2>4. CASE b.type # m
    <3>1. q # 0 => sink'[q].type = m
      BY <1>0, <1>2, <2>2 DEF Latest
    <3>2. ASSUME NEW j \in q + 1 .. Len(sink) + 1 PROVE sink'[j].type # m
      <4>1. CASE j = Len(sink) + 1
        BY <2>2, <2>4, <4>1
      <4>2. CASE j # Len(sink) + 1
        <5>1. j \in q + 1 .. Len(sink) + 1 - 1 /\ j \in 1 .. Len(sink)
          BY <1>0, <3>2, <4>2
        <5>. QED BY <1>2, <2>2, <5>1 DEF Latest
      <4>. QED BY <4>1, <4>2
    <3>3. Latest(sink', q, m, Len(sink) + 2)
      BY <1>0, <3>1, <3>2 DEF Latest
    <3>4. Len(sink') + 1 = Len(sink) + 2 /\ q \in 0 .. Len(sink')
      BY <1>0, <2>2
    <3>. QED BY <3>3, <3>4
  <2>. QED BY <2>3, <2>4
<1>. QED BY <1>3, <1>4, <1>5, StreamSteps DEF StreamStep

\* The next trigger is a number.
LEMMA DueTyped ==
    ASSUME Typed, NEW m \in Modules, NEW o \in 0 .. Len(sink), o # 0 => sink[o].type = m
    PROVE  DueAfter(sink, o) \in Nat
<1>1. CASE o = 0
  BY <1>1 DEF DueAfter
<1>2. CASE o # 0
  <2>1. sink[o] \in Blocks /\ sink[o].type = m
    BY <1>2 DEF Typed, TypedNet
  <2>2. "offset" \notin Modules /\ "v830" \notin Modules
    BY CrateIsRight DEF Typed, CrateRight, ModulesRight
  <2>3. PICK e \in Seq(Event) : sink[o].ev = e /\ e # <<>>
    BY <2>1, <2>2 DEF Blocks
  <2>4. e[Len(e)] \in Event
    BY <2>3
  <2>. QED BY <1>2, <2>3, <2>4 DEF DueAfter, Last, Event
<1>. QED BY <1>1, <1>2

FollowingAfter(m, v) ==
    hits' = v + Len(fifo'[m]) /\ \A j \in DOMAIN fifo'[m] : fifo'[m][j].g = v + j - 1

\* A module goes on numbering its triggers, until what it stores is read.
LEMMA FollowingStays ==
    ASSUME Typed, Controls, Emptied, [VmeNext]_crateVars, hwork = <<>>,
           NEW m \in Modules, NEW v \in Nat, Following(m, v), pc # "release",
           ~(ReadModule /\ Pass[k] = m /\ fifo[m] # <<>>)
    PROVE  FollowingAfter(m, v)
<1>0. Rigid /\ CrateRight
  BY IsRigid, CrateStays, CrateIsRight DEF Typed
<1>1. fifo[m] \in Seq(Event) /\ hits \in Nat /\ ctr[m] \in Nat
  BY DEF Typed, TypedHw
<1>2. ASSUME hits' = hits, fifo'[m] = fifo[m] PROVE FollowingAfter(m, v)
  BY <1>2 DEF Following, FollowingAfter
<1>3. CASE Trigger
  <2>. DEFINE e == [n |-> ctr[m], g |-> hits]
  <2>1. Triggered
    BY <1>3, TriggerDone
  <2>2. hits' = hits + 1 /\ fifo'[m] = Append(fifo[m], e)
    BY <2>1 DEF Triggered
  <2>3. e \in Event /\ e.g = hits
    BY <1>1 DEF Event
  <2>. HIDE DEF e
  <2>4. hits = v + Len(fifo[m]) /\ \A j \in 1 .. Len(fifo[m]) : fifo[m][j].g = v + j - 1
    BY <1>1 DEF Following
  <2>5. /\ Len(fifo'[m]) = Len(fifo[m]) + 1 /\ DOMAIN fifo'[m] = 1 .. Len(fifo[m]) + 1
        /\ Len(fifo[m]) \in Nat
    BY <1>1, <2>2, <2>3
  <2>6. ASSUME NEW j \in 1 .. Len(fifo[m]) + 1 PROVE fifo'[m][j].g = v + j - 1
    <3>1. CASE j = Len(fifo[m]) + 1
      <4>1. fifo'[m][j] = e
        BY <1>1, <2>2, <2>3, <3>1
      <4>. QED BY <2>3, <2>4, <2>5, <3>1, <4>1
    <3>2. CASE j # Len(fifo[m]) + 1
      <4>1. j \in 1 .. Len(fifo[m])
        BY <2>5, <3>2
      <4>2. fifo'[m][j] = fifo[m][j]
        BY <1>1, <2>2, <2>3, <4>1
      <4>. QED BY <2>4, <4>1, <4>2
    <3>. QED BY <3>1, <3>2
  <2>7. hits' = v + Len(fifo'[m])
    BY <1>1, <2>2, <2>4, <2>5
  <2>. QED BY <2>5, <2>6, <2>7 DEF FollowingAfter
<1>4. CASE MainWrite
  <2>1. RegisterWrite(Head(work)) /\ work # <<>> /\ work \in Seq(Writes)
    BY <1>4 DEF MainWrite, Typed, TypedProg
  <2>2. pc = "clear" /\ ToSet(work) \subseteq Nums /\ Head(work) \in ToSet(work)
    BY <2>1, ToSetTail DEF Controls
  <2>3. Head(work) # "v830"
    BY <1>0, <2>2 DEF CrateRight, ModulesRight
  <2>4. Written(Head(work)) /\ fifo[m] = <<>>
    BY <2>1, <2>2, RegisterWritten DEF Emptied
  <2>5. hits' = hits /\ fifo'[m] = fifo[m]
    BY <2>3, <2>4 DEF Written
  <2>. QED BY <1>2, <2>5
<1>5. CASE ReadModule
  <2>1. Pass[k] \in Modules \cup {"v830"} /\ Drained(Pass[k]) /\ hits' = hits
    BY <1>5, ModuleRead DEF ReadRest
  <2>2. fifo'[m] = fifo[m]
    BY <1>5, <2>1 DEF Drained
  <2>. QED BY <1>2, <2>1, <2>2
<1>6. CASE EndPass
  <2>1. hits' = hits /\ fifo' = fifo
    BY <1>6, PassEnded DEF EndRest, hwVars
  <2>. QED BY <1>2, <2>1
<1>7. CASE HandlerWrite
  BY <1>7 DEF HandlerWrite
<1>8. CASE UNCHANGED <<hits, fifo>>
  BY <1>2, <1>8
<1>. QED BY <1>3, <1>4, <1>5, <1>6, <1>7, <1>8
     DEF VmeNext, crateVars, Program, accept_connection, PeerFails, DiskFreed, sighup,
         periodic_clear, Release, ReadV977, ClearV977, KeepAlive, Lost, hwVars

\* What is assumed where no event may be missing.
AllDelivered == Undisturbed /\ Counting /\ (crate.Dma => Tdcs = <<>>)

\* Then a module that is read delivers all it stores.
LEMMA AllRead ==
    ASSUME Typed, AllDelivered, NEW m \in Modules PROVE Block(m).ev = fifo[m]
<1>1. crate.Dma => m \notin ToSet(Tdcs)
  BY DEF AllDelivered, ToSet
<1>. QED BY <1>1, BlockIs DEF BlockOf


\* What a module stores goes on following what it has delivered.
LEMMA DuesStep ==
    ASSUME Typed, Controls, Emptied, Waiting, Fresh, Lasts, Dues, [VmeNext]_crateVars
    PROVE  Dues'
<1>0. Rigid /\ CrateRight /\ sink \in Seq(Blocks) /\ Len(sink) \in Nat
  BY IsRigid, CrateStays, CrateIsRight DEF Typed, TypedNet
<1>1. SUFFICES ASSUME AllDelivered, peer' = "up", pc' # "release", NEW m \in Modules,
                      NEW o \in 0 .. Len(sink'), Latest(sink', o, m, Len(sink') + 1)
               PROVE  FollowingAfter(m, DueAfter(sink', o))
  BY <1>0 DEF Dues, Rigid, Following, FollowingAfter, AllDelivered
<1>2. Undisturbed /\ Quiet /\ hwork = <<>> /\ ~crate.DiskRecovers
  BY <1>1 DEF AllDelivered, Undisturbed, Quiet, Controls
<1>3. ASSUME peer = "up", pc # "release", NEW q \in 0 .. Len(sink),
             Latest(sink, q, m, Len(sink) + 1)
      PROVE  Following(m, DueAfter(sink, q)) /\ DueAfter(sink, q) \in Nat
  <2>1. Following(m, DueAfter(sink, q))
    BY <1>1, <1>3 DEF Dues, AllDelivered
  <2>2. q # 0 => sink[q].type = m
    BY <1>3 DEF Latest
  <2>. QED BY <2>1, <2>2, DueTyped
<1>4. ~accept_connection
  BY <1>1 DEF accept_connection
<1>5. CASE sink' = sink /\ pc # "release"
  <2>1. peer = "up"
    <3>1. CASE EndPass
      BY <1>1, <3>1, PassEnded DEF EndRest
    <3>2. CASE ReadModule
      BY <1>1, <3>2, ModuleRead DEF ReadRest
    <3>3. CASE Lost \/ PeerFails \/ DiskFreed
      BY <1>1, <1>2, <3>3 DEF Lost, PeerFails, DiskFreed
    <3>4. CASE UNCHANGED peer
      BY <1>1, <3>4
    <3>. QED BY <1>4, <3>1, <3>2, <3>3, <3>4
         DEF VmeNext, crateVars, Program, Trigger, sighup, HandlerWrite,
             MainWrite, periodic_clear, Release, ReadV977, ClearV977, KeepAlive, netVars
  <2>2. ~(ReadModule /\ Pass[k] = m /\ fifo[m] # <<>>)
    <3>1. SUFFICES ASSUME ReadModule, Pass[k] = m, fifo[m] # <<>> PROVE FALSE
      OBVIOUS
    <3>2. ReadDone(m) /\ ReadRest /\ Block(m).ev # <<>> /\ Block(m) \in Blocks
      BY <1>1, <3>1, ModuleRead, AllRead
    <3>3. sink' # Append(sink, Block(m))
      BY <1>0, <1>5, <3>2
    <3>. QED BY <1>2, <2>1, <3>2, <3>3 DEF ReadDone, ReadRest, Sent, Stray, Waiting
  <2>3. Following(m, DueAfter(sink, o)) /\ DueAfter(sink, o) \in Nat
    BY <1>1, <1>3, <1>5, <2>1
  <2>. QED BY <1>2, <1>5, <2>2, <2>3, FollowingStays
<1>6. CASE sink' = sink /\ pc = "release"
  <2>1. Release
    <3>1. ~EndPass /\ ~ReadModule
      BY <1>6 DEF EndPass, ReadModule
    <3>. QED BY <1>1, <1>2, <1>4, <1>6, <3>1
         DEF VmeNext, crateVars, Program, Trigger, PeerFails, DiskFreed, sighup, HandlerWrite,
             MainWrite, periodic_clear, ReadV977, ClearV977, KeepAlive, Lost, progVars
  <2>2. work = <<>> /\ UNCHANGED <<hits, fifo>>
    BY <2>1 DEF Release
  <2>3. \A x : x \notin ToSet(work)
    BY <2>2 DEF ToSet
  <2>4. hits = 0 /\ fifo[m] = <<>>
    BY <1>2, <1>6, <2>3 DEF Fresh
  <2>5. sink = <<>>
    BY <1>2, <1>6 DEF Waiting, Controls
  <2>6. DueAfter(sink', o) = 0
    BY <1>1, <1>6, <2>5 DEF DueAfter
  <2>7. Len(fifo'[m]) = 0 /\ DOMAIN fifo'[m] = {}
    BY <2>2, <2>4
  <2>. QED BY <2>2, <2>4, <2>6, <2>7 DEF FollowingAfter
<1>7. ASSUME NEW b \in Blocks, NewBlock(b) PROVE FollowingAfter(m, DueAfter(sink', o))
  <2>1. sink' = Append(sink, b) /\ peer = "up" /\ pc = "pass" /\ hits' = hits
    BY <1>7 DEF NewBlock, Sent
  <2>2. Len(sink') + 1 = Len(sink) + 2 /\ Len(sink') = Len(sink) + 1
    BY <1>0, <2>1
  <2>3. /\ b.type = m => o = Len(sink) + 1
        /\ b.type # m => o \in 0 .. Len(sink) /\ Latest(sink, o, m, Len(sink) + 1)
    BY <1>0, <1>1, <2>1, <2>2, LatestAppend
  <2>4. CASE b.type # m
    <3>1. Following(m, DueAfter(sink, o)) /\ DueAfter(sink, o) \in Nat
      BY <1>3, <2>1, <2>3, <2>4
    <3>2. DueAfter(sink', o) = DueAfter(sink, o)
      BY <1>0, <2>1, <2>3, <2>4, ValuesPrefix
    <3>3. ~(ReadModule /\ Pass[k] = m)
      BY <1>0, <1>7, <2>4 DEF NewBlock, ReadModule, EndPass, Typed, TypedProg, CrateRight, PassRight
    <3>. QED BY <1>2, <2>1, <3>1, <3>2, <3>3, FollowingStays
  <2>5. CASE b.type = m
    <3>1. ReadModule /\ b = Block(m) /\ Pass[k] = m
      BY <1>0, <1>7, <2>5 DEF NewBlock, Offset, CrateRight, ModulesRight
    <3>2. Drained(m) /\ b.ev = fifo[m] /\ (b.ev # <<>>)
      <4>1. Drained(m) /\ ReadDone(m)
        BY <3>1, ModuleRead
      <4>2. b.ev = fifo[m]
        BY <1>1, <3>1, AllRead
      <4>3. "v830" \notin Modules /\ "offset" \notin Modules
        BY <1>0 DEF CrateRight, ModulesRight
      <4>4. b.ev # <<>>
        BY <2>5, <4>3 DEF Blocks
      <4>. QED BY <4>1, <4>2, <4>4
    <3>3. fifo'[m] = <<>>
      BY <1>0, <3>2 DEF Drained, CrateRight, ModulesRight
    <3>4. PICK q \in 0 .. Len(sink) : Latest(sink, q, m, Len(sink) + 1)
      BY DEF Lasts
    <3>5. Following(m, DueAfter(sink, q)) /\ DueAfter(sink, q) \in Nat
      BY <1>3, <2>1, <3>4
    <3>6. fifo[m] \in Seq(Event) /\ Len(fifo[m]) \in Nat /\ Len(fifo[m]) # 0
      BY <3>2 DEF Typed, TypedHw
    <3>7. hits = DueAfter(sink, q) + Len(fifo[m])
      BY <3>5 DEF Following
    <3>8. fifo[m][Len(fifo[m])].g = DueAfter(sink, q) + Len(fifo[m]) - 1
      BY <3>5, <3>6 DEF Following
    <3>9. sink'[o] = b /\ o # 0
      BY <1>0, <2>1, <2>3, <2>5
    <3>10. DueAfter(sink', o) = fifo[m][Len(fifo[m])].g + 1
      BY <3>2, <3>9 DEF DueAfter, Last
    <3>11. DueAfter(sink', o) = hits
      BY <3>5, <3>6, <3>7, <3>8, <3>10
    <3>12. Len(fifo'[m]) = 0 /\ DOMAIN fifo'[m] = {} /\ hits \in Nat
      BY <3>3 DEF Typed, TypedHw
    <3>. QED BY <2>1, <3>11, <3>12 DEF FollowingAfter
  <2>. QED BY <2>4, <2>5
<1>. QED BY <1>4, <1>5, <1>6, <1>7, StreamSteps DEF StreamStep

\* So no event is missing in a block that comes, nor before an offset.
LEMMA CompleteStep ==
    ASSUME Typed, Controls, Emptied, Scaled, Dues, Complete, [VmeNext]_crateVars
    PROVE  Complete'
<1>0. Rigid /\ CrateRight /\ sink \in Seq(Blocks) /\ Len(sink) \in Nat
  BY IsRigid, CrateStays, CrateIsRight DEF Typed, TypedNet
<1>1. SUFFICES ASSUME AllDelivered PROVE \A i \in DOMAIN sink' : NoneMissing(sink', i)
  BY <1>0 DEF Complete, Rigid, NoneMissing, AllDelivered
<1>2. \A i \in DOMAIN sink : NoneMissing(sink, i)
  BY <1>1 DEF Complete, AllDelivered
<1>3. CASE sink' = <<>>
  BY <1>3
<1>4. CASE sink' = sink
  BY <1>2, <1>4
<1>5. ASSUME NEW b \in Blocks, NewBlock(b) PROVE \A i \in DOMAIN sink' : NoneMissing(sink', i)
  <2>1. sink' = Append(sink, b) /\ peer = "up" /\ pc = "pass"
    BY <1>5 DEF NewBlock, Sent
  <2>2. DOMAIN sink' = 1 .. Len(sink) + 1 /\ DOMAIN sink = 1 .. Len(sink)
    BY <1>0, <2>1
  <2>3. ASSUME NEW i \in 1 .. Len(sink) PROVE NoneMissing(sink', i)
    BY <1>0, <1>2, <2>1, <2>2, RightPrefix
  <2>4. NoneMissing(sink', Len(sink) + 1)
    <3>1. sink'[Len(sink) + 1] = b /\ Len(sink) + 1 - 1 = Len(sink)
          /\ Len(sink) + 1 \in 1 .. Len(sink) + 1
      BY <1>0, <2>1
    <3>2. SUFFICES ASSUME NEW m \in Modules, NEW o \in 0 .. Len(sink),
                          Latest(sink', o, m, Len(sink) + 1)
                   PROVE  /\ b.type = m => \A j \in DOMAIN b.ev :
                                              b.ev[j].g = DueAfter(sink', o) + j - 1
                          /\ b.type = "offset" => b.ev[1] = DueAfter(sink', o)
      BY <3>1 DEF NoneMissing
    <3>3. o \in 0 .. Len(sink) + 1 - 1
      BY <3>1
    <3>4. Latest(sink, o, m, Len(sink) + 1)
      BY <1>0, <2>1, <3>1, <3>2, <3>3, LatestPrefix
    <3>5. DueAfter(sink', o) = DueAfter(sink, o)
      BY <1>0, <2>1, ValuesPrefix
    <3>6. Following(m, DueAfter(sink, o))
      BY <1>1, <2>1, <3>4 DEF Dues, AllDelivered
    <3>7. ASSUME b.type = m PROVE \A j \in DOMAIN b.ev : b.ev[j].g = DueAfter(sink', o) + j - 1
      <4>1. b = Block(m)
        BY <1>0, <1>5, <3>7 DEF NewBlock, Offset, CrateRight, ModulesRight
      <4>2. b.ev = fifo[m]
        BY <1>1, <4>1, AllRead
      <4>. QED BY <3>5, <3>6, <4>2 DEF Following
    <3>8. ASSUME b.type = "offset" PROVE b.ev[1] = DueAfter(sink', o)
      <4>1. EndPass /\ OffsetDone /\ b = Offset
        BY <1>0, <1>5, <3>8 DEF NewBlock, CrateRight, ModulesRight
      <4>2. scaler = hits /\ fifo[m] = <<>>
        BY <1>1, <4>1, OffsetRight DEF AllDelivered
      <4>3. b.ev[1] = scaler
        BY <4>1 DEF Offset
      <4>4. o # 0 => sink[o].type = m
        BY <3>4 DEF Latest
      <4>5. DueAfter(sink, o) \in Nat
        BY <4>4, DueTyped
      <4>6. Len(fifo[m]) = 0
        BY <4>2
      <4>7. hits = DueAfter(sink, o)
        BY <3>6, <4>5, <4>6 DEF Following
      <4>. QED BY <3>5, <4>2, <4>3, <4>7
    <3>. QED BY <3>7, <3>8
  <2>5. ASSUME NEW i \in 1 .. Len(sink) + 1 PROVE NoneMissing(sink', i)
    <3>1. i = Len(sink) + 1 \/ i \in 1 .. Len(sink)
      BY <1>0
    <3>. QED BY <2>3, <2>4, <3>1
  <2>. QED BY <2>2, <2>5
<1>. QED BY <1>3, <1>4, <1>5, StreamSteps DEF StreamStep

-----------------------------------------------------------------------------
(* The theorems *)

\* The invariant holds at the start.
LEMMA VmeInvInit == ASSUME VmeInit PROVE VmeInv
<1>0. Typed /\ CrateRight
  BY TypedInit, CrateIsRight DEF VmeInit
<1>1. sink = <<>> /\ work = <<>> /\ hwork = <<>> /\ pc = "loop"
  BY DEF VmeInit
<1>2. Len(sink) = 0 /\ DOMAIN sink = {}
  BY <1>1
<1>3. Controls
  BY <1>1 DEF VmeInit, Controls
<1>4. Emptied /\ Fresh /\ Counted
  BY <1>1, <1>2 DEF VmeInit, Emptied, Fresh, Counted
<1>5. Scaled
  BY DEF VmeInit, Scaled, Settled, Counting
<1>6. Waiting
  BY DEF VmeInit, Waiting
<1>7. NoOffsets /\ EventNumber /\ BlockNumbers /\ Complete
  BY <1>2 DEF NoOffsets, EventNumber, BlockNumbers, Complete
<1>8. Lasts
  <2>1. \A m \in Modules : Latest(sink, 0, m, 1)
    BY DEF Latest
  <2>. QED BY <1>2, <2>1 DEF Lasts
<1>9. ASSUME Counting, peer = "up" \/ ~Net PROVE hits = 0
  BY <1>9 DEF VmeInit, Counting
<1>10. ASSUME NEW m \in Modules PROVE ctr[m] = 0 /\ fifo[m] = <<>>
  BY <1>10 DEF VmeInit
<1>11. Numbers
  <2>1. SUFFICES ASSUME Counting, Known, NEW o \in 0 .. Len(sink), NEW m \in Nums
                 PROVE  InStep(m, OffsetOf(sink, o))
    BY DEF Numbers
  <2>2. peer = "up" /\ m \in Modules
    BY <1>0, <1>2, <2>1 DEF Known, VmeInit, CrateRight, ModulesRight
  <2>3. OffsetOf(sink, o) = 0
    BY <1>2, <2>1 DEF OffsetOf
  <2>. QED BY <1>1, <1>9, <1>10, <2>1, <2>2, <2>3 DEF InStep
<1>12. Dues
  <2>1. SUFFICES ASSUME Counting, peer = "up", NEW o \in 0 .. Len(sink), NEW m \in Modules
                 PROVE  Following(m, DueAfter(sink, o))
    BY DEF Dues
  <2>2. DueAfter(sink, o) = 0
    BY <1>2, <2>1 DEF DueAfter
  <2>3. hits = 0 /\ Len(fifo[m]) = 0 /\ DOMAIN fifo[m] = {}
    BY <1>9, <1>10, <2>1
  <2>. QED BY <2>2, <2>3 DEF Following
<1>. QED BY <1>0, <1>3, <1>4, <1>5, <1>6, <1>7, <1>8, <1>11, <1>12 DEF VmeInv

\* And every step keeps it.
LEMMA VmeInvStep == ASSUME VmeInv, [VmeNext]_crateVars PROVE VmeInv'
<1>1. Typed' /\ Controls' /\ Emptied' /\ Scaled' /\ Waiting' /\ Fresh'
  BY TypedStep, ControlsStep, EmptiedStep, ScaledStep, WaitingStep, FreshStep DEF VmeInv
<1>2. Numbers' /\ EventNumber'
  BY NumbersStep, EventNumberStep DEF VmeInv
<1>3. NoOffsets' /\ Counted' /\ BlockNumbers'
  BY NoOffsetsStep, CountedStep, BlockNumbersStep DEF VmeInv
<1>4. Lasts' /\ Dues' /\ Complete'
  BY LastsStep, DuesStep, CompleteStep DEF VmeInv
<1>. QED BY <1>1, <1>2, <1>3, <1>4 DEF VmeInv

\* The invariant of vmedaq.
LEMMA VmeInvariant == VmeSpec => []VmeInv
BY VmeInvInit, VmeInvStep, PTL DEF VmeSpec

\* vmedaq: the variables keep their types; a pass never counts more modules with data than
\* there are, and the blocks are those of modules, of the V830 and offsets.
THEOREM VmedaqTyping == VmeSpec => []VmeTypeOK
<1>1. ASSUME VmeInv PROVE VmeTypeOK
  <2>1. Typed /\ CrateRight
    BY <1>1, CrateIsRight DEF VmeInv, Typed
  <2>2. ASSUME NEW b \in Blocks PROVE IsBlock(b)
    <3>1. "v830" \notin Modules /\ "offset" \notin Modules
      BY <2>1 DEF CrateRight, ModulesRight
    <3>2. CASE b \in [type : Modules, counter : Nat, ev : Seq(Event) \ {<<>>}]
      BY <3>2 DEF IsBlock
    <3>3. CASE b \in [type : {"v830"}, counter : Nat, ev : Seq(Nat)]
      BY <3>1, <3>3 DEF IsBlock
    <3>4. CASE b \in [type : {"offset"}, counter : Nat, ev : {<<v>> : v \in Nat}]
      <4>1. b.type = "offset" /\ b.counter \in Nat /\ b.ev \in {<<v>> : v \in Nat}
        BY <3>4
      <4>2. PICK v \in Nat : b.ev = <<v>>
        BY <4>1
      <4>3. <<v>> \in Seq(Nat)
        OBVIOUS
      <4>. QED BY <3>1, <4>1, <4>2, <4>3 DEF IsBlock
    <3>. QED BY <2>2, <3>2, <3>3, <3>4 DEF Blocks
  <2>3. nd \in 0 .. Len(Pass)
    BY <2>1 DEF Typed, TypedProg, CrateRight, PassRight
  <2>4. \A i \in DOMAIN sink : IsBlock(sink[i])
    BY <2>1, <2>2 DEF Typed, TypedNet
  <2>5. \A i \in DOMAIN local : IsBlock(local[i])
    BY <2>1, <2>2 DEF Typed, TypedNet
  <2>. QED BY <2>1, <2>3, <2>4, <2>5 DEF VmeTypeOK, Typed, TypedHw, TypedProg, TypedNet, Writes
<1>. QED BY <1>1, VmeInvariant, PTL

\* vmedaq: the offset in force plus the counter in an event is the number of its trigger
\* (read_data, send_counter_offset, clear_event_counters), however many modules and triggers
\* there are; a signal, a lost offset or a connection taken while triggers are accepted
\* spoil the numbers at most up to the next offset.
THEOREM VmedaqNumbers == VmeSpec => []EventNumber
<1>1. VmeInv => EventNumber
  BY DEF VmeInv
<1>. QED BY <1>1, VmeInvariant, PTL

\* vmedaq: the blocks are numbered without a gap, every module delivers its events once and
\* in order, and none is left in a module when the counters are cleared.
THEOREM VmedaqComplete == VmeSpec => []NothingMissing
<1>1. VmeInv => NothingMissing
  BY DEF VmeInv, NothingMissing
<1>. QED BY <1>1, VmeInvariant, PTL

-----------------------------------------------------------------------------
(* A client that leaves during the handshake *)

\* Until a client has left during the handshake the program waits for one, the trigger
\* inhibited, or has one, whatever signals arrive.
Steady == crate.BadHandshake => conns = 0

Guarded ==
    Net /\ Steady =>
        /\ stdin = "null" /\ local = <<>>
        /\ sd = 0 => inhibit /\ pc \in {"loop", "accept"}

LEMMA GuardedStep == ASSUME Typed, Controls, Guarded, [VmeNext]_crateVars PROVE Guarded'
<1>0. Rigid /\ CrateRight
  BY IsRigid, CrateStays, CrateIsRight DEF Typed
<1>1. crate' = crate /\ conns \in Nat
  BY CrateStays DEF Typed, TypedNet
<1>2. conns' = conns \/ (accept_connection /\ conns' = conns + 1)
  BY DEF VmeNext, Program, Trigger, MainWrite, periodic_clear, accept_connection, Release,
         ReadV977, ReadModule, EndPass, ClearV977, KeepAlive, Lost, PeerFails, DiskFreed,
         sighup, HandlerWrite, crateVars, netVars
<1>. SUFFICES ASSUME Net, Steady'
              PROVE  /\ stdin' = "null" /\ local' = <<>>
                     /\ sd' = 0 => inhibit' /\ pc' \in {"loop", "accept"}
  BY <1>0 DEF Guarded, Rigid
<1>3. Steady /\ (accept_connection => ~crate.BadHandshake)
  BY <1>1, <1>2 DEF Steady, accept_connection
<1>4. /\ stdin = "null" /\ local = <<>>
      /\ sd = 0 => inhibit /\ pc \in {"loop", "accept"}
  BY <1>3 DEF Guarded
<1>5. CASE periodic_clear
  <2>1. /\ pc' = (IF sd = 0 THEN "accept" ELSE "read")
        /\ UNCHANGED <<inhibit, stdin, local, sd>>
    BY <1>5 DEF periodic_clear, netVars
  <2>. QED BY <1>4, <2>1
<1>6. CASE accept_connection
  BY <1>3, <1>4, <1>6 DEF accept_connection
<1>7. CASE ReadModule
  <2>1. ReadDone(Pass[k]) /\ ReadRest
    BY <1>7, ModuleRead
  <2>2. pc = "pass" /\ sd # 0 /\ UNCHANGED <<stdin, sd>>
    BY <1>4, <2>1 DEF ReadRest
  <2>3. local' = local
    BY <2>1, <2>2 DEF ReadDone, Sent, Stray, Kept
  <2>. QED BY <1>4, <2>2, <2>3
<1>8. CASE EndPass
  <2>1. EndDone /\ EndRest
    BY <1>8, PassEnded
  <2>2. pc = "pass" /\ sd # 0 /\ UNCHANGED <<stdin, sd>>
    BY <1>4, <2>1 DEF EndRest
  <2>3. local' = local
    BY <2>1, <2>2 DEF EndDone, OffsetDone, Sent, Stray, Kept
  <2>. QED BY <1>4, <2>2, <2>3
<1>9. CASE Release \/ ReadV977 \/ ClearV977 \/ KeepAlive
  <2>1. pc \notin {"loop", "accept"} /\ UNCHANGED <<stdin, local, sd>>
    BY <1>9 DEF Release, ReadV977, ClearV977, KeepAlive, netVars
  <2>. QED BY <1>4, <2>1
<1>10. CASE Lost
  <2>1. /\ pc = "lost" /\ pc' = "loop" /\ inhibit' = TRUE /\ UNCHANGED local
        /\ stdin' = IF sd = 0 THEN "shut" ELSE stdin
    BY <1>10 DEF Lost
  <2>. QED BY <1>4, <2>1
<1>11. CASE Trigger \/ MainWrite \/ HandlerWrite \/ sighup \/ PeerFails \/ DiskFreed
            \/ UNCHANGED crateVars
  <2>1. UNCHANGED <<pc, inhibit, stdin, local, sd>>
    BY <1>11 DEF Trigger, MainWrite, HandlerWrite, sighup, PeerFails, DiskFreed,
                 crateVars, hwVars, progVars, netVars
  <2>. QED BY <1>4, <2>1
<1>. QED BY <1>5, <1>6, <1>7, <1>8, <1>9, <1>10, <1>11 DEF VmeNext, Program

\* vmedaq -n: nothing is written to the output file, and the trigger is inhibited while
\* accept_connection waits for a client, with any signals and for any number of clients, until
\* one leaves during the handshake.
THEOREM VmedaqConnected == VmeSpec => []Connected
<1>1. VmeInit => Guarded
  BY DEF VmeInit, Guarded
<1>2. VmeInv /\ Guarded /\ [VmeNext]_crateVars => Guarded'
  BY GuardedStep DEF VmeInv
<1>3. VmeInv /\ Guarded => Connected
  BY DEF VmeInv, Guarded, Steady, Connected, Controls
<1>. QED BY <1>1, <1>2, <1>3, VmeInvariant, PTL DEF VmeSpec

=============================================================================
