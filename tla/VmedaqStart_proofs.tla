------------------------- MODULE VmedaqStart_proofs -------------------------
(***************************************************************************)
(* What is proved about VmedaqStart: in each of the three versions, for    *)
(* any numbers of modules, programs, connections and triggers, and with    *)
(* every step failing or being killed, the program comes up and goes down  *)
(* as it should (Started).                                                 *)
(*                                                                         *)
(* The argument.  main() is a fixed list of steps, so what has been done   *)
(* (Done) follows from where the program is, and the order of the steps    *)
(* (Order) is all that the proof uses of the lists: the trigger is held    *)
(* before anything is cleared (Setting), so that what was cleared stays    *)
(* clean until the trigger is released (Cleared); no number of modules     *)
(* changes any more when the first buffer is cleared; and what was mapped  *)
(* has its close still to come (Closing).                                  *)
(***************************************************************************)
EXTENDS VmedaqStart, TLAPS

Confs == {"v830", "v1190", "madc32", "mqdc32", "myriad"}
Libs == Confs \cup {"v977"}

\* Step k is what, of library l; ...
Is(k, what, l) == main[k].do = what /\ main[k].lib = l

\* ... it has been done when step k comes; ...
Before(k, what, l) == \E j \in 1 .. k - 1 : Is(j, what, l)

\* ... the program has done it.
Done(what, l) == Before(pc, what, l)

\* Step k drops the window of library l.
Closes(k, l) == main[k].do \in {"close", "exit"} /\ main[k].lib = l

Resets == {"fifo_reset", "myriad_init", "clear"}

\* What the three lists of steps have in common ...
OrderOf(k) ==
    /\ main[k].do \in Resets \cup {"v830_init", "daq"} => Before(k, "v977_init", "vmedaq")
    /\ main[k].do \in {"v977_init", "v830_init", "myriad_init", "clear"} => main[k].lib = "vmedaq"
    /\ main[k].do = "fifo_reset" => main[k].lib \in Adcs
    /\ main[k].do = "count" => main[k].lib \in Confs
    /\ main[k].do = "daq" =>
         /\ Before(k, "v830_init", "vmedaq") /\ Before(k, "clear", "vmedaq")
         /\ Before(k, "fifo_reset", "madc32")
         /\ Version = "2020" => Before(k, "fifo_reset", "mqdc32") /\ Before(k, "myriad_init", "vmedaq")
    /\ main[k].do = "map" => main[k].lib \in Libs /\ \E j \in k + 1 .. Len(main) : Closes(j, main[k].lib)

\* ... and where they differ.
VersionOf(k) ==
    /\ main[k].do = "v830_init" /\ Version = "2020" => Before(k, "count", "v830")
    /\ main[k].do = "count" => Version # "e404"
    /\ main[k].do = "count" /\ Version # "2020" => main[k].lib \notin {"mqdc32", "myriad"}

OrderOfTwo(j, k) ==
    /\ main[j].do \in Resets /\ main[k].do \in {"count", "options"} => k < j
    /\ Version = "2020" /\ main[j].do = "v830_init" /\ Is(k, "count", "v830") => k < j
    /\ main[j].do = "v830_init" /\ main[k].do = "options" => k < j

Order ==
    /\ Len(main) \in Nat \ {0} /\ main[Len(main)].do = "exit"
    /\ \A k \in 1 .. Len(main) : OrderOf(k) /\ VersionOf(k)
    /\ \A j, k \in 1 .. Len(main) : OrderOfTwo(j, k)

\* The steps of the current version, ...
LEMMA Steps2020 ==
    ASSUME Version = "2020"
    PROVE  /\ Len(main) = 34
           /\ \A k \in 1 .. 34 :
                /\ main[k].do = "options" <=> k = 1
                /\ main[k].do = "v977_init" <=> k = 5
                /\ main[k].do = "v830_init" <=> k = 9
                /\ main[k].do = "count" <=> k \in {6, 11, 14, 17, 19}
                /\ main[k].do = "fifo_reset" <=> k \in {21, 22}
                /\ main[k].do = "myriad_init" <=> k = 25
                /\ main[k].do = "clear" <=> k = 26
                /\ main[k].do = "daq" <=> k = 28
                /\ main[k].do = "map" <=> k \in {4, 8, 12, 15, 18, 24}
                /\ main[k].do = "close" <=> k \in 29 .. 31
                /\ main[k].do = "exit" <=> k \in 32 .. 34
<1>1. Len(main) = 34
  BY DEF main, open_2020, map_2020, daq_2020, close_2020, Do
<1>2. ASSUME NEW k \in 1 .. 34
      PROVE  /\ main[k].do = "options" <=> k = 1
             /\ main[k].do = "v977_init" <=> k = 5
             /\ main[k].do = "v830_init" <=> k = 9
             /\ main[k].do = "count" <=> k \in {6, 11, 14, 17, 19}
  BY DEF main, open_2020, map_2020, daq_2020, close_2020, Do
<1>3. ASSUME NEW k \in 1 .. 34
      PROVE  /\ main[k].do = "fifo_reset" <=> k \in {21, 22}
             /\ main[k].do = "myriad_init" <=> k = 25
             /\ main[k].do = "clear" <=> k = 26
             /\ main[k].do = "daq" <=> k = 28
  BY DEF main, open_2020, map_2020, daq_2020, close_2020, Do
<1>4. ASSUME NEW k \in 1 .. 34
      PROVE  /\ main[k].do = "map" <=> k \in {4, 8, 12, 15, 18, 24}
             /\ main[k].do = "close" <=> k \in 29 .. 31
             /\ main[k].do = "exit" <=> k \in 32 .. 34
  BY DEF main, open_2020, map_2020, daq_2020, close_2020, Do
<1> QED BY <1>1, <1>2, <1>3, <1>4

LEMMA Libs2020 ==
    ASSUME Version = "2020"
    PROVE  /\ main[5].lib = "vmedaq" /\ main[9].lib = "vmedaq" /\ main[25].lib = "vmedaq" /\ main[26].lib = "vmedaq"
           /\ main[6].lib = "v830" /\ main[11].lib = "v1190" /\ main[14].lib = "madc32"
           /\ main[17].lib = "mqdc32" /\ main[19].lib = "myriad"
           /\ main[21].lib = "madc32" /\ main[22].lib = "mqdc32"
           /\ main[4].lib = "v977" /\ main[8].lib = "v830" /\ main[12].lib = "v1190"
           /\ main[15].lib = "madc32" /\ main[18].lib = "mqdc32" /\ main[24].lib = "myriad"
           /\ main[29].lib = "v1190" /\ main[30].lib = "madc32" /\ main[31].lib = "mqdc32"
           /\ main[32].lib = "v830" /\ main[33].lib = "v977" /\ main[34].lib = "myriad"
  BY DEF main, open_2020, map_2020, daq_2020, close_2020, Do

LEMMA Order2020 ==
    ASSUME Version = "2020"
    PROVE  Order
<1>1. Len(main) = 34 /\ main[34].do = "exit"
  BY Steps2020
<1>2. ASSUME NEW k \in 1 .. 34 PROVE OrderOf(k)
  <2>1. main[k].do \in Resets \cup {"v830_init", "daq"} => Before(k, "v977_init", "vmedaq")
    BY Steps2020, Libs2020 DEF Before, Is, Resets
  <2>2. main[k].do \in {"v977_init", "v830_init", "myriad_init", "clear"} => main[k].lib = "vmedaq"
    BY Steps2020, Libs2020
  <2>3. main[k].do = "fifo_reset" => main[k].lib \in Adcs
    BY Steps2020, Libs2020 DEF Adcs
  <2>4. main[k].do = "count" => main[k].lib \in Confs
    BY Steps2020, Libs2020 DEF Confs
  <2>5. ASSUME main[k].do = "daq"
        PROVE  /\ Before(k, "v830_init", "vmedaq") /\ Before(k, "clear", "vmedaq")
               /\ Before(k, "fifo_reset", "madc32")
               /\ Before(k, "fifo_reset", "mqdc32") /\ Before(k, "myriad_init", "vmedaq")
    BY <2>5, Steps2020, Libs2020 DEF Before, Is
  <2>6. ASSUME main[k].do = "map"
        PROVE  main[k].lib \in Libs /\ \E j \in k + 1 .. 34 : Closes(j, main[k].lib)
    <3>1. k \in {4, 8, 12, 15, 18, 24}
      BY <2>6, Steps2020
    <3>2. /\ Closes(29, "v1190") /\ Closes(30, "madc32") /\ Closes(31, "mqdc32")
          /\ Closes(32, "v830") /\ Closes(33, "v977") /\ Closes(34, "myriad")
      BY Steps2020, Libs2020 DEF Closes
    <3> QED BY <3>1, <3>2, Libs2020 DEF Libs, Confs
  <2> QED BY <1>1, <2>1, <2>2, <2>3, <2>4, <2>5, <2>6 DEF OrderOf
<1>3. ASSUME NEW k \in 1 .. 34 PROVE VersionOf(k)
  BY Steps2020, Libs2020 DEF VersionOf, Before, Is
<1>4. ASSUME NEW j \in 1 .. 34, NEW k \in 1 .. 34 PROVE OrderOfTwo(j, k)
  BY Steps2020, Libs2020 DEF OrderOfTwo, Is, Resets
<1>5. Len(main) \in Nat \ {0} /\ main[Len(main)].do = "exit" /\ 1 .. Len(main) = 1 .. 34
  BY <1>1
<1> QED BY <1>2, <1>3, <1>4, <1>5 DEF Order

\* ... of that of June 2016, ...
LEMMA Steps2016 ==
    ASSUME Version = "2016"
    PROVE  /\ Len(main) = 23
           /\ \A k \in 1 .. 23 :
                /\ main[k].do = "options" <=> k = 1
                /\ main[k].do = "v977_init" <=> k = 4
                /\ main[k].do = "v830_init" <=> k = 7
                /\ main[k].do = "count" <=> k \in {8, 10, 13}
                /\ main[k].do = "fifo_reset" <=> k = 16
                /\ main[k].do # "myriad_init"
                /\ main[k].do = "clear" <=> k = 17
                /\ main[k].do = "daq" <=> k = 19
                /\ main[k].do = "map" <=> k \in {3, 6, 11, 14}
                /\ main[k].do = "close" <=> k \in {20, 21}
                /\ main[k].do = "exit" <=> k \in {22, 23}
  BY DEF main, open_2016, map_2016, daq_2016, close_2016, Do

LEMMA Libs2016 ==
    ASSUME Version = "2016"
    PROVE   /\ main[3].lib = "v977" /\ main[4].lib = "vmedaq" /\ main[6].lib = "v830" /\ main[7].lib = "vmedaq"
           /\ main[8].lib = "v830" /\ main[10].lib = "v1190" /\ main[11].lib = "v1190" /\ main[13].lib = "madc32"
           /\ main[14].lib = "madc32" /\ main[16].lib = "madc32" /\ main[17].lib = "vmedaq" /\ main[20].lib = "v1190"
           /\ main[21].lib = "madc32" /\ main[22].lib = "v830" /\ main[23].lib = "v977"
  BY DEF main, open_2016, map_2016, daq_2016, close_2016, Do

LEMMA Order2016 ==
    ASSUME Version = "2016"
    PROVE  Order
<1>1. Len(main) = 23 /\ main[23].do = "exit"
  BY Steps2016
<1>2. ASSUME NEW k \in 1 .. 23 PROVE OrderOf(k)
  <2>1. main[k].do \in Resets \cup {"v830_init", "daq"} => Before(k, "v977_init", "vmedaq")
    BY Steps2016, Libs2016 DEF Before, Is, Resets
  <2>2. main[k].do \in {"v977_init", "v830_init", "myriad_init", "clear"} => main[k].lib = "vmedaq"
    BY Steps2016, Libs2016
  <2>3. main[k].do = "fifo_reset" => main[k].lib \in Adcs
    BY Steps2016, Libs2016 DEF Adcs
  <2>4. main[k].do = "count" => main[k].lib \in Confs
    BY Steps2016, Libs2016 DEF Confs
  <2>5. ASSUME main[k].do = "daq"
        PROVE  /\ Before(k, "v830_init", "vmedaq") /\ Before(k, "clear", "vmedaq")
               /\ Before(k, "fifo_reset", "madc32")
    BY <2>5, Steps2016, Libs2016 DEF Before, Is
  <2>6. ASSUME main[k].do = "map"
        PROVE  main[k].lib \in Libs /\ \E j \in k + 1 .. 23 : Closes(j, main[k].lib)
    <3>1. k \in {3, 6, 11, 14}
      BY <2>6, Steps2016
    <3>2. /\ Closes(20, "v1190") /\ Closes(21, "madc32")
          /\ Closes(22, "v830") /\ Closes(23, "v977")
      BY Steps2016, Libs2016 DEF Closes
    <3> QED BY <3>1, <3>2, Libs2016 DEF Libs, Confs
  <2> QED BY <1>1, <2>1, <2>2, <2>3, <2>4, <2>5, <2>6 DEF OrderOf
<1>3. ASSUME NEW k \in 1 .. 23 PROVE VersionOf(k)
  BY Steps2016, Libs2016 DEF VersionOf, Before, Is
<1>4. ASSUME NEW j \in 1 .. 23, NEW k \in 1 .. 23 PROVE OrderOfTwo(j, k)
  BY Steps2016, Libs2016 DEF OrderOfTwo, Is, Resets
<1>5. Len(main) \in Nat \ {0} /\ main[Len(main)].do = "exit" /\ 1 .. Len(main) = 1 .. 23
  BY <1>1
<1> QED BY <1>2, <1>3, <1>4, <1>5 DEF Order

\* ... and of that of e404, ...
LEMMA Stepse404 ==
    ASSUME Version = "e404"
    PROVE  /\ Len(main) = 20
           /\ \A k \in 1 .. 20 :
                /\ main[k].do = "options" <=> k = 1
                /\ main[k].do = "v977_init" <=> k = 4
                /\ main[k].do = "v830_init" <=> k = 7
                /\ main[k].do # "count"
                /\ main[k].do = "fifo_reset" <=> k = 13
                /\ main[k].do # "myriad_init"
                /\ main[k].do = "clear" <=> k = 14
                /\ main[k].do = "daq" <=> k = 16
                /\ main[k].do = "map" <=> k \in {3, 6, 9, 11}
                /\ main[k].do = "close" <=> k \in {17, 18}
                /\ main[k].do = "exit" <=> k \in {19, 20}
  BY DEF main, open_e404, map_e404, daq_e404, daq_2016, close_e404, close_2016, Do

LEMMA Libse404 ==
    ASSUME Version = "e404"
    PROVE   /\ main[3].lib = "v977" /\ main[4].lib = "vmedaq" /\ main[6].lib = "v830" /\ main[7].lib = "vmedaq"
           /\ main[9].lib = "v1190" /\ main[11].lib = "madc32" /\ main[13].lib = "madc32" /\ main[14].lib = "vmedaq"
           /\ main[17].lib = "v1190" /\ main[18].lib = "madc32" /\ main[19].lib = "v830" /\ main[20].lib = "v977"
  BY DEF main, open_e404, map_e404, daq_e404, daq_2016, close_e404, close_2016, Do

LEMMA Ordere404 ==
    ASSUME Version = "e404"
    PROVE  Order
<1>1. Len(main) = 20 /\ main[20].do = "exit"
  BY Stepse404
<1>2. ASSUME NEW k \in 1 .. 20 PROVE OrderOf(k)
  <2>1. main[k].do \in Resets \cup {"v830_init", "daq"} => Before(k, "v977_init", "vmedaq")
    BY Stepse404, Libse404 DEF Before, Is, Resets
  <2>2. main[k].do \in {"v977_init", "v830_init", "myriad_init", "clear"} => main[k].lib = "vmedaq"
    BY Stepse404, Libse404
  <2>3. main[k].do = "fifo_reset" => main[k].lib \in Adcs
    BY Stepse404, Libse404 DEF Adcs
  <2>4. main[k].do = "count" => main[k].lib \in Confs
    BY Stepse404, Libse404 DEF Confs
  <2>5. ASSUME main[k].do = "daq"
        PROVE  /\ Before(k, "v830_init", "vmedaq") /\ Before(k, "clear", "vmedaq")
               /\ Before(k, "fifo_reset", "madc32")
    BY <2>5, Stepse404, Libse404 DEF Before, Is
  <2>6. ASSUME main[k].do = "map"
        PROVE  main[k].lib \in Libs /\ \E j \in k + 1 .. 20 : Closes(j, main[k].lib)
    <3>1. k \in {3, 6, 9, 11}
      BY <2>6, Stepse404
    <3>2. /\ Closes(17, "v1190") /\ Closes(18, "madc32")
          /\ Closes(19, "v830") /\ Closes(20, "v977")
      BY Stepse404, Libse404 DEF Closes
    <3> QED BY <3>1, <3>2, Libse404 DEF Libs, Confs
  <2> QED BY <1>1, <2>1, <2>2, <2>3, <2>4, <2>5, <2>6 DEF OrderOf
<1>3. ASSUME NEW k \in 1 .. 20 PROVE VersionOf(k)
  BY Stepse404, Libse404 DEF VersionOf, Before, Is
<1>4. ASSUME NEW j \in 1 .. 20, NEW k \in 1 .. 20 PROVE OrderOfTwo(j, k)
  BY Stepse404, Libse404 DEF OrderOfTwo, Is, Resets
<1>5. Len(main) \in Nat \ {0} /\ main[Len(main)].do = "exit" /\ 1 .. Len(main) = 1 .. 20
  BY <1>1
<1> QED BY <1>2, <1>3, <1>4, <1>5 DEF Order

\* The order of the steps.
LEMMA StepOrder ==
    ASSUME StartParameters
    PROVE  Order
  BY Order2020, Order2016, Ordere404 DEF StartParameters

-----------------------------------------------------------------------------
(* The inductive invariant *)

Scaler == <<"v830", 0>>
Myriad == <<"myriad", 0>>

StartTypes ==
    /\ TypeOK
    /\ conf \in [Confs -> Int] /\ acq \in [Adcs -> BOOLEAN]

\* From v977_init on the trigger is held, unless the readout has released it.
Setting ==
    /\ Done("v977_init", "vmedaq") => set
    /\ Guarded

\* The configuration, and the V830 that is set up by it.
Config ==
    /\ Version # "2020" => conf["mqdc32"] = 0 /\ conf["myriad"] = 0
    /\ Version = "e404" => conf["v830"] = 3
    /\ Version = "2020" /\ Done("count", "v830") => conf["v830"] \in 0 .. V830_N_CHANNELS
    /\ Version # "2016" /\ Done("v830_init", "vmedaq") => enabled = conf["v830"]

\* What has been cleared stays so up to the first release ...
Cleared ==
    releases = 0 =>
      /\ Done("v830_init", "vmedaq") => buf[Scaler] = {}
      /\ Done("myriad_init", "vmedaq") /\ conf["myriad"] = 1 => buf[Myriad] = {}
      /\ \A b \in Used : Done("fifo_reset", b[1]) => buf[b] = {}
      /\ Done("clear", "vmedaq") => \A b \in Used : num[b] = 0 /\ (b[1] = "v1190" => buf[b] = {})

\* ... and an ADC that has been reset takes events.
Acquiring == \A b \in Used : Done("fifo_reset", b[1]) => Takes(b)

\* What is mapped will be closed.
Closing ==
    pc # 0 /\ "unmap" \notin Faults =>
      \A l \in mapped : l # "dma" => \E k \in pc .. Len(main) : Closes(k, l)

StartInv ==
    /\ StartTypes /\ Setting /\ Config /\ Cleared /\ Acquiring /\ Closing
    /\ FreshData /\ SameNumber /\ NoCrash /\ NothingLeft

\* What is given to every step.
Given == StartParameters /\ Order /\ StartInv

-----------------------------------------------------------------------------
(* What has been done, and what the place of the program says *)

LEMMA Upto ==
    /\ \A n \in Nat : \A j \in 1 .. (n + 1) - 1 : j \in 1 .. n - 1 \/ j = n
    /\ \A j \in 1 .. 0 - 1 : FALSE
  OBVIOUS

LEMMA DoneOnce ==
    ASSUME Order, pc \in 1 .. Len(main), pc' \in {pc + 1, 0}, NEW w, NEW l, Done(w, l)'
    PROVE  Done(w, l) \/ Is(pc, w, l)
<1>1. PICK j \in 1 .. pc' - 1 : Is(j, w, l)
  BY DEF Done, Before, Is
<1>2. pc \in Nat
  BY DEF Order
<1>3. CASE pc' = pc + 1
  <2>1. j \in 1 .. (pc + 1) - 1
    BY <1>1, <1>3
  <2>2. j \in 1 .. pc - 1 \/ j = pc
    BY <1>2, <2>1, Upto
  <2> QED BY <1>1, <2>2 DEF Done, Before
<1>4. CASE pc' = 0
  <2>1. j \in 1 .. 0 - 1
    BY <1>1, <1>4
  <2> QED BY <2>1, Upto
<1> QED BY <1>3, <1>4

LEMMA DoneEnd ==
    ASSUME pc' = 0 \/ pc' = 1, NEW w, NEW l
    PROVE  ~ Done(w, l)'
  BY DEF Done, Before, Is

LEMMA DoneSame ==
    ASSUME pc' = pc, NEW w, NEW l
    PROVE  Done(w, l)' = Done(w, l)
  BY DEF Done, Before, Is

\* A step of main(), and the end of the program.
Go == pc \in 1 .. Len(main) /\ pc' \in {pc + 1, 0} /\ pc' \in 0 .. Len(main)

LEMMA StepGoes ==
    ASSUME Order, TypeOK, pc # 0, Step
    PROVE  Go /\ (pc' = 0 <=> pc = Len(main))
  BY DEF Order, TypeOK, Step, Go

\* Whatever is not the last step is followed by another one.
LEMMA NotLast ==
    ASSUME Order, TypeOK, pc # 0, main[pc].do # "exit"
    PROVE  pc \in 1 .. Len(main) - 1
  BY DEF Order, TypeOK

\* The trigger is held when the readout is reached.
LEMMA AtReadout ==
    ASSUME Given, At("daq")
    PROVE  /\ Done("v977_init", "vmedaq") /\ Done("v830_init", "vmedaq") /\ Done("clear", "vmedaq")
           /\ Done("fifo_reset", "madc32")
           /\ Version = "2020" => Done("fifo_reset", "mqdc32") /\ Done("myriad_init", "vmedaq")
<1>1. pc \in 1 .. Len(main) /\ main[pc].do = "daq"
  BY DEF Given, StartInv, StartTypes, TypeOK, Order, At
<1>2. OrderOf(pc)
  BY <1>1 DEF Given, Order
<1> QED BY <1>1, <1>2 DEF OrderOf, Done

-----------------------------------------------------------------------------
(* Steps that change nothing in the crate *)

\* The trigger stays held.
LEMMA SettingKept ==
    ASSUME Given, Go, inhibit' = inhibit, set' => set,
           pc' # 0 => set' = set /\ main[pc].do \notin {"v977_init", "daq"},
           main[pc].do = "daq" => inhibit \/ ~ set'
    PROVE  Setting' /\ (inhibit' \/ ~ At("daq")')
<1> USE DEF Given, StartInv, Setting
<1>1. ASSUME Done("v977_init", "vmedaq")' PROVE set'
  <2>1. pc' # 0
    BY <1>1, DoneEnd
  <2>2. Done("v977_init", "vmedaq")
    BY <1>1, <2>1, DoneOnce DEF Go, Is
  <2> QED BY <2>1, <2>2
<1>2. set' => inhibit'
  <2>1. set /\ main[pc].do # "daq" => inhibit
    BY DEF Guarded, At
  <2> QED BY <2>1
<1>3. At("daq")' => set'
  <2> SUFFICES ASSUME At("daq")' PROVE set'
    OBVIOUS
  <2>1. pc' \in 1 .. Len(main) /\ main[pc'].do = "daq"
    BY DEF At, Go, Order
  <2>2. Done("v977_init", "vmedaq")'
    BY <2>1 DEF Order, OrderOf, Done, Before, Is
  <2> QED BY <1>1, <2>2
<1> QED BY <1>1, <1>2, <1>3 DEF Guarded

\* What has been cleared stays so.
LEMMA CrateKept ==
    ASSUME Given, Go, Setting', inhibit' \/ ~ At("daq")',
           UNCHANGED <<enabled, acq, buf, num, triggers, conf, releases, mark>>,
           pc' # 0 => main[pc].do \notin Resets \cup {"v830_init", "count"}
    PROVE  Config' /\ Cleared' /\ Acquiring' /\ FreshData' /\ SameNumber'
<1> USE DEF Given, StartInv
<1>1. ASSUME NEW w \in Resets \cup {"v830_init", "count"}, NEW l, Done(w, l)' PROVE Done(w, l)
  <2>1. pc' # 0
    BY <1>1, DoneEnd
  <2> QED BY <1>1, <2>1, DoneOnce DEF Go, Is
<1>2. Used' = Used /\ \A b \in Used : Takes(b)' = Takes(b)
  BY DEF Used, Takes
<1>3. Config'
  BY <1>1 DEF Config
<1>4. Cleared'
  BY <1>1, <1>2 DEF Cleared, Resets
<1>5. Acquiring'
  BY <1>1, <1>2 DEF Acquiring, Resets
<1>6. ~ Running'
  BY DEF Running
<1> QED BY <1>3, <1>4, <1>5, <1>6 DEF FreshData, SameNumber

\* What is mapped will be closed, or has been.
LEMMA ClosingKept ==
    ASSUME Given, Go, mapped' \subseteq mapped,
           "unmap" \notin Faults /\ main[pc].do \in {"close", "exit"} => main[pc].lib \notin mapped'
    PROVE  Closing' /\ (pc = Len(main) /\ "unmap" \notin Faults => mapped' \subseteq {"dma"})
<1> USE DEF Given, StartInv
<1> SUFFICES ASSUME "unmap" \notin Faults, NEW l \in mapped', l # "dma"
             PROVE  \E k \in pc + 1 .. Len(main) : Closes(k, l)
  <2>1. Len(main) \in Nat /\ pc \in Nat
    BY DEF Order, Go
  <2> QED BY <2>1 DEF Closing, Closes, Go
<1>1. PICK k \in pc .. Len(main) : Closes(k, l)
  BY DEF Closing, Go, Order
<1>2. k # pc
  BY <1>1 DEF Closes
<1>3. k \in pc + 1 .. Len(main)
  <2>1. Len(main) \in Nat /\ pc \in Nat
    BY DEF Order, Go
  <2> QED BY <1>1, <1>2, <2>1
<1> QED BY <1>1, <1>3

\* The types, of a step that leaves the crate alone.
LEMMA TypesKept ==
    ASSUME Given, Go, starts' = starts, last' \in {last, "ok", "init", "error", "crash", "killed"},
           set' \in BOOLEAN, UNCHANGED <<crate, conf, mark, releases>>
    PROVE  StartTypes'
  BY DEF Given, StartInv, StartTypes, TypeOK, Go, crate, Boards, Arrays, Adcs

\* The numbers that only some versions ask for.
Fixed(c) ==
    /\ c \in [Confs -> Int]
    /\ Version # "2020" => c["mqdc32"] = 0 /\ c["myriad"] = 0
    /\ Version = "e404" => c["v830"] = 3

\* The program ends before its last step.
LEMMA Ended ==
    ASSUME Given, pc # 0, pc' = 0, set' => set /\ (inhibit \/ main[pc].do # "daq"), set' \in BOOLEAN,
           last' \in {"init", "error", "crash", "killed"},
           last' = "crash" => Faults \cap Unchecked # {},
           UNCHANGED <<crate, mark, releases, starts>>, Fixed(conf')
    PROVE  StartInv'
<1> USE DEF Given, StartInv
<1>1. StartTypes'
  BY DEF StartTypes, TypeOK, crate, Boards, Arrays, Adcs, Order, Fixed
<1>2. \A w, l : ~ Done(w, l)'
  BY DoneEnd
<1>3. ~ At("daq")'
  BY DEF At
<1>4. Setting'
  <2>1. set /\ main[pc].do # "daq" => inhibit
    BY DEF Setting, Guarded, At
  <2>2. set' => inhibit'
    BY <2>1 DEF crate
  <2> QED BY <1>2, <2>2 DEF Setting, Guarded
<1>5. Config'
  BY <1>2 DEF Config, Fixed
<1>6. Cleared' /\ Acquiring'
  BY <1>2 DEF Cleared, Acquiring
<1>7. FreshData' /\ SameNumber'
  BY <1>3 DEF FreshData, SameNumber, Running
<1>8. Closing' /\ NothingLeft'
  BY DEF Closing, NothingLeft
<1>9. NoCrash'
  BY DEF NoCrash, Unchecked, Adcs
<1> QED BY <1>1, <1>4, <1>5, <1>6, <1>7, <1>8, <1>9

\* A step that does something to the program only.
LEMMA Silent ==
    ASSUME Given, pc # 0, Step, set' = set, UNCHANGED <<crate, conf>>,
           main[pc].do \notin Resets \cup {"v977_init", "v830_init", "count", "daq"}, 
           Closing', pc = Len(main) /\ "unmap" \notin Faults => mapped' \subseteq {"dma"}
    PROVE  StartInv'
<1> USE DEF Given, StartInv
<1>1. Go /\ (pc' = 0 <=> pc = Len(main))
  BY StepGoes DEF StartTypes
<1>2. UNCHANGED <<starts, releases, mark>> /\ last' \in {last, "ok"}
  BY DEF Step
<1>3. StartTypes'
  BY <1>1, <1>2, TypesKept DEF StartTypes, TypeOK
<1>4. Setting' /\ (inhibit' \/ ~ At("daq")')
  BY <1>1, SettingKept DEF crate
<1>5. Config' /\ Cleared' /\ Acquiring' /\ FreshData' /\ SameNumber'
  BY <1>1, <1>2, <1>4, CrateKept DEF crate
<1>6. NoCrash'
  BY <1>2 DEF NoCrash, Unchecked, Adcs
<1>7. NothingLeft'
  BY <1>1 DEF NothingLeft
<1> QED BY <1>3, <1>4, <1>5, <1>6, <1>7

LEMMA ConfFixed == ASSUME Given PROVE Fixed(conf)
  BY DEF Given, StartInv, StartTypes, Config, Fixed

\* A step that maps and closes nothing.
LEMMA Plain ==
    ASSUME Given, pc # 0, Step, UNCHANGED <<mapped, set, crate, conf>>,
           main[pc].do \notin Resets \cup {"v977_init", "v830_init", "count", "daq", "close", "exit"}
    PROVE  StartInv'
<1>1. Go /\ pc # Len(main)
  BY StepGoes DEF Given, StartInv, StartTypes, Order
<1>2. Closing'
  BY <1>1, ClosingKept
<1> QED BY <1>1, <1>2, Silent

\* A step that reads a number of modules: nothing has been cleared yet.
LEMMA Read ==
    ASSUME Given, At("count") \/ At("options"), Step, UNCHANGED <<mapped, set, crate>>, Fixed(conf'),
           Version = "2020" /\ (Done("count", "v830") \/ Is(pc, "count", "v830")) =>
             conf'["v830"] \in 0 .. V830_N_CHANNELS,
           Version # "2016" /\ conf'["v830"] # conf["v830"] => Version = "2020" /\ Is(pc, "count", "v830")
    PROVE  StartInv'
<1> USE DEF Given, StartInv
<1>1. pc # 0 /\ main[pc].do \in {"count", "options"}
  BY DEF At
<1>2. Go /\ pc' # 0
  BY <1>1, StepGoes DEF StartTypes, Order
<1>3. UNCHANGED <<starts, releases, mark, last>>
  BY <1>1, NotLast DEF Step, StartTypes, Order
<1>4. Setting' /\ (inhibit' \/ ~ At("daq")')
  BY <1>1, <1>2, SettingKept DEF crate
<1>5. ASSUME NEW w \in Resets \cup {"v830_init"}, NEW l, Done(w, l)' PROVE Done(w, l)
  BY <1>1, <1>2, <1>5, DoneOnce DEF Go, Is, Resets
<1>6. ASSUME NEW w \in Resets, NEW l, Done(w, l)' PROVE FALSE
  <2>1. Done(w, l)
    BY <1>5, <1>6
  <2>2. PICK j \in 1 .. pc - 1 : main[j].do = w
    BY <2>1 DEF Done, Before, Is
  <2>3. j \in 1 .. Len(main) /\ pc \in 1 .. Len(main) /\ j < pc
    <3>1. pc \in Nat /\ Len(main) \in Nat /\ 1 <= pc /\ pc <= Len(main)
      BY <1>2 DEF Go, Order
    <3> QED BY <3>1
  <2>4. pc < j
    BY <1>1, <2>2, <2>3 DEF Order, OrderOfTwo
  <2> QED BY <2>3, <2>4
<1>7. ASSUME Done("v830_init", "vmedaq"), Version # "2016" PROVE conf'["v830"] = conf["v830"]
  <2> SUFFICES ASSUME Version = "2020", Is(pc, "count", "v830") PROVE FALSE
    BY <1>7
  <2>2. PICK j \in 1 .. pc - 1 : main[j].do = "v830_init"
    BY <1>7 DEF Done, Before, Is
  <2>3. j \in 1 .. Len(main) /\ pc \in 1 .. Len(main) /\ j < pc
    <3>1. pc \in Nat /\ Len(main) \in Nat /\ 1 <= pc /\ pc <= Len(main)
      BY <1>2 DEF Go, Order
    <3> QED BY <3>1
  <2>4. pc < j
    BY <2>2, <2>3 DEF Order, OrderOfTwo
  <2> QED BY <2>3, <2>4
<1>8. StartTypes'
  BY <1>2, <1>3 DEF StartTypes, TypeOK, Go, crate, Boards, Arrays, Adcs, Fixed
<1>9. Config'
  <2>1. Done("count", "v830")' => Done("count", "v830") \/ Is(pc, "count", "v830")
    BY <1>2, DoneOnce DEF Go
  <2>2. Version = "2020" /\ Done("count", "v830")' => conf'["v830"] \in 0 .. V830_N_CHANNELS
    BY <2>1
  <2>3. Version # "2016" /\ Done("v830_init", "vmedaq")' => enabled' = conf'["v830"]
    BY <1>5, <1>7 DEF Config, crate
  <2> QED BY <2>2, <2>3 DEF Config, Fixed
<1>10. Cleared'
  <2>1. Done("v830_init", "vmedaq")' => Done("v830_init", "vmedaq")
    BY <1>5
  <2>2. /\ ~ Done("myriad_init", "vmedaq")' /\ ~ Done("clear", "vmedaq")'
        /\ \A l : ~ Done("fifo_reset", l)'
    BY <1>6 DEF Resets
  <2> QED BY <1>3, <2>1, <2>2 DEF Cleared, crate
<1>11. Acquiring'
  BY <1>6 DEF Acquiring, Resets
<1>12. FreshData' /\ SameNumber'
  BY <1>4 DEF FreshData, SameNumber, Running
<1>13. Closing'
  BY <1>1, <1>2, ClosingKept
<1>14. NoCrash' /\ NothingLeft'
  BY <1>2, <1>3 DEF NoCrash, NothingLeft, Unchecked, Adcs
<1> QED BY <1>4, <1>8, <1>9, <1>10, <1>11, <1>12, <1>13, <1>14

-----------------------------------------------------------------------------
(* The steps of the program, one by one *)

\* The two numbers of modules that a command line gives.
WithLine(c, x, y) == [c EXCEPT !.v1190 = x, !.madc32 = y]

LEMMA TwoNumbers ==
    ASSUME NEW c \in [Confs -> Int], NEW x \in Nat, NEW y \in Nat
    PROVE  /\ WithLine(c, x, y) \in [Confs -> Int]
           /\ \A l \in {"v830", "mqdc32", "myriad"} : WithLine(c, x, y)[l] = c[l]
<1> DEFINE d == [c EXCEPT !.v1190 = x]
           e == [d EXCEPT !.madc32 = y]
<1>1. WithLine(c, x, y) = e
  BY DEF WithLine
<1>2. d \in [Confs -> Int] /\ \A l \in {"v830", "mqdc32", "myriad"} : d[l] = c[l]
  BY DEF Confs
<1>3. e \in [Confs -> Int] /\ \A l \in {"v830", "mqdc32", "myriad"} : e[l] = d[l]
  <2> HIDE DEF d
  <2> QED BY <1>2 DEF Confs
<1> HIDE DEF d, e
<1> QED BY <1>1, <1>2, <1>3

LEMMA OptionsStep == ASSUME Given, options PROVE StartInv'
<1>1. At("options") /\ UNCHANGED crate /\ pc # 0 /\ main[pc].do = "options"
  BY DEF options, At
<1>2. CASE Version = "e404"
  <2>1. PICK a \in CommandLines :
          /\ conf' = [conf EXCEPT !.v1190 = a.n.v1190, !.madc32 = a.n.madc32]
          /\ IF a.bad THEN End("error") ELSE Step /\ UNCHANGED <<mapped, set>>
    BY <1>2 DEF options
  <2>2. a.n.v1190 \in Nat /\ a.n.madc32 \in Nat
    BY <1>2 DEF Given, StartParameters
  <2>3. Fixed(conf') /\ conf'["v830"] = conf["v830"]
    <3>1. conf \in [Confs -> Int]
      BY ConfFixed DEF Fixed
    <3>2. conf' = WithLine(conf, a.n.v1190, a.n.madc32)
      BY <2>1 DEF WithLine
    <3> QED BY <1>2, <2>2, <3>1, <3>2, ConfFixed, TwoNumbers DEF Fixed
  <2>4. CASE a.bad
    BY <1>1, <2>1, <2>3, <2>4, Ended DEF End, Given, StartInv, StartTypes, TypeOK
  <2>5. CASE ~ a.bad
    BY <1>1, <1>2, <2>1, <2>3, <2>5, Read
  <2> QED BY <2>4, <2>5
<1>3. CASE Version # "e404"
  <2>1. UNCHANGED conf /\ (End("error") \/ (Step /\ UNCHANGED <<mapped, set>>))
    BY <1>3 DEF options
  <2>2. CASE End("error")
    BY <1>1, <2>1, <2>2, Ended, ConfFixed DEF End, Given, StartInv, StartTypes, TypeOK
  <2>3. CASE Step /\ UNCHANGED <<mapped, set>>
    BY <1>1, <2>1, <2>3, Plain DEF Resets
  <2> QED BY <2>1, <2>2, <2>3
<1> QED BY <1>2, <1>3

LEMMA OpenStep == ASSUME Given, open \/ init \/ get_socket PROVE StartInv'
<1>1. /\ pc # 0 /\ main[pc].do \in {"open", "init", "socket"} /\ UNCHANGED <<crate, conf>>
      /\ End("error") \/ End("init") \/ (Step /\ UNCHANGED <<mapped, set>>)
  BY DEF open, init, get_socket, At
<1>2. CASE End("error") \/ End("init")
  BY <1>1, <1>2, Ended, ConfFixed DEF End, Given, StartInv, StartTypes, TypeOK
<1>3. CASE Step /\ UNCHANGED <<mapped, set>>
  BY <1>1, <1>3, Plain DEF Resets
<1> QED BY <1>1, <1>2, <1>3

\* The DMA buffer needs no close.
LEMMA DmaStep == ASSUME Given, dma_init PROVE StartInv'
<1>1. /\ pc # 0 /\ main[pc].do = "dma" /\ UNCHANGED <<crate, conf>>
      /\ End("error") \/ (Step /\ mapped' \subseteq mapped \cup {"dma"} /\ UNCHANGED set)
  BY DEF dma_init, At
<1>2. CASE End("error")
  BY <1>1, <1>2, Ended, ConfFixed DEF End, Given, StartInv, StartTypes, TypeOK
<1>3. CASE Step /\ mapped' \subseteq mapped \cup {"dma"} /\ UNCHANGED set
  <2>1. Go /\ pc' = pc + 1 /\ pc # Len(main)
    BY <1>1, <1>3, StepGoes DEF Given, StartInv, StartTypes, Order, Go
  <2>2. Closing'
    <3> SUFFICES ASSUME "unmap" \notin Faults, NEW l \in mapped', l # "dma"
                 PROVE  \E k \in pc + 1 .. Len(main) : Closes(k, l)
      BY <2>1 DEF Closing, Closes
    <3>1. PICK k \in pc .. Len(main) : Closes(k, l)
      BY <1>1, <1>3 DEF Given, StartInv, Closing
    <3>2. k # pc
      BY <1>1, <3>1 DEF Closes
    <3>3. pc \in Nat /\ Len(main) \in Nat
      BY <2>1 DEF Go, Given, Order
    <3>4. k \in pc + 1 .. Len(main)
      BY <3>1, <3>2, <3>3
    <3> QED BY <3>1, <3>4
  <2> QED BY <1>1, <1>3, <2>1, <2>2, Silent DEF Resets
<1> QED BY <1>1, <1>2, <1>3

\* A window that is mapped has its close still to come.
LEMMA MapStep == ASSUME Given, map PROVE StartInv'
<1>1. /\ pc # 0 /\ main[pc].do = "map" /\ UNCHANGED <<crate, conf>>
      /\ \/ lib \in Faults /\ End(IF lib \in Unchecked THEN "crash" ELSE "error")
         \/ Step /\ mapped' \subseteq mapped \cup {lib} /\ UNCHANGED set
  BY DEF map, At, Fails
<1>2. CASE lib \in Faults /\ End(IF lib \in Unchecked THEN "crash" ELSE "error")
  <2>1. last' \in {"crash", "error"} /\ (last' = "crash" => Faults \cap Unchecked # {})
    BY <1>2 DEF End
  <2> QED BY <1>1, <1>2, <2>1, Ended, ConfFixed DEF End, Given, StartInv, StartTypes, TypeOK
<1>3. CASE Step /\ mapped' \subseteq mapped \cup {lib} /\ UNCHANGED set
  <2>1. Go /\ pc' = pc + 1 /\ pc # Len(main)
    BY <1>1, <1>3, StepGoes DEF Given, StartInv, StartTypes, Order, Go
  <2>2. Closing'
    <3> SUFFICES ASSUME "unmap" \notin Faults, NEW l \in mapped', l # "dma"
                 PROVE  \E k \in pc + 1 .. Len(main) : Closes(k, l)
      BY <2>1 DEF Closing, Closes
    <3>1. CASE l = lib
      <4>1. OrderOf(pc)
        BY <2>1 DEF Go, Given, Order
      <4> QED BY <1>1, <3>1, <4>1 DEF OrderOf, lib
    <3>2. CASE l # lib
      <4>1. PICK k \in pc .. Len(main) : Closes(k, l)
        BY <1>1, <1>3, <3>2 DEF Given, StartInv, Closing
      <4>2. k # pc
        BY <1>1, <4>1 DEF Closes
      <4>3. pc \in Nat /\ Len(main) \in Nat
        BY <2>1 DEF Go, Given, Order
      <4>4. k \in pc + 1 .. Len(main)
        BY <4>1, <4>2, <4>3
      <4> QED BY <4>1, <4>4
    <3> QED BY <3>1, <3>2
  <2> QED BY <1>1, <1>3, <2>1, <2>2, Silent DEF Resets
<1> QED BY <1>1, <1>2, <1>3

LEMMA CloseStep == ASSUME Given, close \/ exit PROVE StartInv'
<1>1. /\ pc # 0 /\ main[pc].do \in {"close", "exit"} /\ UNCHANGED <<crate, conf>>
      /\ Step /\ UNCHANGED set /\ mapped' \subseteq mapped
      /\ "unmap" \notin Faults => lib \notin mapped'
  BY DEF close, exit, At, Fails
<1>2. Go
  BY <1>1, StepGoes DEF Given, StartInv, StartTypes
<1>3. Closing' /\ (pc = Len(main) /\ "unmap" \notin Faults => mapped' \subseteq {"dma"})
  BY <1>1, <1>2, ClosingKept DEF lib
<1> QED BY <1>1, <1>3, Silent DEF Resets

LEMMA KillStep == ASSUME Given, Kill PROVE StartInv'
  BY Ended, ConfFixed DEF Kill

LEMMA CountStep == ASSUME Given, count PROVE StartInv'
<1>1. /\ At("count") /\ pc # 0 /\ main[pc].do = "count" /\ UNCHANGED crate
  BY DEF count, At
<1>2. PICK n \in (IF lib = "v830" THEN Scalers ELSE Counts) :
        /\ conf' = [conf EXCEPT ![lib] = n]
        /\ IF InRange(lib, n) THEN Step /\ UNCHANGED <<mapped, set>> ELSE End("error")
  BY DEF count
<1>3. n \in Int
  BY <1>2 DEF Given, StartParameters
<1>4. pc \in 1 .. Len(main)
  BY <1>1 DEF Given, StartInv, StartTypes, TypeOK, Order
<1>5. OrderOf(pc) /\ VersionOf(pc)
  BY <1>4 DEF Given, Order
<1>6. lib \in Confs /\ Version # "e404" /\ (Version # "2020" => lib \notin {"mqdc32", "myriad"})
  BY <1>1, <1>5 DEF OrderOf, VersionOf, lib
<1>7. conf \in [Confs -> Int]
  BY ConfFixed DEF Fixed
<1>8. conf' \in [Confs -> Int] /\ conf'[lib] = n /\ \A l \in Confs : l # lib => conf'[l] = conf[l]
  BY <1>2, <1>3, <1>6, <1>7
<1>9. Fixed(conf')
  BY <1>6, <1>8, ConfFixed DEF Fixed, Confs
<1>10. CASE InRange(lib, n)
  <2>1. Version = "2020" /\ (Done("count", "v830") \/ Is(pc, "count", "v830")) =>
             conf'["v830"] \in 0 .. V830_N_CHANNELS
    <3>1. CASE lib = "v830"
      BY <1>3, <1>8, <1>10, <3>1 DEF InRange, V830_N_CHANNELS
    <3>2. CASE lib # "v830"
      BY <1>8, <3>2 DEF Confs, Is, lib, Given, StartInv, Config
    <3> QED BY <3>1, <3>2
  <2>2. conf'["v830"] # conf["v830"] => Is(pc, "count", "v830")
    BY <1>1, <1>8 DEF Confs, Is, lib
  <2>3. Version # "2016" /\ conf'["v830"] # conf["v830"] => Version = "2020" /\ Is(pc, "count", "v830")
    BY <1>6, <2>2 DEF Given, StartParameters
  <2> QED BY <1>1, <1>2, <1>9, <1>10, <2>1, <2>3, Read
<1>11. CASE ~ InRange(lib, n)
  BY <1>1, <1>2, <1>9, <1>11, Ended DEF End, Given, StartInv, StartTypes, TypeOK
<1> QED BY <1>10, <1>11

-----------------------------------------------------------------------------
(* The steps that set up the crate *)

\* What they have in common.
LEMMA Setup ==
    ASSUME Given, pc # 0, main[pc].do \in Resets \cup {"v830_init"}, Step,
           UNCHANGED <<mapped, set, conf, inhibit>>
    PROVE  /\ Go /\ UNCHANGED <<starts, releases, mark, last>>
           /\ Setting' /\ FreshData' /\ SameNumber' /\ Closing' /\ NoCrash' /\ NothingLeft'
           /\ Used' = Used
<1> USE DEF Given, StartInv
<1>1. Go /\ pc' # 0
  BY StepGoes DEF StartTypes, Order, Resets
<1>2. UNCHANGED <<starts, releases, mark, last>>
  BY NotLast DEF Step, StartTypes, Order, Resets
<1>3. Setting' /\ (inhibit' \/ ~ At("daq")')
  BY <1>1, SettingKept DEF Resets
<1>4. FreshData' /\ SameNumber'
  BY <1>3 DEF FreshData, SameNumber, Running
<1>5. Closing'
  BY <1>1, ClosingKept DEF Resets
<1>6. NoCrash' /\ NothingLeft'
  BY <1>1, <1>2 DEF NoCrash, NothingLeft, Unchecked, Adcs
<1>7. Used' = Used
  BY DEF Used
<1> QED BY <1>1, <1>2, <1>3, <1>4, <1>5, <1>6, <1>7

\* The trigger is held from here on.
LEMMA V977Step == ASSUME Given, v977_init PROVE StartInv'
<1> USE DEF Given, StartInv
<1>1. pc # 0 /\ main[pc].do = "v977_init" /\ inhibit' = TRUE /\ set' = TRUE /\ Step
      /\ UNCHANGED <<mapped, conf, enabled, acq, buf, num, triggers>>
  BY DEF v977_init, At
<1>2. Go /\ pc' # 0
  BY <1>1, StepGoes DEF StartTypes, Order
<1>3. UNCHANGED <<starts, releases, mark, last>>
  BY <1>1, NotLast DEF Step, StartTypes, Order
<1>4. StartTypes'
  BY <1>1, <1>2, <1>3 DEF StartTypes, TypeOK, Go, Boards, Arrays, Adcs
<1>5. Setting'
  BY <1>1 DEF Setting, Guarded
<1>6. Config' /\ Cleared' /\ Acquiring' /\ FreshData' /\ SameNumber'
  BY <1>1, <1>2, <1>3, <1>5, CrateKept DEF Resets
<1>7. Closing'
  BY <1>1, <1>2, ClosingKept
<1>8. NoCrash' /\ NothingLeft'
  BY <1>2, <1>3 DEF NoCrash, NothingLeft, Unchecked, Adcs
<1> QED BY <1>4, <1>5, <1>6, <1>7, <1>8

LEMMA V830Step == ASSUME Given, v830_init PROVE StartInv'
<1> USE DEF Given, StartInv
<1>1. /\ pc # 0 /\ main[pc].do = "v830_init" /\ enabled' = channels /\ Step
      /\ buf' = [buf EXCEPT ![Scaler] = {}]
      /\ UNCHANGED <<mapped, set, conf, inhibit, acq, num, triggers>>
  BY DEF v830_init, At, Scaler
<1>2. /\ Go /\ UNCHANGED <<starts, releases, mark, last>>
      /\ Setting' /\ FreshData' /\ SameNumber' /\ Closing' /\ NoCrash' /\ NothingLeft'
      /\ Used' = Used
  BY <1>1, Setup
<1>3. Version = "2020" => conf["v830"] \in 0 .. V830_N_CHANNELS
  <2>1. VersionOf(pc)
    BY <1>2 DEF Go, Order
  <2> QED BY <1>1, <2>1 DEF VersionOf, Done, Config
<1>4. enabled' \in 0 .. V830_N_CHANNELS /\ (Version # "2016" => enabled' = conf["v830"])
  BY <1>1, <1>3 DEF channels, channels_2020, channels_2016, channels_e404, StartParameters, Config,
                    V830_N_CHANNELS
<1>5. /\ buf \in [Boards -> SUBSET (1 .. triggers)]
      /\ Scaler \in Boards
  BY DEF StartTypes, TypeOK, Scaler, Boards
<1>6. /\ buf' \in [Boards -> SUBSET (1 .. triggers)]
      /\ \A b \in Boards : buf'[b] = IF b = Scaler THEN {} ELSE buf[b]
  BY <1>1, <1>5
<1>7. StartTypes'
  BY <1>1, <1>2, <1>4, <1>6 DEF StartTypes, TypeOK, Go, Boards, Arrays, Adcs
<1>8. ASSUME NEW w \in Resets \cup {"count"}, NEW l, Done(w, l)' PROVE Done(w, l)
  BY <1>1, <1>2, <1>8, DoneOnce DEF Go, Is, Resets
<1>9. Config'
  BY <1>1, <1>4, <1>8 DEF Config
<1>10. Used \subseteq Boards /\ Myriad \in Boards
  BY DEF Used, Boards, Myriad
<1>11. Cleared'
  BY <1>1, <1>2, <1>5, <1>6, <1>8, <1>10 DEF Cleared, Resets
<1>12. Acquiring'
  BY <1>1, <1>2, <1>8 DEF Acquiring, Takes, Resets
<1> QED BY <1>2, <1>7, <1>9, <1>11, <1>12

LEMMA BoardFacts ==
    /\ Scaler \in Boards /\ Myriad \in Boards /\ Used \subseteq Boards
    /\ \A b \in Used : b[1] \in Counting /\ b[2] \in 0 .. Limit - 1 /\ b[2] < conf[b[1]]
    /\ Scaler \notin Used /\ Myriad \notin Used
  BY DEF Used, Boards, Scaler, Myriad, Arrays, Counting, Adcs

\* A step that clears buffers and counters, and starts ADCs.
LEMMA Clearing ==
    ASSUME Given, pc # 0, main[pc].do \in Resets, Step,
           UNCHANGED <<mapped, set, conf, inhibit, enabled, triggers>>,
           buf' \in [Boards -> SUBSET (1 .. triggers)], \A b \in Boards : buf'[b] \in {buf[b], {}},
           num' \in [Boards -> 0 .. triggers], \A b \in Boards : num'[b] \in {num[b], 0},
           acq' \in [Adcs -> BOOLEAN], \A l \in Adcs : acq[l] => acq'[l],
           main[pc].do = "myriad_init" /\ conf["myriad"] = 1 => buf'[Myriad] = {},
           main[pc].do = "clear" => \A b \in Used : num'[b] = 0 /\ (b[1] = "v1190" => buf'[b] = {}),
           main[pc].do = "fifo_reset" => \A b \in Used : b[1] = lib => buf'[b] = {} /\ Takes(b)'
    PROVE  StartInv'
<1> USE DEF Given, StartInv
<1>1. /\ Go /\ UNCHANGED <<starts, releases, mark, last>>
      /\ Setting' /\ FreshData' /\ SameNumber' /\ Closing' /\ NoCrash' /\ NothingLeft'
      /\ Used' = Used
  BY Setup
<1>2. StartTypes'
  BY <1>1 DEF StartTypes, TypeOK, Go, Boards, Arrays, Adcs
<1>3. \A w, l : Done(w, l)' => Done(w, l) \/ Is(pc, w, l)
  BY <1>1, DoneOnce DEF Go
<1>4. \A w \in {"v830_init", "count"} : \A l : Done(w, l)' => Done(w, l)
  BY <1>3 DEF Is, Resets
<1>5. Config'
  BY <1>4 DEF Config
<1>6. Cleared'
  <2> SUFFICES ASSUME releases = 0 PROVE Cleared'
    BY <1>1 DEF Cleared
  <2>1. Done("v830_init", "vmedaq")' => buf'[Scaler] = {}
    BY <1>4, BoardFacts DEF Cleared
  <2>2. Done("myriad_init", "vmedaq")' /\ conf'["myriad"] = 1 => buf'[Myriad] = {}
    BY <1>3, BoardFacts DEF Cleared, Is
  <2>3. ASSUME NEW b \in Used, Done("fifo_reset", b[1])' PROVE buf'[b] = {}
    BY <1>3, <2>3, BoardFacts DEF Cleared, Is, lib
  <2>4. ASSUME NEW b \in Used, Done("clear", "vmedaq")' PROVE num'[b] = 0 /\ (b[1] = "v1190" => buf'[b] = {})
    BY <1>3, <2>4, BoardFacts DEF Cleared, Is
  <2> QED BY <1>1, <2>1, <2>2, <2>3, <2>4 DEF Cleared
<1>7. Acquiring'
  <2> SUFFICES ASSUME NEW b \in Used, Done("fifo_reset", b[1])' PROVE Takes(b)'
    BY <1>1 DEF Acquiring
  <2>1. CASE Done("fifo_reset", b[1])
    BY <2>1 DEF Acquiring, Takes
  <2>2. CASE Is(pc, "fifo_reset", b[1])
    BY <2>2 DEF Is, lib
  <2> QED BY <1>3, <2>1, <2>2
<1> QED BY <1>1, <1>2, <1>5, <1>6, <1>7

LEMMA FifoStep == ASSUME Given, fifo_reset PROVE StartInv'
<1> USE DEF Given, StartInv
<1>1. /\ pc # 0 /\ main[pc].do = "fifo_reset" /\ Step
      /\ acq' = IF conf[lib] > 0 THEN [acq EXCEPT ![lib] = TRUE] ELSE acq
      /\ buf' = [b \in Boards |-> IF b \in Used /\ b[1] = lib THEN {} ELSE buf[b]]
      /\ UNCHANGED <<mapped, set, conf, inhibit, enabled, num, triggers>>
  BY DEF fifo_reset, At
<1>2. lib \in Adcs
  <2>1. pc \in 1 .. Len(main)
    BY <1>1 DEF StartTypes, TypeOK, Order
  <2> QED BY <1>1, <2>1 DEF Order, OrderOf, lib
<1>3. acq \in [Adcs -> BOOLEAN] /\ conf \in [Confs -> Int]
  BY DEF StartTypes
<1>4. acq' \in [Adcs -> BOOLEAN] /\ (\A l \in Adcs : acq[l] => acq'[l]) /\ (conf[lib] > 0 => acq'[lib])
  BY <1>1, <1>2, <1>3
<1>5. /\ buf \in [Boards -> SUBSET (1 .. triggers)] /\ num \in [Boards -> 0 .. triggers]
  BY DEF StartTypes, TypeOK
<1>6. buf' \in [Boards -> SUBSET (1 .. triggers)] /\ \A b \in Boards : buf'[b] \in {buf[b], {}}
  BY <1>1, <1>5
<1>7. num' \in [Boards -> 0 .. triggers] /\ \A b \in Boards : num'[b] \in {num[b], 0}
  BY <1>1, <1>5
<1>8. ASSUME NEW b \in Used, b[1] = lib PROVE buf'[b] = {} /\ Takes(b)'
  <2>1. buf'[b] = {}
    BY <1>1, <1>8, BoardFacts
  <2>2. conf[lib] \in Int /\ b[2] \in Nat /\ b[2] < conf[lib]
    BY <1>2, <1>3, <1>8, BoardFacts DEF Adcs, Confs, StartParameters
  <2>3. acq'[lib]
    BY <1>4, <2>2
  <2> QED BY <1>8, <2>1, <2>3 DEF Takes
<1> QED BY <1>1, <1>4, <1>6, <1>7, <1>8, Clearing DEF Resets

LEMMA MyriadStep == ASSUME Given, myriad_init PROVE StartInv'
<1> USE DEF Given, StartInv
<1>1. /\ pc # 0 /\ main[pc].do = "myriad_init" /\ Step
      /\ buf' = IF conf["myriad"] = 1 THEN [buf EXCEPT ![Myriad] = {}] ELSE buf
      /\ UNCHANGED <<mapped, set, conf, inhibit, enabled, acq, num, triggers>>
  BY DEF myriad_init, At, Myriad
<1>2. /\ buf \in [Boards -> SUBSET (1 .. triggers)] /\ num \in [Boards -> 0 .. triggers]
      /\ acq \in [Adcs -> BOOLEAN]
  BY DEF StartTypes, TypeOK
<1>3. /\ buf' \in [Boards -> SUBSET (1 .. triggers)] /\ \A b \in Boards : buf'[b] \in {buf[b], {}}
      /\ conf["myriad"] = 1 => buf'[Myriad] = {}
  BY <1>1, <1>2, BoardFacts
<1> QED BY <1>1, <1>2, <1>3, Clearing DEF Resets

LEMMA ClearStep == ASSUME Given, clear PROVE StartInv'
<1> USE DEF Given, StartInv
<1>1. /\ pc # 0 /\ main[pc].do = "clear" /\ Step
      /\ num' = [b \in Boards |-> IF b \in Used THEN 0 ELSE num[b]]
      /\ buf' = [b \in Boards |-> IF b \in Used /\ b[1] = "v1190" THEN {} ELSE buf[b]]
      /\ UNCHANGED <<mapped, set, conf, inhibit, enabled, acq, triggers>>
  BY DEF clear, At, Clear, clear_event_counters
<1>2. /\ buf \in [Boards -> SUBSET (1 .. triggers)] /\ num \in [Boards -> 0 .. triggers]
      /\ acq \in [Adcs -> BOOLEAN] /\ triggers \in Nat
  BY DEF StartTypes, TypeOK
<1>3. /\ buf' \in [Boards -> SUBSET (1 .. triggers)] /\ \A b \in Boards : buf'[b] \in {buf[b], {}}
  BY <1>1, <1>2
<1>4. /\ num' \in [Boards -> 0 .. triggers] /\ \A b \in Boards : num'[b] \in {num[b], 0}
  BY <1>1, <1>2
<1>5. \A b \in Used : num'[b] = 0 /\ (b[1] = "v1190" => buf'[b] = {})
  BY <1>1, BoardFacts
<1> QED BY <1>1, <1>2, <1>3, <1>4, <1>5, Clearing DEF Resets

-----------------------------------------------------------------------------
(* The readout *)

\* At the readout every module has been reset, ...
LEMMA AllReset ==
    ASSUME Given, At("daq"), NEW b \in Used
    PROVE  b[1] = "v1190" \/ Done("fifo_reset", b[1])
<1>1. b[1] \in {"v1190", "madc32", "mqdc32"} /\ b[2] \in 0 .. Limit - 1 /\ b[2] < conf[b[1]]
  BY BoardFacts DEF Counting, Adcs
<1>2. CASE b[1] = "mqdc32"
  <2>1. b[2] \in Nat
    BY <1>1 DEF Given, StartParameters
  <2>2. Version = "2020"
    BY <1>1, <1>2, <2>1 DEF Given, StartInv, Config
  <2> QED BY <1>2, <2>2, AtReadout
<1> QED BY <1>1, <1>2, AtReadout

\* ... all of them take events, ...
LEMMA AllTake ==
    ASSUME Given, At("daq"), NEW b \in Used
    PROVE  Takes(b)
<1>1. CASE b[1] = "v1190"
  BY <1>1 DEF Takes, Adcs
<1>2. CASE Done("fifo_reset", b[1])
  BY <1>2 DEF Given, StartInv, Acquiring
<1> QED BY <1>1, <1>2, AllReset

\* ... and before the first release everything is clean.
LEMMA AllClean ==
    ASSUME Given, At("daq"), releases = 0
    PROVE  /\ \A b \in ReadOut : buf[b] = {}
           /\ \A b \in Used : num[b] = 0
<1> USE DEF Given, StartInv
<1>1. ASSUME NEW b \in Used PROVE buf[b] = {} /\ num[b] = 0
  BY <1>1, AllReset, AtReadout DEF Cleared
<1>2. buf[Scaler] = {}
  BY AtReadout DEF Cleared
<1>3. conf["myriad"] = 1 => buf[Myriad] = {}
  BY AtReadout DEF Cleared, Config
<1> QED BY <1>1, <1>2, <1>3 DEF ReadOut, Scaler, Myriad

\* The trigger is released with clean counters, the first time with clean buffers.
LEMMA Released ==
    ASSUME Given, At("daq"), Release, releases < MaxReleases,
           buf' \in [Boards -> SUBSET (1 .. triggers)], num' \in [Boards -> 0 .. triggers],
           \A b \in Used : num'[b] = 0,
           releases = 0 => \A b \in ReadOut : buf'[b] = {}
    PROVE  StartInv'
<1> USE DEF Given, StartInv
<1>1. /\ inhibit' = FALSE /\ mark' = triggers /\ releases' = releases + 1
      /\ UNCHANGED <<pc, last, mapped, set, starts, conf, enabled, acq, triggers>>
  BY DEF Release
<1>2. releases \in Nat /\ triggers \in Nat /\ MaxReleases \in Nat
  BY DEF StartTypes, TypeOK, StartParameters
<1>3. StartTypes'
  <2>1. releases' \in 0 .. MaxReleases /\ mark' \in 0 .. triggers' /\ triggers' = triggers
    BY <1>1, <1>2
  <2>2. {inhibit', set'} \subseteq BOOLEAN
    BY <1>1 DEF StartTypes, TypeOK
  <2> QED BY <1>1, <2>1, <2>2 DEF StartTypes, TypeOK
<1>4. \A w, l : Done(w, l)' = Done(w, l)
  BY <1>1, DoneSame
<1>5. At("daq")' /\ releases' > 0
  BY <1>1, <1>2 DEF At
<1>6. Setting'
  BY <1>1, <1>4, <1>5 DEF Setting, Guarded
<1>7. Config'
  BY <1>1, <1>4 DEF Config
<1>8. Cleared'
  BY <1>5, <1>2, <1>1 DEF Cleared
<1>9. Used' = Used /\ ReadOut' = ReadOut
  BY <1>1 DEF Used, ReadOut
<1>10. Acquiring'
  BY <1>1, <1>4, <1>9 DEF Acquiring, Takes
<1>11. SameNumber'
  BY <1>1, <1>2, <1>9 DEF SameNumber
<1>12. FreshData'
  <2>1. mark' + 1 .. triggers' = {}
    BY <1>1, <1>2
  <2>2. releases' = 1 => releases = 0
    BY <1>1, <1>2
  <2> QED BY <1>9, <2>1, <2>2 DEF FreshData
<1>13. Closing' /\ NoCrash' /\ NothingLeft'
  BY <1>1 DEF Closing, Closes, NoCrash, NothingLeft, Unchecked, Adcs
<1> QED BY <1>3, <1>6, <1>7, <1>8, <1>10, <1>11, <1>12, <1>13

LEMMA AcceptStep == ASSUME Given, accept_connection PROVE StartInv'
<1> USE DEF Given, StartInv
<1>1. /\ At("daq") /\ inhibit /\ releases < MaxReleases
      /\ \/ End("error") /\ UNCHANGED <<crate, flags, conf>>
         \/ Clear(reset_event_counters) /\ Release
  BY DEF accept_connection
<1>2. CASE End("error") /\ UNCHANGED <<crate, flags, conf>>
  BY <1>1, <1>2, Ended, ConfFixed DEF End, At, StartTypes, TypeOK
<1>3. CASE Clear(reset_event_counters) /\ Release
  <2>1. /\ num' = [b \in Boards |-> IF b \in Used THEN 0 ELSE num[b]]
        /\ buf' = [b \in Boards |-> IF b \in reset_event_counters.buf THEN {} ELSE buf[b]]
    BY <1>3 DEF Clear, reset_event_counters, clear_event_counters
  <2>2. /\ buf \in [Boards -> SUBSET (1 .. triggers)] /\ num \in [Boards -> 0 .. triggers]
        /\ triggers \in Nat
    BY DEF StartTypes, TypeOK
  <2>3. /\ buf' \in [Boards -> SUBSET (1 .. triggers)] /\ \A b \in Boards : buf'[b] \in {buf[b], {}}
    BY <2>1, <2>2
  <2>4. num' \in [Boards -> 0 .. triggers] /\ \A b \in Used : num'[b] = 0
    BY <2>1, <2>2, BoardFacts
  <2>5. ReadOut \subseteq Boards
    BY BoardFacts DEF ReadOut, Boards
  <2>6. releases = 0 => \A b \in ReadOut : buf'[b] = {}
    BY <1>1, <2>3, <2>5, AllClean
  <2> QED BY <1>1, <1>3, <2>3, <2>4, <2>6, Released
<1> QED BY <1>1, <1>2, <1>3

LEMMA DaqStartedStep == ASSUME Given, DaqStarted PROVE StartInv'
<1>1. At("daq") /\ releases = 0 /\ Release /\ UNCHANGED <<buf, num>>
  BY DEF DaqStarted
<1>2. /\ buf' \in [Boards -> SUBSET (1 .. triggers)] /\ num' \in [Boards -> 0 .. triggers]
      /\ releases < MaxReleases
  BY <1>1 DEF Given, StartInv, StartTypes, TypeOK, StartParameters
<1>3. (\A b \in Used : num'[b] = 0) /\ (\A b \in ReadOut : buf'[b] = {})
  BY <1>1, AllClean
<1> QED BY <1>1, <1>2, <1>3, Released

\* The connection is lost: the trigger is held again.
LEMMA LossStep == ASSUME Given, ConnectionLoss PROVE StartInv'
<1> USE DEF Given, StartInv
<1>1. /\ inhibit' = TRUE
      /\ UNCHANGED <<pc, conf, mapped, enabled, acq, buf, num, triggers, mark, releases, starts,
                     last, set>>
  BY DEF ConnectionLoss
<1>2. StartTypes'
  <2>1. {inhibit', set'} \subseteq BOOLEAN
    BY <1>1 DEF StartTypes, TypeOK
  <2> QED BY <1>1, <2>1 DEF StartTypes, TypeOK
<1>3. \A w, l : Done(w, l)' = Done(w, l)
  BY <1>1, DoneSame
<1>4. Used' = Used
  BY <1>1 DEF Used
<1>5. Setting' /\ Config'
  BY <1>1, <1>3 DEF Setting, Guarded, Config
<1>6. Cleared' /\ Acquiring'
  BY <1>1, <1>3, <1>4 DEF Cleared, Acquiring, Takes
<1>7. FreshData' /\ SameNumber'
  BY <1>1 DEF FreshData, SameNumber, Running
<1>8. Closing' /\ NoCrash' /\ NothingLeft'
  BY <1>1 DEF Closing, Closes, NoCrash, NothingLeft, Unchecked, Adcs
<1> QED BY <1>2, <1>5, <1>6, <1>7, <1>8

LEMMA ReadErrorStep == ASSUME Given, ReadError PROVE StartInv'
<1> USE DEF Given, StartInv
<1>1. /\ pc # 0 /\ main[pc].do = "daq" /\ At("daq") /\ inhibit' = TRUE /\ Step
      /\ UNCHANGED <<mapped, set, conf, enabled, acq, buf, num, triggers>>
  BY DEF ReadError, Running, At
<1>2. Go /\ pc' # 0
  BY <1>1, StepGoes DEF StartTypes, Order
<1>3. UNCHANGED <<starts, releases, mark, last>>
  BY <1>1, NotLast DEF Step, StartTypes, Order
<1>4. StartTypes'
  <2>1. {inhibit', set'} \subseteq BOOLEAN /\ pc' \in 0 .. Len(main)
    BY <1>1, <1>2 DEF StartTypes, TypeOK, Go
  <2> QED BY <1>1, <1>3, <2>1 DEF StartTypes, TypeOK
<1>5. Setting'
  BY <1>1, AtReadout DEF Setting, Guarded
<1>6. Config' /\ Cleared' /\ Acquiring' /\ FreshData' /\ SameNumber'
  BY <1>1, <1>2, <1>3, <1>5, CrateKept DEF Resets
<1>7. Closing'
  BY <1>1, <1>2, ClosingKept
<1>8. NoCrash' /\ NothingLeft'
  BY <1>2, <1>3 DEF NoCrash, NothingLeft, Unchecked, Adcs
<1> QED BY <1>4, <1>5, <1>6, <1>7, <1>8

\* A trigger comes: before the first release there is none from v977_init on, and during the
\* readout every module takes it.
LEMMA TriggerStep == ASSUME Given, Trigger PROVE StartInv'
<1> USE DEF Given, StartInv
<1>1. /\ ~ inhibit /\ triggers < MaxTriggers /\ triggers' = triggers + 1
      /\ buf' = [b \in Boards |-> IF Takes(b) THEN buf[b] \cup {triggers + 1} ELSE buf[b]]
      /\ num' = [b \in Boards |-> IF Takes(b) THEN num[b] + 1 ELSE num[b]]
      /\ UNCHANGED <<pc, conf, mapped, inhibit, enabled, acq, mark, releases, starts, last, set>>
  BY DEF Trigger
<1>2. /\ buf \in [Boards -> SUBSET (1 .. triggers)] /\ num \in [Boards -> 0 .. triggers]
      /\ triggers \in Nat /\ MaxTriggers \in Nat /\ mark \in 0 .. triggers
  BY DEF StartTypes, TypeOK, StartParameters
<1>3. StartTypes'
  <2>1. buf' \in [Boards -> SUBSET (1 .. triggers')]
    BY <1>1, <1>2
  <2>2. num' \in [Boards -> 0 .. triggers']
    BY <1>1, <1>2
  <2>3. triggers' \in 0 .. MaxTriggers /\ mark' \in 0 .. triggers'
    BY <1>1, <1>2
  <2> QED BY <1>1, <2>1, <2>2, <2>3 DEF StartTypes, TypeOK
<1>4. \A w, l : Done(w, l)' = Done(w, l)
  BY <1>1, DoneSame
<1>5. Used' = Used /\ ReadOut' = ReadOut
  BY <1>1 DEF Used, ReadOut
<1>6. At("daq")' = At("daq")
  BY <1>1 DEF At
<1>7. Setting' /\ Config'
  BY <1>1, <1>4, <1>6 DEF Setting, Guarded, Config
<1>8. ~ Done("v977_init", "vmedaq") \/ (At("daq") /\ releases > 0)
  BY <1>1 DEF Setting, Guarded
<1>9. Cleared'
  <2> SUFFICES ASSUME releases = 0 PROVE Cleared'
    BY <1>1 DEF Cleared
  <2>1. ~ Done("v977_init", "vmedaq")
    BY <1>8 DEF StartTypes, TypeOK
  <2>2. ASSUME NEW w \in Resets \cup {"v830_init"}, NEW l, Done(w, l) PROVE FALSE
    <3>1. PICK j \in 1 .. pc - 1 : Is(j, w, l)
      BY <2>2 DEF Done, Before
    <3>2. pc \in Nat /\ Len(main) \in Nat /\ pc <= Len(main)
      BY DEF StartTypes, TypeOK, Order
    <3>3. j \in 1 .. Len(main) /\ j < pc
      BY <3>1, <3>2
    <3>4. Before(j, "v977_init", "vmedaq")
      BY <3>1, <3>3 DEF Order, OrderOf, Is
    <3>5. Done("v977_init", "vmedaq")
      BY <3>2, <3>3, <3>4 DEF Done, Before
    <3> QED BY <2>1, <3>5
  <2> QED BY <1>4, <2>2 DEF Cleared, Resets
<1>10. Acquiring'
  BY <1>1, <1>4, <1>5 DEF Acquiring, Takes
<1>11. ASSUME Running' PROVE Running
  BY <1>1, <1>6, <1>11 DEF Running
<1>12. SameNumber'
  <2> SUFFICES ASSUME Running, NEW b \in Used PROVE num'[b] = triggers' - mark'
    BY <1>5, <1>11 DEF SameNumber
  <2>1. Takes(b) /\ b \in Boards
    BY AllTake, BoardFacts DEF Running
  <2>2. num'[b] = num[b] + 1 /\ num[b] = triggers - mark
    BY <1>1, <2>1 DEF SameNumber
  <2> QED BY <1>1, <1>2, <2>2
<1>13. FreshData'
  <2> SUFFICES ASSUME Running, releases = 1, NEW b \in ReadOut PROVE buf'[b] = mark' + 1 .. triggers'
    BY <1>1, <1>5, <1>11 DEF FreshData
  <2>1. Takes(b) /\ b \in Boards
    <3>1. CASE b \in Used
      BY <3>1, AllTake, BoardFacts DEF Running
    <3>2. CASE b \notin Used
      <4>1. b \in {Scaler, Myriad}
        BY <3>2 DEF ReadOut, Scaler, Myriad
      <4>2. b[1] \notin Adcs
        BY <4>1 DEF Scaler, Myriad, Adcs
      <4> QED BY <4>1, <4>2, BoardFacts DEF Takes
    <3> QED BY <3>1, <3>2
  <2>2. buf'[b] = buf[b] \cup {triggers + 1} /\ buf[b] = mark + 1 .. triggers
    BY <1>1, <2>1 DEF FreshData
  <2>3. (mark + 1 .. triggers) \cup {triggers + 1} = mark + 1 .. triggers + 1
    <3>1. mark \in Nat /\ mark <= triggers
      BY <1>2
    <3> QED BY <1>2, <3>1
  <2> QED BY <1>1, <2>2, <2>3
<1>14. Closing' /\ NoCrash' /\ NothingLeft'
  BY <1>1 DEF Closing, Closes, NoCrash, NothingLeft, Unchecked, Adcs
<1> QED BY <1>3, <1>7, <1>9, <1>10, <1>12, <1>13, <1>14

\* The next program finds the crate as it is.
LEMMA StartStep == ASSUME Given, Start PROVE StartInv'
<1> USE DEF Given, StartInv
<1>1. /\ pc' = 1 /\ starts < MaxStarts /\ starts' = starts + 1 /\ releases' = 0 /\ set' = FALSE
      /\ conf' = NoConf /\ mapped' = {} /\ UNCHANGED <<crate, mark, last>>
  BY DEF Start
<1>2. NoConf \in [Confs -> Int] /\ NoConf["v830"] = 3 /\ NoConf["mqdc32"] = 0 /\ NoConf["myriad"] = 0
  BY DEF NoConf, Confs
<1>3. StartTypes'
  <2>1. pc' \in 0 .. Len(main) /\ starts' \in 0 .. MaxStarts /\ releases' \in 0 .. MaxReleases
    BY <1>1 DEF StartTypes, TypeOK, StartParameters, Order
  <2>2. {inhibit', set'} \subseteq BOOLEAN
    BY <1>1 DEF StartTypes, TypeOK, crate
  <2> QED BY <1>1, <1>2, <2>1, <2>2 DEF StartTypes, TypeOK, crate
<1>4. \A w, l : ~ Done(w, l)'
  BY <1>1, DoneEnd
<1>5. Setting' /\ Config'
  BY <1>1, <1>2, <1>4 DEF Setting, Guarded, Config
<1>6. Cleared' /\ Acquiring'
  BY <1>4 DEF Cleared, Acquiring
<1>7. ~ At("daq")'
  <2> SUFFICES ASSUME main[1].do = "daq" PROVE FALSE
    BY <1>1 DEF At
  <2>1. Before(1, "v977_init", "vmedaq")
    BY DEF Order, OrderOf
  <2> QED BY <2>1 DEF Before
<1>8. FreshData' /\ SameNumber'
  BY <1>7 DEF FreshData, SameNumber, Running
<1>9. Closing' /\ NoCrash' /\ NothingLeft'
  BY <1>1 DEF Closing, NoCrash, NothingLeft, Unchecked, Adcs
<1> QED BY <1>3, <1>5, <1>6, <1>8, <1>9

-----------------------------------------------------------------------------
(* The theorems *)

LEMMA StartBegins ==
    ASSUME StartParameters, Order, Init
    PROVE  StartInv
<1>1. pc = 0 /\ last = "none" /\ set = FALSE /\ releases = 0 /\ conf = NoConf
  BY DEF Init
<1>2. NoConf \in [Confs -> Int] /\ NoConf["v830"] = 3 /\ NoConf["mqdc32"] = 0 /\ NoConf["myriad"] = 0
  BY DEF NoConf, Confs
<1>3. StartTypes
  <2>1. pc \in 0 .. Len(main) /\ starts \in 0 .. MaxStarts /\ releases \in 0 .. MaxReleases
    BY DEF Init, StartParameters, Order
  <2>2. {inhibit, set} \subseteq BOOLEAN /\ enabled \in 0 .. V830_N_CHANNELS
    <3>1. inhibit \in BOOLEAN /\ set \in BOOLEAN
      BY DEF Init
    <3>2. enabled = 0
      BY DEF Init
    <3> QED BY <3>1, <3>2 DEF V830_N_CHANNELS
  <2>3. triggers \in 0 .. MaxTriggers /\ mark \in 0 .. triggers
    BY DEF Init, StartParameters
  <2>4. buf \in [Boards -> SUBSET (1 .. triggers)] /\ num \in [Boards -> 0 .. triggers]
    BY DEF Init
  <2>5. acq \in [Adcs -> BOOLEAN] /\ conf \in [Confs -> Int]
    BY <1>1, <1>2 DEF Init
  <2> QED BY <1>1, <2>1, <2>2, <2>3, <2>4, <2>5 DEF StartTypes, TypeOK
<1>4. \A w, l : ~ Done(w, l)
  BY <1>1 DEF Done, Before
<1>5. Setting /\ Config
  BY <1>1, <1>2, <1>4 DEF Setting, Guarded, Config
<1>6. Cleared /\ Acquiring
  BY <1>4 DEF Cleared, Acquiring
<1>7. FreshData /\ SameNumber
  BY <1>1 DEF FreshData, SameNumber, Running, At
<1>8. Closing /\ NoCrash /\ NothingLeft
  BY <1>1 DEF Closing, NoCrash, NothingLeft
<1> QED BY <1>3, <1>5, <1>6, <1>7, <1>8 DEF StartInv

LEMMA StartSteps ==
    ASSUME StartParameters, Order, StartInv, [Next]_vars
    PROVE  StartInv'
<1> Given
  BY DEF Given
<1>1. CASE Program
  BY <1>1, OptionsStep, DmaStep, OpenStep, CountStep, MapStep, V977Step, V830Step, FifoStep, MyriadStep,
     ClearStep, AcceptStep, DaqStartedStep, LossStep, ReadErrorStep, CloseStep DEF Program
<1>2. CASE UNCHANGED vars
  <2>1. UNCHANGED <<pc, conf, mapped, inhibit, enabled, acq, buf, num, triggers, mark, releases, starts,
                    last, set>>
    BY <1>2 DEF vars
  <2>2. \A w, l : Done(w, l)' = Done(w, l)
    BY <2>1, DoneSame
  <2>3. StartTypes' /\ Setting' /\ Config'
    BY <2>1, <2>2 DEF StartInv, StartTypes, TypeOK, Setting, Guarded, Config, At
  <2>4. Cleared' /\ Acquiring'
    BY <2>1, <2>2 DEF StartInv, Cleared, Acquiring, Used, Takes
  <2>5. FreshData' /\ SameNumber'
    BY <2>1 DEF StartInv, FreshData, SameNumber, Running, ReadOut, Used, At
  <2>6. Closing' /\ NoCrash' /\ NothingLeft'
    BY <2>1 DEF StartInv, Closing, Closes, NoCrash, NothingLeft, Unchecked, Adcs
  <2> QED BY <2>3, <2>4, <2>5, <2>6 DEF StartInv
<1> QED BY <1>1, <1>2, StartStep, KillStep, TriggerStep DEF Next

LEMMA ScalersOn ==
    ASSUME StartParameters, Order, StartInv, Version # "2016"
    PROVE  ScalersEnabled
<1> SUFFICES ASSUME At("daq") PROVE conf.v830 <= enabled
  BY DEF ScalersEnabled
<1>1. enabled = conf["v830"]
  BY AtReadout DEF Given, StartInv, Config
<1>2. enabled \in Int
  BY DEF StartInv, StartTypes, TypeOK, V830_N_CHANNELS
<1> QED BY <1>1, <1>2

\* main() keeps its invariant, ...
THEOREM StartInvariant ==
    ASSUME StartParameters PROVE Spec => []StartInv
<1>1. Order
  BY StepOrder
<1>2. Init => StartInv
  BY <1>1, StartBegins
<1>3. StartInv /\ [Next]_vars => StartInv'
  BY <1>1, StartSteps
<1> QED BY <1>2, <1>3, PTL DEF Spec

\* ... its state is well typed, ...
THEOREM StartTyping ==
    ASSUME StartParameters PROVE Spec => []TypeOK
<1>1. StartInv => TypeOK
  BY DEF StartInv, StartTypes
<1> QED BY <1>1, StartInvariant, PTL

\* ... and vmedaq starts and ends as it should: the trigger is held from v977_init on until
\* everything is set up and after the end, what is read then was triggered since, with equal
\* numbers in all modules, whatever earlier programs, killed or failed at any step, left in the
\* crate.
THEOREM StartRight ==
    ASSUME StartParameters PROVE Spec => []Started
<1>1. StartInv => Started
  <2>1. Order
    BY StepOrder
  <2> QED BY <2>1, ScalersOn DEF StartInv, Setting, Started
<1> QED BY <1>1, StartInvariant, PTL
=============================================================================
