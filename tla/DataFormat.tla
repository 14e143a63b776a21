----------------------------- MODULE DataFormat -----------------------------
(***************************************************************************)
(* The format of the data that the checkers walk through: the identifiers  *)
(* and sizes of blocks, events, fields and regions (babies.h, as the       *)
(* checkers use it), and small streams of blocks in this format.           *)
(***************************************************************************)
EXTENDS HitTables, FiniteSets, TLC

CONSTANTS Checker,     \* "check_format_lib" or "check_adc"
          NumMax       \* 2^16: block numbers are short

-----------------------------------------------------------------------------
(* The format *)
Unit == 64
BlkHeaderID == WordMax - 1
BlkTrailerID == WordMax - 2
EvtHeaderID == WordMax - 3
FldHeaderID == WordMax - 4

(* What each function of a checker accepts: the size of a block header (it grew with  *)
(* version 4) and where the block size is, events, fields, and no region identifiers. *)
lib_check_buf == [S_BH |-> 8, longSize |-> TRUE]
lib_check_evts == [events |-> {0, 1}]       \* DataEvent, BlockEndEvent
lib_check_flds == [fields |-> 0 .. 7]
lib_check_rgns == [illegal |-> {0}, tables |-> TRUE]

adc_check_buf == [S_BH |-> 6, longSize |-> FALSE]
adc_check_evts == [events |-> {0, 1}]
adc_check_flds == [fields |-> {0}]
adc_check_rgns == [illegal |-> {0, 8}, tables |-> FALSE]

F == IF Checker = "check_adc"
       THEN adc_check_buf @@ adc_check_evts @@ adc_check_flds @@ adc_check_rgns
       ELSE lib_check_buf @@ lib_check_evts @@ lib_check_flds @@ lib_check_rgns
S_EH == 6
S_FH == 4
S_BT == 2
ComSize == 3             \* the size of a RunComment

DataBlockIDs == 0 .. 7   \* the crates
ScalerBlockID == 100
StartBlockID == 201
EndBlockID == 202
InfoBlocks == {StartBlockID, EndBlockID}

Kind(id) == CASE id \in {13, 14} -> "fera" [] id = 7 -> "lr3377" [] id = 2 -> "inpreg"
              [] id = 10 -> "pcos" [] id = 3 -> "adc" [] OTHER -> "other"

-----------------------------------------------------------------------------
(* Blocks for the checkers.  A word has its value v, the name f of the     *)
(* field it is, and what it says (hits).                                   *)
W(f, v) == [f |-> f, v |-> v, hits |-> {}]
Flat(ss) == FlattenSeq(ss)

Region(id, ws) == <<W("region", id * Unit + Len(ws))>> \o ws

Field(rs) == <<W("headerID", FldHeaderID), W("headerSize", S_FH), W("fieldID", 0),
               W("fieldSize", Len(Flat(rs)))>> \o Flat(rs)

Event(n, fs) == <<W("headerID", EvtHeaderID), W("evtHeaderSize", S_EH), W("eventID", 0),
                  W("eventSize", Len(Flat(fs))), W("eventNumber", n), W("numFields", Len(fs))>> \o Flat(fs)

\* es are the events without their numbers.
Block(id, n, es) ==
    LET body == Flat([k \in DOMAIN es |-> Event(k - 1, es[k])])
        size == Len(body) + S_BT
    IN  <<W("headerID", BlkHeaderID), W("headerSize", F.S_BH), W("blockID", id),
          W(IF F.S_BH = 6 THEN "blockSize32" ELSE "blockSize", IF F.S_BH = 6 THEN size ELSE 1008),
          W(IF id \in DataBlockIDs THEN "blockNumber" ELSE "", n % NumMax), W("numEvents", Len(es))>>
        \o (IF F.S_BH = 6 THEN << >> ELSE <<W("blockSize32", size), W("blockSize32u", 0)>>)
        \o body \o <<W("trailerID", BlkTrailerID), W("trailerSize", S_BT)>>

InfoBlock(id) ==
    [k \in 1 .. F.S_BH |-> W(IF k = 1 THEN "comment" ELSE "info",
                             CASE k = 1 -> BlkHeaderID [] k = 2 -> F.S_BH [] k = 3 -> id [] OTHER -> 0)]
    \o [k \in 1 .. ComSize |-> W("text", 5)]

\* Regions: the words of modules, with what they say.
Fera(id, chs) ==
    Region(13, <<W("", id)>> \o [k \in DOMAIN chs |->
        [f |-> "fera", v |-> 8 * chs[k] + k, hits |-> {<<id, chs[k], k>>}]])
LR(id, chs) ==
    <<W("", 512 + id)>> \o [k \in DOMAIN chs |->
        [f |-> "lr3377", v |-> 8 * chs[k] + k, hits |-> {<<id, chs[k], k>>}]]
\* A cluster of w wires whose first wire is number first, counted through the chambers.
Cluster(w, first) ==
    <<W("", 512 + w),
      [f |-> "pcos", v |-> 2 * first + (w - 1),
       hits |-> {<<(first + k) \div NCh, (first + k) % NCh>> : k \in 0 .. w - 1}]>>
Wire(first) == <<[f |-> "pcos", v |-> 2 * first, hits |-> {<<first \div NCh, first % NCh>>}]>>
Pcos(ws) == Region(10, <<W("", Len(ws))>> \o ws)
Inp(ws) == Region(2, [k \in DOMAIN ws |-> W("inp", ws[k])])
Adc(ws) == Region(3, [k \in DOMAIN ws |-> [f |-> "adc", v |-> ws[k], hits |-> {k - 1}]])

E1 == <<Field(<<Adc(<<3, 1>>), Fera(1, <<0>>)>>)>>
E2 == <<Field(<<Adc(<<4>>)>>), Field(<<Region(6, << >>)>>)>>
E0 == <<Field(<< >>)>>

Structured == {<<Block(0, 0, <<E1, E2>>), Block(0, 1, <<E0>>)>>,
               <<InfoBlock(StartBlockID), Block(1, 0, <<E1>>), Block(100, 5, << >>), InfoBlock(EndBlockID)>>}
NoEmpty == {<<Block(0, 0, <<E1, E2>>), Block(0, 1, <<E1>>)>>,
            <<InfoBlock(StartBlockID), Block(1, 0, <<E2, E1>>), Block(100, 5, << >>), InfoBlock(EndBlockID)>>}
\* Blocks whose numbers start again from 0 once and twice.
Wrapping == {<<Block(2, 0, <<E1>>), Block(2, 1, <<E2>>), Block(2, 2, <<E1>>)>>,
             [k \in 1 .. 5 |-> Block(3, k - 1, <<E2>>)]}
\* Two events out of these, with modules in another order each time.
TableEvents ==
    {<<Field(<<Fera(5, <<1, 0>>), Fera(2, <<1>>), Inp(<<3, 1>>)>>), Field(<<Region(7, LR(6, <<0>>) \o LR(3, <<1>>))>>)>>,
     <<Field(<<Fera(2, <<0>>), Region(7, LR(3, <<1, 0>>)), Inp(<<1, 2>>), Pcos(Wire(5))>>)>>,
     <<Field(<<Pcos(Cluster(2, 1) \o Wire(4)), Region(7, LR(1, <<1>>) \o LR(6, <<1>>))>>)>>,
     <<Field(<<Pcos(Cluster(3, 0)), Inp(<<2, 0>>)>>)>>}
Tabled == {<<Block(0, 0, <<a, b>>), Block(0, 1, <<d>>)>> : a \in TableEvents, b \in TableEvents, d \in TableEvents}
=============================================================================
