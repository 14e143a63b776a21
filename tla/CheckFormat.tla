---------------------------- MODULE CheckFormat ----------------------------
(***************************************************************************)
(* The format checkers (router/tools/check_format_lib.c and check_adc.c):  *)
(* a walk through blocks of data, blocks made of events, events of fields, *)
(* fields of regions, that counts what it finds and what is wrong, finds   *)
(* the next header after an error, and fills the tables of HitTables.      *)
(*                                                                         *)
(* One action is one turn of one of the nested loops.  A block is a        *)
(* sequence of words; a word is a record of its value v, the name f of the *)
(* field it is, and what it says (hits), the last two for the properties   *)
(* only.  Region headers are id * Unit + length; the four header and       *)
(* trailer identifiers are the largest words.                              *)
(***************************************************************************)
EXTENDS DataFormat

CONSTANTS Streams,     \* set of sequences of blocks: what may be read
          Damage,      \* set of kinds of damage that one block may have
          Fill,        \* what is read behind the end of a block
          ShowEvery,   \* show_inpreg_itvl
          Cap          \* bound of the counters

VARIABLES todo,        \* blocks still to come
          buf,         \* the block that is checked
          pc,          \* which loop is next
          ptr,         \* the word it looks at
          hd,          \* the headers of the event and of the field it is in
          te,          \* the ends of the events, fields and regions
          num,         \* numbers of events and fields
          err,         \* whether the block, event, field ... has an error
          cnt,         \* counter[]
          blk_num,     \* the number the next block should have
          tab,         \* the tables, or the sums of the ADC channels
          hurt,        \* for the properties: what was damaged
          seen         \* for the properties: the words of the intact events so far

cfVars == <<todo, buf, pc, ptr, hd, te, num, err, cnt, blk_num, tab, hurt, seen>>

-----------------------------------------------------------------------------
(* Words, and the sums of check_adc *)
Threshold == 2
NoSums == [ch \in Chans |-> [adc |-> 0, cnt |-> 0]]
At(i) == IF i \in DOMAIN buf THEN buf[i].v ELSE Fill
Words(p, n) == [k \in 1 .. n |-> At(p + k)]

-----------------------------------------------------------------------------
(* Counters *)
Counters == {"BLKS", "EVTS", "FLDS", "RGNS",
             "ERR_BLKS", "ERR_EVTS", "ERR_FLDS", "ERR_RGNS",
             "ERR_BLK_HEADER", "ERR_BLK_TRAILER", "ERR_BLK_SIZE", "ERR_BLK_CONT",
             "ERR_EVT_HEADER", "ERR_EVT_SIZE", "ERR_EVT_CONT",
             "ERR_FLD_HEADER", "ERR_FLD_SIZE", "ERR_FLD_CONT", "ERR_RGN_SIZE"}
Errors == Counters \ {"BLKS", "EVTS", "FLDS", "RGNS"}
clear_counters == [c \in Counters |-> 0]
Count(cs) == [c \in Counters |-> IF c \in cs /\ cnt[c] < Cap THEN cnt[c] + 1 ELSE cnt[c]]
When(b, c) == IF b THEN {c} ELSE {}

-----------------------------------------------------------------------------
(* Damage of one block: a word is lost ("zero"), one too high ("more"), or is the   *)
(* header of an event ("header"); a start or end block ends too early ("short").    *)
Structure == {"headerID", "headerSize", "blockNumber", "numEvents", "blockSize32",
              "eventNumber", "numFields", "fieldSize", "trailerID", "trailerSize"}
AllWords == Structure \cup {"eventSize", "evtHeaderSize", "comment"}

NewValue(kind, v) == CASE kind = "zero" -> 0 [] kind = "more" -> v + 1 [] OTHER -> EvtHeaderID

Hit(b, i, kind) == [b EXCEPT ![i].v = NewValue(kind, @)]

Intact == [blk |-> 0, f |-> "none"]
Short(b) == SubSeq(b, 1, Len(b) - 1)

CfInit ==
    /\ \E s \in Streams :
          \/ todo = s /\ hurt = Intact
          \/ \E n \in DOMAIN s : \E i \in DOMAIN s[n] : \E kind \in Damage \ {"short"} :
                /\ s[n][i].f \in AllWords
                /\ NewValue(kind, s[n][i].v) # s[n][i].v
                /\ todo = [s EXCEPT ![n] = Hit(@, i, kind)]
                /\ hurt = [blk |-> n, f |-> s[n][i].f]
          \/ \E n \in DOMAIN s :
                /\ "short" \in Damage /\ s[n][3].v \in InfoBlocks
                /\ todo = [s EXCEPT ![n] = Short(@)]
                /\ hurt = [blk |-> n, f |-> "text"]
    /\ buf = << >> /\ pc = "read" /\ ptr = 1
    /\ hd = [evt |-> 1, fld |-> 1]
    /\ te = [evts |-> 1, flds |-> 1, rgns |-> 1]
    /\ num = [evts |-> 0, flds |-> 0]
    /\ err = [x \in {"blk", "evts", "evt", "flds", "fld", "rgns"} |-> FALSE]
    /\ cnt = clear_counters /\ blk_num = 0
    /\ tab = IF F.tables THEN Tables0 ELSE NoSums
    /\ seen = << >>

\* A block is read from the file or from the router.
ReadBlock ==
    /\ pc = "read"
    /\ IF todo = << >> THEN pc' = "end" /\ UNCHANGED <<todo, buf>>
       ELSE pc' = "blk" /\ buf' = Head(todo) /\ todo' = Tail(todo)
    /\ UNCHANGED <<ptr, hd, te, num, err, cnt, blk_num, tab, hurt, seen>>

\* The block header has its size at one of two places, depending on the version.
BlockSize ==
    IF ~F.longSize \/ At(2) = 6 THEN At(4) ELSE At(7) + WordMax * At(8)
SizeBad ==
    /\ ~F.longSize \/ At(2) \in {6, 8}
    /\ BlockSize > Len(buf) - F.S_BH

\* The number the block should have is one more than that of the block before; after an
\* error it goes on from the number the block has.
NextNumber == At(5) + 1

\* check_com: a block without a whole comment is reported, and the pointer to the error
\* count is incremented instead of the count.
check_com == FALSE

\* check_buf up to the events: the block header, and all of a start or end block.
CheckBlock ==
    LET id      == At(3)
        number  == id \in DataBlockIDs /\ At(5) # blk_num
        bad     == \/ At(1) # BlkHeaderID
                   \/ At(2) # F.S_BH
                   \/ id \notin DataBlockIDs \cup {ScalerBlockID} \cup InfoBlocks
                   \/ SizeBad
                   \/ number
        infoBad == id \in InfoBlocks /\ (bad \/ check_com)
    IN  /\ pc = "blk"
        /\ blk_num' = IF number THEN NextNumber ELSE IF id \in DataBlockIDs THEN blk_num + 1 ELSE blk_num
        /\ LET one == Count({"BLKS"} \cup When(SizeBad, "ERR_BLK_SIZE") \cup When(bad, "ERR_BLK_HEADER"))
           IN  cnt' = IF infoBad /\ one["ERR_BLK_HEADER"] < Cap
                        THEN [one EXCEPT !["ERR_BLK_HEADER"] = @ + 1] ELSE one
        /\ err' = [err EXCEPT !["blk"] = bad, !["evts"] = FALSE]
        /\ ptr' = F.S_BH + 1
        /\ te' = [te EXCEPT !.evts = Len(buf) - S_BT + 1]
        /\ num' = [num EXCEPT !.evts = 0]
        /\ pc' = IF id \in InfoBlocks THEN "read" ELSE "evts"
        /\ UNCHANGED <<todo, buf, hd, tab, hurt, seen>>

\* The first place from p on, before end, with a header of one of the kinds ids.
NextHeader(p, end, ids) ==
    IF At(p) \in ids THEN p
    ELSE Min({q \in p .. end : At(q) \in ids /\ q < end} \cup {IF p < end THEN end ELSE p})

\* check_evts: the next event header is found and checked.
NextEvent ==
    LET p     == NextHeader(ptr, te.evts, {EvtHeaderID, BlkTrailerID})
        tp    == p + At(p + 1) + At(p + 3)
        over  == tp > te.evts
        size  == over \/ (tp < te.evts /\ At(tp) \notin {EvtHeaderID, BlkTrailerID})
        wrong == At(p + 4) # num.evts
        bad   == At(p + 1) # S_EH \/ At(p + 2) \notin F.events \/ size \/ wrong
    IN  /\ pc = "evts"
        /\ IF p >= te.evts \/ At(p) = BlkTrailerID
             THEN /\ pc' = "trl"
                  /\ UNCHANGED <<ptr, hd, te, num, err, cnt, tab>>
           ELSE IF over
             THEN /\ pc' = "trl"
                  /\ num' = [num EXCEPT !.evts = @ + 1]
                  /\ cnt' = Count({"EVTS", "ERR_EVT_SIZE"})
                  /\ UNCHANGED <<ptr, hd, te, err, tab>>
             ELSE /\ cnt' = Count({"EVTS"} \cup When(size, "ERR_EVT_SIZE") \cup When(bad, "ERR_EVT_HEADER"))
                  /\ num' = [evts |-> IF wrong THEN At(p + 4) + 1 ELSE num.evts + 1, flds |-> 0]
                  /\ hd' = [hd EXCEPT !.evt = p]
                  /\ ptr' = p + At(p + 1)
                  /\ te' = [te EXCEPT !.flds = ptr' + At(p + 3)]
                  /\ err' = [err EXCEPT !["evt"] = bad, !["flds"] = FALSE]
                  /\ pc' = "flds"
                  /\ tab' = IF F.tables THEN InitTables(tab) ELSE tab
        /\ UNCHANGED <<todo, buf, blk_num, hurt, seen>>

\* check_flds: the next field header is found and checked; without one the tables are
\* shown.
NextField ==
    LET p    == NextHeader(ptr, te.flds, {FldHeaderID})
        tp   == p + At(p + 1) + At(p + 3)
        size == tp > te.flds \/ (tp < te.flds /\ At(tp) # FldHeaderID)
        bad  == At(p + 1) # S_FH \/ At(p + 2) \notin F.fields \/ size
    IN  /\ pc = "flds"
        /\ IF p >= te.flds
             THEN pc' = "show" /\ UNCHANGED <<ptr, hd, te, num, err, cnt>>
             ELSE /\ cnt' = Count({"FLDS"} \cup When(size, "ERR_FLD_SIZE") \cup When(bad, "ERR_FLD_HEADER"))
                  /\ num' = [num EXCEPT !.flds = IF @ < Cap THEN @ + 1 ELSE @]
                  /\ hd' = [hd EXCEPT !.fld = p]
                  /\ ptr' = p + At(p + 1)
                  /\ te' = [te EXCEPT !.rgns = ptr' + At(p + 3)]
                  /\ err' = [err EXCEPT !["fld"] = bad, !["rgns"] = FALSE]
                  /\ pc' = IF ptr' <= te.flds THEN "rgns" ELSE "fld done"
        /\ UNCHANGED <<todo, buf, blk_num, tab, hurt, seen>>

\* A region with an illegal identifier is one word long: the search for the next header
\* stops at the first word.
RgnSize(p) == IF At(p) \div Unit \in F.illegal THEN 0 ELSE At(p) % Unit

\* adc[] and cnt[] of check_adc: the sum and the number of the values above a threshold.
AddAdc(t, ws) ==
    [ch \in Chans |-> IF ch + 1 \in DOMAIN ws /\ ws[ch + 1] > Threshold
                         THEN [adc |-> t[ch].adc + ws[ch + 1], cnt |-> t[ch].cnt + 1] ELSE t[ch]]

AtLeastOne(n) == IF n = 0 THEN 1 ELSE n

\* check_rgns: one region.
NextRegion ==
    LET id   == At(ptr) \div Unit
        size == ptr + RgnSize(ptr) + 1 > te.rgns
        bad  == id \in F.illegal \/ size
        ws   == Words(ptr, AtLeastOne(RgnSize(ptr)))
    IN  /\ pc = "rgns"
        /\ IF ptr >= te.rgns
             THEN pc' = "fld done" /\ UNCHANGED <<ptr, err, cnt, tab>>
             ELSE /\ cnt' = Count({"RGNS"} \cup When(size, "ERR_RGN_SIZE") \cup When(bad, "ERR_RGNS"))
                  /\ err' = [err EXCEPT !["rgns"] = @ \/ bad]
                  /\ tab' = IF ~F.tables
                              THEN IF Kind(id) = "adc" THEN AddAdc(tab, Words(ptr, RgnSize(ptr))) ELSE tab
                            ELSE IF id \in F.illegal THEN tab
                            ELSE IF RgnSize(ptr) = 0 /\ Kind(id) # "fera" THEN tab
                            ELSE Tabulate(tab, Kind(id), ws)
                  /\ ptr' = ptr + RgnSize(ptr) + 1
                  /\ UNCHANGED pc
        /\ UNCHANGED <<todo, buf, hd, te, num, blk_num, hurt, seen>>

\* The end of a field: errors of its regions are errors of the field and of the event.
FieldDone ==
    LET bad == err["fld"] \/ err["rgns"]
    IN  /\ pc = "fld done"
        /\ cnt' = Count(When(err["rgns"], "ERR_FLD_CONT") \cup When(bad, "ERR_FLDS"))
        /\ err' = [err EXCEPT !["flds"] = @ \/ bad, !["rgns"] = FALSE]
        /\ ptr' = hd.fld + At(hd.fld + 1) + At(hd.fld + 3)
        /\ pc' = "flds"
        /\ UNCHANGED <<todo, buf, hd, te, num, blk_num, tab, hurt, seen>>

\* The words of the event, as they were sent.
EventWords == SubSeq(buf, hd.evt, hd.evt + At(hd.evt + 1) + At(hd.evt + 3) - 1)

\* show_inpreg, show_fera, show_lr3377 and show_pcos: the tables hold the event.
ShowTables ==
    /\ pc = "show"
    /\ tab' = IF F.tables THEN [tab EXCEPT !.inp = show_inpreg(@, ShowEvery)] ELSE tab
    /\ seen' = IF hurt = Intact THEN Append(seen, EventWords) ELSE seen
    /\ pc' = "evt done"
    /\ UNCHANGED <<todo, buf, ptr, hd, te, num, err, cnt, blk_num, hurt>>

\* A fault: the number of fields is not compared.
FieldsWrong_Never == FALSE

FieldsWrong == At(hd.evt + 5) # num.flds

\* The end of an event.
EventDone ==
    LET bad == err["evt"] \/ err["flds"] \/ FieldsWrong
    IN  /\ pc = "evt done"
        /\ cnt' = Count(When(err["flds"], "ERR_EVT_CONT") \cup When(bad, "ERR_EVTS"))
        /\ err' = [err EXCEPT !["evts"] = @ \/ bad, !["flds"] = FALSE]
        /\ ptr' = hd.evt + At(hd.evt + 1) + At(hd.evt + 3)
        /\ pc' = "evts"
        /\ UNCHANGED <<todo, buf, hd, te, num, blk_num, tab, hurt, seen>>

\* The end of a block: the number of events, and the trailer, which is where the block
\* size says.
CheckTrailer ==
    LET p      == F.S_BH + 1 + BlockSize - S_BT
        events == At(6) # num.evts
        trl    == p + S_BT > Len(buf) + 1 \/ At(p) # BlkTrailerID \/ At(p + 1) # S_BT
        bad    == err["blk"] \/ err["evts"] \/ events \/ trl
    IN  /\ pc = "trl"
        /\ cnt' = Count(When(err["evts"], "ERR_BLK_CONT") \cup When(trl, "ERR_BLK_TRAILER")
                        \cup When(bad, "ERR_BLKS"))
        /\ err' = [err EXCEPT !["blk"] = FALSE, !["evts"] = FALSE, !["evt"] = FALSE, !["fld"] = FALSE]
        /\ pc' = "read"
        /\ UNCHANGED <<todo, buf, ptr, hd, te, num, blk_num, tab, hurt, seen>>

CfStep == \/ CheckBlock \/ NextEvent \/ NextField \/ NextRegion \/ FieldDone
          \/ ShowTables \/ EventDone \/ CheckTrailer
CfNext == ReadBlock \/ CfStep

CfSpec == CfInit /\ [][CfNext]_cfVars
-----------------------------------------------------------------------------
\* Every variable has its type, and no counter leaves its bound.
CfTypeOK ==
    /\ pc \in {"read", "blk", "evts", "flds", "rgns", "fld done", "show", "evt done", "trl", "end"}
    /\ ptr \in Nat /\ blk_num \in 0 .. WordMax
    /\ cnt \in [Counters -> 0 .. Cap]
    /\ err \in [DOMAIN err -> BOOLEAN]

Fields(b, name) == Cardinality({i \in DOMAIN b : b[i].f = name})
Total(blocks, name) == FoldLeft(LAMBDA s, b : s + Fields(b, name), 0, blocks)

\* The data blocks whose number starts again from 0: the sender counts modulo NumMax, the
\* checkers do not.
IsData(b) == b[3].v \in DataBlockIDs
Wraps(s) == Cardinality({n \in DOMAIN s : IsData(s[n]) /\ s[n][5].v = 0 /\ \E m \in 1 .. n - 1 : IsData(s[m])})

\* The values of channel ch above the threshold in the words of a stream.
Above(s, ch) == SelectSeq(FlattenSeq(s), LAMBDA w : w.f = "adc" /\ ch \in w.hits /\ w.v > Threshold)
SumOf(ws) == FoldLeft(LAMBDA t, w : t + w.v, 0, ws)

\* Blocks as they are sent are counted exactly: every event, every field and every region
\* once, none taken for another, and check_adc sums the values of each channel.  The only
\* errors reported are one block error, in the header, for each time the block number starts
\* again from 0.
CleanCounted ==
    pc = "end" /\ hurt = Intact =>
        \E s \in Streams :
           /\ cnt["BLKS"] = Len(s)
           /\ cnt["EVTS"] = Total(s, "eventSize")
           /\ cnt["FLDS"] = Total(s, "fieldSize")
           /\ cnt["RGNS"] = Total(s, "region")
           /\ \A c \in Errors : cnt[c] = IF c \in {"ERR_BLKS", "ERR_BLK_HEADER"} THEN Wraps(s) ELSE 0
           /\ ~F.tables => \A ch \in Chans :
                 tab[ch] = [adc |-> SumOf(Above(s, ch)), cnt |-> Len(Above(s, ch))]

\* When the walk comes to its end after one wrong word: the block counts as an error block if
\* the word is an identifier, a number, the size of a field or of the block, or of the trailer,
\* wherever the search for the next header resumes; a wrong size of an event or of its header
\* is counted at least as an error of the event (an event that is too long for its block is no
\* error of the block, as check_evts leaves the loop before it adds it up).  A run comment that
\* is cut short is counted nowhere, as check_com increments the pointer to the count.
DamageCounted ==
    pc = "end" =>
        /\ hurt.f \in Structure => cnt["ERR_BLKS"] > 0
        /\ hurt.f \in {"eventSize", "evtHeaderSize"} =>
              cnt["ERR_EVT_SIZE"] > 0 \/ (cnt["ERR_EVT_HEADER"] > 0 /\ cnt["ERR_BLKS"] > 0)
        /\ hurt.f = "comment" => cnt["ERR_BLK_HEADER"] > 0

\* The walk has found a header with both sizes zero, and goes back to it.
Standing ==
    \/ pc = "evt done" /\ At(hd.evt + 1) + At(hd.evt + 3) = 0
    \/ pc = "fld done" /\ At(hd.fld + 1) + At(hd.fld + 3) = 0

\* What was sent in an event.
HitsIn(ws, kind) == UNION {IF ws[i].f = kind THEN ws[i].hits ELSE {} : i \in DOMAIN ws}

\* When an event is shown the tables hold the data of this event and no other: the
\* channels of FERA and 3377, and the wires of PCOS, under their own modules.
TablesOfEvent ==
    pc = "show" /\ hurt = Intact /\ F.tables =>
        /\ show_fera(tab.fera) = HitsIn(EventWords, "fera")
        /\ show_lr3377_tdc(tab.lr3377) = HitsIn(EventWords, "lr3377")
        /\ show_pcos_hit(tab.pcos) = HitsIn(EventWords, "pcos")
        /\ \A i \in DOMAIN tab.lr3377, ch \in Chans :
              show_lr3377_hit(tab.lr3377, i, ch).lit =>
                 \E x \in HitsIn(EventWords, "lr3377") : x[1] = tab.lr3377[i].id /\ x[2] = ch

Hits(kind, id, ch) ==
    FoldLeft(LAMBDA s, ws : s + Cardinality({i \in DOMAIN ws : ws[i].f = kind /\
                                              \E x \in ws[i].hits : x[1] = id /\ x[2] = ch}),
             0, seen)

\* The hit counts of the wire display are those of the module they stand beside,
\* however the rows were sorted as modules appeared.
HitsFollowModule ==
    pc = "evt done" /\ hurt = Intact /\ F.tables =>
        \A ch \in Chans :
           /\ \A i \in DOMAIN tab.lr3377 : tab.lr3377[i].nhit[ch] = Hits("lr3377", tab.lr3377[i].id, ch)
           /\ \A i \in DOMAIN tab.pcos : tab.pcos[i].nhit[ch] = Hits("pcos", tab.pcos[i].id, ch)

\* The "Diff" column counts from the last display: it is zero after one.
DiffSinceShown ==
    pc = "evt done" /\ hurt = Intact /\ F.tables /\ tab.inp.k = 0 =>
        \A i \in 1 .. MaxMods : tab.inp.rows[i].diff = NoHits
=============================================================================
