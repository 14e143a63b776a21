----------------------------- MODULE HitTables -----------------------------
(***************************************************************************)
(* The tables of check_format_lib.c: for every module that appears in the  *)
(* data of an event one row, found by the module's identifier or added, as *)
(* long as there is room.  A row has the data of the event and, for the    *)
(* wire chambers, the number of hits since the program started.  Before    *)
(* every event the rows are cleared and sorted by identifier.              *)
(*                                                                         *)
(* Words are numbers below WordMax, with fields at the places the code     *)
(* takes them from (the structs of the modules are not in the repository). *)
(***************************************************************************)
EXTENDS Integers, Sequences, SequencesExt, FiniteSetsExt

CONSTANTS MaxMods,   \* rows of a table (64 or 256)
          NCh        \* channels of a module (16 or 32)

WordMax == 1024
Chans == 0 .. NCh - 1
None == [ch \in Chans |-> -1]
NoHits == [ch \in Chans |-> 0]

\* The fields of a word.
HdrBit(w) == w \div 512 = 1          \* header.hdr, delim.hdr
DelimBit(w) == (w \div 256) % 2 = 1  \* delim.delim
Id(w) == w % 8                       \* header.vsn, header.id
Width(w) == w % 8                    \* width.width
Dat(w) == w % 8                      \* data.data
Evt(w) == (w \div 256) % 2           \* header.evt
Ch(w) == (w \div 8) % NCh            \* data.ch
PcosHalf(w) == w % 2                 \* mod.h
PcosCh(w) == (w \div 2) % NCh        \* mod.ch
PcosAddr(w) == (w \div (2 * NCh)) % (512 \div (2 * NCh))   \* mod.addr

-----------------------------------------------------------------------------
(* Rows *)
Known(t, id) == \E i \in DOMAIN t : t[i].id = id
RowOf(t, id) == CHOOSE i \in DOMAIN t : t[i].id = id
Full(t, id) == ~Known(t, id) /\ Len(t) >= MaxMods
Add(t, row) == IF Known(t, row.id) THEN t ELSE Append(t, row)

\* The first word names the module, each of the others is a channel.
check_fera(t, ws) ==
    LET id == Id(ws[1])
        u  == Add(t, [id |-> id, data |-> None])
    IN  IF Full(t, id) THEN t
        ELSE [u EXCEPT ![RowOf(u, id)].data =
                FoldLeft(LAMBDA d, w : [d EXCEPT ![Ch(w)] = Dat(w)], @, Tail(ws))]

\* A header starts a module; what follows are hits of that module.  Without room the
\* rest of the region is dropped.
Word3377(s, w) ==
    LET id == Id(w)
        u  == Add(s.t, [id |-> id, evt |-> -1, data |-> None, nhit |-> NoHits])
    IN  IF s.full THEN s
        ELSE IF HdrBit(w)
               THEN IF Full(s.t, id) THEN [s EXCEPT !.full = TRUE]
                    ELSE [s EXCEPT !.t = [u EXCEPT ![RowOf(u, id)].evt = Evt(w)],
                                   !.i = RowOf(u, id)]
        ELSE IF s.i = 0 THEN s
        ELSE [s EXCEPT !.t[s.i].data[Ch(w)] = Dat(w), !.t[s.i].nhit[Ch(w)] = @ + 1]

check_lr3377(t, ws) == FoldLeft(Word3377, [t |-> t, i |-> 0, full |-> FALSE], ws).t

\* A hit at word w (half a wire is 1): the row of its chamber, and the wire.
PcosHit(s, w) ==
    LET id == PcosAddr(w)
        u  == Add(s.t, [id |-> id, hit |-> NoHits, nhit |-> NoHits])
        i  == RowOf(u, id)
    IN  IF s.full THEN s
        ELSE IF Full(s.t, id) THEN [s EXCEPT !.full = TRUE]
        ELSE [s EXCEPT !.t = IF PcosHalf(w) = 1 THEN u
                             ELSE [u EXCEPT ![i].hit[PcosCh(w)] = @ + 1, ![i].nhit[PcosCh(w)] = @ + 1]]

\* A width word says how wide the next cluster is; the word of the cluster is its centre.
ClusterStart(w, width) == (w - (width - 1)) % WordMax

WordPcos(s, w) ==
    LET wires == [k \in 1 .. s.w |-> (ClusterStart(w, s.w) + 2 * (k - 1)) % WordMax]
    IN  IF s.full THEN s
        ELSE IF HdrBit(w) THEN IF DelimBit(w) THEN s ELSE [s EXCEPT !.w = Width(w)]
        ELSE [FoldLeft(PcosHit, s, wires) EXCEPT !.w = 1]

check_pcos(t, ws) == FoldLeft(WordPcos, [t |-> t, w |-> 1, full |-> FALSE], ws).t

\* The input registers: one row per word of the event, bit by bit.
InpRow == [bits |-> NoHits, diff |-> NoHits, sum |-> NoHits]
InpInit == [c |-> 0, n |-> 0, k |-> 0, rows |-> [i \in 1 .. MaxMods |-> InpRow]]
Bit(w, b) == (w \div 2 ^ b) % 2

WordInp(s, w) ==
    IF s.c >= MaxMods THEN s
    ELSE LET r == s.rows[s.c + 1]
         IN  [s EXCEPT !.c = s.c + 1, !.n = s.c + 1,
                       !.rows[s.c + 1] = [bits |-> [b \in Chans |-> Bit(w, b)],
                                          diff |-> [b \in Chans |-> r.diff[b] + Bit(w, b)],
                                          sum  |-> [b \in Chans |-> r.sum[b] + Bit(w, b)]]]

check_inpreg(s, ws) == FoldLeft(WordInp, s, ws)

-----------------------------------------------------------------------------
(* Between events *)
Sorted(t) == SortSeq(t, LAMBDA a, b : a.id < b.id)

check_inpreg_init(s) == [s EXCEPT !.c = 0]

\* The data are cleared first, so sorting only has to move the identifiers.
check_fera_init(t) == Sorted([i \in DOMAIN t |-> [t[i] EXCEPT !.data = None]])

\* A fault: the hits stay where they are when the identifiers move.
check_lr3377_init_Ids(t) ==
    LET u == Sorted(t)
    IN  [i \in DOMAIN t |-> [t[i] EXCEPT !.id = u[i].id, !.evt = -1, !.data = None]]

\* The identifier and the hits of a row move together.
check_lr3377_init(t) == Sorted([i \in DOMAIN t |-> [t[i] EXCEPT !.evt = -1, !.data = None]])

check_pcos_init(t) == Sorted([i \in DOMAIN t |-> [t[i] EXCEPT !.hit = NoHits]])

\* Every so many events the registers are shown, and counted from zero again; the rows
\* are those of the last event.
show_inpreg(s, every) ==
    IF s.k + 1 < every THEN [s EXCEPT !.k = @ + 1]
    ELSE [s EXCEPT !.k = 0,
                   !.rows = [i \in 1 .. MaxMods |->
                               IF i <= s.n THEN [@[i] EXCEPT !.diff = NoHits] ELSE @[i]]]

\* What the displays show of an event: the channels with data, and for the wires how
\* often each was hit so far, a digit or a letter for the power of two or of ten.
show_fera(t) == {<<t[i].id, ch, t[i].data[ch]>> : i \in DOMAIN t, ch \in Chans}
                  \ {<<t[i].id, ch, -1>> : i \in DOMAIN t, ch \in Chans}
show_lr3377_tdc(t) == show_fera(t)

Power(n, base) == CHOOSE k \in 0 .. n : base ^ k <= n /\ n < base ^ (k + 1)
show_lr3377_hit(t, i, ch) ==
    LET n == t[i].nhit[ch]
    IN  [wide |-> n >= 10,
         c    |-> IF n < 10 THEN n ELSE IF n < 16 THEN 0 ELSE Power(n \div 16, 2) + 1,
         lit  |-> IF n = 0 THEN FALSE ELSE IF n < 10 THEN t[i].data[ch] > 0 ELSE t[i].data[ch] >= 0]

show_pcos_hit(t) == {x \in {<<t[i].id, ch>> : i \in DOMAIN t, ch \in Chans} :
                       t[RowOf(t, x[1])].hit[x[2]] > 0}

\* check_flds starts an event with the init functions of all tables.
Tables0 == [inp |-> InpInit, fera |-> << >>, lr3377 |-> << >>, pcos |-> << >>]
InitTables(t) ==
    [inp |-> check_inpreg_init(t.inp), fera |-> check_fera_init(t.fera),
     lr3377 |-> check_lr3377_init(t.lr3377), pcos |-> check_pcos_init(t.pcos)]

\* What a region of a kind does to the tables; ws are the words behind its header.
Tabulate(t, kind, ws) ==
    CASE kind = "fera"   -> [t EXCEPT !.fera = check_fera(@, ws)]
      [] kind = "lr3377" -> [t EXCEPT !.lr3377 = check_lr3377(@, ws)]
      [] kind = "inpreg" -> [t EXCEPT !.inp = check_inpreg(@, ws)]
      [] kind = "pcos"   -> [t EXCEPT !.pcos = check_pcos(@, Tail(ws))]
      [] OTHER           -> t
=============================================================================
