------------------------------ MODULE TdcCheck ------------------------------
(***************************************************************************)
(* The programs that read the output buffer of one V1190 and look at its   *)
(* words: v1190_check_data, v1190_hit and v1190_dump, and the dump of the  *)
(* older library (v1190o).  The board puts whole events into its buffer    *)
(* and hands out fillers when the buffer is empty; a word of an event may  *)
(* get lost on the way.                                                    *)
(***************************************************************************)
EXTENDS Integers, Sequences, SequencesExt, FiniteSetsExt

CONSTANTS
    Tool,        \* "check", "hit", "dump", "dump_o"
    Loop,        \* v1190_check_data -l
    Heads,       \* the board writes headers and trailers of the TDC chips
    Geo,         \* the board's geo address
    NTdc,        \* TDC chips of the board
    MaxHits,     \* hits of a chip in an event
    MaxEvents,   \* events in a behaviour
    MaxLost,     \* words that get lost
    FirstEvent,  \* event count of the first event
    CountMod,    \* 2^22: the event count in a global header
    IdMod,       \* 2^12: the event id in a TDC header and trailer
    OutputSize,  \* words of the output buffer in the VME window
    MaxWords     \* MAX_DUMP_BUF; check_event writes beyond its buffer in longer events, and is
                 \* followed no further than that

VARIABLES
    out,     \* the output buffer
    made,    \* events the board has made
    hits,    \* hits the board has made
    lost,    \* words that got lost
    mode,    \* "wait", "top": in check_data or in the loop of main, "event": in check_event, "done"
    event_count, geometrical_address,
    ev,      \* the locals of check_event
    said,    \* complaints of the program
    geo, wire_hits,  \* v1190_hit
    read, shown      \* the dumps: ids of the words read and of the words shown

board == <<made, hits, lost>>
checker == <<event_count, geometrical_address, ev>>
counts == <<geo, wire_hits>>
dumped == <<read, shown>>
vars == <<out, board, mode, checker, said, counts, dumped>>

-----------------------------------------------------------------------------
(* The words of the board: external *)

Ids == {"GH", "TH", "TM", "TT", "TE", "ETTT", "GT", "FILLER"}
W(id, n, tdc, count) == [id |-> id, n |-> n, tdc |-> tdc, count |-> count, geo |-> Geo]
Filler == W("FILLER", 0, 0, 0)

Chip(t, n, h) ==
    LET tm == [i \in 1..h |-> W("TM", 0, 0, 0)]
    IN  IF Heads THEN <<W("TH", n % IdMod, t, 0)>> \o tm \o <<W("TT", n % IdMod, t, h + 2)>> ELSE tm

Event(n, h) ==
    LET chips == FlattenSeq([t \in 1..NTdc |-> Chip(t - 1, n, h[t])])
    IN  <<W("GH", n, 0, 0)>> \o chips \o <<W("ETTT", 0, 0, 0), W("GT", 0, 0, Len(chips) + 3)>>

MakeEvent ==
    /\ made < MaxEvents /\ mode # "done"
    /\ \E h \in [1..NTdc -> 0..MaxHits] :
          /\ out' = out \o Event((FirstEvent + made) % CountMod, h)
          /\ hits' = hits + MapThenSumSet(LAMBDA t : h[t], 1..NTdc)
    /\ made' = made + 1
    /\ UNCHANGED <<lost, mode, checker, said, counts, dumped>>

Lose ==
    /\ lost < MaxLost
    /\ \E i \in 1..Len(out) :
          /\ out' = RemoveAt(out, i)
          /\ hits' = IF out[i].id = "TM" THEN hits - 1 ELSE hits
    /\ lost' = lost + 1
    /\ UNCHANGED <<made, mode, checker, said, counts, dumped>>

\* The word a read of the output buffer gives, and what it leaves.
Word == IF out = <<>> THEN Filler ELSE Head(out)
Taken == IF out = <<>> THEN out ELSE Tail(out)

-----------------------------------------------------------------------------

NoEvent == [gh |-> 0, word_count |-> 0, tdc_word_count |-> 0, ntdc |-> 0, in_tdc_data |-> FALSE]

Init ==
    /\ out = <<>> /\ made = 0 /\ hits = 0 /\ lost = 0
    /\ mode = IF Tool = "check" /\ Loop THEN "wait" ELSE "top"
    /\ event_count = -1 /\ geometrical_address = -1 /\ ev = NoEvent
    /\ said = {}
    /\ geo = 0 /\ wire_hits = [g \in {0, Geo} |-> 0]
    /\ read = <<>> /\ shown = <<>>

\* main of v1190_check_data -l: data_ready
DataReady ==
    /\ Tool = "check" /\ mode = "wait" /\ out # <<>>
    /\ mode' = "top"
    /\ UNCHANGED <<out, board, checker, said, counts, dumped>>

\* A fault: words that belong to no event are passed over.
check_data_Skip ==
    /\ Tool = "check" /\ mode = "top"
    /\ out' = Taken
    /\ IF Word.id = "GH"
       THEN /\ event_count' = Word.n
            /\ geometrical_address' = Word.geo
            /\ ev' = [NoEvent EXCEPT !.gh = Word.n, !.word_count = 1]
            /\ mode' = "event"
       ELSE /\ mode' = IF Word.id # "FILLER" THEN "top" ELSE IF Loop THEN "wait" ELSE "done"
            /\ UNCHANGED checker
    /\ UNCHANGED <<said, board, counts, dumped>>
\* check_data, with the beginning of check_event: a global header opens an event.
check_data ==
    /\ Tool = "check" /\ mode = "top"
    /\ out' = Taken
    /\ IF Word.id = "GH"
       THEN /\ event_count' = Word.n
            /\ said' = said \cup (IF event_count >= 0 /\ event_count + 1 # Word.n THEN {"count"} ELSE {})
                            \cup (IF geometrical_address \notin {-1, Word.geo} THEN {"geo"} ELSE {})
            /\ geometrical_address' = Word.geo
            /\ ev' = [NoEvent EXCEPT !.gh = Word.n, !.word_count = 1]
            /\ mode' = "event"
       ELSE /\ said' = IF Word.id = "FILLER" THEN said ELSE said \cup {"no header"}
            /\ mode' = IF Word.id # "FILLER" THEN "top" ELSE IF Loop THEN "wait" ELSE "done"
            /\ UNCHANGED checker
    /\ UNCHANGED <<board, counts, dumped>>

\* What check_event says of a word.
Complaints(w) ==
    LET If(cond, what) == IF cond THEN {what} ELSE {}
    IN  CASE w.id = "GH" -> {"header in event"}
          [] w.id = "GT" -> If(ev.in_tdc_data, "no tdc trailer")
                            \cup If(w.geo # geometrical_address, "geo")
                            \cup If(w.count # ev.word_count + 1, "word count")
          [] w.id = "TH" -> If(ev.in_tdc_data, "tdc header") \cup If(w.tdc # ev.ntdc, "tdc")
                            \cup If(w.n # ev.gh % IdMod, "event id")
          [] w.id = "TM" -> If(ev.in_tdc_data, "measurement")
          [] w.id = "TT" -> If(~ev.in_tdc_data, "tdc trailer") \cup If(w.tdc # ev.ntdc, "tdc")
                            \cup If(w.n # ev.gh % IdMod, "event id")
                            \cup If(w.count # ev.word_count - ev.tdc_word_count + 1, "tdc word count")
          [] w.id = "FILLER" -> {"filler"}
          [] OTHER -> {}

\* check_event goes on until the global trailer; fillers do not end it.
check_event ==
    /\ Tool = "check" /\ mode = "event"
    /\ out' = Taken
    /\ said' = said \cup Complaints(Word)
    /\ ev' = [word_count |-> Min({ev.word_count + 1, MaxWords}),
              gh |-> ev.gh,
              tdc_word_count |-> IF Word.id = "TH" THEN ev.word_count ELSE ev.tdc_word_count,
              ntdc |-> IF Word.id = "TT" THEN ev.ntdc + 1 ELSE ev.ntdc,
              in_tdc_data |-> Word.id = "TH" \/ (ev.in_tdc_data /\ Word.id # "TT")]
    /\ mode' = IF Word.id = "GT" THEN "top" ELSE "event"
    /\ UNCHANGED <<board, event_count, geometrical_address, counts, dumped>>

\* v1190_hit: a hit belongs to the geo address of the last global header.
v1190_hit ==
    /\ Tool = "hit" /\ mode = "top"
    /\ out' = Taken
    /\ geo' = IF Word.id = "GH" THEN Word.geo ELSE geo
    /\ wire_hits' = IF Word.id = "TM" THEN [wire_hits EXCEPT ![geo] = @ + 1] ELSE wire_hits
    /\ mode' = IF Word.id = "FILLER" THEN "done" ELSE "top"
    /\ UNCHANGED <<board, checker, said, dumped>>

\* v1190_dump: the word is handed to v1190_dump_data, which shows a variable of its own that is
\* never set.
v1190_dump ==
    /\ Tool = "dump" /\ mode = "top" /\ Len(read) < OutputSize
    /\ out' = Taken
    /\ read' = Append(read, Word.id)
    /\ \E id \in Ids \cup {"?"} :
          /\ shown' = Append(shown, id)
          /\ mode' = IF id \in {"FILLER", "?"} THEN "done" ELSE "top"
    /\ UNCHANGED <<board, checker, said, counts>>

\* v1190_dump_data of v1190o: up to the size of the output buffer.
v1190_dump_o ==
    /\ Tool = "dump_o" /\ mode = "top"
    /\ IF Len(read) = OutputSize
       THEN mode' = "done" /\ UNCHANGED <<out, dumped>>
       ELSE /\ out' = Taken
            /\ read' = Append(read, Word.id)
            /\ shown' = Append(shown, Word.id)
            /\ mode' = IF Word.id = "FILLER" THEN "done" ELSE "top"
    /\ UNCHANGED <<board, checker, said, counts>>

Program == DataReady \/ check_data \/ check_event \/ v1190_hit \/ v1190_dump \/ v1190_dump_o
Next == MakeEvent \/ Lose \/ Program

Spec == Init /\ [][Next]_vars
-----------------------------------------------------------------------------

\* Complaints other than the one about measurements, which check_event makes of good data.
Real == said \ {"measurement"}

\* check_data and check_event do not complain of events that arrive as the board made them, but
\* for the measurements.
QuietIfGood == lost = 0 => Real = {}

\* A word that got lost anywhere in an event is noticed: once everything has been read the
\* checker has complained.
LossNoticed == lost > 0 /\ out = <<>> /\ mode \in {"wait", "done"} => Real # {}

\* v1190_hit counts each hit once, and for the board it came from.
HitsRight ==
    Tool = "hit" => wire_hits[Geo] + Cardinality({i \in 1..Len(out) : out[i].id = "TM"}) = hits

\* A dump shows the words of the board, in their order.
ShowsData == shown = read
=============================================================================
