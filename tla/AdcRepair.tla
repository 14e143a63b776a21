------------------------------ MODULE AdcRepair ------------------------------
(***************************************************************************)
(* madc32_check_data and mqdc32_check_data of vmedaq: the words of an ADC  *)
(* FIFO are copied to a block one by one, and events whose header or whose *)
(* end-of-event word the module has lost are repaired on the way.  The     *)
(* same function with another treatment of a lost end of event is in the   *)
(* copy of experiment E404.                                                *)
(***************************************************************************)
EXTENDS Integers, Sequences, SequencesExt, FiniteSets

CONSTANTS
    Variant,        \* "2020" or "e404"
    Mid,            \* module_id register of the module, as read at the start
    HeaderId,       \* module id in the headers the module writes
    MinData,        \* data words of an event
    MaxData,
    MaxEvents,      \* events in a block
    NBlocks,        \* blocks read one after the other
    LoseHeader,     \* events may have lost their header
    LoseEoe         \* "no", "last" event of a block only, "any"

VARIABLES
    fifo,       \* blocks of words still in the module
    events,     \* the events of the block being read, as they happened
    sent,       \* the block written last; for the properties: the events it is of, and whether
                \* its number was sure
    counters,   \* madc32_module_counters; -1 is the word in front of the array
    buffer, header_flag, no_header_flag, end_of_event_flag,
    header_pos, \* index of a generated header in buffer, 0 for none
    module_id, event_count,
    next        \* number the module gives to its next event

locals == <<buffer, header_flag, no_header_flag, end_of_event_flag, header_pos,
            module_id, event_count>>
vars == <<fifo, events, sent, counters, next, locals>>

-----------------------------------------------------------------------------
(* The module: external *)

Header(sub) == [t |-> "header", sub |-> sub, n |-> 0, c |-> 0]
Data(i, c)  == [t |-> "data", sub |-> "", n |-> i, c |-> c]
Eoe(c)      == [t |-> "eoe", sub |-> "", n |-> 0, c |-> c]

Event == [data : MinData .. MaxData,
          header : IF LoseHeader THEN BOOLEAN ELSE {TRUE},
          eoe : IF LoseEoe = "no" THEN {TRUE} ELSE BOOLEAN]

Happens(evs) == LoseEoe = "last" => \A i \in 1 .. Len(evs) - 1 : evs[i].eoe

Words(e, c) == (IF e.header THEN <<Header("")>> ELSE <<>>)
               \o [i \in 1 .. e.data |-> Data(i, c)]
               \o (IF e.eoe THEN <<Eoe(c)>> ELSE <<>>)

BlockWords(evs, first) == FlattenSeq([i \in DOMAIN evs |-> Words(evs[i], first + i - 1)])

\* A number of events is in the FIFO when the program looks.
Fill ==
    /\ fifo = <<>> /\ events = <<>> /\ next <= NBlocks * MaxEvents
    /\ \E n \in 1 .. MaxEvents : \E evs \in [1 .. n -> Event] :
        /\ Happens(evs) /\ BlockWords(evs, next) # <<>>
        /\ events' = [i \in 1 .. n |-> [ev |-> evs[i], c |-> next + i - 1]]
        /\ fifo' = BlockWords(evs, next)
        /\ next' = next + n
    /\ UNCHANGED <<sent, counters, locals>>

-----------------------------------------------------------------------------
(* The copy loop *)

Copied == Append(buffer, Head(fifo))

\* A header while an event is open: the 2020 version only closes its books.
LostEoe == header_flag /\ ~end_of_event_flag

check_data_header_2020 ==
    /\ buffer' = Copied
    /\ UNCHANGED counters

\* The E404 version puts an end of event in front of the new header, numbered
\* one above the last of the module, and marks the last generated header.
MarkLast(buf, p) == IF p # 0 THEN [buf EXCEPT ![p].sub = "no_eoe"] ELSE buf

check_data_header_e404 ==
    IF LostEoe
    THEN LET c == IF module_id >= 0 THEN counters[module_id] + 1 ELSE 0 IN
         /\ counters' = IF module_id >= 0 THEN [counters EXCEPT ![module_id] = c] ELSE counters
         /\ buffer' = MarkLast(buffer \o <<Eoe(c), Head(fifo)>>, header_pos)
    ELSE buffer' = Copied /\ UNCHANGED counters

ReadHeader ==
    /\ fifo # <<>> /\ Head(fifo).t = "header"
    /\ IF Variant = "2020" THEN check_data_header_2020 ELSE check_data_header_e404
    /\ module_id' = HeaderId
    /\ header_flag' = TRUE /\ end_of_event_flag' = FALSE
    /\ no_header_flag' = (IF LostEoe THEN FALSE ELSE no_header_flag)
    /\ fifo' = Tail(fifo)
    /\ UNCHANGED <<events, sent, next, header_pos, event_count>>

\* The first word of an event without header is stored twice: its first copy
\* becomes the header.
ReadData ==
    /\ fifo # <<>> /\ Head(fifo).t = "data"
    /\ IF ~header_flag /\ ~no_header_flag
       THEN /\ no_header_flag' = TRUE
            /\ header_pos' = Len(buffer) + 1
            /\ buffer' = Append(Copied, Head(fifo))
       ELSE buffer' = Copied /\ UNCHANGED <<no_header_flag, header_pos>>
    /\ fifo' = Tail(fifo)
    /\ UNCHANGED <<events, sent, next, counters, header_flag, end_of_event_flag, module_id, event_count>>

MadeHeader == [t |-> "header", sub |-> "no_header", n |-> Len(Copied) - header_pos, c |-> 0]

\* A fault: the counter of the event is not remembered.
Remember_Not(id) == counters' = counters

Remember(id) == counters' = [counters EXCEPT ![id] = Head(fifo).c]

\* The index is the module's own id when a header was seen, and module_id,
\* which is -1 then, when none was.
ReadEoe ==
    /\ fifo # <<>> /\ Head(fifo).t = "eoe"
    /\ event_count' = Head(fifo).c
    /\ module_id' = IF module_id >= 0 THEN Mid ELSE module_id
    /\ Remember(module_id')
    /\ buffer' = IF ~header_flag /\ no_header_flag
                 THEN [Copied EXCEPT ![header_pos] = MadeHeader] ELSE Copied
    /\ header_flag' = FALSE /\ no_header_flag' = FALSE /\ end_of_event_flag' = TRUE
    /\ fifo' = Tail(fifo)
    /\ UNCHANGED <<events, sent, next, header_pos>>

\* End of the block: an event still open gets an end of event.
Closed == IF LostEoe THEN MarkLast(Append(buffer, Eoe(counters[Mid] + 1)), header_pos)
                     ELSE buffer

\* The losses that the repair is meant for: no event lost both words; behind an event without
\* end comes one with its header; and but for E404 only the last event of a block has no end.
Repairable(evs) ==
    \A i \in DOMAIN evs :
        /\ evs[i].ev.header \/ evs[i].ev.eoe
        /\ evs[i].ev.eoe \/ i = Len(evs) \/ (Variant = "e404" /\ evs[i + 1].ev.header)

\* Besides, no end of event was read in front of the first header of a block: its number would
\* not be remembered.  This is about all blocks so far.
Sure == sent.sure /\ Repairable(events) /\ events[1].ev.header

\* A block in which no end of event was read is dropped.
EndBlock ==
    /\ fifo = <<>> /\ events # <<>>
    /\ counters' = IF LostEoe THEN [counters EXCEPT ![Mid] = @ + 1] ELSE counters
    /\ sent' = [words |-> IF event_count < 0 THEN <<>> ELSE Closed, of |-> events, sure |-> Sure]
    /\ events' = <<>>
    /\ buffer' = <<>> /\ header_flag' = FALSE /\ no_header_flag' = FALSE
    /\ end_of_event_flag' = FALSE /\ header_pos' = 0 /\ module_id' = -1 /\ event_count' = -1
    /\ UNCHANGED <<fifo, next>>

Init ==
    /\ fifo = <<>> /\ events = <<>> /\ sent = [words |-> <<>>, of |-> <<>>, sure |-> TRUE]
    /\ counters = [i \in {-1, Mid, HeaderId} |-> 0] /\ next = 1
    /\ buffer = <<>> /\ header_flag = FALSE /\ no_header_flag = FALSE
    /\ end_of_event_flag = FALSE /\ header_pos = 0 /\ module_id = -1 /\ event_count = -1

Next == Fill \/ ReadHeader \/ ReadData \/ ReadEoe \/ EndBlock

Spec == Init /\ [][Next]_vars

-----------------------------------------------------------------------------
(* Properties *)

\* Types; header_pos points into the block being built, and the two header flags
\* are not set together when an event ends.
TypeOK ==
    /\ header_pos \in 0 .. Len(buffer)
    /\ {header_flag, no_header_flag, end_of_event_flag} \subseteq BOOLEAN
    /\ module_id \in {-1, Mid, HeaderId} /\ event_count \in Nat \cup {-1}
    /\ counters \in [{-1, Mid, HeaderId} -> Nat]
    /\ end_of_event_flag => ~header_flag

\* The events of a block, cut behind each end of event.
Ends == {i \in DOMAIN sent.words : sent.words[i].t = "eoe"}
Start(i) == LET before == {j \in Ends : j < i}
            IN  IF before = {} THEN 1 ELSE (CHOOSE j \in before : \A l \in before : l <= j) + 1
Cut(i) == SubSeq(sent.words, Start(i), i)

IsEvent(w) ==
    /\ w[1].t = "header" /\ Last(w).t = "eoe"
    /\ \A i \in 2 .. Len(w) - 1 : w[i].t = "data"

\* A block that is sent is a sequence of events, each with a header in front and an end of
\* event behind, if its losses were Repairable.
WellFormed ==
    Repairable(sent.of) =>
        /\ sent.words # <<>> => Last(sent.words).t = "eoe"
        /\ \A i \in Ends : IsEvent(Cut(i))

\* A generated header counts the words behind it, like one of the module.
HeaderCounts ==
    Repairable(sent.of) =>
        \A i \in Ends : LET w == Cut(i) IN w[1].sub # "" => w[1].n = Len(w) - 1

\* The data words of a block that is sent are the ones of its events, none lost
\* and none twice.
DataOf(c) == SelectSeq(sent.words, LAMBDA w : w.t = "data" /\ w.c = c)
DataKept ==
    Repairable(sent.of) /\ sent.words # <<>> =>
        \A i \in DOMAIN sent.of :
            DataOf(sent.of[i].c) = [j \in 1 .. sent.of[i].ev.data |-> Data(j, sent.of[i].c)]

\* Every end of event, read or generated, carries the number of the event whose
\* data stand before it, as long as the losses were Sure.
RightNumber ==
    sent.sure =>
        \A i \in Ends : \A j \in Start(i) .. i :
            sent.words[j].t = "data" => sent.words[j].c = sent.words[i].c

\* The counter written at an end of event is the one of the module, and not the word in front
\* of the counters, unless the first event of the block lost its header.
InBounds == module_id = -1 /\ event_count # -1 => ~events[1].ev.header
=============================================================================
