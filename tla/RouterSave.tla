----------------------------- MODULE RouterSave -----------------------------
(***************************************************************************)
(* From a file through a router into files: router_write reads its input   *)
(* and gives blocks to the router, router_save or router_fread takes them  *)
(* from there and writes them.  The router (Router) is a queue here.       *)
(*                                                                         *)
(* A unit of data is <<kind of its block, number of its block, place in    *)
(* it>>.                                                                   *)
(***************************************************************************)
EXTENDS Integers, Sequences, SequencesExt, FiniteSetsExt

CONSTANTS
    Program,       \* "router_save" or "router_fread"
    Vflag, Cflag, Sflag,  \* options -v, -c and -s of router_save; router_fread has none
    BSize,         \* block size of the files
    WSize,         \* block size of router_write
    MAXSIZE,       \* size of a file at which the next one is begun
    Buffer,        \* size of the buffer of a file (setvbuf)
    IntMax,        \* largest int
    DiskSize,      \* units that fit on the disk
    MaxQue,        \* blocks the router keeps for a reader
    Blocks,        \* the input: kinds and sizes of the blocks
    Events         \* what may happen, of EventKinds

EventKinds == {"refuse", "no file", "read error", "router ends", "signal", "kill"}

VARIABLES
    rd, wst, fill,       \* router_write: units read, place, the buffer it fills
    que,                 \* blocks for the recorder in the router
    rpc, cur,            \* the recorder: place and block in hand
    files, sbuf,         \* files on the disk, the buffer of the last one
    fcount,              \* count: bytes in a file
    blk_cnt, run_size,   \* static counts of check_buf
    taken, freed         \* history: blocks taken, and how many were given back

writerVars == <<rd, wst, fill>>
fileVars == <<files, sbuf>>
saveVars == <<writerVars, que, rpc, cur, fileVars, fcount, blk_cnt, run_size, taken, freed>>

Zero == <<"zero", 0, 0>>

Unit(b, i) == <<Blocks[b][1], b, i>>

Input == FlattenSeq([b \in DOMAIN Blocks |-> [i \in 1 .. Blocks[b][2] |-> Unit(b, i)]])

SaveInit ==
    /\ rd = 0 /\ wst = "fill" /\ fill = <<>> /\ que = <<>>
    /\ rpc = "connect" /\ cur = <<>> /\ files = <<>> /\ sbuf = <<>>
    /\ fcount = 0 /\ blk_cnt = 0 /\ run_size = 0 /\ taken = <<>> /\ freed = 0

-----------------------------------------------------------------------------
(* router_write *)

\* One read of the input.  At its end read returns 0 for ever, and the loop goes round.
ReadInput ==
    /\ wst = "fill" /\ Len(fill) < WSize /\ rd < Len(Input)
    /\ \/ \E k \in 1 .. WSize - Len(fill) :
            /\ rd + k <= Len(Input)
            /\ fill' = fill \o SubSeq(Input, rd + 1, rd + k) /\ rd' = rd + k
            /\ UNCHANGED wst
       \/ "read error" \in Events /\ wst' = "last" /\ UNCHANGED <<rd, fill>>
    /\ UNCHANGED <<que, rpc, cur, fileVars, fcount, blk_cnt, run_size, taken, freed>>

Connected == rpc \notin {"connect", "end", "killed", "crashed"}

\* O_SAMPLE, with which router_fread always connects and router_save does with -s.
Samples == Program = "router_fread" \/ Sflag

\* router_release_buf.  The router passes a block on to a reader that is connected; for one
\* that samples it does not wait.
WriteBlock ==
    /\ (wst = "fill" /\ Len(fill) = WSize) \/ wst = "last"
    /\ Connected /\ ~Samples => Len(que) < MaxQue
    /\ que' = IF Connected /\ Len(que) < MaxQue THEN Append(que, fill) ELSE que
    /\ fill' = <<>> /\ wst' = IF wst = "last" THEN "off" ELSE wst
    /\ UNCHANGED <<rd, rpc, cur, fileVars, fcount, blk_cnt, run_size, taken, freed>>

-----------------------------------------------------------------------------
(* Writing *)

Stored == FlattenSeq(files)
Room == DiskSize - Len(Stored)

\* write(2): what the disk has room for.
ToDisk(s) ==
    files' = [files EXCEPT ![Len(files)] = @ \o SubSeq(s, 1, IF Len(s) <= Room THEN Len(s) ELSE Room)]

\* fwrite: the library writes part of its buffer when it likes, and what does not fit into it.
\* It never returns less than 0, so a full disk is not noticed.
FWrite(s) ==
    \E n \in 0 .. Len(sbuf \o s) :
        /\ Len(sbuf \o s) - n <= Buffer
        /\ ToDisk(SubSeq(sbuf \o s, 1, n))
        /\ sbuf' = SubSeq(sbuf \o s, n + 1, Len(sbuf \o s))

FFlush == ToDisk(sbuf) /\ sbuf' = <<>>

-----------------------------------------------------------------------------
(* The recorder *)

GoTo(l) == rpc' = l

\* The end before a file is open: cleanup of router_save closes a file it does not have, and
\* crashes.
NoFile == IF Program = "router_save" THEN "crashed" ELSE "end"

Connect ==
    /\ rpc = "connect"
    /\ \/ GoTo("open")
       \/ "refuse" \in Events /\ GoTo(NoFile)
    /\ UNCHANGED <<writerVars, que, cur, fileVars, fcount, blk_cnt, run_size, taken, freed>>

Open ==
    /\ rpc = "open"
    /\ \/ GoTo("get") /\ files' = <<<<>>>>
       \/ "no file" \in Events /\ GoTo(NoFile) /\ UNCHANGED files
    /\ UNCHANGED <<writerVars, que, cur, sbuf, fcount, blk_cnt, run_size, taken, freed>>

\* "Block size is too big. Reduced."
Reduced(b) == IF ~Vflag /\ Len(b) > BSize THEN SubSeq(b, 1, BSize) ELSE b

GetBuf ==
    /\ rpc = "get" /\ que # <<>>
    /\ cur' = Reduced(Head(que)) /\ que' = Tail(que) /\ taken' = Append(taken, Head(que))
    /\ GoTo("write")
    /\ UNCHANGED <<writerVars, fileVars, fcount, blk_cnt, run_size, freed>>

Padding == [i \in 1 .. BSize - Len(cur) |-> Zero]

\* The block, and in files of fixed block size the zeros behind it.
SaveWrite(s, next) == FWrite(s) /\ GoTo(next)

\* The same in router_fread, which notices that nothing can be written.
FreadWrite(s, next) ==
    /\ ToDisk(s) /\ UNCHANGED sbuf
    /\ GoTo(IF Room = 0 /\ s # <<>> THEN "end" ELSE next)

Write ==
    /\ rpc \in {"write", "pad"}
    /\ LET s    == IF rpc = "write" THEN cur ELSE Padding
           next == IF rpc = "write" /\ ~Vflag /\ Len(cur) < BSize THEN "pad" ELSE "count"
       IN \/ Program = "router_save" /\ SaveWrite(s, next)
          \/ Program = "router_fread" /\ FreadWrite(s, next)
    /\ UNCHANGED <<writerVars, que, cur, fcount, blk_cnt, run_size, taken, freed>>

\* assign_j11: the kind of a block is in its first words.
assign_j11(b) == IF b # <<>> /\ Head(b)[3] = 1 THEN Head(b)[1] ELSE "unknown"

\* An int.
Wrap(n) == ((n + IntMax + 1) % (2 * (IntMax + 1))) - (IntMax + 1)

\* What check_buf is told of a block: router_fread counts data, router_save what is recorded.
RSize(b) == IF Program = "router_save" /\ ~Vflag THEN BSize ELSE Len(b)

check_buf ==
    LET start == assign_j11(cur) = "start" IN
    /\ blk_cnt' = IF start THEN 1 ELSE blk_cnt + 1
    /\ run_size' = Wrap((IF start THEN 0 ELSE run_size) + RSize(cur))

\* A fault: the block stays in the buffer of the file.
Count_NoFlush ==
    /\ rpc = "count"
    /\ UNCHANGED fileVars
    /\ fcount' = fcount + (IF Vflag THEN Len(cur) ELSE BSize)
    /\ check_buf
    /\ GoTo("release")
    /\ UNCHANGED <<writerVars, que, cur, taken, freed>>

\* After a block: fflush, count and check_buf.
Count ==
    /\ rpc = "count"
    /\ IF Program = "router_save" THEN FFlush ELSE UNCHANGED fileVars
    /\ fcount' = fcount + (IF Vflag THEN Len(cur) ELSE BSize)
    /\ check_buf
    /\ GoTo("release")
    /\ UNCHANGED <<writerVars, que, cur, taken, freed>>

\* router_release_buf and, with -c, the next file.
Release ==
    /\ rpc = "release" /\ freed' = freed + 1
    /\ IF Cflag /\ fcount >= MAXSIZE
       THEN /\ fcount' = 0
            /\ \/ files' = Append(files, <<>>) /\ GoTo("get")
               \/ "no file" \in Events /\ GoTo("crashed") /\ UNCHANGED files
       ELSE GoTo("get") /\ UNCHANGED <<files, fcount>>
    /\ UNCHANGED <<writerVars, que, cur, sbuf, blk_cnt, run_size, taken>>

\* quit on a signal, or cleanup when the router is gone: the file is closed.
Quit ==
    /\ \/ "signal" \in Events /\ Connected
       \/ "router ends" \in Events /\ rpc \in {"get", "release"}
    /\ IF files = <<>> THEN GoTo(NoFile) /\ UNCHANGED fileVars ELSE FFlush /\ GoTo("end")
    /\ UNCHANGED <<writerVars, que, cur, fcount, blk_cnt, run_size, taken, freed>>

Kill ==
    /\ "kill" \in Events /\ Connected
    /\ GoTo("killed") /\ sbuf' = <<>>
    /\ UNCHANGED <<writerVars, que, cur, files, fcount, blk_cnt, run_size, taken, freed>>

SaveNext ==
    \/ ReadInput \/ WriteBlock
    \/ Connect \/ Open \/ GetBuf \/ Write \/ Count \/ Release \/ Quit \/ Kill

SaveSpec == SaveInit /\ [][SaveNext]_saveVars

-----------------------------------------------------------------------------
(* Properties *)

Frame(b) ==
    IF Vflag THEN b
    ELSE [i \in 1 .. BSize |-> IF i <= Len(b) THEN b[i] ELSE Zero]
Frames(bs) == FlattenSeq([i \in DOMAIN bs |-> Frame(bs[i])])

\* Every variable has its type; the buffer of a file is not overfull.
SaveTypeOK ==
    /\ rd \in 0 .. Len(Input) /\ wst \in {"fill", "last", "off"} /\ Len(fill) <= WSize
    /\ Len(que) <= MaxQue /\ Len(sbuf) <= Buffer /\ Room >= 0
    /\ rpc \in {"connect", "open", "get", "write", "pad", "count", "release", "end", "killed", "crashed"}
    /\ run_size \in -(IntMax + 1) .. IntMax /\ freed \in 0 .. Len(taken)

\* router_save, router_fread: the files are the blocks that were taken, one behind the other,
\* cut or filled to the block size, and nothing else; they end where the program or the disk did.
Recorded ==
    /\ IsPrefix(Stored, Frames(taken))
    /\ Room > 0 => IsPrefix(Stored \o sbuf, Frames(taken))

\* As long as the disk is not full, a block that was given back to the router is on it, also
\* when the program is killed: fflush comes before router_release_buf.
OnDisk == Room > 0 => Len(Stored) >= Len(Frames(SubSeq(taken, 1, freed)))

\* router_save -c: a file ends behind the block that brings it to MAXSIZE.
CutAtBlocks ==
    \A f \in 1 .. Len(files) - 1 : Room > 0 =>
        /\ Len(files[f]) >= MAXSIZE
        /\ \E n \in DOMAIN taken :
              /\ FlattenSeq(SubSeq(files, 1, f)) = Frames(SubSeq(taken, 1, n))
              /\ Len(files[f]) - Len(Frame(taken[n])) < MAXSIZE

\* The blocks of the run at hand: from the last start block on, or all.
OfRun ==
    LET starts == {n \in DOMAIN taken : assign_j11(taken[n]) = "start"}
    IN IF starts = {} THEN taken
       ELSE SubSeq(taken, Max(starts), Len(taken))

\* check_buf: "Bytes (Blocks) Recorded" are those of the run, as long as an int holds them.
RunCounted ==
    rpc = "release" =>
        LET total == FoldSeq(+, 0, [n \in DOMAIN OfRun |-> RSize(Reduced(OfRun[n]))])
        IN blk_cnt = Len(OfRun) /\ (total <= IntMax => run_size = total)
=============================================================================
