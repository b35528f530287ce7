------------------------------- MODULE Cache -------------------------------
(***************************************************************************)
(* The stream cache of stream/cache2.c: the player (the reader) and a      *)
(* forked child (the filler) share a ring buffer and the fields of         *)
(* cache_vars_t, without a lock.  Every load or store of a shared field    *)
(* that the other process can observe is a step of its own; 64-bit loads   *)
(* and stores are taken to be atomic and sequentially consistent.          *)
(*                                                                         *)
(* A byte of the file is represented by its position in the file.          *)
(***************************************************************************)
EXTENDS Integers, Sequences

CONSTANTS
    SectorSize,     \* sector_size
    BufferSize,     \* buffer_size, a multiple of sector_size
    FillLimit,      \* fill_limit (8 sectors)
    SeekOption,     \* the seek_limit argument of stream_enable_cache
    MinOption,      \* the min argument of stream_enable_cache
    ReadChunk,      \* stream->read_chunk, 0 for the default
    FileLen,        \* length of the file behind the stream
    Seekable,       \* FALSE for a STREAMTYPE_STREAM, which never seeks
    SeekTargets,    \* positions the player seeks to
    SeekCmds,       \* controls that move the stream (needs_flush)
    GetCmds,        \* controls that only answer
    MaxMoves,       \* bound on seeks, controls and interruptions
    MaxFailures     \* bound on reads and seeks of the stream that fail

ASSUME SizeAssumption ==
    /\ SectorSize \in Nat \ {0} /\ BufferSize \in Nat /\ FillLimit \in Nat
    /\ SectorSize <= FillLimit /\ 2 * FillLimit <= BufferSize
ASSUME OptionAssumption ==
    /\ SeekOption \in Nat /\ MinOption \in Int /\ ReadChunk \in Nat
    /\ FileLen \in Nat /\ Seekable \in BOOLEAN /\ MaxMoves \in Nat /\ MaxFailures \in Nat
    /\ SeekTargets \subseteq Nat
ASSUME CommandAssumption ==
    SeekCmds \cap GetCmds = {} /\ {"none", "boot"} \cap (SeekCmds \cup GetCmds) = {}

VARIABLES
    \* cache_vars_t, in memory shared by the two processes
    buffer, eof, min_filepos, max_filepos, offset, read_filepos,
    control, control_res, control_arg,
    \* the player: its stream_t (pos, eof, buffer, buf_pos) and its locals
    rpc, spos, seof, sbuf, buf_pos, goal, size, rpos, newb, cmd,
    \* the cache process: its copy of the stream_t (pos, eof) and its locals
    fpc, ppos, peof, read, wpos, space, len, back_to, obeyed,
    \* how far the source is from where the cache process takes it to be
    skew,
    moves, failures \* how often the environment moved, and the source failed

shared   == <<buffer, eof, min_filepos, max_filepos, offset, read_filepos>>
window   == <<min_filepos, max_filepos, offset>>
controls == <<control, control_res, control_arg>>
reader   == <<rpc, spos, seof, sbuf, buf_pos, goal, size, rpos, newb, cmd>>
filler   == <<fpc, ppos, peof, read, wpos, space, len, back_to, obeyed>>
source   == <<skew, failures>>
vars     == <<shared, controls, reader, filler, source, moves>>

Cells     == 0 .. BufferSize - 1
BackSize  == BufferSize \div 2
Torn      == -1        \* what a cell shows while it is being overwritten
NoGoal    == -1
Commands  == SeekCmds \cup GetCmds

Lesser(a, b)  == IF a < b THEN a ELSE b
Greater(a, b) == IF a > b THEN a ELSE b

\* stream_enable_cache never waits for, or seeks within, more than is filled
SeekLimit == Lesser(SeekOption, BufferSize - FillLimit)
Prefill   == Greater(1, Lesser(MinOption, BufferSize - FillLimit))
ReadLimit == IF ReadChunk = 0 THEN 4 * SectorSize ELSE ReadChunk

\* cells the filler is writing to: read() may store into any of them
WriteCells ==
    IF fpc = "reading"
    THEN {c \in Cells : \/ c >= wpos /\ c < wpos + space
                        \/ c < wpos + space - BufferSize}
    ELSE {}

\* cells the reader is copying from
CopyCells ==
    IF rpc = "copy" THEN {c \in Cells : c >= rpos /\ c < rpos + newb} ELSE {}

View(c) == IF c \in Cells \ WriteCells THEN buffer[c] ELSE Torn

Init ==
    /\ buffer = [c \in Cells |-> Torn]
    /\ eof = 0 /\ min_filepos = 0 /\ max_filepos = 0 /\ offset = 0
    /\ read_filepos = 0
    /\ control = "boot" /\ control_res = "unsupported" /\ control_arg = "none"
    /\ rpc = "prefill" /\ spos = 0 /\ seof = 0 /\ sbuf = <<>> /\ buf_pos = 0
    /\ goal = NoGoal /\ size = 0 /\ rpos = 0 /\ newb = 0 /\ cmd = "none"
    /\ fpc = "sample" /\ ppos = 0 /\ peof = 0 /\ read = 0 /\ wpos = 0
    /\ space = 0 /\ len = 0 /\ back_to = "none" /\ obeyed = "none"
    /\ skew = 0 /\ moves = 0 /\ failures = 0

-----------------------------------------------------------------------------
(* The player: stream_enable_cache, cache_stream_fill_buffer and cache_read *)

\* The wait of stream_enable_cache: enough is in the buffer, or the end is.
Prefilled ==
    /\ rpc = "prefill"
    /\ \/ read_filepos >= min_filepos /\ max_filepos - read_filepos >= Prefill
       \/ eof = 1
    /\ rpc' = "idle"
    /\ UNCHANGED <<shared, controls, filler, moves, source, spos, seof, sbuf, buf_pos,
                   goal, size, rpos, newb, cmd>>

\* The user interrupts the wait, or closes the stream: the child is killed.
Uninit ==
    /\ rpc \in {"prefill", "idle"} /\ moves < MaxMoves
    /\ moves' = moves + 1
    /\ rpc' = "closed" /\ fpc' = "killed"
    /\ UNCHANGED <<shared, controls, spos, seof, sbuf, buf_pos, goal, size, rpos,
                   newb, cmd, ppos, peof, read, wpos, space, len, back_to, obeyed, source>>

\* cache_stream_fill_buffer asks cache_read for one sector.
FillBuffer ==
    /\ rpc = "idle"
    /\ rpc' = "check" /\ size' = SectorSize /\ sbuf' = <<>> /\ goal' = NoGoal
    /\ buf_pos' = 0
    /\ UNCHANGED <<shared, controls, filler, moves, source, spos, seof, rpos, newb, cmd>>

Complete ==
    /\ rpc = "check" /\ size = 0
    /\ rpc' = "done"
    /\ UNCHANGED <<shared, controls, filler, moves, source, spos, seof, sbuf, buf_pos,
                   goal, size, rpos, newb, cmd>>

\* The window is tested one end after the other.
Check ==
    /\ rpc = "check" /\ size > 0
    /\ rpc' = IF read_filepos >= max_filepos THEN "outside" ELSE "lower"
    /\ UNCHANGED <<shared, controls, filler, moves, source, spos, seof, sbuf, buf_pos,
                   goal, size, rpos, newb, cmd>>

CheckLower ==
    /\ rpc = "lower"
    /\ rpc' = IF read_filepos < min_filepos THEN "outside" ELSE "newb"
    /\ UNCHANGED <<shared, controls, filler, moves, source, spos, seof, sbuf, buf_pos,
                   goal, size, rpos, newb, cmd>>

\* Nothing to copy: give up at the end of the stream, else wait and try again.
Outside ==
    /\ rpc = "outside"
    /\ rpc' = IF eof = 1 THEN "done" ELSE "check"
    /\ UNCHANGED <<shared, controls, filler, moves, source, spos, seof, sbuf, buf_pos,
                   goal, size, rpos, newb, cmd>>

\* stream_check_interrupt reports a key press while the reader waits.
ReadInterrupted ==
    /\ rpc = "outside" /\ eof = 0 /\ moves < MaxMoves
    /\ moves' = moves + 1
    /\ eof' = 1
    /\ rpc' = "done"
    /\ UNCHANGED <<buffer, window, read_filepos, controls, filler, spos, seof,
                   sbuf, buf_pos, goal, size, rpos, newb, cmd, source>>

\* Seeded error: all of the window is taken to be ahead of the reader.
NewBytesFromMin ==
    /\ rpc = "newb"
    /\ newb' = max_filepos - min_filepos
    /\ rpc' = "locate"
    /\ UNCHANGED <<shared, controls, filler, moves, source, spos, seof, sbuf, buf_pos,
                   goal, size, rpos, cmd>>

NewBytes ==
    /\ rpc = "newb"
    /\ newb' = max_filepos - read_filepos
    /\ rpc' = "locate"
    /\ UNCHANGED <<shared, controls, filler, moves, source, spos, seof, sbuf, buf_pos,
                   goal, size, rpos, cmd>>

\* pos = read_filepos - offset, brought back into the buffer
Wrapped(p) == IF p < 0 THEN p + BufferSize
              ELSE IF p >= BufferSize THEN p - BufferSize ELSE p

Locate ==
    /\ rpc = "locate"
    /\ rpos' = Wrapped(read_filepos - offset)
    /\ newb' = Lesser(Lesser(newb, BufferSize - rpos'), size)
    /\ rpc' = "copy"
    /\ UNCHANGED <<shared, controls, filler, moves, source, spos, seof, sbuf, buf_pos,
                   goal, size, cmd>>

Copy ==
    /\ rpc = "copy" /\ newb >= 0
    /\ sbuf' = sbuf \o [i \in 1 .. newb |-> View(rpos + i - 1)]
    /\ rpc' = "advance"
    /\ UNCHANGED <<shared, controls, filler, moves, source, spos, seof, buf_pos, goal,
                   size, rpos, newb, cmd>>

\* A negative length is a huge size_t to memcpy: the player dies.
Crash ==
    /\ rpc = "copy" /\ newb < 0
    /\ rpc' = "crashed"
    /\ UNCHANGED <<shared, controls, filler, moves, source, spos, seof, sbuf, buf_pos,
                   goal, size, rpos, newb, cmd>>

Advance ==
    /\ rpc = "advance"
    /\ read_filepos' = read_filepos + newb
    /\ size' = size - newb
    /\ newb' = 0 /\ rpos' = 0
    /\ rpc' = "check"
    /\ UNCHANGED <<buffer, eof, window, controls, filler, moves, source, spos, seof, sbuf,
                   buf_pos, goal, cmd>>

\* Seeded error: the stream position advances by a sector, whatever was read.
DoneWholeSector ==
    /\ rpc = "done"
    /\ spos' = spos + SectorSize
    /\ seof' = IF sbuf = <<>> THEN 1 ELSE 0
    /\ buf_pos' = IF goal <= Len(sbuf) /\ goal # NoGoal THEN goal ELSE 0
    /\ goal' = NoGoal /\ size' = 0
    /\ rpc' = "idle"
    /\ UNCHANGED <<shared, controls, filler, moves, source, sbuf, rpos, newb, cmd>>

\* The end of cache_stream_fill_buffer and, after a seek, of
\* cache_stream_seek_long: the position inside the sector that was asked for.
Done ==
    /\ rpc = "done"
    /\ spos' = spos + Len(sbuf)
    /\ seof' = IF sbuf = <<>> THEN 1 ELSE 0
    /\ buf_pos' = IF goal <= Len(sbuf) /\ goal # NoGoal THEN goal ELSE 0
    /\ goal' = NoGoal /\ size' = 0
    /\ rpc' = "idle"
    /\ UNCHANGED <<shared, controls, filler, moves, source, sbuf, rpos, newb, cmd>>

-----------------------------------------------------------------------------
(* The player: seeking *)

InSector(p) == p < spos /\ p >= spos - Len(sbuf)

\* stream_seek, when the target is not in the sector at hand: the two stores
\* of cache_stream_seek_long before it fills the stream buffer.
SeekPos(p) ==
    /\ rpc = "idle" /\ moves < MaxMoves
    /\ ~InSector(p) /\ ~(sbuf = <<>> /\ spos = p)
    /\ moves' = moves + 1
    /\ LET newpos == p - (p % SectorSize) IN
         spos' = newpos /\ read_filepos' = newpos /\ goal' = p - newpos
    /\ rpc' = "seekeof"
    /\ UNCHANGED <<buffer, eof, window, controls, filler, seof, sbuf, buf_pos,
                   size, rpos, newb, cmd, source>>

SeekEof ==
    /\ rpc = "seekeof"
    /\ eof' = 0
    /\ rpc' = "check" /\ size' = SectorSize /\ sbuf' = <<>> /\ buf_pos' = 0
    /\ UNCHANGED <<buffer, window, read_filepos, controls, filler, moves, source, spos,
                   seof, goal, rpos, newb, cmd>>

-----------------------------------------------------------------------------
(* The player: cache_do_control *)

DoControl(c) ==
    /\ rpc = "idle" /\ moves < MaxMoves
    /\ moves' = moves + 1
    /\ control_arg' = c /\ control' = c /\ cmd' = c
    /\ rpc' = "wait"
    /\ UNCHANGED <<shared, control_res, filler, spos, seof, sbuf, buf_pos, goal,
                   size, rpos, newb, source>>

\* Seeded error: the stream position stays where it was before the control.
ControlDoneStaysPut ==
    /\ rpc = "wait" /\ control = "none"
    /\ rpc' = "idle" /\ cmd' = "none"
    /\ UNCHANGED <<shared, controls, filler, moves, source, spos, seof, sbuf, buf_pos,
                   goal, size, rpos, newb>>

ControlDone ==
    /\ rpc = "wait" /\ control = "none"
    /\ rpc' = "idle" /\ cmd' = "none"
    /\ IF control_res = "ok" /\ cmd \in SeekCmds
       THEN spos' = read_filepos /\ seof' = eof
       ELSE UNCHANGED <<spos, seof>>
    /\ UNCHANGED <<shared, controls, filler, moves, source, sbuf, buf_pos, goal, size,
                   rpos, newb>>

\* The user interrupts the wait: the command stays posted.
ControlInterrupted ==
    /\ rpc = "wait" /\ control # "none" /\ moves < MaxMoves
    /\ moves' = moves + 1
    /\ eof' = 1
    /\ rpc' = "idle" /\ cmd' = "none"
    /\ UNCHANGED <<buffer, window, read_filepos, controls, filler, spos, seof,
                   sbuf, buf_pos, goal, size, rpos, newb, source>>

-----------------------------------------------------------------------------
(* The cache process: cache_fill *)

\* read = s->read_filepos, and is it so far out of the window that its
\* contents are dropped?
Sample ==
    /\ fpc = "sample"
    /\ read' = read_filepos
    /\ fpc' = IF \/ read' < min_filepos
                 \/ read' > max_filepos /\ read' >= max_filepos + SeekLimit
              THEN "flush" ELSE "space"
    /\ back_to' = IF fpc' = "flush" THEN "seek" ELSE "none"
    /\ UNCHANGED <<shared, controls, reader, moves, source, ppos, peof, wpos, space, len, obeyed>>

\* cache_flush: load read_filepos, then store max, min and offset.
FlushLoad ==
    /\ fpc = "flush"
    /\ len' = read_filepos
    /\ fpc' = "flushmax"
    /\ UNCHANGED <<shared, controls, reader, moves, source, ppos, peof, read, wpos, space,
                   back_to, obeyed>>

FlushMax ==
    /\ fpc = "flushmax"
    /\ max_filepos' = len
    /\ fpc' = "flushmin"
    /\ UNCHANGED <<buffer, eof, min_filepos, offset, read_filepos, controls,
                   reader, moves, source, ppos, peof, read, wpos, space, len, back_to, obeyed>>

FlushMin ==
    /\ fpc = "flushmin"
    /\ min_filepos' = len
    /\ fpc' = "flushoffset"
    /\ UNCHANGED <<buffer, eof, max_filepos, offset, read_filepos, controls,
                   reader, moves, source, ppos, peof, read, wpos, space, len, back_to, obeyed>>

FlushOffset ==
    /\ fpc = "flushoffset"
    /\ offset' = len
    /\ len' = 0
    /\ fpc' = back_to /\ back_to' = "none"
    /\ UNCHANGED <<buffer, eof, min_filepos, max_filepos, read_filepos, controls,
                   reader, moves, source, ppos, peof, read, wpos, space, obeyed>>

\* stream_reset, then stream_seek_internal to the position sampled on entry, which
\* does nothing when the stream is there already, unless that is 0.  A
\* STREAMTYPE_STREAM does not move.
SeekNeeded == Seekable /\ (read = 0 \/ read # ppos)

StreamSeek ==
    /\ fpc = "seek"
    /\ ppos' = IF Seekable THEN read ELSE ppos
    /\ skew' = IF SeekNeeded THEN 0 ELSE skew
    /\ peof' = 0
    /\ fpc' = "space"
    /\ UNCHANGED <<shared, controls, reader, moves, failures, read, wpos, space, len,
                   back_to, obeyed>>

\* The seek fails: the source stays where it was, stream_t.pos has been set before
\* it was tried, and cache_fill does not look at the result.
StreamSeekFails ==
    /\ fpc = "seek" /\ SeekNeeded /\ failures < MaxFailures
    /\ failures' = failures + 1
    /\ ppos' = read /\ skew' = ppos + skew - read /\ peof' = 1
    /\ fpc' = "space"
    /\ UNCHANGED <<shared, controls, reader, moves, read, wpos, space, len, back_to,
                   obeyed>>

NewInBuffer  == Greater(0, max_filepos - read)
\* Seeded error: bytes already read keep more than half of the buffer.
BackUnlimited == Greater(0, read - min_filepos)

BackInBuffer == Lesser(Greater(0, read - min_filepos), BackSize)
\* Seeded error: only the bytes behind the reader are counted as used.
FreeSpaceOfBack == BufferSize - BackInBuffer

FreeSpace    == BufferSize - (NewInBuffer + BackInBuffer)
FillPos      == LET p == max_filepos - offset IN
                IF p >= BufferSize THEN p - BufferSize ELSE p

\* Up to the end of the buffer, or one sector across it (wraparound_copy).
FillSpace ==
    LET room == BufferSize - FillPos
        fit  == IF FreeSpace <= room THEN FreeSpace
                ELSE IF room >= SectorSize THEN room ELSE SectorSize
    IN Lesser(fit, ReadLimit)

NoFill ==
    /\ fpc = "space" /\ FreeSpace < FillLimit
    /\ fpc' = "control" /\ read' = 0
    /\ UNCHANGED <<shared, controls, reader, moves, source, ppos, peof, wpos, space, len,
                   back_to, obeyed>>

\* Seeded error: the bytes about to be overwritten stay in the window.
StartFillKeepsMin ==
    /\ fpc = "space" /\ FreeSpace >= FillLimit
    /\ wpos' = FillPos /\ space' = FillSpace
    /\ fpc' = "reading" /\ read' = 0
    /\ UNCHANGED <<shared, controls, reader, moves, source, ppos, peof, len, back_to, obeyed>>

\* min_filepos gives up the old bytes that the new ones will overwrite.
StartFill ==
    /\ fpc = "space" /\ FreeSpace >= FillLimit
    /\ wpos' = FillPos /\ space' = FillSpace
    /\ min_filepos' = Greater(min_filepos,
                              read - (BufferSize - (FillSpace + NewInBuffer)))
    /\ fpc' = "reading" /\ read' = 0
    /\ UNCHANGED <<buffer, eof, max_filepos, offset, read_filepos, controls,
                   reader, moves, source, ppos, peof, len, back_to, obeyed>>

\* What stream_read_internal stores: n bytes from where the source is.
Stored(n) ==
    buffer' = [c \in Cells |->
                 IF c >= wpos /\ c < wpos + n THEN ppos + skew + (c - wpos)
                 ELSE IF c < wpos + n - BufferSize
                      THEN ppos + skew + (c - wpos) + BufferSize ELSE buffer[c]]

\* It returns n bytes, or none at the end of the file; short reads happen.  A
\* read that failed and that was repeated with success is one that succeeded.
Land(n) ==
    /\ fpc = "reading"
    /\ IF ppos + skew < FileLen THEN n \in 1 .. Lesser(space, FileLen - (ppos + skew))
       ELSE n = 0
    /\ Stored(n)
    /\ ppos' = ppos + n /\ peof' = IF n = 0 THEN 1 ELSE 0
    /\ len' = n
    /\ fpc' = "eof"
    /\ UNCHANGED <<eof, window, read_filepos, controls, reader, moves, source, read, wpos,
                   space, back_to, obeyed>>

\* Anywhere in the file the read may fail, and fail again after stream_reconnect (or
\* fail once, when the read before it had): no bytes, as at the end of the file.
LandFails ==
    /\ fpc = "reading" /\ ppos + skew < FileLen /\ failures < MaxFailures
    /\ failures' = failures + 1
    /\ peof' = 1 /\ len' = 0
    /\ fpc' = "eof"
    /\ UNCHANGED <<shared, controls, reader, moves, skew, ppos, read, wpos, space,
                   back_to, obeyed>>

StoreEof ==
    /\ fpc = "eof"
    /\ eof' = IF len = 0 THEN 1 ELSE 0
    /\ fpc' = "max"
    /\ UNCHANGED <<buffer, window, read_filepos, controls, reader, moves, source, ppos,
                   peof, read, wpos, space, len, back_to, obeyed>>

StoreMax ==
    /\ fpc = "max"
    /\ max_filepos' = max_filepos + len
    /\ fpc' = "offset"
    /\ UNCHANGED <<buffer, eof, min_filepos, offset, read_filepos, controls,
                   reader, moves, source, ppos, peof, read, wpos, space, len, back_to, obeyed>>

StoreOffset ==
    /\ fpc = "offset"
    /\ offset' = IF wpos + len >= BufferSize THEN offset + BufferSize ELSE offset
    /\ wpos' = 0 /\ space' = 0 /\ len' = 0
    /\ fpc' = "control"
    /\ UNCHANGED <<buffer, eof, min_filepos, max_filepos, read_filepos, controls,
                   reader, moves, source, ppos, peof, read, back_to, obeyed>>

-----------------------------------------------------------------------------
(* The cache process: cache_execute_control *)

NoControl ==
    /\ fpc = "control" /\ control = "none"
    /\ fpc' = "sample"
    /\ UNCHANGED <<shared, controls, reader, moves, source, ppos, peof, read, wpos, space,
                   len, back_to, obeyed>>

\* The command is loaded; the stream's control function runs.
Obey ==
    /\ fpc = "control" /\ control # "none"
    /\ obeyed' = control
    /\ fpc' = "obey"
    /\ UNCHANGED <<shared, controls, reader, moves, source, ppos, peof, read, wpos, space,
                   len, back_to>>

\* The stream does not know the command: the default case, a failing call,
\* or a stream without a control function.
Refuse ==
    /\ fpc = "obey"
    /\ control_res' = "unsupported"
    /\ fpc' = "answered" /\ obeyed' = "none"
    /\ UNCHANGED <<shared, control, control_arg, reader, moves, source, ppos, peof, read,
                   wpos, space, len, back_to>>

Answer ==
    /\ fpc = "obey" /\ obeyed \in GetCmds
    /\ control_res' = "ok" /\ control_arg' = obeyed
    /\ fpc' = "answered" /\ obeyed' = "none"
    /\ UNCHANGED <<shared, control, reader, moves, source, ppos, peof, read, wpos, space,
                   len, back_to>>

\* A control that moved the stream; the reader's position follows it.
Move(p) ==
    /\ fpc = "obey" /\ obeyed \in SeekCmds
    /\ ppos' = p /\ peof' = 0 /\ skew' = 0
    /\ control_res' = "ok" /\ control_arg' = obeyed
    /\ fpc' = "moveread" /\ obeyed' = "none"
    /\ UNCHANGED <<shared, control, reader, moves, failures, read, wpos, space, len, back_to>>

MoveRead ==
    /\ fpc = "moveread"
    /\ read_filepos' = ppos
    /\ fpc' = "moveeof"
    /\ UNCHANGED <<buffer, eof, window, controls, reader, moves, source, ppos, peof, read,
                   wpos, space, len, back_to, obeyed>>

MoveEof ==
    /\ fpc = "moveeof"
    /\ eof' = peof
    /\ fpc' = "flush" /\ back_to' = "answered"
    /\ UNCHANGED <<buffer, window, read_filepos, controls, reader, moves, source, ppos,
                   peof, read, wpos, space, len, obeyed>>

\* Seeded error: the command is never marked as done.
AnsweredSilently ==
    /\ fpc = "answered"
    /\ fpc' = "sample"
    /\ UNCHANGED <<shared, controls, reader, moves, source, ppos, peof, read, wpos, space,
                   len, back_to, obeyed>>

Answered ==
    /\ fpc = "answered"
    /\ control' = "none"
    /\ fpc' = "sample"
    /\ UNCHANGED <<shared, control_res, control_arg, reader, moves, source, ppos, peof,
                   read, wpos, space, len, back_to, obeyed>>

-----------------------------------------------------------------------------

Terminated == rpc = "closed" /\ UNCHANGED vars

CacheRead == Complete \/ Check \/ CheckLower \/ Outside \/ NewBytes \/ Locate \/ Copy
             \/ Crash \/ Advance \/ Done

Flush == FlushLoad \/ FlushMax \/ FlushMin \/ FlushOffset

CacheFill == Sample \/ Flush \/ StreamSeek \/ NoFill \/ StartFill
             \/ (\E n \in 0 .. space : Land(n)) \/ LandFails
             \/ StoreEof \/ StoreMax \/ StoreOffset

ExecuteControl == NoControl \/ Obey \/ Refuse \/ Answer \/ (\E p \in SeekTargets : Move(p))
                  \/ MoveRead \/ MoveEof \/ Answered

\* What the cache process does for a player that posts no controls.
Filling == CacheFill \/ NoControl \/ Obey \/ Refuse \/ Answered

\* A player that only reads on, and may be interrupted while it waits.
SequentialNext ==
    \/ Prefilled \/ Uninit \/ FillBuffer \/ CacheRead \/ ReadInterrupted
    \/ Filling \/ Terminated

SkipAhead == \E p \in SeekTargets : p >= spos /\ SeekPos(p)

\* A player that reads and skips ahead, and may be interrupted while it waits.  When
\* its last call brought nothing it reads on, or gives up, but does not skip: one that
\* does meets the child as one that seeks back does, which SectorFaithful does not survive.
SkippingNext == SequentialNext \/ (seof = 0 /\ SkipAhead) \/ SeekEof

\* A player that reads and posts controls, and is never interrupted.
ControllingNext ==
    \/ Prefilled \/ Uninit \/ FillBuffer \/ CacheRead
    \/ (\E c \in Commands : DoControl(c)) \/ ControlDone
    \/ CacheFill \/ ExecuteControl \/ Terminated

Next ==
    \/ Prefilled \/ Uninit \/ FillBuffer \/ CacheRead \/ ReadInterrupted
    \/ (\E p \in SeekTargets : SeekPos(p)) \/ SeekEof
    \/ (\E c \in Commands : DoControl(c)) \/ ControlDone \/ ControlInterrupted
    \/ CacheFill \/ StreamSeekFails \/ ExecuteControl \/ Terminated

\* Both processes keep running, a read() of the stream returns, and the
\* player goes on reading.
Fairness ==
    /\ WF_vars(CacheRead \/ Prefilled \/ SeekEof \/ ControlDone)
    /\ WF_vars(CacheFill \/ ExecuteControl)
    /\ WF_vars(FillBuffer)

SequentialSpec  == Init /\ [][SequentialNext]_vars
SkippingSpec    == Init /\ [][SkippingNext]_vars
ControllingSpec == Init /\ [][ControllingNext]_vars
Spec            == Init /\ [][Next]_vars
FairSpec        == Spec /\ Fairness

-----------------------------------------------------------------------------
(* Properties *)

TypeOK ==
    /\ buffer \in [Cells -> Int] /\ eof \in {0, 1}
    /\ min_filepos \in Int /\ max_filepos \in Int /\ offset \in Int
    /\ read_filepos \in Int
    /\ control \in Commands \cup {"none", "boot"}
    /\ control_res \in {"ok", "unsupported"}
    /\ control_arg \in Commands \cup {"none"}
    /\ rpc \in {"prefill", "idle", "check", "lower", "outside", "newb", "locate", "copy",
                "advance", "done", "seekeof", "wait", "closed", "crashed"}
    /\ spos \in Int /\ seof \in {0, 1} /\ sbuf \in Seq(Int)
    /\ buf_pos \in Int /\ goal \in Int
    /\ size \in Int /\ rpos \in Int /\ newb \in Int
    /\ cmd \in Commands \cup {"none"}
    /\ fpc \in {"sample", "flush", "flushmax", "flushmin", "flushoffset", "seek",
                "space", "reading", "eof", "max", "offset", "control",
                "obey", "moveread", "moveeof", "answered", "killed"}
    /\ obeyed \in Commands \cup {"none", "boot"}
    /\ ppos \in Int /\ peof \in {0, 1} /\ read \in Int /\ wpos \in Int
    /\ space \in Int /\ len \in Int /\ back_to \in {"none", "seek", "answered"}
    /\ skew \in Int /\ moves \in Nat /\ failures \in Nat

\* cache_read hands out the bytes of the file that follow the stream position,
\* each once and in order, whatever the cache process does meanwhile.
SectorFaithful ==
    rpc \in {"check", "lower", "outside", "newb", "locate", "copy", "advance", "done"} =>
        \A i \in 1 .. Len(sbuf) : sbuf[i] = spos + i - 1

\* The cells memcpy reads in cache_read are never among those that read()
\* stores to in cache_fill.
NoDataRace == CopyCells \cap WriteCells = {}

\* Where the reader would look for the byte at p.
Cell(p) == Wrapped(p - offset)

\* Everything from min_filepos to max_filepos is in its cell of the ring, also
\* between the stores of max_filepos and of offset, and while cache_fill writes;
\* only cache_flush, between its stores, leaves a window without its bytes (for
\* good, when the process is killed there).
WindowHoldsFile ==
    fpc \in {"flushmin", "flushoffset", "killed"} \/ \A p \in Greater(min_filepos, 0) .. max_filepos - 1 :
        Cell(p) \in Cells \ WriteCells /\ buffer[Cell(p)] = p

\* read() in cache_fill never stores outside the ring buffer (a wraparound copy
\* goes on at its start), however the player seeks meanwhile.
FillInside == fpc = "reading" => wpos \in Cells /\ 0 < space /\ space <= BufferSize

\* Nor does memcpy in cache_read ever read outside the ring buffer.
CopyInside ==
    rpc = "copy" => rpos \in Cells /\ 0 <= newb /\ rpos + newb <= BufferSize

\* stream_t.eof is only set by cache_stream_fill_buffer once every byte was read.
EofIsEnd == seof = 1 => spos >= FileLen

\* The player's stream position and the cache's reader position agree whenever
\* cache_stream_fill_buffer is entered.
PositionsAgree == rpc = "idle" => spos = read_filepos

\* A control that succeeded returns its own answer.
AnswersMatch == [][ControlDone /\ control_res = "ok" => control_arg = cmd]_vars

\* No call of the player waits for ever in cache_read or cache_do_control,
\* whatever it interleaves with; nor does stream_enable_cache wait for first
\* bytes (rpc = "prefill") that the filler is not allowed to fill.
CallsReturn == rpc # "idle" ~> rpc \in {"idle", "closed", "crashed"}

\* A player that reads on gets the whole file (also after it was told, too
\* early or because of an interruption, that the stream is at its end).
AllDelivered == <>(rpc = "closed" \/ spos >= FileLen)

-----------------------------------------------------------------------------
(* What the cache promises to a player that does not seek back: the stream. *)

ByteStream == INSTANCE ByteStream WITH
    pos    <- spos,
    sector <- IF rpc \in {"prefill", "idle", "wait", "closed"} THEN sbuf ELSE <<>>,
    status <- IF rpc \in {"prefill", "idle", "wait"} THEN "idle"
              ELSE IF rpc \in {"closed", "crashed"} THEN "closed" ELSE "busy"

StreamRefinement == ByteStream!Spec

=============================================================================
