---------------------------- MODULE StreamProofs ----------------------------
(***************************************************************************)
(* Proofs about the streams: Cache, for every size of the buffer, of the   *)
(* sectors and of the file; and StreamRead, for every size of the buffer   *)
(* and of the file, any lengths and positions, and any number of calls and *)
(* failed reads.                                                           *)
(***************************************************************************)
EXTENDS Cache, StreamRead, WellFoundedInduction, TLAPS

-----------------------------------------------------------------------------
(* Every interleaving: the filler stays inside the ring buffer. *)

\* Where a flush goes on, and what it has stored so far.
FlushState ==
    /\ fpc \in {"flush", "flushmax", "flushmin", "flushoffset"} =>
          back_to \in {"seek", "answered"}
    /\ fpc \in {"flushmin", "flushoffset"} => max_filepos = len

\* The filler's end of the window is less than a buffer ahead of the offset.
RingState ==
    fpc \notin {"flushmin", "flushoffset", "offset", "killed"} =>
        offset <= max_filepos /\ max_filepos < offset + BufferSize

\* The block being written starts at the end of the window.
BlockState ==
    /\ fpc \in {"reading", "eof", "max", "offset"} =>
          wpos \in Cells /\ 0 < space /\ space <= BufferSize
    /\ fpc \in {"reading", "eof", "max"} => wpos = max_filepos - offset
    /\ fpc \in {"eof", "max", "offset"} => 0 <= len /\ len <= space
    /\ fpc = "offset" => wpos + len = max_filepos - offset

RaceInv == TypeOK /\ FlushState /\ RingState /\ BlockState

LEMMA RaceInvInit == Init => RaceInv
<1> SUFFICES ASSUME Init PROVE RaceInv
  OBVIOUS
<1> USE SizeAssumption, OptionAssumption DEF SizeAssumption, OptionAssumption, Init
<1>1. buffer \in [Cells -> Int] /\ sbuf \in Seq(Int)
  BY DEF Cells, Torn
<1>2. TypeOK
  BY <1>1 DEF TypeOK, NoGoal, Commands
<1>3. FlushState /\ RingState /\ BlockState
  BY DEF FlushState, RingState, BlockState
<1> QED
  BY <1>2, <1>3 DEF RaceInv

\* cache_fill never asks the stream for more than there is free, also when it
\* reads one sector across the end of the buffer.
LEMMA FillSpaceFits ==
  ASSUME FillPos \in Cells, FreeSpace \in Int, SectorSize <= FreeSpace
  PROVE  FillSpace \in Int /\ 0 < FillSpace /\ FillSpace <= FreeSpace
<1>1. ReadLimit \in Int /\ 0 < ReadLimit
  BY SizeAssumption, OptionAssumption
     DEF SizeAssumption, OptionAssumption, ReadLimit
<1> QED
  BY SizeAssumption, <1>1 DEF SizeAssumption, FillSpace, Lesser, Cells

LEMMA RaceInvStep == RaceInv /\ [Next]_vars => RaceInv'
<1> SUFFICES ASSUME RaceInv, [Next]_vars PROVE RaceInv'
  OBVIOUS
<1> USE SizeAssumption, OptionAssumption, CommandAssumption
        DEF SizeAssumption, OptionAssumption, CommandAssumption
<1> USE DEF RaceInv, TypeOK, FlushState, RingState, BlockState, shared, window,
            controls, reader, filler, source, Commands
<1>1. CASE Prefilled
  BY <1>1 DEF Prefilled
<1>2. CASE Uninit
  BY <1>2 DEF Uninit
<1>3. CASE FillBuffer
  <2>1. sbuf' \in Seq(Int) /\ goal' \in Int
    BY <1>3 DEF FillBuffer, NoGoal
  <2> QED
    BY <1>3, <2>1 DEF FillBuffer
<1>4. CASE Complete
  BY <1>4 DEF Complete
<1>5. CASE Check \/ CheckLower
  <2>1. CASE Check
    BY <2>1 DEF Check
  <2>2. CASE CheckLower
    BY <2>2 DEF CheckLower
  <2> QED
    BY <1>5, <2>1, <2>2
<1>6. CASE Outside
  BY <1>6 DEF Outside
<1>7. CASE ReadInterrupted
  BY <1>7 DEF ReadInterrupted
<1>8. CASE NewBytes
  BY <1>8 DEF NewBytes
<1>9. CASE Locate
  BY <1>9 DEF Locate, Lesser, Wrapped, Cells
<1>10. CASE Copy
  <2>1. [i \in 1 .. newb |-> View(rpos + i - 1)] \in Seq(Int)
    BY <1>10 DEF Copy, View, Torn, Cells
  <2>2. sbuf' \in Seq(Int)
    BY <1>10, <2>1 DEF Copy
  <2> QED
    BY <1>10, <2>2 DEF Copy
<1>11. CASE Crash
  BY <1>11 DEF Crash
<1>12. CASE Advance
  BY <1>12 DEF Advance
<1>13. CASE Done
  <2>1. Len(sbuf) \in Nat
    OBVIOUS
  <2> QED
    BY <1>13, <2>1 DEF Done, NoGoal
<1>14. CASE SeekEof
  BY <1>14 DEF SeekEof
<1>15. CASE ControlDone
  BY <1>15 DEF ControlDone
<1>16. CASE ControlInterrupted
  BY <1>16 DEF ControlInterrupted
<1>17. CASE Sample
  BY <1>17 DEF Sample
<1>18. CASE FlushLoad
  BY <1>18 DEF FlushLoad
<1>19. CASE FlushMax
  BY <1>19 DEF FlushMax
<1>20. CASE FlushMin
  BY <1>20 DEF FlushMin
<1>21. CASE FlushOffset
  BY <1>21 DEF FlushOffset
<1>22. CASE StreamSeek
  BY <1>22 DEF StreamSeek
<1>23. CASE NoFill
  BY <1>23 DEF NoFill
<1>24. CASE StartFill
  <2>1. FillPos = max_filepos - offset /\ FillPos \in Cells
    BY <1>24 DEF StartFill, FillPos, Cells
  <2>2. FreeSpace \in Int /\ SectorSize <= FreeSpace /\ FreeSpace <= BufferSize
    BY <1>24 DEF StartFill, FreeSpace, NewInBuffer, BackInBuffer, BackSize, Greater,
             Lesser
  <2>4. FillSpace \in Int /\ 0 < FillSpace /\ FillSpace <= BufferSize
    BY <2>1, <2>2, FillSpaceFits
  <2>5. NewInBuffer \in Int
    BY DEF NewInBuffer, Greater
  <2> HIDE DEF FillPos, FillSpace, NewInBuffer, FreeSpace
  <2> QED
    BY <1>24, <2>1, <2>4, <2>5 DEF StartFill, Greater
<1>25. CASE StoreEof
  BY <1>25 DEF StoreEof
<1>26. CASE StoreMax
  BY <1>26 DEF StoreMax
<1>27. CASE StoreOffset
  BY <1>27 DEF StoreOffset, Cells
<1>28. CASE NoControl
  BY <1>28 DEF NoControl
<1>29. CASE Obey
  BY <1>29 DEF Obey
<1>30. CASE Refuse
  BY <1>30 DEF Refuse
<1>31. CASE Answer
  BY <1>31 DEF Answer
<1>32. CASE MoveRead
  BY <1>32 DEF MoveRead
<1>33. CASE MoveEof
  BY <1>33 DEF MoveEof
<1>34. CASE Answered
  BY <1>34 DEF Answered
<1>35. ASSUME NEW p \in SeekTargets, SeekPos(p) PROVE RaceInv'
  BY <1>35 DEF SeekPos
<1>36. ASSUME NEW p \in Commands, DoControl(p) PROVE RaceInv'
  BY <1>36 DEF DoControl
<1>37. ASSUME NEW p \in 0 .. space, Land(p) PROVE RaceInv'
  <2>1. buffer' \in [Cells -> Int]
    BY <1>37 DEF Land, Stored, Cells
  <2>2. p \in Int /\ 0 <= p /\ p <= space
    BY <1>37 DEF Land
  <2> QED
    BY <1>37, <2>1, <2>2 DEF Land
<1>38. ASSUME NEW p \in SeekTargets, Move(p) PROVE RaceInv'
  BY <1>38 DEF Move
<1>39. CASE UNCHANGED vars
  BY <1>39 DEF vars
<1>40. CASE StreamSeekFails
  BY <1>40 DEF StreamSeekFails, SeekNeeded
<1>41. CASE LandFails
  BY <1>41 DEF LandFails
<1> QED
  BY <1>1, <1>2, <1>3, <1>4, <1>5, <1>6, <1>7, <1>8, <1>9, <1>10, <1>11, <1>12, <1>13, <1>14, <1>15, <1>16, <1>17, <1>18, <1>19, <1>20, <1>21, <1>22, <1>23, <1>24, <1>25, <1>26, <1>27, <1>28, <1>29, <1>30, <1>31, <1>32, <1>33, <1>34, <1>35, <1>36, <1>37, <1>38, <1>39,
     <1>40, <1>41
     DEF Next, CacheRead, CacheFill, Flush, ExecuteControl, Terminated

\* The types hold in every reachable state of the two processes.
THEOREM CacheTypeOK == Spec => []TypeOK
<1>1. RaceInv => TypeOK
  BY DEF RaceInv
<1> QED
  BY RaceInvInit, RaceInvStep, <1>1, PTL DEF Spec

\* However the player reads, seeks, posts controls and is interrupted, cache_fill
\* only lets read() store inside the ring buffer.
THEOREM CacheFillInside == Spec => []FillInside
<1>1. RaceInv => FillInside
  BY DEF RaceInv, BlockState, FillInside
<1> QED
  BY RaceInvInit, RaceInvStep, <1>1, PTL DEF Spec

-----------------------------------------------------------------------------
(***************************************************************************)
(* Players that do not seek back get the file: one that reads on and may   *)
(* be interrupted, one that posts controls, and one that skips ahead.      *)
(*                                                                         *)
(* The filler gives the window up in two places, when the reader is too    *)
(* far ahead of it and when a control moved the stream.  Until it has set  *)
(* it up anew the reader must stay away from it, and not move: in cache_   *)
(* read because the position is outside of the window and the end is not   *)
(* reached, in cache_do_control because the command is still posted.       *)
(***************************************************************************)

Flushing == fpc \in {"flush", "flushmax", "flushmin", "flushoffset"}
Seeking  == (Flushing /\ back_to = "seek") \/ fpc = "seek"
Moving   == (Flushing /\ back_to = "answered") \/ fpc \in {"moveread", "moveeof"}

\* The window is no longer than the buffer, also with the block being filled, and does not
\* begin after the reader; its end is the filler's position in the file.
Window ==
    /\ fpc \notin {"flushmin", "killed"} => max_filepos <= min_filepos + BufferSize
    /\ ~Moving => min_filepos <= read_filepos
    /\ fpc = "space" => min_filepos <= read /\ read - BackInBuffer <= read_filepos
    /\ fpc \in {"reading", "eof", "max"} =>
          max_filepos + space <= min_filepos + BufferSize
    /\ fpc \in {"sample", "space", "reading", "offset", "control", "obey", "answered"}
          => ppos = max_filepos
    /\ fpc \in {"flushmax", "flushmin", "flushoffset"} => len = read_filepos
    /\ fpc = "flushoffset" => min_filepos = len
    /\ Seeking => read = read_filepos
    /\ fpc = "seek" => max_filepos = read_filepos /\ min_filepos = read_filepos
    /\ Moving /\ fpc # "moveread" => read_filepos = ppos

\* The source is where it is taken to be; and what was read from it is in the ring: the window,
\* and the block that max_filepos does not cover yet.
Ring ==
    /\ skew = 0
    /\ fpc \notin {"flushmin", "killed"} =>
          \A p \in min_filepos .. max_filepos - 1 : Cell(p) \in Cells /\ buffer[Cell(p)] = p
    /\ fpc \in {"eof", "max"} =>
          /\ ppos = max_filepos + len
          /\ \A i \in 0 .. len - 1 : buffer[Wrapped(wpos + i)] = max_filepos + i

Reading == {"check", "lower", "outside", "newb", "locate", "copy", "advance", "done"}

\* How far cache_read got.
Reader ==
    /\ rpc \in {"prefill", "idle", "seekeof"} => spos = read_filepos
    /\ rpc \in Reading \ {"advance"} => spos + Len(sbuf) = read_filepos
    /\ rpc = "advance" => spos + Len(sbuf) = read_filepos + newb
    /\ rpc \in {"lower", "newb", "locate"} => size > 0 /\ read_filepos < max_filepos
    /\ rpc \in {"locate", "copy", "advance"} =>
          0 < newb /\ read_filepos + newb <= max_filepos
    /\ rpc = "copy" => rpos = Cell(read_filepos) /\ rpos + newb <= BufferSize
    /\ rpc # "crashed"
    /\ fpc = "killed" => rpc = "closed"

ForwardInv == Window /\ Ring /\ Reader /\ SectorFaithful

\* What keeps the reader away while the window is given up.  Each kind of player sees to it
\* in a way of its own: see Posted and Skipped.
Quiet ==
    /\ Seeking => Seekable
    /\ Seeking => rpc \in {"check", "outside", "done", "idle", "seekeof"}
    /\ Moving => rpc = "wait"
    /\ Seeking /\ rpc = "check" => read_filepos >= max_filepos
    /\ rpc = "wait" /\ control = "none" =>
          spos = read_filepos \/ (control_res = "ok" /\ cmd \in SeekCmds)

LEMMA ForwardInvInit == Init => ForwardInv
  BY SizeAssumption
     DEF SizeAssumption, Init, ForwardInv, Window, Ring, Reader, SectorFaithful, Reading,
         Flushing, Seeking, Moving

\* cache_fill writes to no cell of the window.
LEMMA BlockOutsideWindow ==
  ASSUME RaceInv, Window, fpc = "reading",
         NEW p \in min_filepos .. max_filepos - 1
  PROVE  Cell(p) \notin WriteCells
  BY SizeAssumption
     DEF SizeAssumption, RaceInv, TypeOK, BlockState, RingState, Window, Cell, Wrapped,
         WriteCells, Cells

\* Bytes that follow those at hand extend them to a longer run of the file.
LEMMA AppendRun ==
  ASSUME NEW s \in Seq(Int), NEW t \in Seq(Int), NEW first \in Int,
         \A i \in 1 .. Len(s) : s[i] = first + i - 1,
         \A i \in 1 .. Len(t) : t[i] = first + Len(s) + i - 1
  PROVE  /\ Len(s \o t) = Len(s) + Len(t)
         /\ \A i \in 1 .. Len(s \o t) : (s \o t)[i] = first + i - 1
<1>1. Len(s \o t) = Len(s) + Len(t) /\ Len(s) \in Nat /\ Len(t) \in Nat
  OBVIOUS
<1>2. ASSUME NEW i \in 1 .. Len(s \o t) PROVE (s \o t)[i] = first + i - 1
  <2>1. CASE i <= Len(s)
    BY <1>1, <2>1
  <2>2. CASE i > Len(s)
    <3>1. i - Len(s) \in 1 .. Len(t) /\ (s \o t)[i] = t[i - Len(s)]
      BY <1>1, <2>2
    <3> QED
      BY <1>1, <3>1
  <2> QED
    BY <1>1, <2>1, <2>2
<1> QED
  BY <1>1, <1>2

\* What the reader copies is in the window.
LEMMA CopyInWindow ==
  ASSUME RaceInv, ForwardInv, Quiet, rpc = "copy"
  PROVE  /\ ~Seeking /\ ~Moving /\ ~Flushing
         /\ rpos \in Cells /\ newb \in Nat /\ rpos + newb <= BufferSize
         /\ rpos = Cell(read_filepos)
         /\ min_filepos <= read_filepos /\ read_filepos + newb <= max_filepos
<1>1. ~Seeking /\ ~Moving
  BY DEF Quiet
<1>2. ~Flushing /\ fpc # "flushmin"
  BY <1>1 DEF RaceInv, FlushState, Flushing, Seeking, Moving
<1>6. fpc # "killed"
  BY DEF ForwardInv, Reader
<1>3. /\ 0 < newb /\ read_filepos + newb <= max_filepos /\ rpos = Cell(read_filepos)
      /\ rpos + newb <= BufferSize /\ min_filepos <= read_filepos /\ newb \in Int
      /\ read_filepos \in Int /\ max_filepos \in Int /\ min_filepos \in Int
  BY <1>1 DEF RaceInv, TypeOK, ForwardInv, Window, Reader
<1>4. read_filepos \in min_filepos .. max_filepos - 1
  BY <1>3
<1>5. rpos \in Cells
  BY <1>2, <1>3, <1>4, <1>6 DEF ForwardInv, Ring
<1> QED
  BY <1>1, <1>2, <1>3, <1>5

\* memcpy in cache_read appends the bytes at the reader's position.
LEMMA CopyForward ==
  ASSUME RaceInv, ForwardInv, Quiet, Copy
  PROVE  ForwardInv'
<1> DEFINE bytes == [i \in 1 .. newb |-> View(rpos + i - 1)]
<1>1. /\ rpc = "copy" /\ rpos \in Cells /\ newb \in Nat /\ ~Flushing
      /\ rpos + newb <= BufferSize /\ rpos = Cell(read_filepos)
      /\ min_filepos <= read_filepos /\ read_filepos + newb <= max_filepos
      /\ spos + Len(sbuf) = read_filepos
  BY CopyInWindow DEF Copy, ForwardInv, Reader, Reading
<1>2. ASSUME NEW i \in 1 .. newb PROVE bytes[i] = read_filepos + i - 1
  <2>1. read_filepos + i - 1 \in min_filepos .. max_filepos - 1
    BY <1>1 DEF RaceInv, TypeOK
  <2>2. Cell(read_filepos + i - 1) = rpos + i - 1
    BY <1>1, SizeAssumption
       DEF SizeAssumption, RaceInv, TypeOK, Cell, Wrapped, Cells
  <2>3. rpos + i - 1 \in Cells
    BY <1>1, SizeAssumption DEF SizeAssumption, Cells
  <2>4. buffer[rpos + i - 1] = read_filepos + i - 1
    BY <1>1, <2>1, <2>2 DEF ForwardInv, Ring, Reader, Flushing
  <2>5. rpos + i - 1 \notin WriteCells
    <3>1. CASE fpc = "reading"
      BY <2>1, <2>2, <3>1, BlockOutsideWindow DEF ForwardInv
    <3>2. CASE fpc # "reading"
      BY <3>2 DEF WriteCells
    <3> QED
      BY <3>1, <3>2
  <2> QED
    BY <2>3, <2>4, <2>5 DEF View
<1>3. bytes \in Seq(Int)
  BY <1>1 DEF View, Torn, RaceInv, TypeOK, Cells
<1>4. Len(bytes) = newb
  BY <1>1
<1>5. /\ sbuf' = sbuf \o bytes /\ rpc' = "advance"
      /\ UNCHANGED <<shared, controls, filler, skew, spos, size, newb>>
  BY DEF Copy, source
<1>6. sbuf \in Seq(Int) /\ spos \in Int /\ Len(sbuf) \in Nat
  BY DEF RaceInv, TypeOK
<1> HIDE DEF bytes
<1>7. \A i \in 1 .. Len(sbuf) : sbuf[i] = spos + i - 1
  BY <1>1 DEF ForwardInv, SectorFaithful
<1>8. \A i \in 1 .. Len(bytes) : bytes[i] = spos + Len(sbuf) + i - 1
  BY <1>1, <1>2, <1>4, <1>6
<1>9. /\ Len(sbuf \o bytes) = Len(sbuf) + Len(bytes)
      /\ \A i \in 1 .. Len(sbuf \o bytes) : (sbuf \o bytes)[i] = spos + i - 1
  BY <1>3, <1>6, <1>7, <1>8, AppendRun
<1>10. Len(sbuf') = Len(sbuf) + newb /\ SectorFaithful'
  BY <1>4, <1>5, <1>9 DEF SectorFaithful
<1>11. Reader'
  <2>1. spos' + Len(sbuf') = read_filepos + newb
    BY <1>1, <1>5, <1>6, <1>10
  <2> QED
    BY <1>1, <1>5, <2>1 DEF ForwardInv, Reader, Reading, shared, filler
<1>12. Window' /\ Ring'
  BY <1>5 DEF ForwardInv, Window, Ring, Cell, Wrapped, Flushing, Seeking, Moving, BackInBuffer,
              shared, filler
<1> QED
  BY <1>10, <1>11, <1>12 DEF ForwardInv

\* Moving the offset by a buffer's length leaves every byte of the window in
\* its cell.
LEMMA StoreOffsetForward ==
  ASSUME RaceInv, ForwardInv, StoreOffset
  PROVE  /\ Ring'
         /\ \A p \in min_filepos .. max_filepos : Wrapped(p - offset') = Wrapped(p - offset)
<1>1. /\ min_filepos' = min_filepos /\ max_filepos' = max_filepos
      /\ buffer' = buffer /\ skew' = skew /\ fpc' = "control" /\ fpc = "offset"
      /\ offset' = IF wpos + len >= BufferSize THEN offset + BufferSize ELSE offset
  BY DEF StoreOffset, source
<1>2. Ring
  BY DEF ForwardInv
<1>3. ASSUME NEW p \in min_filepos .. max_filepos
      PROVE  Wrapped(p - offset') = Wrapped(p - offset)
  BY <1>1, SizeAssumption
     DEF SizeAssumption, StoreOffset, RaceInv, TypeOK, BlockState, ForwardInv, Window,
         Wrapped, Cells
<1>4. ASSUME NEW p \in min_filepos .. max_filepos - 1
      PROVE  Wrapped(p - offset') \in Cells /\ buffer[Wrapped(p - offset')] = p
  <2>1. p \in min_filepos .. max_filepos
    BY DEF RaceInv, TypeOK
  <2> QED
    BY <1>1, <1>2, <1>3, <2>1 DEF Ring, Cell
<1> QED
  BY <1>1, <1>2, <1>3, <1>4 DEF Ring, Cell, Wrapped

\* The player reads; when the filler gives the window up it only waits.
LEMMA PlayerForward ==
  ASSUME RaceInv, RaceInv', ForwardInv, Quiet, Quiet',
         \/ Prefilled \/ Uninit \/ FillBuffer \/ CacheRead \/ ReadInterrupted \/ SeekEof
         \/ (\E c \in Commands : DoControl(c)) \/ ControlDone
  PROVE  ForwardInv'
<1> USE SizeAssumption DEF SizeAssumption
<1>1. ASSUME UNCHANGED <<buffer, window, read_filepos, filler, skew>> PROVE Window' /\ Ring'
  BY <1>1 DEF ForwardInv, Window, Ring, Cell, Wrapped, Flushing, Seeking, Moving, BackInBuffer,
              window, filler
<1> USE DEF RaceInv, TypeOK, ForwardInv, Reader, SectorFaithful, Reading, shared, window,
            controls, filler, source
<1>2. CASE Prefilled
  BY <1>1, <1>2 DEF Prefilled
<1>3. CASE Uninit
  <2>1. ~Moving
    BY <1>3 DEF Uninit, Quiet
  <2>2. Window' /\ Ring'
    BY <1>3, <2>1 DEF Uninit, Window, Ring, Cell, Wrapped, Flushing, Seeking, Moving
  <2> QED
    BY <1>3, <2>2 DEF Uninit
<1>4. CASE FillBuffer
  BY <1>1, <1>4 DEF FillBuffer
<1>5. CASE Complete
  BY <1>1, <1>5 DEF Complete
<1>6. CASE Check \/ CheckLower
  <2>1. CASE Check
    BY <1>1, <2>1 DEF Check
  <2>2. CASE CheckLower
    BY <1>1, <2>2 DEF CheckLower
  <2> QED
    BY <1>6, <2>1, <2>2
<1>7. CASE Outside
  BY <1>1, <1>7 DEF Outside
<1>8. CASE ReadInterrupted
  BY <1>1, <1>8 DEF ReadInterrupted
<1>9. CASE NewBytes
  BY <1>1, <1>9 DEF NewBytes
<1>10. CASE Locate
  <2>1. /\ ~Moving /\ fpc \notin {"flushmin", "killed"}
    BY <1>10 DEF Locate, Quiet, FlushState, Flushing, Seeking, Moving
  <2>2. rpos' = Cell(read_filepos) /\ rpos' \in Cells
    BY <1>10, <2>1 DEF Locate, Window, Ring, Cell
  <2>3. newb' \in Int /\ 0 < newb' /\ newb' <= newb /\ newb' <= BufferSize - rpos'
    BY <1>10, <2>2 DEF Locate, Lesser, Cells
  <2>4. rpos' = Cell(read_filepos)'
    BY <1>10, <2>2 DEF Locate, Cell, Wrapped
  <2> QED
    BY <1>1, <1>10, <2>3, <2>4 DEF Locate
<1>11. CASE Copy
  BY <1>11, CopyForward
<1>12. CASE Crash
  BY <1>12 DEF Crash
<1>13. CASE Advance
  <2>1. ~Seeking /\ ~Moving
    BY <1>13 DEF Advance, Quiet
  <2>2. read_filepos <= read_filepos' /\ UNCHANGED <<buffer, window, filler, skew>>
    BY <1>13 DEF Advance
  <2>3. fpc \notin {"flushmax", "flushmin", "flushoffset"}
    BY <2>1 DEF FlushState, Flushing, Seeking, Moving
  <2>4. fpc = "space" => BackInBuffer' = BackInBuffer /\ BackInBuffer \in Int
    BY <2>2 DEF BackInBuffer, BackSize, Lesser, Greater
  <2>5. Window' /\ Ring'
    BY <2>1, <2>2, <2>3, <2>4 DEF Window, Ring, Cell, Wrapped, Flushing, Seeking, Moving
  <2> QED
    BY <1>13, <2>5 DEF Advance
<1>14. CASE Done
  BY <1>1, <1>14 DEF Done
<1>15. CASE SeekEof
  BY <1>1, <1>15 DEF SeekEof
<1>16. ASSUME NEW c \in Commands, DoControl(c) PROVE ForwardInv'
  BY <1>1, <1>16 DEF DoControl
<1>17. CASE ControlDone
  BY <1>1, <1>17 DEF ControlDone, Quiet
<1> QED
  BY <1>2, <1>3, <1>4, <1>5, <1>6, <1>7, <1>8, <1>9, <1>10, <1>11, <1>12, <1>13, <1>14, <1>15,
     <1>16, <1>17 DEF CacheRead

\* A seek ahead, the filler's work going on with the position it has sampled.
LEMMA SeekForward ==
  ASSUME RaceInv, ForwardInv, Quiet, ~Seeking, NEW p \in SeekTargets, SeekPos(p),
         min_filepos <= read_filepos', fpc = "space" => read - BackInBuffer <= read_filepos'
  PROVE  ForwardInv'
<1>1. ~Seeking /\ ~Moving /\ ~Flushing
  BY DEF SeekPos, Quiet, RaceInv, FlushState, Flushing, Seeking, Moving
<1>2. UNCHANGED <<buffer, window, filler, skew>>
  BY DEF SeekPos, source
<1>3. Window' /\ Ring'
  BY <1>1, <1>2 DEF ForwardInv, Window, Ring, Cell, Wrapped, Flushing, Seeking, Moving,
                    BackInBuffer, window, filler
<1>4. Reader' /\ SectorFaithful'
  BY DEF SeekPos, ForwardInv, Reader, SectorFaithful, Reading, filler
<1> QED
  BY <1>3, <1>4 DEF ForwardInv

\* What cache_fill keeps of the old bytes, what it fills, and where the window then begins.
LEMMA FillFits ==
  ASSUME RaceInv, ForwardInv, StartFill
  PROVE  /\ min_filepos' \in Int /\ FillSpace \in Int
         /\ min_filepos <= min_filepos' /\ min_filepos' <= read_filepos
         /\ \/ min_filepos' = min_filepos
            \/ min_filepos' <= read - BackInBuffer
         /\ max_filepos + FillSpace <= min_filepos' + BufferSize
         /\ max_filepos <= min_filepos' + BufferSize
<1> USE SizeAssumption DEF SizeAssumption, RaceInv, TypeOK
<1>0. /\ fpc = "space" /\ FreeSpace >= FillLimit
      /\ min_filepos' = Greater(min_filepos, read - (BufferSize - (FillSpace + NewInBuffer)))
  BY DEF StartFill
<1>1. FillPos \in Cells
  BY <1>0 DEF FillPos, RingState, Cells
<1>2. /\ NewInBuffer \in Nat /\ max_filepos - read <= NewInBuffer
      /\ BackInBuffer \in Int /\ 0 <= BackInBuffer
      /\ FreeSpace = BufferSize - (NewInBuffer + BackInBuffer)
  BY <1>0 DEF NewInBuffer, BackInBuffer, BackSize, FreeSpace, Greater, Lesser
<1>3. FreeSpace \in Int /\ SectorSize <= FreeSpace
  BY <1>0, <1>2
<1>4. FillSpace \in Int /\ FillSpace <= FreeSpace
  BY <1>1, <1>3, FillSpaceFits
<1>5. /\ min_filepos <= read_filepos /\ min_filepos <= read
      /\ read - BackInBuffer <= read_filepos
  BY <1>0 DEF ForwardInv, Window, Moving, Flushing
<1>6. max_filepos <= min_filepos + BufferSize
  BY <1>0 DEF ForwardInv, Window
<1> HIDE DEF FillPos, FillSpace, NewInBuffer, BackInBuffer, FreeSpace
<1>7. read - (BufferSize - (FillSpace + NewInBuffer)) <= read - BackInBuffer
  BY <1>2, <1>3, <1>4
<1>8. read - (BufferSize - (FillSpace + NewInBuffer)) >= max_filepos + FillSpace - BufferSize
  BY <1>2, <1>3, <1>4
<1> QED
  BY <1>0, <1>2, <1>3, <1>4, <1>5, <1>6, <1>7, <1>8 DEF Greater

\* The filler fills, and gives the window up when it is where the reader will not be.
LEMMA FillerForward ==
  ASSUME RaceInv, RaceInv', ForwardInv, Quiet, Quiet', CacheFill \/ ExecuteControl
  PROVE  ForwardInv'
<1> USE SizeAssumption DEF SizeAssumption
<1> USE DEF RaceInv, TypeOK, FlushState, ForwardInv, Window, Ring, Cell, Flushing, Seeking,
            Moving, shared, window, controls, reader, source
<1>1. ASSUME UNCHANGED <<reader, read_filepos, max_filepos>>, Window', Ring',
             rpc = "copy" => Cell(read_filepos)' = Cell(read_filepos), fpc' # "killed"
      PROVE  ForwardInv'
  BY <1>1 DEF Reader, SectorFaithful, Reading
<1>2. CASE Sample
  <2>1. Window'
    BY <1>2 DEF Sample, BackInBuffer, BackSize, Greater, Lesser
  <2>2. Ring'
    BY <1>2 DEF Sample
  <2> QED
    BY <1>1, <1>2, <2>1, <2>2 DEF Sample
<1>3. CASE FlushLoad
  BY <1>1, <1>3 DEF FlushLoad
<1>4. CASE FlushMax
  <2>1. Window' /\ Ring'
    BY <1>4 DEF FlushMax
  <2>2. Reader' /\ SectorFaithful'
    BY <1>4 DEF FlushMax, Reader, SectorFaithful, Reading, Quiet
  <2> QED
    BY <2>1, <2>2
<1>5. CASE FlushMin
  BY <1>1, <1>5 DEF FlushMin
<1>6. CASE FlushOffset
  <2>1. Window'
    BY <1>6 DEF FlushOffset, BackInBuffer
  <2>2. Ring'
    BY <1>6 DEF FlushOffset
  <2>3. rpc # "copy"
    BY <1>6 DEF FlushOffset, Quiet
  <2> QED
    BY <1>1, <1>6, <2>1, <2>2, <2>3 DEF FlushOffset
<1>7. CASE StreamSeek
  <2>1. Window'
    BY <1>7 DEF StreamSeek, BackInBuffer, BackSize, Greater, Lesser, Quiet
  <2>2. Ring'
    BY <1>7 DEF StreamSeek
  <2> QED
    BY <1>1, <1>7, <2>1, <2>2 DEF StreamSeek
<1>8. CASE NoFill
  BY <1>1, <1>8 DEF NoFill
<1>9. CASE StartFill
  <2>1. /\ min_filepos' \in Int /\ FillSpace \in Int
        /\ min_filepos <= min_filepos' /\ min_filepos' <= read_filepos
        /\ max_filepos + FillSpace <= min_filepos' + BufferSize
        /\ max_filepos <= min_filepos' + BufferSize
    BY <1>9, FillFits
  <2>2. /\ fpc = "space" /\ fpc' = "reading" /\ space' = FillSpace
        /\ UNCHANGED <<buffer, max_filepos, offset, read_filepos, reader, skew, ppos, len,
                       back_to>>
    BY <1>9 DEF StartFill
  <2> HIDE DEF FillSpace
  <2>3. Window'
    <3>1. ppos = max_filepos
      BY <2>2
    <3>3. ~Flushing' /\ ~Seeking' /\ ~Moving' /\ fpc' = "reading"
      BY <2>2
    <3>5. max_filepos' = max_filepos /\ space' = FillSpace
      BY <2>2
    <3> HIDE DEF RaceInv, ForwardInv, Window, Ring, FlushState
    <3>2. /\ max_filepos' <= min_filepos' + BufferSize
          /\ max_filepos' + space' <= min_filepos' + BufferSize
      BY <2>1, <3>5
    <3> USE DEF Window
    <3>4. min_filepos' <= read_filepos' /\ ppos' = max_filepos'
      BY <2>1, <2>2, <3>1
    <3> HIDE DEF Flushing, Seeking, Moving
    <3> QED
      BY <3>2, <3>3, <3>4
  <2>4. Ring'
    BY <2>1, <2>2 DEF Wrapped
  <2>5. rpc = "copy" => Cell(read_filepos)' = Cell(read_filepos)
    BY <2>2 DEF Wrapped
  <2> QED
    BY <1>1, <2>2, <2>3, <2>4, <2>5
<1>10. ASSUME NEW n \in 0 .. space, Land(n) PROVE ForwardInv'
  <2>1. n \in Int /\ 0 <= n /\ n <= space
    BY <1>10 DEF Land
  <2>2. ASSUME NEW p \in min_filepos .. max_filepos - 1
        PROVE  Cell(p) \in Cells /\ buffer'[Cell(p)] = p
    <3>1. Cell(p) \in Cells /\ Cell(p) \notin WriteCells
      BY <1>10, BlockOutsideWindow DEF Land
    <3>2. buffer'[Cell(p)] = buffer[Cell(p)]
      BY <1>10, <2>1, <3>1 DEF Land, Stored, WriteCells, Cells
    <3> QED
      BY <1>10, <3>1, <3>2 DEF Land
  <2>3. ASSUME NEW i \in 0 .. n - 1
        PROVE  buffer'[Wrapped(wpos + i)] = max_filepos + i
    <3>1. Wrapped(wpos + i) \in Cells
      BY <1>10, <2>1 DEF Land, BlockState, Wrapped, Cells
    <3> QED
      BY <1>10, <2>1, <3>1 DEF Land, Stored, BlockState, Wrapped, Cells
  <2>4. Ring'
    BY <1>10, <2>1, <2>2, <2>3 DEF Land
  <2>5. Window'
    BY <1>10, <2>1 DEF Land
  <2> QED
    BY <1>1, <1>10, <2>4, <2>5 DEF Land
<1>11. CASE StoreEof \/ LandFails
  <2>1. CASE StoreEof
    BY <1>1, <2>1 DEF StoreEof
  <2>2. CASE LandFails
    BY <1>1, <2>2 DEF LandFails
  <2> QED
    BY <1>11, <2>1, <2>2
<1>12. CASE StoreMax
  <2>1. Ring'
    <3>1. ASSUME NEW p \in min_filepos .. max_filepos + len - 1
          PROVE  Cell(p) \in Cells /\ buffer[Cell(p)] = p
      <4>1. CASE p < max_filepos
        BY <1>12, <4>1 DEF StoreMax
      <4>2. CASE p >= max_filepos
        <5> DEFINE j == p - max_filepos
        <5>1. j \in 0 .. len - 1 /\ p = max_filepos + j
          BY <1>12, <4>2 DEF StoreMax
        <5>2. p - offset = wpos + j
          BY <1>12, <5>1 DEF StoreMax, BlockState
        <5>3. buffer[Wrapped(wpos + j)] = max_filepos + j
          BY <1>12, <5>1 DEF StoreMax
        <5>4. Wrapped(wpos + j) \in Cells
          BY <1>12, <5>1 DEF StoreMax, BlockState, Wrapped, Cells
        <5> HIDE DEF j
        <5> QED
          BY <5>1, <5>2, <5>3, <5>4
      <4> QED
        BY <4>1, <4>2
    <3> QED
      BY <1>12, <3>1 DEF StoreMax
  <2>2. Window'
    BY <1>12 DEF StoreMax, BlockState
  <2>3. Reader' /\ SectorFaithful'
    BY <1>12 DEF StoreMax, BlockState, Reader, SectorFaithful, Reading
  <2> QED
    BY <2>1, <2>2, <2>3
<1>13. CASE StoreOffset
  <2>1. Ring' /\ \A p \in min_filepos .. max_filepos : Wrapped(p - offset') = Wrapped(p - offset)
    BY <1>13, StoreOffsetForward
  <2>2. Window'
    BY <1>13 DEF StoreOffset
  <2>3. rpc = "copy" => Cell(read_filepos)' = Cell(read_filepos)
    <3>1. rpc = "copy" => read_filepos \in min_filepos .. max_filepos
      BY <1>13 DEF StoreOffset, Reader
    <3>2. read_filepos' = read_filepos
      BY <1>13 DEF StoreOffset
    <3> QED
      BY <2>1, <3>1, <3>2 DEF Wrapped
  <2> QED
    BY <1>1, <1>13, <2>1, <2>2, <2>3 DEF StoreOffset
<1>14. CASE NoControl \/ Obey \/ Refuse \/ Answer \/ Answered
  BY <1>1, <1>14 DEF NoControl, Obey, Refuse, Answer, Answered
<1>15. ASSUME NEW p \in SeekTargets, Move(p) PROVE ForwardInv'
  BY <1>1, <1>15 DEF Move
<1>16. CASE MoveRead
  <2>1. Window' /\ Ring'
    BY <1>16 DEF MoveRead
  <2>2. Reader' /\ SectorFaithful'
    BY <1>16 DEF MoveRead, Reader, SectorFaithful, Reading, Quiet
  <2> QED
    BY <2>1, <2>2
<1>17. CASE MoveEof
  BY <1>1, <1>17 DEF MoveEof
<1> QED
  BY <1>2, <1>3, <1>4, <1>5, <1>6, <1>7, <1>8, <1>9, <1>10, <1>11, <1>12, <1>13, <1>14, <1>15,
     <1>16, <1>17 DEF CacheFill, Flush, ExecuteControl

-----------------------------------------------------------------------------
(***************************************************************************)
(* The player that reads on and the one that posts controls: the window is *)
(* given up for a control only, while its caller waits.                    *)
(***************************************************************************)

\* The reader is never beyond the window, so cache_fill has no reason to seek; and while
\* a control moves the stream its command is still posted.
Posted ==
    /\ ~Seeking /\ rpc # "seekeof"
    /\ ~Moving => read_filepos <= max_filepos
    /\ rpc # "wait" => control \in {"none", "boot"}
    /\ rpc = "wait" => control \in {"none", cmd} /\ cmd \in Commands
    /\ fpc = "obey" => control # "none" /\ (obeyed \in Commands => rpc = "wait" /\ control = obeyed)
    /\ Moving => rpc = "wait" /\ control # "none" /\ control_res = "ok" /\ cmd \in SeekCmds
    /\ rpc = "wait" => \/ spos = read_filepos
                       \/ /\ control_res = "ok" /\ cmd \in SeekCmds
                          /\ Moving \/ fpc = "answered" \/ control = "none"

LEMMA PostedInit == Init => Posted
  BY CommandAssumption DEF CommandAssumption, Init, Posted, Flushing, Seeking, Moving

LEMMA PostedIsQuiet == Posted => Quiet
  BY DEF Posted, Quiet

LEMMA PostedStep ==
  ASSUME RaceInv, RaceInv', ForwardInv, Posted, [SequentialNext \/ ControllingNext]_vars
  PROVE  Posted'
<1> USE SizeAssumption, CommandAssumption DEF SizeAssumption, CommandAssumption
<1> USE DEF RaceInv, TypeOK, FlushState, ForwardInv, Window, Posted, Flushing, Seeking,
            Moving, Commands, shared, window, controls, reader, filler, source
<1>1. CASE Prefilled
  BY <1>1 DEF Prefilled
<1>2. CASE Uninit
  BY <1>2 DEF Uninit
<1>3. CASE FillBuffer
  BY <1>3 DEF FillBuffer
<1>4. CASE Complete \/ Check \/ CheckLower \/ Outside \/ ReadInterrupted
  <2>1. CASE Complete
    BY <2>1 DEF Complete
  <2>2. CASE Check
    BY <2>2 DEF Check
  <2>3. CASE CheckLower
    BY <2>3 DEF CheckLower
  <2>4. CASE Outside
    BY <2>4 DEF Outside
  <2>5. CASE ReadInterrupted
    BY <2>5 DEF ReadInterrupted
  <2> QED
    BY <1>4, <2>1, <2>2, <2>3, <2>4, <2>5
<1>5. CASE NewBytes
  BY <1>5 DEF NewBytes
<1>6. CASE Locate
  BY <1>6 DEF Locate
<1>7. CASE Crash
  BY <1>7 DEF Crash
<1>8. CASE Copy
  BY <1>8 DEF Copy
<1>9. CASE Advance
  BY <1>9 DEF Advance, Reader
<1>10. CASE Done
  BY <1>10 DEF Done
<1>11. ASSUME NEW c \in Commands, DoControl(c) PROVE Posted'
  BY <1>11 DEF DoControl, Reader
<1>12. CASE ControlDone
  BY <1>12 DEF ControlDone
<1>13. CASE Sample
  BY <1>13 DEF Sample, SeekLimit
<1>14. CASE FlushLoad \/ FlushMax \/ FlushMin
  BY <1>14 DEF FlushLoad, FlushMax, FlushMin
<1>15. CASE FlushOffset
  BY <1>15 DEF FlushOffset
<1>16. CASE StreamSeek \/ NoFill \/ StartFill
  BY <1>16 DEF StreamSeek, NoFill, StartFill
<1>17. ASSUME NEW n \in 0 .. space, Land(n) PROVE Posted'
  BY <1>17 DEF Land
<1>18. CASE LandFails \/ StoreEof \/ StoreOffset
  BY <1>18 DEF LandFails, StoreEof, StoreOffset
<1>19. CASE StoreMax
  BY <1>19 DEF StoreMax, BlockState
<1>20. CASE NoControl \/ Obey
  BY <1>20 DEF NoControl, Obey
<1>21. CASE Refuse
  BY <1>21 DEF Refuse
<1>22. CASE Answer
  BY <1>22 DEF Answer
<1>23. ASSUME NEW p \in SeekTargets, Move(p) PROVE Posted'
  BY <1>23 DEF Move
<1>24. CASE MoveRead
  BY <1>24 DEF MoveRead
<1>25. CASE MoveEof
  BY <1>25 DEF MoveEof
<1>26. CASE Answered
  BY <1>26 DEF Answered
<1>27. CASE UNCHANGED vars
  BY <1>27 DEF vars
<1> QED
  BY <1>1, <1>2, <1>3, <1>4, <1>5, <1>6, <1>7, <1>8, <1>9, <1>10, <1>11, <1>12, <1>13, <1>14,
     <1>15, <1>16, <1>17, <1>18, <1>19, <1>20, <1>21, <1>22, <1>23, <1>24, <1>25, <1>26, <1>27
     DEF SequentialNext, ControllingNext, CacheRead, CacheFill, Flush, Filling, ExecuteControl,
         Terminated

-----------------------------------------------------------------------------
(***************************************************************************)
(* The player that skips ahead: cache_fill gives the window up when the    *)
(* reader is beyond it, and there is nothing to copy there.  The reader may*)
(* be told that it is at the end of the stream, by a read that failed, by  *)
(* one beyond the end of the file, or by an interruption: it then has got  *)
(* nothing, and reads on from where it is.                                 *)
(***************************************************************************)

\* Where the sector of a position begins.
SectorOf(p) == p - (p % SectorSize)

LEMMA SectorBegins ==
  ASSUME NEW p \in Nat
  PROVE  /\ p % SectorSize \in 0 .. SectorSize - 1 /\ p \div SectorSize \in Int
         /\ p = SectorSize * (p \div SectorSize) + (p % SectorSize)
         /\ SectorOf(p) \in Nat /\ p - SectorSize < SectorOf(p)
         /\ SectorOf(p) <= p
<1>1. SectorSize \in Nat \ {0}
  BY SizeAssumption DEF SizeAssumption
<1>2. p % SectorSize \in 0 .. SectorSize - 1
  BY <1>1
<1>3. p \div SectorSize \in Int /\ p = SectorSize * (p \div SectorSize) + (p % SectorSize)
  BY <1>1
<1>4. SectorSize * (p \div SectorSize) >= 0
  <2> DEFINE a == p \div SectorSize
             r == p % SectorSize
  <2>1. a \in Int /\ r \in 0 .. SectorSize - 1 /\ p = SectorSize * a + r
    BY <1>2, <1>3
  <2> HIDE DEF a, r
  <2>2. ASSUME a < 0 PROVE FALSE
    <3>1. SectorSize * a <= SectorSize * (-1)
      BY <1>1, <2>1, <2>2
    <3> QED
      BY <1>1, <2>1, <3>1
  <2>3. SectorSize * a >= 0
    BY <1>1, <2>1, <2>2
  <2> QED
    BY <2>3 DEF a
<1>5. SectorSize * (p \div SectorSize) \in Int
  BY <1>1, <1>3
<1>6. SectorOf(p) = SectorSize * (p \div SectorSize)
  BY <1>2, <1>3, <1>5 DEF SectorOf
<1>7. SectorOf(p) \in Int /\ SectorOf(p) <= p /\ p - SectorSize < SectorOf(p)
  BY <1>1, <1>2 DEF SectorOf
<1> QED
  BY <1>2, <1>3, <1>4, <1>5, <1>6, <1>7

\* A position is not in front of a sector unless its own sector is.
LEMMA SectorsInOrder ==
  ASSUME NEW p \in Nat, NEW q \in Nat, q >= SectorOf(p)
  PROVE  SectorOf(q) >= SectorOf(p)
<1> DEFINE a == p \div SectorSize
           b == q \div SectorSize
           r == p % SectorSize
           t == q % SectorSize
<1>1. /\ a \in Int /\ b \in Int /\ r \in 0 .. SectorSize - 1 /\ t \in 0 .. SectorSize - 1
      /\ p = SectorSize * a + r /\ q = SectorSize * b + t /\ SectorSize \in Nat
  BY SectorBegins, SizeAssumption DEF SizeAssumption
<1>2. SectorOf(p) = p - r /\ SectorOf(q) = q - t
  BY DEF SectorOf
<1> HIDE DEF a, b, r, t
<1>3. ASSUME b < a PROVE FALSE
  <2>1. b + 1 <= a
    BY <1>1, <1>3
  <2>2. SectorSize * (b + 1) <= SectorSize * a
    BY <1>1, <2>1
  <2>3. SectorSize * (b + 1) = SectorSize * b + SectorSize
    BY <1>1
  <2> QED
    BY <1>1, <1>2, <2>2, <2>3
<1>4. SectorSize * a <= SectorSize * b
  BY <1>1, <1>3
<1> QED
  BY <1>1, <1>2, <1>4

\* Wherever a player at `place' may skip to, the sector begins at first or later.
Ahead(first, place) == \A q \in SeekTargets : q >= place => first <= SectorOf(q)

LEMMA AheadOf ==
  ASSUME NEW first \in Int, NEW place \in Int, NEW first1 \in Int, NEW place1 \in Int,
         Ahead(first, place), first1 <= first, place <= place1
  PROVE  Ahead(first1, place1)
<1>1. \A q \in SeekTargets : q \in Nat /\ SectorOf(q) \in Int
  BY SectorBegins, OptionAssumption DEF OptionAssumption
<1> QED
  BY <1>1 DEF Ahead

\* While the reader is beyond the window, or what it waits for is sought, it has no bytes.
Skipped ==
    /\ ~Moving /\ rpc # "wait" /\ control \in {"none", "boot"} /\ obeyed \in {"none", "boot"}
    /\ rpc = "closed" => fpc = "killed"
    /\ Seeking => read_filepos >= max_filepos
    /\ Seeking \/ read_filepos > max_filepos =>
          /\ rpc \in {"check", "outside", "done", "idle", "seekeof", "closed"}
          /\ rpc \in {"check", "outside", "done"} => sbuf = <<>>
          /\ rpc = "idle" => seof = 1
          /\ Ahead(read_filepos, read_filepos)
    /\ Ahead(min_filepos, read_filepos)
    /\ fpc = "space" => Ahead(read - BackInBuffer, read_filepos)

LEMMA SkippedIsQuiet == Seekable /\ Skipped => Quiet
  BY DEF Skipped, Quiet, Seeking, Flushing

LEMMA SkippedInit == Init => Skipped
<1>1. Ahead(0, 0)
  BY SectorBegins, OptionAssumption DEF OptionAssumption, Ahead
<1> QED
  BY <1>1 DEF Init, Skipped, Flushing, Seeking, Moving

\* After a seek, the next target is in the same sector or a later one.
LEMMA SeekAhead ==
  ASSUME NEW p \in SeekTargets, SeekPos(p)
  PROVE  /\ read_filepos' = SectorOf(p) /\ read_filepos' \in Nat
         /\ Ahead(read_filepos', read_filepos')
<1>1. p \in Nat
  BY OptionAssumption DEF OptionAssumption
<1>2. read_filepos' = SectorOf(p)
  BY DEF SeekPos, SectorOf
<1>3. SectorOf(p) \in Int /\ SectorOf(p) <= p
  BY <1>1, SectorBegins
<1>4. SectorOf(p) \in Nat
  BY <1>1, SectorBegins
<1>5. ASSUME NEW q \in SeekTargets, q >= SectorOf(p) PROVE SectorOf(q) >= SectorOf(p)
  BY <1>1, <1>5, SectorsInOrder, OptionAssumption DEF OptionAssumption
<1> QED
  BY <1>1, <1>2, <1>3, <1>4, <1>5, OptionAssumption DEF OptionAssumption, Ahead

LEMMA SkippedStep ==
  ASSUME RaceInv, RaceInv', ForwardInv, Skipped, [SkippingNext]_vars
  PROVE  Skipped'
<1> USE SizeAssumption, OptionAssumption DEF SizeAssumption, OptionAssumption
<1>0. /\ \A q \in SeekTargets : q \in Nat /\ SectorOf(q) \in Int /\ q - SectorSize < SectorOf(q)
      /\ SectorSize <= BackSize /\ BackSize \in Int
  BY SectorBegins DEF BackSize
<1> USE DEF RaceInv, TypeOK, FlushState, ForwardInv, Window, Ring, Skipped,
            Flushing, Seeking, Moving, BackInBuffer, shared, window, controls, reader, filler,
            source
<1>1. CASE Prefilled
  BY <1>1 DEF Prefilled
<1>2. CASE Uninit
  BY <1>2 DEF Uninit
<1>3. CASE FillBuffer
  BY <1>3 DEF FillBuffer
<1>4. CASE Complete
  BY <1>4 DEF Complete
<1>5. CASE Check \/ CheckLower
  <2>1. CASE Check
    BY <2>1 DEF Check
  <2>2. CASE CheckLower
    BY <2>2 DEF CheckLower, Reader
  <2> QED
    BY <1>5, <2>1, <2>2
<1>6. CASE Outside \/ ReadInterrupted
  <2>1. CASE Outside
    BY <2>1 DEF Outside
  <2>2. CASE ReadInterrupted
    BY <2>2 DEF ReadInterrupted
  <2> QED
    BY <1>6, <2>1, <2>2
<1>7. CASE NewBytes
  BY <1>7 DEF NewBytes
<1>8. CASE Locate
  BY <1>8 DEF Locate
<1>9. CASE Copy
  BY <1>9 DEF Copy
<1>10. CASE Crash
  BY <1>10 DEF Crash, Reader
<1>11. CASE Advance
  <2>1. /\ ~Seeking /\ ~Seeking' /\ read_filepos <= read_filepos' /\ read_filepos' <= max_filepos'
        /\ UNCHANGED <<min_filepos, read>>
    BY <1>11 DEF Advance, Reader
  <2>2. /\ Ahead(min_filepos', read_filepos')
        /\ fpc = "space" => Ahead(read' - BackInBuffer', read_filepos')
    BY <1>0, <1>11, <2>1, AheadOf DEF Advance, Greater, Lesser
  <2> QED
    BY <1>11, <2>1, <2>2 DEF Advance
<1>12. CASE Done
  BY <1>12 DEF Done
<1>13. ASSUME seof = 0, NEW p \in SeekTargets, p >= spos, SeekPos(p) PROVE Skipped'
  <2>1. /\ read_filepos' = SectorOf(p) /\ read_filepos' \in Nat
        /\ Ahead(read_filepos', read_filepos')
    BY <1>13, SeekAhead
  <2>2. p >= read_filepos /\ rpc = "idle" /\ rpc' = "seekeof" /\ ~Seeking
    BY <1>13 DEF SeekPos, Reader
  <2>3. UNCHANGED <<min_filepos, filler, max_filepos, eof>>
    BY <1>13 DEF SeekPos
  <2>4. min_filepos <= read_filepos' /\ (fpc = "space" => read - BackInBuffer <= read_filepos')
    BY <2>1, <2>2 DEF Ahead
  <2>5. Ahead(min_filepos', read_filepos')
    BY <2>1, <2>3, <2>4, AheadOf
  <2>6. ASSUME fpc = "space" PROVE Ahead(read' - BackInBuffer', read_filepos')
    <3>1. read - BackInBuffer \in Int /\ read' - BackInBuffer' = read - BackInBuffer
      BY <1>0, <2>3 DEF Greater, Lesser
    <3> HIDE DEF BackInBuffer, RaceInv, ForwardInv, Skipped
    <3>2. read - BackInBuffer <= read_filepos' /\ read_filepos' \in Int
      BY <2>1, <2>4, <2>6
    <3>3. Ahead(read - BackInBuffer, read_filepos')
      BY <2>1, <3>1, <3>2, AheadOf
    <3> QED
      BY <3>1, <3>3
  <2> QED
    BY <1>13, <2>1, <2>2, <2>3, <2>5, <2>6 DEF SeekPos
<1>14. CASE SeekEof
  BY <1>14 DEF SeekEof
<1>15. CASE Sample
  <2>1. ASSUME fpc' = "space" PROVE Ahead(read' - BackInBuffer', read_filepos')
    <3>1. /\ read' = read_filepos /\ read_filepos' = read_filepos /\ min_filepos <= read'
          /\ min_filepos' = min_filepos /\ Ahead(min_filepos, read_filepos)
      BY <1>15, <2>1 DEF Sample
    <3>2. CASE read' - min_filepos <= BackSize
      <4>1. read' - BackInBuffer' = min_filepos
        BY <1>0, <3>1, <3>2 DEF Greater, Lesser
      <4> QED
        BY <3>1, <4>1
    <3>3. CASE read' - min_filepos > BackSize
      <4>1. BackInBuffer' = BackSize
        BY <1>0, <3>1, <3>3 DEF Greater, Lesser
      <4>2. ASSUME NEW q \in SeekTargets, q >= read' PROVE read' - BackSize <= SectorOf(q)
        <5>1. read' \in Int /\ q \in Nat /\ SectorSize \in Nat
          BY <1>0, <3>1
        <5> HIDE DEF RaceInv, ForwardInv, Skipped
        <5>2. q - SectorSize < SectorOf(q) /\ SectorOf(q) \in Int /\ BackSize \in Int
          BY <1>0
        <5> QED
          BY <1>0, <4>2, <5>1, <5>2
      <4> QED
        BY <3>1, <4>1, <4>2 DEF Ahead
    <3> QED
      BY <1>0, <3>1, <3>2, <3>3
  <2>2. fpc' = "flush" => read_filepos > max_filepos
    BY <1>15 DEF Sample
  <2> QED
    BY <1>15, <2>1, <2>2 DEF Sample, Reader
<1>16. CASE FlushLoad
  BY <1>16 DEF FlushLoad
<1>17. CASE FlushMax
  BY <1>17 DEF FlushMax
<1>18. CASE FlushMin
  BY <1>18 DEF FlushMin
<1>19. CASE FlushOffset
  BY <1>19 DEF FlushOffset
<1>20. CASE StreamSeek
  BY <1>0, <1>20 DEF StreamSeek, Greater, Lesser
<1>21. CASE NoFill
  BY <1>21 DEF NoFill
<1>22. CASE StartFill
  <2>1. /\ min_filepos' = min_filepos \/ min_filepos' <= read - BackInBuffer
        /\ min_filepos' \in Int
    BY <1>22, FillFits
  <2>2. UNCHANGED read_filepos /\ fpc = "space" /\ BackInBuffer \in Int
    BY <1>0, <1>22 DEF StartFill, Greater, Lesser
  <2>3. Ahead(min_filepos', read_filepos')
    <3>1. Ahead(min_filepos, read_filepos) /\ Ahead(read - BackInBuffer, read_filepos)
      BY <2>2
    <3> HIDE DEF BackInBuffer
    <3>2. CASE min_filepos' = min_filepos
      BY <2>2, <3>1, <3>2
    <3>3. CASE min_filepos' <= read - BackInBuffer
      BY <2>1, <2>2, <3>1, <3>3, AheadOf
    <3> QED
      BY <2>1, <3>2, <3>3
  <2> QED
    BY <1>22, <2>3 DEF StartFill
<1>23. ASSUME NEW n \in 0 .. space, Land(n) PROVE Skipped'
  BY <1>23 DEF Land
<1>24. CASE LandFails \/ StoreEof
  BY <1>24 DEF LandFails, StoreEof
<1>25. CASE StoreMax
  BY <1>25 DEF StoreMax, BlockState
<1>26. CASE StoreOffset
  BY <1>26 DEF StoreOffset
<1>27. CASE NoControl \/ Obey \/ Refuse \/ Answered
  <2>1. UNCHANGED <<min_filepos, read, read_filepos>>
    BY <1>27 DEF NoControl, Obey, Refuse, Answered
  <2> HIDE DEF RaceInv, FlushState, ForwardInv, Window, Ring, BackInBuffer
  <2>2. CASE NoControl
    BY <2>1, <2>2 DEF NoControl
  <2>3. CASE Obey
    BY <2>1, <2>3 DEF Obey
  <2>4. CASE Refuse
    BY <2>1, <2>4 DEF Refuse
  <2>5. CASE Answered
    BY <2>1, <2>5 DEF Answered
  <2> QED
    BY <1>27, <2>2, <2>3, <2>4, <2>5
<1>28. CASE UNCHANGED vars
  BY <1>28 DEF vars
<1> QED
  BY <1>1, <1>2, <1>3, <1>4, <1>5, <1>6, <1>7, <1>8, <1>9, <1>10, <1>11, <1>12, <1>13, <1>14,
     <1>15, <1>16, <1>17, <1>18, <1>19, <1>20, <1>21, <1>22, <1>23, <1>24, <1>25, <1>26, <1>27,
     <1>28
     DEF SkippingNext, SequentialNext, SkipAhead, CacheRead, CacheFill, Flush, Filling,
         Terminated

-----------------------------------------------------------------------------
(* Together: what holds for each of the three players. *)

ForwardPlayer ==
    \/ SequentialSpec
    \/ ControllingSpec
    \/ Seekable /\ SkippingSpec

LEMMA PlayersStep ==
  /\ [SequentialNext]_vars => [SequentialNext \/ ControllingNext]_vars
  /\ [ControllingNext]_vars => [SequentialNext \/ ControllingNext]_vars
  /\ [SequentialNext \/ ControllingNext]_vars => [Next]_vars
  /\ [SkippingNext]_vars => [Next]_vars
  BY DEF SequentialNext, ControllingNext, SkippingNext, SkipAhead, Next, Filling, ExecuteControl

LEMMA ReadingForward ==
  ASSUME RaceInv, RaceInv', ForwardInv, Posted, Posted', [SequentialNext \/ ControllingNext]_vars
  PROVE  ForwardInv'
<1>1. Quiet /\ Quiet'
  BY PostedIsQuiet DEF Posted, Quiet, Seeking, Moving, Flushing
<1>2. CASE UNCHANGED vars
  BY <1>2 DEF vars, shared, controls, reader, filler, source, ForwardInv, Window, Ring, Reader, Cell,
              Wrapped, SectorFaithful, Flushing, Seeking, Moving, BackInBuffer
<1>3. CASE \/ Prefilled \/ Uninit \/ FillBuffer \/ CacheRead \/ ReadInterrupted
           \/ (\E c \in Commands : DoControl(c)) \/ ControlDone
  BY <1>1, <1>3, PlayerForward
<1>4. CASE CacheFill \/ ExecuteControl
  BY <1>1, <1>4, FillerForward
<1> QED
  BY <1>2, <1>3, <1>4 DEF SequentialNext, ControllingNext, Filling, ExecuteControl, Terminated

LEMMA SkippingForward ==
  ASSUME RaceInv, RaceInv', ForwardInv, Seekable, Skipped, Skipped', [SkippingNext]_vars
  PROVE  ForwardInv'
<1>1. Quiet /\ Quiet'
  BY DEF Skipped, Quiet, Seeking, Moving, Flushing
<1>2. CASE UNCHANGED vars
  BY <1>2 DEF vars, shared, controls, reader, filler, source, ForwardInv, Window, Ring, Reader, Cell,
              Wrapped, SectorFaithful, Flushing, Seeking, Moving, BackInBuffer
<1>3. CASE Prefilled \/ Uninit \/ FillBuffer \/ CacheRead \/ ReadInterrupted \/ SeekEof
  BY <1>1, <1>3, PlayerForward
<1>4. CASE CacheFill \/ ExecuteControl
  BY <1>1, <1>4, FillerForward
<1>5. ASSUME seof = 0, NEW p \in SeekTargets, p >= spos, SeekPos(p) PROVE ForwardInv'
  <2>1. read_filepos' = SectorOf(p) /\ p >= read_filepos
    BY <1>5, SeekAhead DEF SeekPos, ForwardInv, Reader
  <2>2. min_filepos <= read_filepos' /\ (fpc = "space" => read - BackInBuffer <= read_filepos')
    BY <2>1 DEF Skipped, Ahead
  <2>3. ~Seeking
    BY <1>5 DEF SeekPos, Skipped
  <2> QED
    BY <1>1, <1>5, <2>2, <2>3, SeekForward
<1> QED
  BY <1>2, <1>3, <1>4, <1>5
     DEF SkippingNext, SequentialNext, SkipAhead, Filling, ExecuteControl, Terminated

LEMMA ForwardHolds == ForwardPlayer => [](RaceInv /\ ForwardInv /\ Quiet)
<1>1. Init => RaceInv /\ ForwardInv /\ Posted
  BY RaceInvInit, ForwardInvInit, PostedInit
<1>2. RaceInv /\ ForwardInv /\ Posted /\ [SequentialNext \/ ControllingNext]_vars
      => (RaceInv /\ ForwardInv /\ Posted)'
  BY PlayersStep, RaceInvStep, PostedStep, ReadingForward
<1>3. SequentialSpec \/ ControllingSpec => [](RaceInv /\ ForwardInv /\ Quiet)
  BY <1>1, <1>2, PlayersStep, PostedIsQuiet, PTL DEF SequentialSpec, ControllingSpec
<1>4. ASSUME Seekable PROVE SkippingSpec => [](RaceInv /\ ForwardInv /\ Quiet)
  <2>1. Init => RaceInv /\ ForwardInv /\ Skipped
    BY RaceInvInit, ForwardInvInit, SkippedInit
  <2>2. RaceInv /\ ForwardInv /\ Skipped /\ [SkippingNext]_vars
        => (RaceInv /\ ForwardInv /\ Skipped)'
    BY <1>4, PlayersStep, RaceInvStep, SkippedStep, SkippingForward
  <2>3. Skipped => Quiet
    BY <1>4, SkippedIsQuiet
  <2> QED
    BY <2>1, <2>2, <2>3, PTL DEF SkippingSpec
<1>5. Seekable => (SkippingSpec => [](RaceInv /\ ForwardInv /\ Quiet))
  BY <1>4
<1> QED
  BY <1>3, <1>5, PTL DEF ForwardPlayer

\* cache_read hands the player exactly the bytes of the file, in order, for every buffer,
\* chunk and file size, every short read, and every interleaving of the two processes.
THEOREM CacheSectorFaithful == ForwardPlayer => []SectorFaithful
<1>1. ForwardInv => SectorFaithful
  BY DEF ForwardInv
<1> QED
  BY <1>1, ForwardHolds, PTL

\* The ring holds the file from min_filepos to max_filepos at every moment, but between two
\* stores of cache_flush.
THEOREM CacheWindowHoldsFile == ForwardPlayer => []WindowHoldsFile
<1>1. ASSUME RaceInv, ForwardInv PROVE WindowHoldsFile
  <2>1. ASSUME fpc \notin {"flushmin", "killed"}, NEW p \in Greater(min_filepos, 0) .. max_filepos - 1
        PROVE  Cell(p) \in Cells \ WriteCells /\ buffer[Cell(p)] = p
    <3>1. p \in min_filepos .. max_filepos - 1
      BY <1>1 DEF RaceInv, TypeOK, Greater
    <3>2. Cell(p) \in Cells /\ buffer[Cell(p)] = p
      BY <1>1, <2>1, <3>1 DEF ForwardInv, Ring
    <3>3. CASE fpc = "reading"
      BY <1>1, <3>1, <3>2, <3>3, BlockOutsideWindow DEF ForwardInv
    <3>4. CASE fpc # "reading"
      BY <3>2, <3>4 DEF WriteCells
    <3> QED
      BY <3>3, <3>4
  <2> QED
    BY <2>1 DEF WindowHoldsFile
<1> QED
  BY <1>1, ForwardHolds, PTL

\* memcpy stays inside the ring, and off the cells that read() may be storing to.
THEOREM CacheCopySafe == ForwardPlayer => [](CopyInside /\ NoDataRace)
<1>1. ASSUME RaceInv, ForwardInv, Quiet PROVE CopyInside
  BY <1>1, CopyInWindow DEF CopyInside
<1>2. ASSUME RaceInv, ForwardInv, Quiet PROVE NoDataRace
  <2>1. ASSUME NEW c \in CopyCells, c \in WriteCells PROVE FALSE
    <3>1. rpc = "copy" /\ fpc = "reading" /\ c \in Cells /\ c >= rpos /\ c < rpos + newb
      BY <2>1 DEF CopyCells, WriteCells
    <3>2. /\ rpos \in Cells /\ newb \in Nat /\ rpos = Cell(read_filepos)
          /\ min_filepos <= read_filepos /\ read_filepos + newb <= max_filepos
      BY <1>2, <3>1, CopyInWindow
    <3> DEFINE p == read_filepos + (c - rpos)
    <3>3. p \in min_filepos .. max_filepos - 1
      BY <1>2, <3>1, <3>2, SizeAssumption DEF SizeAssumption, RaceInv, TypeOK, Cells
    <3>4. Cell(p) = c
      BY <1>2, <3>1, <3>2, SizeAssumption
         DEF SizeAssumption, RaceInv, TypeOK, Cell, Wrapped, Cells
    <3> HIDE DEF p
    <3> QED
      BY <1>2, <2>1, <3>1, <3>3, <3>4, BlockOutsideWindow DEF ForwardInv
  <2> QED
    BY <2>1 DEF NoDataRace
<1> QED
  BY <1>1, <1>2, ForwardHolds, PTL

\* The position of the player's stream_t is the one the cache reads at, whenever
\* cache_stream_fill_buffer is entered: after every read, seek and control.
THEOREM CachePositionsAgree == ForwardPlayer => []PositionsAgree
<1>1. ForwardInv => PositionsAgree
  BY DEF ForwardInv, Reader, PositionsAgree
<1> QED
  BY <1>1, ForwardHolds, PTL

\* While cache_do_control waits, the argument is the one it was called with, or the answer.
OwnAnswer == rpc = "wait" => control_arg = cmd

\* A control that succeeded returns its own answer, unless a wait was interrupted before: only
\* then is an old command still posted, or being obeyed, when the next one is stored.
THEOREM CacheAnswersMatch == ControllingSpec => AnswersMatch
<1>1. Init => RaceInv /\ ForwardInv /\ Posted /\ OwnAnswer
  BY RaceInvInit, ForwardInvInit, PostedInit DEF Init, OwnAnswer
<1>2. RaceInv /\ ForwardInv /\ Posted /\ [ControllingNext]_vars => (RaceInv /\ ForwardInv /\ Posted)'
  BY PlayersStep, RaceInvStep, PostedStep, ReadingForward
<1>3. ASSUME RaceInv, Posted, OwnAnswer, [ControllingNext]_vars PROVE OwnAnswer'
  <2> USE DEF OwnAnswer
  <2>1. CASE UNCHANGED <<rpc, controls, cmd>>
    BY <1>3, <2>1 DEF controls
  <2>2. CASE \/ Prefilled \/ Uninit \/ FillBuffer \/ CacheRead \/ ControlDone
             \/ (\E c \in Commands : DoControl(c))
    BY <1>3, <2>2 DEF Prefilled, Uninit, FillBuffer, CacheRead, Complete, Check, CheckLower, Outside,
                NewBytes,
                Locate, Copy, Crash, Advance, Done, ControlDone, DoControl
  <2>3. CASE CacheFill \/ NoControl \/ Obey \/ Refuse \/ MoveRead \/ MoveEof \/ Answered
    BY <1>3, <2>3 DEF CacheFill, Sample, Flush, FlushLoad, FlushMax, FlushMin, FlushOffset, StreamSeek,
                NoFill, StartFill, Land, LandFails, StoreEof, StoreMax, StoreOffset, NoControl, Obey,
                Refuse, MoveRead, MoveEof, Answered, controls, reader
  <2>4. CASE Answer \/ (\E p \in SeekTargets : Move(p))
    BY <1>3, <2>4 DEF Answer, Move, Posted, Commands, reader
  <2> QED
    BY <1>3, <2>1, <2>2, <2>3, <2>4
       DEF ControllingNext, ExecuteControl, Terminated, vars, controls, reader
<1>4. ASSUME OwnAnswer, [ControllingNext]_vars
      PROVE  [ControlDone /\ control_res = "ok" => control_arg = cmd]_vars
  BY <1>4 DEF OwnAnswer, ControlDone
<1> QED
  BY <1>1, <1>2, <1>3, <1>4, PTL DEF ControllingSpec, AnswersMatch

-----------------------------------------------------------------------------
(***************************************************************************)
(* The cache implements the stream: to each of the three players, the      *)
(* ring, the cache process and the steps of cache_read look like a         *)
(* ByteStream.                                                             *)
(***************************************************************************)

\* Nothing beyond the end of the file is ever in the window, on its way there, or read.
InsideFile ==
    /\ read_filepos >= 0 /\ ppos >= 0
    /\ fpc \notin {"flushmin", "killed"} /\ min_filepos < max_filepos => max_filepos <= FileLen
    /\ fpc \in {"eof", "max"} /\ len > 0 => ppos <= FileLen
    /\ rpc \in {"locate", "copy", "advance"} => read_filepos + newb <= FileLen
    /\ rpc \in Reading /\ sbuf # <<>> => spos + Len(sbuf) <= FileLen

\* cache_read was asked for a sector; it has sbuf, and size bytes are missing.
SectorAtMost ==
    /\ rpc \in Reading => size >= 0
    /\ rpc \in Reading \ {"advance"} => Len(sbuf) + size = SectorSize
    /\ rpc = "advance" => Len(sbuf) + size = SectorSize + newb
    /\ rpc \in {"copy", "advance"} => newb <= size

LEMMA CacheStreamInit == Init => InsideFile /\ SectorAtMost
  BY OptionAssumption
     DEF OptionAssumption, Init, InsideFile, SectorAtMost, Reading

\* memcpy appends newb bytes.
LEMMA CopyLength ==
  ASSUME RaceInv, Copy
  PROVE  /\ newb \in Nat /\ sbuf \in Seq(Int) /\ Len(sbuf) \in Nat
         /\ Len(sbuf') = Len(sbuf) + newb
<1> DEFINE bytes == [i \in 1 .. newb |-> View(rpos + i - 1)]
<1>1. newb \in Nat /\ sbuf \in Seq(Int) /\ Len(sbuf) \in Nat
  BY DEF Copy, RaceInv, TypeOK
<1>2. bytes \in Seq(Int)
  BY <1>1 DEF View, Torn, Cells, RaceInv, TypeOK
<1>3. Len(bytes) = newb
  BY <1>1
<1>4. sbuf' = sbuf \o bytes
  BY DEF Copy
<1> HIDE DEF bytes
<1>5. Len(sbuf \o bytes) = Len(sbuf) + Len(bytes)
  BY <1>1, <1>2
<1> QED
  BY <1>1, <1>3, <1>4, <1>5

\* The cache process takes from the stream what the file has, and no more.
LEMMA InsideFileStep ==
  ASSUME RaceInv, RaceInv', ForwardInv, Quiet, InsideFile, [Next]_vars
  PROVE  InsideFile'
<1> USE SizeAssumption, OptionAssumption
        DEF SizeAssumption, OptionAssumption, RaceInv, TypeOK, InsideFile, Reading, shared,
            window, controls, reader, filler, source
<1>1. CASE Prefilled \/ FillBuffer
  BY <1>1 DEF Prefilled, FillBuffer
<1>2. CASE Uninit
  BY <1>2 DEF Uninit
<1>3. CASE SeekEof \/ ControlDone
  BY <1>3 DEF SeekEof, ControlDone
<1>4. CASE ReadInterrupted \/ ControlInterrupted
  BY <1>4 DEF ReadInterrupted, ControlInterrupted
<1>5. CASE Complete \/ Check \/ CheckLower \/ Outside \/ Crash \/ Done
  BY <1>5 DEF Complete, Check, CheckLower, Outside, Crash, Done
<1>6. CASE NewBytes
  <2>1. fpc \notin {"flushmin", "killed"} /\ min_filepos <= read_filepos /\ read_filepos < max_filepos
    BY <1>6 DEF NewBytes, ForwardInv, Window, Reader, Quiet, FlushState, Flushing, Seeking,
                Moving
  <2> QED
    BY <1>6, <2>1 DEF NewBytes
<1>7. CASE Locate
  <2>1. newb' \in Int /\ newb' <= newb
    BY <1>7 DEF Locate, Lesser, Wrapped
  <2> QED
    BY <1>7, <2>1 DEF Locate
<1>8. CASE Copy
  <2>1. spos' + Len(sbuf') <= FileLen
    BY <1>8, CopyLength DEF Copy, ForwardInv, Reader
  <2> QED
    BY <1>8, <2>1 DEF Copy
<1>9. CASE Advance
  BY <1>9 DEF Advance, ForwardInv, Reader
<1>10. ASSUME NEW p \in SeekTargets, SeekPos(p) PROVE InsideFile'
  <2>1. read_filepos' = SectorOf(p) /\ SectorOf(p) \in Nat
    BY <1>10, SectorBegins DEF SeekPos, SectorOf
  <2> QED
    BY <1>10, <2>1 DEF SeekPos
<1>11. ASSUME NEW c \in Commands, DoControl(c) PROVE InsideFile'
  BY <1>11 DEF DoControl
<1>12. CASE Sample \/ NoFill
  BY <1>12 DEF Sample, NoFill
<1>13. CASE FlushLoad \/ FlushMax
  BY <1>13 DEF FlushLoad, FlushMax
<1>14. CASE FlushMin
  BY <1>14 DEF FlushMin, FlushState
<1>15. CASE FlushOffset
  BY <1>15 DEF FlushOffset, FlushState
<1>16. CASE StreamSeek \/ StreamSeekFails
  BY <1>16 DEF StreamSeek, StreamSeekFails, SeekNeeded, ForwardInv, Window, Seeking
<1>17. CASE StartFill
  <2>1. min_filepos <= min_filepos' /\ min_filepos' \in Int
    BY <1>17, FillFits
  <2> QED
    BY <1>17, <2>1 DEF StartFill
<1>18. ASSUME NEW n \in 0 .. space, Land(n) PROVE InsideFile'
  <2>1. n \in Int /\ 0 <= n /\ (n > 0 => ppos + n <= FileLen)
    BY <1>18 DEF Land, Lesser, BlockState, ForwardInv, Ring
  <2> QED
    BY <1>18, <2>1 DEF Land
<1>19. CASE LandFails \/ StoreEof \/ StoreOffset
  <2>1. CASE LandFails
    BY <2>1 DEF LandFails
  <2>2. CASE StoreEof
    BY <2>2 DEF StoreEof
  <2>3. CASE StoreOffset
    BY <2>3 DEF StoreOffset
  <2> QED
    BY <1>19, <2>1, <2>2, <2>3
<1>20. CASE StoreMax
  BY <1>20 DEF StoreMax, ForwardInv, Ring, BlockState
<1>21. CASE NoControl \/ Obey \/ MoveEof
  BY <1>21 DEF NoControl, Obey, MoveEof
<1>22. CASE Refuse \/ Answer \/ Answered
  BY <1>22 DEF Refuse, Answer, Answered
<1>23. ASSUME NEW p \in SeekTargets, Move(p) PROVE InsideFile'
  BY <1>23 DEF Move
<1>24. CASE MoveRead
  BY <1>24 DEF MoveRead, Quiet, Moving
<1>25. CASE UNCHANGED vars
  BY <1>25 DEF vars
<1> QED
  BY <1>1, <1>2, <1>3, <1>4, <1>5, <1>6, <1>7, <1>8, <1>9, <1>10, <1>11, <1>12, <1>13, <1>14,
     <1>15, <1>16, <1>17, <1>18, <1>19, <1>20, <1>21, <1>22, <1>23, <1>24, <1>25
     DEF Next, CacheRead, CacheFill, Flush, ExecuteControl, Terminated

\* The cache process leaves the player's own state alone.
LEMMA FillerOnly == CacheFill \/ ExecuteControl => UNCHANGED reader
  BY DEF CacheFill, ExecuteControl, Sample, Flush, FlushLoad, FlushMax, FlushMin, FlushOffset,
         StreamSeek, NoFill, StartFill, Land, LandFails, StoreEof, StoreMax, StoreOffset,
         NoControl, Obey, Refuse, Answer, Move, MoveRead, MoveEof, Answered, controls

\* Every round of cache_read brings what it takes off the missing size.
LEMMA SectorAtMostStep ==
  ASSUME RaceInv, ForwardInv, SectorAtMost, [Next]_vars
  PROVE  SectorAtMost'
<1> USE SizeAssumption
        DEF SizeAssumption, RaceInv, TypeOK, SectorAtMost, Reading, reader
<1>1. CASE Prefilled \/ Uninit \/ ReadInterrupted
  BY <1>1 DEF Prefilled, Uninit, ReadInterrupted
<1>2. CASE FillBuffer \/ SeekEof
  BY <1>2 DEF FillBuffer, SeekEof
<1>3. CASE Complete \/ Check \/ CheckLower \/ Outside \/ NewBytes \/ Crash
  BY <1>3 DEF Complete, Check, CheckLower, Outside, NewBytes, Crash
<1>4. CASE Locate
  <2>1. newb' <= size
    BY <1>4 DEF Locate, Lesser, Wrapped, Cells, ForwardInv, Reader
  <2> QED
    BY <1>4, <2>1 DEF Locate
<1>5. CASE Copy
  BY <1>5, CopyLength DEF Copy
<1>6. CASE Advance
  BY <1>6 DEF Advance
<1>7. CASE Done
  BY <1>7 DEF Done
<1>8. CASE CacheFill \/ StreamSeekFails \/ ExecuteControl
  BY <1>8, FillerOnly DEF StreamSeekFails
<1>9. CASE (\E p \in SeekTargets : SeekPos(p)) \/ (\E c \in Commands : DoControl(c))
           \/ ControlDone \/ ControlInterrupted
  BY <1>9 DEF SeekPos, DoControl, ControlDone, ControlInterrupted
<1>10. CASE UNCHANGED vars
  BY <1>10 DEF vars
<1> QED
  BY <1>1, <1>2, <1>3, <1>4, <1>5, <1>6, <1>7, <1>8, <1>9, <1>10
     DEF Next, CacheRead, Terminated

-----------------------------------------------------------------------------
(* Steps of the cache are steps of the stream. *)

\* What cache_stream_fill_buffer brings is a sector of the file, or nothing.
LEMMA DoneDelivers ==
  ASSUME RaceInv, ForwardInv, InsideFile, SectorAtMost, Done
  PROVE  ByteStream!Deliver \/ ByteStream!Nothing
<1>1. /\ rpc = "done" /\ rpc' = "idle" /\ sbuf' = sbuf
      /\ spos' = spos + Len(sbuf)
  BY DEF Done
<1>2. /\ sbuf \in Seq(Int) /\ Len(sbuf) \in Nat /\ spos \in Int
      /\ \A i \in 1 .. Len(sbuf) : sbuf[i] = spos + i - 1
  BY <1>1 DEF RaceInv, TypeOK, ForwardInv, SectorFaithful
<1>3. Len(sbuf) <= SectorSize
  BY <1>1, <1>2, SizeAssumption
     DEF SizeAssumption, RaceInv, TypeOK, SectorAtMost, Reading
<1>4. CASE Len(sbuf) = 0
  <2>1. sbuf = <<>> /\ spos' = spos
    BY <1>1, <1>2, <1>4
  <2> QED
    BY <1>1, <2>1 DEF ByteStream!Nothing
<1>5. CASE Len(sbuf) > 0
  <2>1. spos' <= FileLen
    BY <1>1, <1>2, <1>5 DEF InsideFile, Reading
  <2>2. spos' \in spos + 1 .. spos + SectorSize
    BY <1>1, <1>2, <1>3, <1>5, SizeAssumption DEF SizeAssumption
  <2>3. spos' - spos = Len(sbuf)
    BY <1>1, <1>2
  <2>4. sbuf = [i \in 1 .. Len(sbuf) |-> spos + i - 1]
    BY <1>2
  <2> QED
    BY <1>1, <2>1, <2>2, <2>3, <2>4 DEF ByteStream!Deliver
<1> QED
  BY <1>2, <1>4, <1>5

LEMMA StreamStep ==
  ASSUME RaceInv, ForwardInv, InsideFile, SectorAtMost, [Next]_vars
  PROVE  [ByteStream!Next]_(ByteStream!vars)
<1> USE DEF ByteStream!vars, reader
<1>1. CASE Prefilled
  BY <1>1 DEF Prefilled
<1>2. CASE Uninit
  BY <1>2 DEF Uninit, ByteStream!Next, ByteStream!Close
<1>3. CASE FillBuffer
  BY <1>3 DEF FillBuffer, ByteStream!Next, ByteStream!Ask
<1>4. CASE ReadInterrupted \/ SeekEof
  BY <1>4 DEF ReadInterrupted, SeekEof
<1>5. CASE Complete \/ Check \/ CheckLower \/ Outside \/ NewBytes \/ Locate \/ Copy \/ Advance
  BY <1>5 DEF Complete, Check, CheckLower, Outside, NewBytes, Locate, Copy, Advance
<1>6. CASE Crash
  BY <1>6 DEF Crash, ForwardInv, Reader, RaceInv, TypeOK
<1>7. CASE Done
  BY <1>7, DoneDelivers DEF ByteStream!Next
<1>8. ASSUME NEW p \in SeekTargets, SeekPos(p) PROVE ByteStream!Seek
  <2>1. spos' \in Nat
    BY <1>8, SectorBegins, OptionAssumption DEF OptionAssumption, SeekPos, SectorOf
  <2> QED
    BY <1>8, <2>1 DEF SeekPos, ByteStream!Seek
<1>9. CASE (\E c \in Commands : DoControl(c)) \/ ControlInterrupted
  BY <1>9 DEF DoControl, ControlInterrupted
<1>10. CASE ControlDone
  <2>1. rpc = "wait" /\ rpc' = "idle" /\ UNCHANGED sbuf /\ (spos' \in Nat \/ UNCHANGED spos)
    BY <1>10 DEF ControlDone, InsideFile, RaceInv, TypeOK
  <2> QED
    BY <2>1 DEF ByteStream!Next, ByteStream!Moved
<1>11. CASE CacheFill \/ StreamSeekFails \/ ExecuteControl
  BY <1>11, FillerOnly DEF StreamSeekFails
<1>12. CASE UNCHANGED vars
  BY <1>12 DEF vars
<1> QED
  BY <1>1, <1>2, <1>3, <1>4, <1>5, <1>6, <1>7, <1>8, <1>9, <1>10, <1>11, <1>12
     DEF Next, CacheRead, Terminated, ByteStream!Next

\* To each of the three players the cache is the stream: each byte of the file once, in order, a
\* sector at most a call, from where the last seek or control left it, however the filler and
\* cache_read interleave and however short read() is.
THEOREM CacheImplementsStream == ForwardPlayer => StreamRefinement
<1>1. Init => ByteStream!Init
  BY DEF Init, ByteStream!Init
<1>2. Init => InsideFile /\ SectorAtMost
  BY CacheStreamInit
<1> DEFINE Step == [SequentialNext \/ ControllingNext \/ SkippingNext]_vars
<1>3. Step => [Next]_vars
  BY DEF SequentialNext, ControllingNext, SkippingNext, SkipAhead, Next, Filling, ExecuteControl
<1>4. /\ RaceInv /\ RaceInv' /\ ForwardInv /\ Quiet /\ InsideFile /\ SectorAtMost /\ Step
      => InsideFile' /\ SectorAtMost'
  BY <1>3, InsideFileStep, SectorAtMostStep
<1>5. RaceInv /\ ForwardInv /\ InsideFile /\ SectorAtMost /\ Step
      => [ByteStream!Next]_(ByteStream!vars)
  BY <1>3, StreamStep
<1>6. ForwardPlayer => Init /\ [][SequentialNext \/ ControllingNext \/ SkippingNext]_vars
  BY PTL DEF ForwardPlayer, SequentialSpec, ControllingSpec, SkippingSpec
<1> QED
  BY <1>1, <1>2, <1>4, <1>5, <1>6, ForwardHolds, PTL
     DEF StreamRefinement, ByteStream!Spec


-----------------------------------------------------------------------------
(* The stream without its cache.                                           *)


Shapes ==
  /\ at \in Nat /\ pos \in Nat /\ at_eof \in BOOLEAN
  /\ sbuffer \in [0..Size - 1 -> Int] /\ sbuf_pos \in 0..sbuf_len /\ sbuf_len \in 0..Size
  /\ pc \in {"idle", "read", "skip", "line", "forward", "place"}
  /\ fill \in {"no", "more", "some", "eof"}
  /\ op \in [name : {"none", "read", "skip", "line", "seek"}, left : Nat, target : Nat]
  /\ from \in Int /\ out \in Seq(Int) /\ result \in 0..1
  /\ spoilt \in BOOLEAN /\ faults \in Nat

\* A call is in its own part of the code, and finds nothing to deliver at the end; while the buffer
\* is filled nothing of it is taken.
CallTrue ==
  /\ pc \in {"read", "skip", "line"} => op.name = pc
  /\ pc \in {"forward", "place"} => op.name = "seek"
  /\ fill = "eof" /\ pc \in {"read", "skip", "line"} => Held = 0
  /\ fill = "more" => sbuf_pos = 0 /\ sbuf_len > 0
  /\ pc = "idle" => fill = "no"
  /\ fill \in {"more", "some"} => ~at_eof

\* The buffer holds what is in front of the position, where the source is too.
BufferTrue == ~spoilt => at = pos /\ \A i \in 0..sbuf_len - 1 : sbuffer[i] = pos - sbuf_len + i

\* What was delivered goes from where the call began to where the stream now is.
OutTrue ==
  /\ ~spoilt => \A i \in 1..Len(out) : out[i] = from + i - 1
  /\ ~spoilt /\ (pc = "read" \/ (pc = "line" /\ op.left > 0)) => stream_tell = from + Len(out)

\* One failed read ends no call but a seek, which leaves a stale eof; it takes a second one for
\* that eof to end a read.
EndTrue ==
  ~spoilt =>
    /\ at_eof /\ at < PlainLen /\ (pc \notin {"forward", "place"} \/ fill = "eof") => faults >= 1
    /\ fill = "eof" /\ pc \in {"read", "skip", "line"} /\ at < PlainLen => faults >= 2
    /\ pc = "idle" /\ op.name = "read" /\ result = 0 /\ faults <= 1 => from + Len(out) >= PlainLen

\* What is left of a seek leads from the buffer, and while it is refilled from the position, to the
\* target.
SeekTrue ==
  kind.seeks /\ ~spoilt =>
    /\ pc = "forward" \/ (pc = "place" /\ fill = "no") => pos + op.left = op.target
    /\ pc = "forward" => fill = "no"
    /\ pc = "place" /\ fill \in {"more", "some"} => pos - sbuf_len + op.left = op.target
    /\ pc = "idle" /\ op.name = "seek" /\ result = 1 => stream_tell = op.target

StreamInv == Shapes /\ CallTrue /\ BufferTrue /\ OutTrue /\ EndTrue /\ SeekTrue

LEMMA StreamInvInit == StreamInit => StreamInv
<1> SUFFICES ASSUME StreamInit PROVE StreamInv
  OBVIOUS
<1>1. sbuffer \in [0..Size - 1 -> Int]
  BY DEF StreamInit
<1>2. out = <<>> /\ out \in Seq(Int) /\ Len(out) = 0
  BY DEF StreamInit
<1>3. Size \in Nat
  BY StreamAssumption DEF Size
<1>4. /\ op.name = "none" /\ op.left = 0 /\ op.target = 0
      /\ op \in [name : {"none", "read", "skip", "line", "seek"}, left : Nat, target : Nat]
  BY DEF StreamInit
<1>5. Shapes
  <2>1. at_eof \in BOOLEAN /\ spoilt \in BOOLEAN
    BY DEF StreamInit
  <2>2. sbuf_pos \in 0..sbuf_len /\ sbuf_len \in 0..Size
    BY <1>3 DEF StreamInit
  <2>3. pc = "idle" /\ fill = "no" /\ at = 0 /\ pos = 0 /\ from = 0 /\ result = 1 /\ faults = 0
    BY DEF StreamInit
  <2> QED
    BY <1>1, <1>2, <1>4, <2>1, <2>2, <2>3 DEF Shapes
<1>6. CallTrue /\ BufferTrue
  BY <1>4 DEF StreamInit, CallTrue, BufferTrue
<1>7. OutTrue
  BY <1>2 DEF StreamInit, OutTrue
<1>8. EndTrue /\ SeekTrue
  BY <1>2, <1>4 DEF StreamInit, EndTrue, SeekTrue
<1> QED
  BY <1>5, <1>6, <1>7, <1>8 DEF StreamInv

\* What a read brings, and what it costs where it does not.
LEMMA ReadBrings ==
  ASSUME StreamInv, NEW n, NEW first \in 0..Size, NEW again \in BOOLEAN,
         stream_read_internal(first, n, again)
  PROVE  /\ n \in Nat /\ first + n <= Size
         /\ at' \in Nat /\ pos' = pos + n /\ faults' \in Nat /\ faults <= faults'
         /\ sbuffer' \in [0..Size - 1 -> Int]
         /\ \A i \in 0..first - 1 : sbuffer'[i] = sbuffer[i]
         /\ ~spoilt => at' = pos' /\ \A i \in 0..n - 1 : sbuffer'[first + i] = pos + i
         /\ n = 0 => at' = at /\ sbuffer' = sbuffer
         /\ n = 0 /\ ~spoilt /\ at < PlainLen =>
              faults' >= faults + 1 /\ (faults' >= faults + 2 \/ at_eof)
<1> USE StreamAssumption DEF StreamInv, Shapes, BufferTrue
<1>0. Size \in Nat
  BY DEF Size
<1>1. Cost(at) \in {0, 1} /\ Cost(Reconnected) \in {0, 1} /\ Reconnected \in Nat
      /\ (~spoilt => Reconnected = at)
  BY DEF Cost, Reconnected
<1>2. ASSUME NEW where \in Nat, Got(n, first, where), ~spoilt => where = at,
             faults' = faults \/ faults' = faults + Cost(at)
      PROVE  /\ n \in Nat /\ n # 0 /\ first + n <= Size
             /\ at' \in Nat /\ pos' = pos + n /\ faults' \in Nat /\ faults <= faults'
             /\ sbuffer' \in [0..Size - 1 -> Int]
             /\ \A i \in 0..first - 1 : sbuffer'[i] = sbuffer[i]
             /\ ~spoilt => at' = pos' /\ \A i \in 0..n - 1 : sbuffer'[first + i] = pos + i
  <2>1. n \in Nat /\ n # 0 /\ first + n <= Size /\ at' = where + n /\ pos' = pos + n
    BY <1>0, <1>2 DEF Got, LesserOf
  <2>2. sbuffer' = [i \in 0..Size - 1 |->
                     IF first <= i /\ i < first + n THEN where + i - first ELSE sbuffer[i]]
    BY <1>2 DEF Got
  <2>3. sbuffer' \in [0..Size - 1 -> Int]
    BY <2>1, <2>2
  <2>4. \A i \in 0..first - 1 : sbuffer'[i] = sbuffer[i]
    BY <1>0, <2>1, <2>2
  <2>5. ~spoilt => \A i \in 0..n - 1 : sbuffer'[first + i] = pos + i
    BY <1>0, <1>2, <2>1, <2>2
  <2>6. at' \in Nat /\ (~spoilt => at' = pos')
    BY <1>2, <2>1
  <2>7. faults' \in Nat /\ faults <= faults'
    BY <1>1, <1>2
  <2> QED
    BY <2>1, <2>3, <2>4, <2>5, <2>6, <2>7
<1>3. ASSUME n = 0, GotNone, faults' = faults + Cost(at), ProperEnd
      PROVE  /\ faults' \in Nat /\ faults <= faults'
             /\ ~spoilt /\ at < PlainLen => faults' >= faults + 1 /\ at_eof
  BY <1>3 DEF Cost, ProperEnd
<1>4. ASSUME n = 0, GotNone, faults' = faults + Cost(at) + Cost(Reconnected)
      PROVE  /\ faults' \in Nat /\ faults <= faults'
             /\ ~spoilt /\ at < PlainLen => faults' >= faults + 2
  BY <1>1, <1>4 DEF Cost
<1>5. CASE \E where \in {at, Reconnected} :
              Got(n, first, where) /\ (faults' = faults \/ faults' = faults + Cost(at))
  BY <1>1, <1>2, <1>5
<1>6. CASE n = 0 /\ GotNone /\ faults' = faults + Cost(at) /\ ProperEnd
  BY <1>0, <1>3, <1>6 DEF GotNone
<1>7. CASE n = 0 /\ GotNone /\ faults' = faults + Cost(at) + Cost(Reconnected)
  BY <1>0, <1>4, <1>7 DEF GotNone
<1> QED
  BY <1>5, <1>6, <1>7 DEF stream_read_internal

\* stream_fill_buffer begins: what it brings is the whole buffer.
LEMMA FillFirstStep ==
  ASSUME StreamInv, FillFirst
  PROVE  StreamInv'
<1> USE StreamAssumption DEF Held, stream_tell
<1>1. PICK n \in 0..Size, again \in BOOLEAN :
         /\ stream_read_internal(0, n, again) /\ at_eof' = (n = 0)
         /\ IF n > 0 THEN sbuf_pos' = 0 /\ sbuf_len' = n
            ELSE IF again THEN sbuf_pos' = 0 /\ sbuf_len' = 0 ELSE UNCHANGED <<sbuf_pos, sbuf_len>>
         /\ fill' = IF n > 0 /\ n < StreamMin THEN "more" ELSE Returned(n)
  BY DEF FillFirst
<1>2. /\ NeedsFill /\ fill = "no"
      /\ UNCHANGED <<kind, pc, op, from, out, result, spoilt>>
  BY DEF FillFirst, call
<1>3. Size \in Nat /\ 0 \in 0..Size
  BY DEF Size
<1>4. /\ n \in Nat /\ n <= Size
      /\ at' \in Nat /\ pos' = pos + n /\ faults' \in Nat /\ faults <= faults'
      /\ sbuffer' \in [0..Size - 1 -> Int]
      /\ ~spoilt => at' = pos' /\ \A i \in 0..n - 1 : sbuffer'[i] = pos + i
      /\ n = 0 => at' = at /\ sbuffer' = sbuffer
      /\ n = 0 /\ ~spoilt /\ at < PlainLen =>
           faults' >= faults + 1 /\ (faults' >= faults + 2 \/ at_eof)
  <2>1. /\ n \in Nat /\ 0 + n <= Size
        /\ at' \in Nat /\ pos' = pos + n /\ faults' \in Nat /\ faults <= faults'
        /\ sbuffer' \in [0..Size - 1 -> Int]
    BY <1>1, <1>3, ReadBrings
  <2>2. ~spoilt => at' = pos' /\ \A i \in 0..n - 1 : sbuffer'[0 + i] = pos + i
    BY <1>1, <1>3, ReadBrings
  <2>3. n = 0 => at' = at /\ sbuffer' = sbuffer
    BY <1>1, <1>3, ReadBrings
  <2>4. n = 0 /\ ~spoilt /\ at < PlainLen =>
           faults' >= faults + 1 /\ (faults' >= faults + 2 \/ at_eof)
    BY <1>1, <1>3, ReadBrings
  <2>5. ASSUME ~spoilt, NEW i \in 0..n - 1 PROVE sbuffer'[i] = pos + i
    <3>1. 0 + i = i
      OBVIOUS
    <3> QED
      BY <2>2, <2>5, <3>1
  <2> QED
    BY <1>3, <2>1, <2>2, <2>3, <2>4, <2>5
<1>5. fill' \in {"more", "some", "eof"} /\ (fill' = "eof" <=> n = 0)
  BY <1>1, <1>4 DEF Returned
<1> USE DEF StreamInv
<1>6. Shapes'
  <2>1. at_eof' \in BOOLEAN /\ spoilt' \in BOOLEAN
    BY <1>1, <1>2 DEF Shapes
  <2>2. sbuf_pos' \in 0..sbuf_len' /\ sbuf_len' \in 0..Size
    BY <1>1, <1>3, <1>4 DEF Shapes
  <2>3. pos' \in Nat
    BY <1>4 DEF Shapes
  <2> QED
    BY <1>2, <1>4, <1>5, <2>1, <2>2, <2>3 DEF Shapes
<1>7. pc \in {"read", "skip", "line"} => sbuf_pos = sbuf_len
  BY <1>2 DEF NeedsFill, Shapes
<1>8. CallTrue'
  <2>1. pc # "idle"
    BY <1>2 DEF NeedsFill
  <2>2. n > 0 => sbuf_pos' = 0 /\ sbuf_len' > 0
    BY <1>1, <1>4
  <2>3. n = 0 /\ pc \in {"read", "skip", "line"} => sbuf_len' - sbuf_pos' = 0
    BY <1>1, <1>4, <1>7 DEF Shapes
  <2>4. fill' # "eof" => ~at_eof'
    BY <1>1, <1>4, <1>5
  <2> QED
    BY <1>2, <1>4, <1>5, <2>1, <2>2, <2>3, <2>4 DEF CallTrue
<1>9. BufferTrue'
  <2>1. CASE n > 0
    <3>1. sbuf_len' = n /\ pos' - sbuf_len' = pos /\ pos \in Nat
      BY <1>1, <1>4, <2>1 DEF Shapes
    <3> QED
      BY <1>2, <1>4, <3>1 DEF BufferTrue
  <2>2. CASE n = 0 /\ again
    <3>1. sbuf_len' = 0
      BY <1>1, <2>2
    <3> QED
      BY <1>2, <1>4, <3>1 DEF BufferTrue
  <2>3. CASE n = 0 /\ ~again
    <3>1. UNCHANGED <<sbuf_len, pos, at, sbuffer>>
      BY <1>1, <1>4, <2>3 DEF Shapes
    <3> QED
      BY <1>2, <3>1 DEF BufferTrue
  <2> QED
    BY <1>4, <2>1, <2>2, <2>3
<1>10. pc \in {"read", "skip", "line"} => stream_tell' = stream_tell
  <2>1. CASE n > 0
    <3>1. sbuf_len' = n /\ sbuf_pos' = 0 /\ pos' = pos + n
      BY <1>1, <1>4, <2>1
    <3> QED
      BY <1>4, <1>7, <3>1 DEF Shapes
  <2>2. CASE n = 0
    <3>1. /\ pos' = pos + 0
          /\ sbuf_pos' - sbuf_len' = 0 \/ UNCHANGED <<sbuf_pos, sbuf_len>>
      BY <1>1, <1>4, <2>2
    <3> QED
      BY <1>7, <3>1 DEF Shapes
  <2> QED
    BY <1>4, <2>1, <2>2
<1>11. OutTrue'
  BY <1>2, <1>10 DEF OutTrue
<1>12. EndTrue'
  <2>1. pc # "idle"
    BY <1>2 DEF NeedsFill
  <2>2. at_eof' = (n = 0)
    BY <1>1
  <2> QED
    BY <1>2, <1>4, <1>5, <2>1, <2>2 DEF EndTrue, Shapes
<1>13. SeekTrue'
  <2>1. kind.seeks /\ ~spoilt => pc # "forward" /\ pc # "idle"
    BY <1>2 DEF NeedsFill, SeekTrue, Shapes
  <2>2. n > 0 => pos' - sbuf_len' = pos
    BY <1>1, <1>4 DEF Shapes
  <2> QED
    BY <1>2, <1>4, <1>5, <2>1, <2>2 DEF SeekTrue, Shapes
<1> QED
  BY <1>6, <1>8, <1>9, <1>11, <1>12, <1>13

\* stream_fill_buffer reads on until there is enough.
LEMMA FillMoreStep ==
  ASSUME StreamInv, FillMore
  PROVE  StreamInv'
<1> USE StreamAssumption DEF Held, stream_tell
<1>1. PICK n \in 0..StreamMin, again \in BOOLEAN :
         /\ stream_read_internal(sbuf_len, n, again)
         /\ sbuf_len' = n + (IF again THEN 0 ELSE sbuf_len)
         /\ at_eof' = FALSE /\ sbuf_pos' = sbuf_pos /\ spoilt' = (spoilt \/ again)
         /\ fill' = IF n > 0 /\ sbuf_len' < StreamMin THEN "more" ELSE Returned(sbuf_len')
  BY DEF FillMore
<1>2. /\ fill = "more"
      /\ UNCHANGED <<kind, pc, op, from, out, result>>
  BY DEF FillMore, call
<1>3. Size \in Nat /\ sbuf_len \in 0..Size
  BY DEF Size, StreamInv, Shapes
<1>4. /\ n \in Nat /\ sbuf_len + n <= Size
      /\ at' \in Nat /\ pos' = pos + n /\ faults' \in Nat /\ faults <= faults'
      /\ sbuffer' \in [0..Size - 1 -> Int]
  BY <1>1, <1>3, ReadBrings
<1>5. /\ \A i \in 0..sbuf_len - 1 : sbuffer'[i] = sbuffer[i]
      /\ ~spoilt => at' = pos' /\ \A i \in 0..n - 1 : sbuffer'[sbuf_len + i] = pos + i
  BY <1>1, <1>3, ReadBrings
<1>6. n = 0 => at' = at
  BY <1>1, <1>3, ReadBrings
<1> USE DEF StreamInv
<1>7. ~spoilt' => ~spoilt /\ ~again /\ sbuf_len' = sbuf_len + n
  <2>1. ~spoilt' => ~spoilt /\ ~again
    BY <1>1
  <2>2. ~again => sbuf_len' = n + sbuf_len
    BY <1>1
  <2> QED
    BY <1>3, <1>4, <2>1, <2>2
<1>8. /\ fill' \in {"more", "some", "eof"} /\ (fill' = "eof" => sbuf_len' = 0)
      /\ fill' = "more" => n > 0
  BY <1>1 DEF Returned
<1>9. sbuf_pos' = 0 /\ sbuf_pos = 0 /\ sbuf_len > 0 /\ sbuf_len' \in 0..Size /\ pc # "idle"
  BY <1>1, <1>2, <1>3, <1>4 DEF CallTrue
<1>10. Shapes'
  <2>1. at_eof' \in BOOLEAN /\ spoilt' \in BOOLEAN
    BY <1>1 DEF Shapes
  <2>2. pos' \in Nat
    BY <1>4 DEF Shapes
  <2> QED
    BY <1>2, <1>3, <1>4, <1>8, <1>9, <2>1, <2>2 DEF Shapes
<1>11. CallTrue'
  <2>1. n > 0 => sbuf_len' > 0
    BY <1>1, <1>3, <1>4
  <2> QED
    BY <1>1, <1>2, <1>8, <1>9, <2>1 DEF CallTrue
<1>12. BufferTrue'
  <2> SUFFICES ASSUME ~spoilt' PROVE BufferTrue'
    BY DEF BufferTrue
  <2>1. /\ at' = pos' /\ at = pos /\ sbuf_len' = sbuf_len + n /\ pos' - sbuf_len' = pos - sbuf_len
        /\ pos \in Nat /\ sbuf_len \in Nat
    BY <1>3, <1>4, <1>5, <1>7 DEF BufferTrue, Shapes
  <2>2. ASSUME NEW i \in 0..sbuf_len' - 1 PROVE sbuffer'[i] = pos - sbuf_len + i
    <3>1. CASE i < sbuf_len
      BY <1>5, <1>7, <2>1, <3>1 DEF BufferTrue
    <3>2. CASE i >= sbuf_len
      <4>1. i - sbuf_len \in 0..n - 1 /\ sbuf_len + (i - sbuf_len) = i
        BY <1>4, <2>1, <3>2
      <4> QED
        BY <1>5, <1>7, <2>1, <4>1
    <3> QED
      BY <2>1, <3>1, <3>2
  <2> QED
    BY <2>1, <2>2 DEF BufferTrue
<1>13. ~spoilt' => pos' - sbuf_len' = pos - sbuf_len
  BY <1>3, <1>4, <1>7 DEF Shapes
<1>14. OutTrue'
  <2>1. ~spoilt' => stream_tell' = stream_tell
    BY <1>3, <1>4, <1>7, <1>9 DEF Shapes
  <2> QED
    BY <1>2, <1>7, <2>1 DEF OutTrue
<1>15. EndTrue'
  <2>1. at_eof' = FALSE
    BY <1>1
  <2>2. ~spoilt' => fill' # "eof"
    BY <1>3, <1>4, <1>7, <1>8, <1>9
  <2> QED
    BY <1>2, <1>7, <1>9, <2>1, <2>2 DEF EndTrue
<1>16. SeekTrue'
  <2>1. ~spoilt' /\ kind.seeks => pc # "forward"
    BY <1>2, <1>7 DEF SeekTrue
  <2> QED
    BY <1>2, <1>7, <1>8, <1>9, <1>13, <2>1 DEF SeekTrue
<1> QED
  BY <1>10, <1>11, <1>12, <1>14, <1>15, <1>16

LEMMA AppendLength ==
  ASSUME NEW s \in Seq(Int), NEW t \in Seq(Int)
  PROVE  s \o t \in Seq(Int) /\ Len(s \o t) = Len(s) + Len(t)
  OBVIOUS

\* What is taken out of the buffer is what comes next, and is appended to what was delivered.
LEMMA TakeTrue ==
  ASSUME StreamInv, NEW n \in 0..Held, NEW k \in {0, n}, Take(n, k)
  PROVE  /\ sbuf_pos' = sbuf_pos + n /\ n \in Nat /\ sbuf_pos' \in 0..sbuf_len
         /\ out' \in Seq(Int) /\ Len(out) \in Nat /\ Len(out') = Len(out) + k
         /\ ~spoilt /\ (k > 0 => stream_tell = from + Len(out)) =>
              \A i \in 1..Len(out') : out'[i] = from + i - 1
<1> USE StreamAssumption DEF StreamInv, Shapes
<1>1. /\ Size \in Nat /\ n \in Nat /\ k \in 0..n /\ sbuf_pos + n <= sbuf_len /\ sbuf_len <= Size
      /\ sbuf_pos \in Nat /\ sbuf_len \in Nat
  BY DEF Size, Held
<1>2. Copied(k) \in Seq(Int) /\ Len(Copied(k)) = k
  BY <1>1 DEF Copied
<1>3. out' = out \o Copied(k) /\ sbuf_pos' = sbuf_pos + n
  BY DEF Take
<1>4. ASSUME ~spoilt, NEW i \in 1..k PROVE Copied(k)[i] = stream_tell + i - 1
  <2>1. sbuf_pos + i - 1 \in 0..sbuf_len - 1
    BY <1>1
  <2> QED
    BY <1>1, <1>4, <2>1 DEF Copied, BufferTrue, stream_tell
<1>5. out' \in Seq(Int) /\ Len(out) \in Nat /\ Len(out') = Len(out) + k
  <2>1. out \in Seq(Int) /\ Len(out) \in Nat
    OBVIOUS
  <2> DEFINE bytes == Copied(k)
  <2>2. bytes \in Seq(Int) /\ Len(bytes) = k /\ out' = out \o bytes
    BY <1>2, <1>3
  <2> HIDE DEF bytes
  <2>3. Len(out \o bytes) = Len(out) + Len(bytes) /\ out \o bytes \in Seq(Int)
    BY <2>1, <2>2, AppendLength
  <2> QED
    BY <2>1, <2>2, <2>3
<1>6. ASSUME ~spoilt, k > 0 => stream_tell = from + Len(out)
      PROVE  \A i \in 1..Len(out') : out'[i] = from + i - 1
  <2>1. \A i \in 1..Len(out) : out[i] = from + i - 1
    BY <1>6 DEF OutTrue
  <2>2. \A i \in 1..Len(Copied(k)) : Copied(k)[i] = from + Len(out) + i - 1
    BY <1>1, <1>2, <1>4, <1>6
  <2> QED
    BY <1>2, <1>3, <2>1, <2>2, AppendRun
<1> QED
  BY <1>1, <1>3, <1>5, <1>6

\* A call begins where the stream is, with nothing delivered.
LEMMA StartStep ==
  ASSUME StreamInv, StartRead \/ StartLine
  PROVE  StreamInv'
<1>1. PICK name \in {"read", "skip", "line"}, left \in Nat :
         /\ pc = "idle" /\ Starts(name, left, 0) /\ pc' = name
         /\ UNCHANGED <<at, stream, result, spoilt, faults>>
  BY StreamAssumption DEF StartRead, StartLine, Starts
<1>2. /\ op' = [name |-> name, left |-> left, target |-> 0] /\ from' = stream_tell /\ out' = <<>>
      /\ fill' = "no" /\ kind' = kind /\ pc' = name /\ pc = "idle"
      /\ UNCHANGED <<at, pos, at_eof, sbuffer, sbuf_pos, sbuf_len, result, spoilt, faults>>
  BY <1>1 DEF Starts, stream
<1>3. out' \in Seq(Int) /\ Len(out') = 0
  BY <1>2
<1>4. stream_tell \in Int /\ stream_tell' = stream_tell
  BY <1>2 DEF StreamInv, Shapes, stream_tell
<1> USE DEF StreamInv
<1>5. Shapes'
  BY <1>2, <1>3, <1>4 DEF Shapes
<1>6. CallTrue' /\ BufferTrue'
  BY <1>2 DEF CallTrue, BufferTrue
<1>7. OutTrue'
  BY <1>2, <1>3, <1>4 DEF OutTrue
<1>8. EndTrue' /\ SeekTrue'
  BY <1>2 DEF EndTrue, SeekTrue, CallTrue
<1> QED
  BY <1>5, <1>6, <1>7, <1>8

LEMMA ServeStep ==
  ASSUME StreamInv, Serve
  PROVE  StreamInv'
<1> DEFINE n == LesserOf(Held, op.left)
           k == IF pc = "read" THEN n ELSE 0
<1>1. /\ pc \in {"read", "skip"} /\ Held > 0 /\ op.left > 0 /\ Take(n, k)
      /\ op' = [op EXCEPT !.left = @ - n] /\ fill' = "no"
      /\ UNCHANGED <<kind, at, pos, at_eof, sbuffer, sbuf_len, pc, from, result, spoilt, faults>>
  BY DEF Serve
<1>2. n \in 0..Held /\ n <= op.left /\ n \in Nat
  BY <1>1 DEF LesserOf, Held, StreamInv, Shapes
<1> HIDE DEF n
<1>3. k \in {0, n} /\ (pc = "read" => k = n) /\ (pc # "read" => k = 0)
  OBVIOUS
<1> HIDE DEF k
<1>4. /\ sbuf_pos' = sbuf_pos + n /\ sbuf_pos' \in 0..sbuf_len
      /\ out' \in Seq(Int) /\ Len(out) \in Nat /\ Len(out') = Len(out) + k
  BY <1>1, <1>2, <1>3, TakeTrue
<1>5. ~spoilt /\ (k > 0 => stream_tell = from + Len(out)) =>
         \A i \in 1..Len(out') : out'[i] = from + i - 1
  BY <1>1, <1>2, <1>3, TakeTrue
<1> USE DEF StreamInv
<1>6. Shapes'
  <2>1. /\ op' \in [name : {"none", "read", "skip", "line", "seek"}, left : Nat, target : Nat]
        /\ op'.name = op.name
    BY <1>1, <1>2 DEF Shapes
  <2> QED
    BY <1>1, <1>4, <2>1 DEF Shapes
<1>7. CallTrue' /\ BufferTrue'
  BY <1>1 DEF CallTrue, BufferTrue, Shapes
<1>8. stream_tell' = stream_tell + n
  BY <1>1, <1>2, <1>4 DEF stream_tell, Shapes
<1>9. OutTrue'
  BY <1>1, <1>2, <1>3, <1>4, <1>5, <1>8 DEF OutTrue, Shapes
<1>10. EndTrue' /\ SeekTrue'
  BY <1>1 DEF EndTrue, SeekTrue
<1> QED
  BY <1>6, <1>7, <1>9, <1>10

\* A read that comes back short does so where nothing is left in the buffer.
LEMMA ServedStep ==
  ASSUME StreamInv, Served
  PROVE  StreamInv'
<1>1. /\ pc \in {"read", "skip"} /\ pc' = "idle" /\ result' \in 0..1 /\ fill' = "no"
      /\ result' = 0 => fill = "eof"
      /\ UNCHANGED <<kind, at, pos, at_eof, sbuffer, sbuf_pos, sbuf_len, op, from, out, spoilt, faults>>
  BY DEF Served, CallDone, stream
<1> USE DEF StreamInv
<1>2. Shapes' /\ CallTrue' /\ BufferTrue' /\ OutTrue' /\ SeekTrue'
  BY <1>1 DEF Shapes, CallTrue, BufferTrue, OutTrue, SeekTrue, stream_tell
<1>3. EndTrue'
  <2>1. op.name = pc
    BY <1>1 DEF CallTrue
  <2>2. ASSUME ~spoilt, pc = "read", result' = 0, faults <= 1 PROVE from + Len(out) >= PlainLen
    <3>1. fill = "eof" /\ Held = 0
      BY <1>1, <2>2 DEF CallTrue
    <3>2. at >= PlainLen
      BY <2>2, <3>1, StreamAssumption DEF EndTrue, Shapes
    <3>3. at = pos /\ stream_tell = from + Len(out)
      BY <2>2 DEF BufferTrue, OutTrue
    <3>4. stream_tell = pos
      BY <3>1 DEF stream_tell, Held, Shapes
    <3> QED
      BY <3>2, <3>3, <3>4
  <2> QED
    BY <1>1, <2>1, <2>2 DEF EndTrue
<1> QED
  BY <1>2, <1>3

LEMMA Least ==
  ASSUME NEW T, T \subseteq Nat, T # {}
  PROVE  \E x \in T : \A y \in T : x <= y
<1> DEFINE R == OpToRel(<, Nat)
<1>1. PICK x \in T : \A y \in T : ~ (<<y, x>> \in R)
  <2>1. IsWellFoundedOn(R, Nat)
    BY NatLessThanWellFounded
  <2> HIDE DEF R
  <2> QED
    BY <2>1, WFMin
<1>2. \A y \in T : ~ (y < x)
  BY <1>1 DEF OpToRel
<1> QED
  BY <1>2

\* stream_read_until takes up to the end of the line, of the buffer, or of what there is room for;
\* once there is no room it goes on to the end of the line without delivering.
LEMMA LineStep ==
  ASSUME StreamInv, Line
  PROVE  StreamInv'
<1> DEFINE ends == {i \in 1..Held : sbuffer[sbuf_pos + i - 1] \in Newlines}
           length == IF ends = {} THEN Held ELSE CHOOSE i \in ends : \A j \in ends : i <= j
           n == IF op.left > 0 THEN LesserOf(length, op.left) ELSE length
           k == IF op.left > 0 THEN n ELSE 0
<1>1. /\ pc = "line" /\ Held > 0 /\ Take(n, k)
      /\ op' = [op EXCEPT !.left = @ - k] /\ fill' = "no"
      /\ pc' \in {"idle", "line"} /\ result' \in 0..1
      /\ UNCHANGED <<kind, at, pos, at_eof, sbuffer, sbuf_len, from, spoilt, calls, faults>>
  <2>1. result \in 0..1
    BY DEF StreamInv, Shapes
  <2>2. IF ends # {} THEN CallDone(IF at_eof /\ out' = <<>> THEN 0 ELSE 1) ELSE UNCHANGED <<pc, result>>
    BY DEF Line
  <2>3. pc = "line" /\ pc' \in {"idle", "line"} /\ result' \in 0..1
    BY <2>1, <2>2 DEF Line, CallDone
  <2> QED
    BY <2>3 DEF Line
<1>2. length \in 1..Held /\ Held \in Nat
  <2>1. Held \in Nat
    BY DEF StreamInv, Shapes, Held
  <2>2. CASE ends = {}
    BY <1>1, <2>1, <2>2
  <2>3. CASE ends # {}
    <3>1. ends \subseteq Nat /\ ends \subseteq 1..Held
      BY <2>1
    <3>2. \E i \in ends : \A j \in ends : i <= j
      BY <2>3, <3>1, Least
    <3>3. length \in ends
      BY <2>3, <3>2
    <3> QED
      BY <2>1, <3>1, <3>3
  <2> QED
    BY <2>2, <2>3
<1> HIDE DEF length
<1>3. n \in 0..Held /\ n \in Nat /\ (op.left > 0 => n <= op.left)
  BY <1>2 DEF LesserOf, StreamInv, Shapes
<1> HIDE DEF n
<1>4. k \in {0, n} /\ (op.left > 0 => k = n) /\ (~(op.left > 0) => k = 0)
  OBVIOUS
<1> HIDE DEF k
<1>5. /\ sbuf_pos' = sbuf_pos + n /\ sbuf_pos' \in 0..sbuf_len
      /\ out' \in Seq(Int) /\ Len(out) \in Nat /\ Len(out') = Len(out) + k
  BY <1>1, <1>3, <1>4, TakeTrue
<1>6. ~spoilt /\ (k > 0 => stream_tell = from + Len(out)) =>
         \A i \in 1..Len(out') : out'[i] = from + i - 1
  BY <1>1, <1>3, <1>4, TakeTrue
<1> USE DEF StreamInv
<1>7. /\ op' \in [name : {"none", "read", "skip", "line", "seek"}, left : Nat, target : Nat]
      /\ op'.name = "line" /\ op'.left = op.left - k
  <2>1. op.left \in Nat /\ op.left - k \in Nat
    BY <1>3, <1>4 DEF Shapes
  <2>2. op.name = "line" /\ op' = [op EXCEPT !.left = op.left - k]
    BY <1>1 DEF CallTrue
  <2> QED
    BY <2>1, <2>2 DEF Shapes
<1>8. Shapes'
  BY <1>1, <1>5, <1>7 DEF Shapes
<1>9. CallTrue' /\ BufferTrue'
  BY <1>1, <1>7 DEF CallTrue, BufferTrue
<1>10. stream_tell' = stream_tell + n
  BY <1>1, <1>3, <1>5 DEF stream_tell, Shapes
<1>11. OutTrue'
  <2>1. op.left \in Nat /\ from \in Int /\ stream_tell \in Int
    BY DEF Shapes, stream_tell
  <2>2. op'.left > 0 => op.left > 0 /\ k = n
    BY <1>3, <1>4, <1>7, <2>1
  <2>3. ~spoilt /\ op.left > 0 => stream_tell = from + Len(out)
    BY <1>1 DEF OutTrue
  <2>4. ~spoilt => \A i \in 1..Len(out') : out'[i] = from + i - 1
    BY <1>4, <1>6, <2>3
  <2>5. ASSUME ~spoilt, op'.left > 0 PROVE stream_tell' = from + Len(out')
    <3>1. k = n /\ stream_tell = from + Len(out)
      BY <2>2, <2>3, <2>5
    <3>2. stream_tell' = stream_tell + n /\ Len(out') = Len(out) + k /\ Len(out) \in Nat /\ n \in Nat
      BY <1>3, <1>5, <1>10
    <3> QED
      BY <2>1, <3>1, <3>2
  <2> QED
    BY <1>1, <2>4, <2>5 DEF OutTrue
<1>12. EndTrue' /\ SeekTrue'
  BY <1>1, <1>7 DEF EndTrue, SeekTrue
<1> QED
  BY <1>8, <1>9, <1>11, <1>12

LEMMA LineAtEndStep ==
  ASSUME StreamInv, LineAtEnd
  PROVE  StreamInv'
<1>1. /\ pc = "line" /\ pc' = "idle" /\ result' \in 0..1 /\ fill' = "no"
      /\ UNCHANGED <<kind, at, pos, at_eof, sbuffer, sbuf_pos, sbuf_len, op, from, out, spoilt, faults>>
  BY DEF LineAtEnd, CallDone, stream
<1> USE DEF StreamInv
<1>2. op.name = "line"
  BY <1>1 DEF CallTrue
<1>3. Shapes' /\ CallTrue' /\ BufferTrue' /\ OutTrue'
  BY <1>1 DEF Shapes, CallTrue, BufferTrue, OutTrue, stream_tell
<1>4. EndTrue' /\ SeekTrue'
  BY <1>1, <1>2 DEF EndTrue, SeekTrue
<1> QED
  BY <1>3, <1>4

\* Where the block of a position begins.
LEMMA BlockBegins ==
  ASSUME NEW S \in Nat \ {0}, NEW t \in Nat
  PROVE  (t \div S) * S \in Nat /\ t - (t \div S) * S \in Nat
<1> DEFINE a == t \div S
           r == t % S
<1>1. a \in Int /\ r \in 0..S - 1 /\ t = S * a + r
  OBVIOUS
<1> HIDE DEF a, r
<1>2. ASSUME a < 0 PROVE FALSE
  <2>1. S * a <= S * (-1)
    BY <1>1, <1>2
  <2> QED
    BY <1>1, <2>1
<1>3. a * S = S * a /\ S * a \in Int /\ S * a >= 0
  BY <1>1, <1>2
<1>4. a * S \in Nat /\ t - a * S \in Nat
  BY <1>1, <1>3
<1> QED
  BY <1>4 DEF a

\* A seek stays in the buffer, or leaves it empty at the beginning of a block.
LEMMA SeekStep ==
  ASSUME StreamInv, Seek
  PROVE  StreamInv'
<1> DEFINE goals == Targets \cup {stream_tell + n : n \in {-StreamMin} \cup
                                    {m \in Targets : kind.forward /\ m > 2 * Size}}
<1>1. PICK target \in {t \in goals : t >= 0} :
         LET x == target - (pos - sbuf_len)
             newpos == (target \div Size) * Size
             Stays == UNCHANGED <<at, pos, at_eof>>
             Long == sbuf_pos' = 0 /\ sbuf_len' = 0
         IN /\ Starts("seek", target - newpos, target)
            /\ \/ /\ sbuf_len = 0 /\ pos = target
                  /\ CallDone(1) /\ Stays /\ UNCHANGED <<sbuf_pos, sbuf_len, spoilt, faults>>
               \/ /\ ~(sbuf_len = 0 /\ pos = target) /\ target < pos /\ x >= 0
                  /\ CallDone(1) /\ Stays /\ sbuf_pos' = x /\ UNCHANGED <<sbuf_len, spoilt, faults>>
               \/ /\ ~(sbuf_len = 0 /\ pos = target) /\ (target >= pos \/ x < 0) /\ Long
                  /\ IF newpos # 0 /\ newpos = pos
                     THEN pc' = "forward" /\ Stays /\ UNCHANGED <<result, spoilt, faults>>
                     ELSE IF ~kind.seeks
                     THEN /\ IF newpos < pos THEN CallDone(1) ELSE pc' = "forward" /\ result' = result
                          /\ Stays /\ UNCHANGED <<spoilt, faults>>
                     ELSE \/ /\ at' = newpos /\ pos' = newpos /\ pc' = "forward"
                             /\ UNCHANGED <<at_eof, result, spoilt, faults>>
                          \/ /\ pos' = newpos /\ at' = at /\ at_eof' = TRUE /\ CallDone(0) /\ spoilt' = TRUE
                             /\ faults < MaxFaults /\ faults' = faults + 1
  BY DEF Seek
<1> DEFINE newpos == (target \div Size) * Size
           x == target - (pos - sbuf_len)
<1> USE DEF StreamInv
<1>2. target \in Nat /\ Size \in Nat \ {0} /\ UNCHANGED sbuffer
  <2>1. stream_tell \in Int
    BY DEF Shapes, stream_tell
  <2>2. target \in Int
    BY <2>1, StreamAssumption
  <2> QED
    BY <1>1, <2>2, StreamAssumption DEF Size, Seek
<1>3. newpos \in Nat /\ target - newpos \in Nat
  BY <1>2, BlockBegins
<1>4. /\ pc = "idle" /\ fill' = "no" /\ kind' = kind /\ from' = stream_tell /\ out' = <<>>
      /\ op' = [name |-> "seek", left |-> target - newpos, target |-> target]
  BY <1>1 DEF Starts
<1> DEFINE Near == /\ pc' = "idle" /\ UNCHANGED <<at, pos, at_eof, sbuf_len, spoilt, faults>>
                   /\ result' = 1 /\ sbuf_pos' \in 0..sbuf_len
                   /\ pos + sbuf_pos' - sbuf_len = target
           Far == /\ pc' = "forward" /\ sbuf_pos' = 0 /\ sbuf_len' = 0
                  /\ UNCHANGED <<spoilt, faults, at_eof, result>>
                  /\ \/ UNCHANGED <<at, pos>> /\ (kind.seeks => pos = newpos)
                     \/ at' = newpos /\ pos' = newpos
           Behind == /\ ~kind.seeks /\ pc' = "idle" /\ result' = 1 /\ sbuf_pos' = 0 /\ sbuf_len' = 0
                     /\ UNCHANGED <<at, pos, at_eof, spoilt, faults>>
           Failed == /\ pc' = "idle" /\ result' = 0 /\ spoilt' = TRUE /\ sbuf_pos' = 0 /\ sbuf_len' = 0
                     /\ at_eof' = TRUE /\ at' = at /\ pos' = newpos /\ faults' = faults + 1
<1>5. Near \/ Far \/ Behind \/ Failed
  <2>1. CASE /\ sbuf_len = 0 /\ pos = target
             /\ CallDone(1) /\ UNCHANGED <<at, pos, at_eof>> /\ UNCHANGED <<sbuf_pos, sbuf_len, spoilt, faults>>
    BY <2>1 DEF CallDone, Shapes
  <2>2. CASE /\ target < pos /\ x >= 0 /\ CallDone(1) /\ UNCHANGED <<at, pos, at_eof>>
             /\ sbuf_pos' = x /\ UNCHANGED <<sbuf_len, spoilt, faults>>
    BY <1>2, <2>2 DEF CallDone, Shapes
  <2>3. CASE /\ sbuf_pos' = 0 /\ sbuf_len' = 0
             /\ IF newpos # 0 /\ newpos = pos
                THEN /\ pc' = "forward" /\ UNCHANGED <<at, pos, at_eof>>
                     /\ UNCHANGED <<result, spoilt, faults>>
                ELSE IF ~kind.seeks
                THEN /\ IF newpos < pos THEN CallDone(1) ELSE pc' = "forward" /\ result' = result
                     /\ UNCHANGED <<at, pos, at_eof>> /\ UNCHANGED <<spoilt, faults>>
                ELSE \/ /\ at' = newpos /\ pos' = newpos /\ pc' = "forward"
                        /\ UNCHANGED <<at_eof, result, spoilt, faults>>
                     \/ /\ pos' = newpos /\ at' = at /\ at_eof' = TRUE /\ CallDone(0) /\ spoilt' = TRUE
                        /\ faults < MaxFaults /\ faults' = faults + 1
    BY <2>3 DEF CallDone
  <2> QED
    BY <1>1, <2>1, <2>2, <2>3
<1> HIDE DEF newpos
<1>6. /\ op' \in [name : {"none", "read", "skip", "line", "seek"}, left : Nat, target : Nat]
      /\ op'.name = "seek" /\ op'.left = target - newpos /\ op'.target = target
      /\ out' \in Seq(Int) /\ Len(out') = 0 /\ from' \in Int
  BY <1>2, <1>3, <1>4 DEF Shapes, stream_tell
<1>7. CASE Near
  <2>1. Shapes' /\ CallTrue' /\ BufferTrue'
    BY <1>2, <1>4, <1>6, <1>7 DEF Shapes, CallTrue, BufferTrue
  <2>2. OutTrue' /\ EndTrue'
    BY <1>4, <1>6, <1>7 DEF OutTrue, EndTrue
  <2>3. SeekTrue'
    BY <1>4, <1>6, <1>7 DEF SeekTrue, stream_tell
  <2> QED
    BY <2>1, <2>2, <2>3
<1>8. CASE Far
  <2>1. Shapes' /\ CallTrue' /\ BufferTrue'
    BY <1>2, <1>3, <1>4, <1>6, <1>8 DEF Shapes, CallTrue, BufferTrue
  <2>2. OutTrue' /\ EndTrue'
    BY <1>4, <1>6, <1>8 DEF OutTrue, EndTrue
  <2>3. SeekTrue'
    BY <1>2, <1>3, <1>4, <1>6, <1>8 DEF SeekTrue, stream_tell
  <2> QED
    BY <2>1, <2>2, <2>3
<1>9. CASE Behind
  <2>1. Shapes' /\ CallTrue' /\ BufferTrue'
    BY <1>2, <1>4, <1>6, <1>9 DEF Shapes, CallTrue, BufferTrue
  <2>2. OutTrue' /\ EndTrue' /\ SeekTrue'
    BY <1>4, <1>6, <1>9 DEF OutTrue, EndTrue, SeekTrue
  <2> QED
    BY <2>1, <2>2
<1>10. CASE Failed
  <2>1. Shapes' /\ CallTrue' /\ BufferTrue'
    BY <1>2, <1>3, <1>4, <1>6, <1>10 DEF Shapes, CallTrue, BufferTrue
  <2>2. OutTrue' /\ EndTrue' /\ SeekTrue'
    BY <1>4, <1>6, <1>10 DEF OutTrue, EndTrue, SeekTrue
  <2> QED
    BY <2>1, <2>2
<1> QED
  BY <1>5, <1>7, <1>8, <1>9, <1>10

LEMMA ForwardStep ==
  ASSUME StreamInv, Forward
  PROVE  StreamInv'
<1>1. /\ pc = "forward" /\ fill # "more" /\ fill' = "no" /\ pc' \in {"forward", "place"}
      /\ pc' = "forward" => fill = "some"
      /\ UNCHANGED <<kind, at, pos, at_eof, sbuffer, sbuf_pos, sbuf_len, op, from, out, result, spoilt,
                     faults>>
  BY DEF Forward, stream, call
<1> USE DEF StreamInv
<1>2. Shapes' /\ CallTrue' /\ BufferTrue'
  BY <1>1 DEF Shapes, CallTrue, BufferTrue
<1>3. OutTrue' /\ EndTrue' /\ SeekTrue'
  BY <1>1 DEF OutTrue, EndTrue, SeekTrue, Shapes
<1> QED
  BY <1>2, <1>3

\* Blocks are passed until what is left of the seek is in the buffer.
LEMMA PlaceStep ==
  ASSUME StreamInv, Place
  PROVE  StreamInv'
<1> USE DEF StreamInv
<1>1. /\ pc = "place" /\ fill' = "no" /\ fill # "more"
      /\ UNCHANGED <<kind, at, pos, at_eof, sbuffer, sbuf_len, from, out, spoilt, faults>>
  BY DEF Place
<1>2. op \in [name : {"none", "read", "skip", "line", "seek"}, left : Nat, target : Nat]
  BY DEF Shapes
<1>3. CASE fill = "some" /\ op.left <= sbuf_len /\ sbuf_pos' = op.left /\ CallDone(1) /\ op' = op
  <2>1. Shapes' /\ CallTrue' /\ BufferTrue'
    BY <1>1, <1>2, <1>3 DEF CallDone, Shapes, CallTrue, BufferTrue
  <2>2. OutTrue' /\ EndTrue'
    <3>1. OutTrue'
      BY <1>1, <1>3 DEF CallDone, OutTrue
    <3>2. ~at_eof /\ op'.name = "seek" /\ at_eof' = at_eof
      BY <1>1, <1>3 DEF CallTrue
    <3>3. EndTrue'
      BY <1>1, <1>3, <3>2 DEF CallDone, EndTrue
    <3> QED
      BY <3>1, <3>3
  <2>3. SeekTrue'
    BY <1>1, <1>2, <1>3 DEF CallDone, SeekTrue, stream_tell, Shapes
  <2> QED
    BY <2>1, <2>2, <2>3
<1>4. CASE /\ fill = "some" /\ op.left > sbuf_len /\ op' = [op EXCEPT !.left = Left]
           /\ UNCHANGED <<sbuf_pos, pc, result>>
  <2>1. Left = op.left - sbuf_len /\ Left \in Nat
    BY <1>2, <1>4 DEF Left, Shapes
  <2>2. /\ op' \in [name : {"none", "read", "skip", "line", "seek"}, left : Nat, target : Nat]
        /\ op'.name = op.name /\ op'.target = op.target /\ op'.left = Left
    BY <1>2, <1>4, <2>1
  <2>3. Shapes' /\ CallTrue' /\ BufferTrue'
    BY <1>1, <1>4, <2>2 DEF Shapes, CallTrue, BufferTrue
  <2>4. OutTrue' /\ EndTrue'
    BY <1>1, <1>4 DEF OutTrue, EndTrue
  <2>5. SeekTrue'
    BY <1>1, <1>2, <1>4, <2>1, <2>2 DEF SeekTrue, Shapes
  <2> QED
    BY <2>3, <2>4, <2>5
<1>5. CASE fill = "eof" /\ CallDone(0) /\ UNCHANGED <<op, sbuf_pos>>
  <2>1. Shapes' /\ CallTrue' /\ BufferTrue'
    BY <1>1, <1>5 DEF CallDone, Shapes, CallTrue, BufferTrue
  <2>2. OutTrue'
    BY <1>1, <1>5 DEF CallDone, OutTrue
  <2>3. EndTrue' /\ SeekTrue'
    BY <1>1, <1>5 DEF CallDone, EndTrue, SeekTrue, CallTrue
  <2> QED
    BY <2>1, <2>2, <2>3
<1> QED
  BY <1>3, <1>4, <1>5 DEF Place

\* Reads, lines, skips and seeks deliver the bytes of their positions, for every size of the buffer
\* and of the file, any lengths and positions, and any number of calls and of failed reads.
THEOREM StreamReadsTrue == StreamSpec => []StreamTrue
<1>1. StreamInv /\ [StreamNext]_streamVars => StreamInv'
  <2> SUFFICES ASSUME StreamInv, [StreamNext]_streamVars PROVE StreamInv'
    OBVIOUS
  <2>1. CASE UNCHANGED streamVars
    BY <2>1 DEF streamVars, stream, call, StreamInv, Shapes, CallTrue, BufferTrue, OutTrue, EndTrue,
                SeekTrue, stream_tell, Held
  <2> QED
    BY <2>1, FillFirstStep, FillMoreStep, StartStep, ServeStep, ServedStep, LineStep,
       LineAtEndStep, SeekStep, ForwardStep, PlaceStep DEF StreamNext
<1>2. StreamInv => StreamTrue
  BY DEF StreamInv, Shapes, OutTrue, EndTrue, SeekTrue, StreamTrue, ReadsTrue, SeekLands
<1> QED
  BY StreamInvInit, <1>1, <1>2, PTL DEF StreamSpec

=============================================================================
