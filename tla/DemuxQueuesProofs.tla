------------------------- MODULE DemuxQueuesProofs -------------------------
(***************************************************************************)
(* Proof that no packet is lost, repeated or put out of order on its way   *)
(* from the file to the decoders, and that the player does not stop before *)
(* the file has been read, for files, queues and limits of every size.     *)
(***************************************************************************)
EXTENDS DemuxQueues, SequenceTheorems, TLAPS

Places == Nat \ {0}

Shapes ==
    /\ file \in Seq(AllKinds)
    /\ pos \in 1 .. Len(file) + 1
    /\ id \in [Streams -> {"a1", "a2", "v", "s", "none"}]
    /\ queue \in [Streams -> Seq(Places)]
    /\ current \in [Streams -> Nat]
    /\ used \in [Streams -> {0, 1}]
    /\ eof \in [Streams -> {0, 1}]
    /\ fill_count \in [Streams -> Int]
    /\ call \in [op : {"idle", "get", "refill", "next_pts"}, s : Streams]
    /\ delivered \in [Streams -> Seq(Places)]
    /\ since \in [Streams -> Places] /\ \A s \in Streams : since[s] <= pos
    /\ ended \in {0, 1}
    /\ seeks \in Nat /\ switches \in Nat

\* Every stream takes tracks of its own kind.
OwnTracks ==
    /\ id["audio"] \in {"a1", "a2", "none"}
    /\ id["video"] \in {"v", "none"}
    /\ id["sub"] \in {"s", "none"}

\* A stream that reads has no current packet, and only the audio is asked
\* again, when both streams have ended and the video has nothing left.
CallTrue ==
    /\ Filling => call.s \in Queued /\ current[call.s] = 0
    /\ call.op = "refill" => /\ call.s = "audio" /\ eof["audio"] = 1
                             /\ eof["video"] = 1 /\ queue["video"] = <<>>

\* A stream that ended has no packet that has not been read.
EndedIsRead == \A s \in Streams : eof[s] = 1 => ~Unread(s)

\* Packets are only counted for a stream that has ended since, or while its
\* request goes on and what was counted is still in the queues.
Counted ==
    \A s \in Queued : fill_count[s] > 0 =>
        \/ eof[s] = 1
        \/ Filling /\ call.s = s /\ \E o \in Queued : queue[o] # <<>>

\* Nobody switched tracks and no packet is refused.
Plain == switches = 0 /\ \A i \in DOMAIN file : file[i] # "bad"

\* The two streams only wait for each other at the end of the file.
NoStandoff ==
    Plain => /\ id["audio"] # "none" /\ id["video"] # "none"
             /\ (eof["audio"] = 1 /\ eof["video"] = 1 /\ pos <= Len(file) =>
                    \E s \in Queued : queue[s] # <<>>)

StoppedIsIdle == ended = 1 => call = Idle

\* NoPacketLost of one stream.
OfStream(s) == id[s] # "none" => InOrder(Handled(s)) /\ Range(Handled(s)) = ReadOf(s)

DemuxInv ==
    /\ Shapes /\ OwnTracks /\ CallTrue /\ EndedIsRead /\ Counted /\ NoStandoff
    /\ StoppedIsIdle /\ PlayedOut /\ NoPacketLost /\ QueuesBounded

-----------------------------------------------------------------------------
(* Sequences of packets *)

LEMMA OneElement ==
  ASSUME NEW S, NEW c \in S
  PROVE  <<c>> \in Seq(S) /\ Len(<<c>>) = 1 /\ <<c>>[1] = c
  OBVIOUS

LEMMA HeadAndTail ==
  ASSUME NEW S, NEW q \in Seq(S), q # <<>>
  PROVE  /\ Head(q) \in S /\ Tail(q) \in Seq(S)
         /\ <<Head(q)>> \o Tail(q) = q
<1>1. /\ Head(q) \in S /\ Tail(q) \in Seq(S) /\ Len(Tail(q)) = Len(q) - 1
      /\ \A i \in 1 .. Len(Tail(q)) : Tail(q)[i] = q[i + 1]
  BY HeadTailProperties
<1>2. Len(q) \in Nat \ {0} /\ Head(q) = q[1]
  BY EmptySeq
<1>3. /\ <<Head(q)>> \o Tail(q) \in Seq(S)
      /\ Len(<<Head(q)>> \o Tail(q)) = Len(q)
      /\ \A i \in 1 .. Len(q) : (<<Head(q)>> \o Tail(q))[i] =
                IF i <= 1 THEN Head(q) ELSE Tail(q)[i - 1]
  BY <1>1, <1>2, OneElement, ConcatProperties
<1>4. \A i \in 1 .. Len(q) : (<<Head(q)>> \o Tail(q))[i] = q[i]
  BY <1>1, <1>2, <1>3
<1> QED
  BY <1>1, <1>3, <1>4, SeqEqual

\* Reading the packet in front only moves the border between what has been
\* delivered and what waits.
LEMMA AppendThenConcat ==
  \A d, q \in Seq(Places), c \in Places : Append(d, c) \o q = d \o (<<c>> \o q)
<1> TAKE d, q \in Seq(Places), c \in Places
<1>1. Append(d, c) = d \o <<c>>
  BY AppendIsConcat
<1> QED
  BY <1>1, OneElement, ConcatAssociative

\* A packet appended to the queue is appended to the whole.
LEMMA ConcatThenAppend ==
  \A d, w, q \in Seq(Places), p \in Places :
    d \o (w \o Append(q, p)) = Append(d \o (w \o q), p)
<1> TAKE d, w, q \in Seq(Places), p \in Places
<1>1. Append(q, p) = q \o <<p>> /\ w \o q \in Seq(Places) /\ d \o (w \o q) \in Seq(Places)
  BY AppendIsConcat, ConcatProperties
<1>2. w \o (q \o <<p>>) = (w \o q) \o <<p>>
  BY OneElement, ConcatAssociative
<1>3. d \o ((w \o q) \o <<p>>) = (d \o (w \o q)) \o <<p>>
  BY <1>1, OneElement, ConcatAssociative
<1>4. (d \o (w \o q)) \o <<p>> = Append(d \o (w \o q), p)
  BY <1>1, AppendIsConcat
<1> QED
  BY <1>1, <1>2, <1>3, <1>4

LEMMA AppendInOrder ==
  ASSUME NEW g \in Seq(Places), NEW p \in Places,
         InOrder(g), \A i \in Range(g) : i < p
  PROVE  InOrder(Append(g, p)) /\ Range(Append(g, p)) = Range(g) \cup {p}
<1>1. /\ Append(g, p) \in Seq(Places) /\ Len(Append(g, p)) = Len(g) + 1
      /\ \A i \in 1 .. Len(g) : Append(g, p)[i] = g[i]
      /\ Append(g, p)[Len(g) + 1] = p /\ Len(g) \in Nat
  BY AppendProperties
<1>2. /\ Range(g) = {g[i] : i \in 1 .. Len(g)}
      /\ Range(Append(g, p)) = {Append(g, p)[i] : i \in 1 .. Len(g) + 1}
  BY <1>1, RangeEquality
<1>3. \A i \in 1 .. Len(g) : g[i] < p
  BY <1>2
<1>4. InOrder(Append(g, p))
  BY <1>1, <1>3 DEF InOrder, Places
<1>5. 1 .. Len(g) + 1 = 1 .. Len(g) \cup {Len(g) + 1}
  BY <1>1
<1>6. Range(Append(g, p)) = Range(g) \cup {p}
  BY <1>1, <1>2, <1>5
<1> QED
  BY <1>4, <1>6

LEMMA NothingInOrder == InOrder(<<>>) /\ Range(<<>>) = {}
<1>1. Len(<<>>) = 0 /\ <<>> \in Seq(Places)
  BY EmptySeq
<1>2. Range(<<>>) = {<<>>[i] : i \in 1 .. Len(<<>>)}
  BY <1>1, RangeEquality
<1> QED
  BY <1>1, <1>2 DEF InOrder

-----------------------------------------------------------------------------
(* What the steps do to the packets of a stream *)

LEMMA HandledIsSeq ==
  ASSUME Shapes, NEW s \in Streams
  PROVE  /\ (IF Unread(s) THEN <<current[s]>> ELSE <<>>) \in Seq(Places)
         /\ Wait(s) \in Seq(Places) /\ Handled(s) \in Seq(Places)
         /\ queue[s] \in Seq(Places) /\ delivered[s] \in Seq(Places)
<1>1. queue[s] \in Seq(Places) /\ delivered[s] \in Seq(Places) /\ current[s] \in Nat
  BY DEF Shapes
<1>2. (IF Unread(s) THEN <<current[s]>> ELSE <<>>) \in Seq(Places)
  <2>1. CASE Unread(s)
    <3>1. current[s] \in Places
      BY <1>1, <2>1 DEF Unread, Places
    <3> QED
      BY <2>1, <3>1, OneElement
  <2>2. CASE ~Unread(s)
    BY <2>2, EmptySeq
  <2> QED
    BY <2>1, <2>2
<1> QED
  BY <1>1, <1>2, ConcatProperties DEF Wait, Handled

LEMMA KindsOfPackets ==
  ASSUME Shapes, NEW i \in 1 .. Len(file)
  PROVE  file[i] \in AllKinds /\ Len(file) \in Nat /\ DOMAIN file = 1 .. Len(file)
  BY LenProperties, ElementOfSeq DEF Shapes

\* A stream that hands nothing out and takes nothing in stays as it is when
\* the packet that is read, if any, is none of its own.
LEMMA Undisturbed ==
  ASSUME Shapes, NEW s \in Streams, OfStream(s),
         Handled(s)' = Handled(s), id'[s] = id[s], file' = file, since'[s] = since[s],
         \/ pos' = pos
         \/ /\ pos' = pos + 1
            /\ Track(file[pos]) # id[s] \/ file[pos] = "bad"
  PROVE  OfStream(s)'
<1>1. ReadOf(s)' = ReadOf(s)
  <2>1. pos \in Nat /\ since[s] \in Nat
    BY DEF Shapes, Places
  <2>2. CASE pos' = pos
    BY <2>2 DEF ReadOf
  <2>3. CASE pos' = pos + 1 /\ (Track(file[pos]) # id[s] \/ file[pos] = "bad")
    <3>1. ASSUME NEW i \in since[s] .. pos' - 1,
                 Track(file[i]) = id[s], file[i] # "bad"
          PROVE  i \in since[s] .. pos - 1
      BY <2>1, <2>3, <3>1
    <3>2. since[s] .. pos - 1 \subseteq since[s] .. pos' - 1
      BY <2>1, <2>3
    <3> QED
      BY <3>1, <3>2 DEF ReadOf
  <2> QED
    BY <2>2, <2>3
<1> QED
  BY <1>1 DEF OfStream

\* A packet of the selected track is appended to what the stream has.
LEMMA Arrival ==
  ASSUME Shapes, NEW s \in Streams, OfStream(s), id[s] # "none",
         queue'[s] = Append(queue[s], pos), pos' = pos + 1,
         current'[s] = current[s], used'[s] = used[s], delivered'[s] = delivered[s],
         id'[s] = id[s], file' = file, since'[s] = since[s],
         Track(file[pos]) = id[s], file[pos] # "bad"
  PROVE  OfStream(s)'
<1>1. pos \in Places /\ since[s] \in Nat /\ since[s] <= pos
  BY DEF Shapes, Places
<1>2. Handled(s)' = Append(Handled(s), pos)
  <2>1. (IF Unread(s) THEN <<current[s]>> ELSE <<>>)' =
            (IF Unread(s) THEN <<current[s]>> ELSE <<>>)
    BY DEF Unread
  <2>2. Handled(s)' = delivered[s] \o ((IF Unread(s) THEN <<current[s]>> ELSE <<>>)
                                            \o Append(queue[s], pos))
    BY <2>1 DEF Handled, Wait
  <2> DEFINE w == IF Unread(s) THEN <<current[s]>> ELSE <<>>
  <2>3. w \in Seq(Places) /\ delivered[s] \in Seq(Places) /\ queue[s] \in Seq(Places)
    BY HandledIsSeq
  <2>4. Handled(s)' = delivered[s] \o (w \o Append(queue[s], pos))
    BY <2>2
  <2>5. Handled(s) = delivered[s] \o (w \o queue[s])
    BY DEF Handled, Wait
  <2> HIDE DEF w
  <2>6. delivered[s] \o (w \o Append(queue[s], pos)) = Append(delivered[s] \o (w \o queue[s]), pos)
    BY <1>1, <2>3, ConcatThenAppend
  <2> QED
    BY <2>4, <2>5, <2>6
<1>3. ReadOf(s)' = ReadOf(s) \cup {pos}
  <2>1. since[s] .. pos' - 1 = since[s] .. pos - 1 \cup {pos}
    BY <1>1 DEF Places
  <2> QED
    BY <2>1 DEF ReadOf
<1>4. \A i \in Range(Handled(s)) : i < pos
  BY <1>1 DEF OfStream, ReadOf, Places
<1>5. InOrder(Handled(s)') /\ Range(Handled(s)') = Range(Handled(s)) \cup {pos}
  BY <1>1, <1>2, <1>4, HandledIsSeq, AppendInOrder DEF OfStream
<1> QED
  BY <1>3, <1>5 DEF OfStream, InOrder

\* A packet is wanted by one stream at most, and by that of its track.
LEMMA OneStream ==
  ASSUME OwnTracks, NEW k \in AllKinds, NEW s \in Streams, id[s] = Track(k)
  PROVE  /\ s = (IF k \in {"a1", "a2"} THEN "audio" ELSE IF k = "s" THEN "sub" ELSE "video")
         /\ id[s] # "none" /\ (k = "bad" => id["video"] = "v")
<1>1. Track(k) = (IF k \in {"skip", "bad"} THEN "v" ELSE k) /\ Track(k) # "none"
  BY DEF Track, AllKinds
<1>2. CASE s = "audio"
  BY <1>1, <1>2 DEF OwnTracks, AllKinds
<1>3. CASE s = "video"
  BY <1>1, <1>3 DEF OwnTracks, AllKinds
<1>4. CASE s = "sub"
  BY <1>1, <1>4 DEF OwnTracks, AllKinds
<1> QED
  BY <1>2, <1>3, <1>4 DEF Streams

\* demux_fill_buffer gives the packet to the stream that selected its track.
LEMMA PacketRead ==
  ASSUME Shapes, OwnTracks, demux_fill_buffer
  PROVE  /\ pos <= Len(file) /\ pos' = pos + 1
         /\ \A s \in Streams :
              \/ /\ queue'[s] = Append(queue[s], pos)
                 /\ Track(file[pos]) = id[s] /\ file[pos] # "bad" /\ id[s] # "none"
              \/ /\ queue'[s] = queue[s]
                 /\ Track(file[pos]) # id[s] \/ file[pos] = "bad"
         /\ queue' \in [Streams -> Seq(Places)]
<1>1. pos \in 1 .. Len(file) /\ pos \in Places /\ pos' = pos + 1 /\ ~Refuses
  BY LenProperties DEF Shapes, Places, demux_fill_buffer
<1>2. file[pos] \in AllKinds
  BY <1>1, KindsOfPackets
<1>3. CASE Wanted(file[pos]) = {}
  BY <1>1, <1>3 DEF demux_fill_buffer, Wanted, Shapes
<1>4. CASE Wanted(file[pos]) # {}
  <2> DEFINE o == CHOOSE o \in Wanted(file[pos]) : TRUE
  <2>1. o \in Streams /\ id[o] = Track(file[pos])
    BY <1>4 DEF Wanted
  <2>2. queue' = [queue EXCEPT ![o] = Append(queue[o], pos)]
    BY <1>4 DEF demux_fill_buffer, ds_add_packet
  <2>3. \A s \in Streams : id[s] = Track(file[pos]) => s = o
    BY <1>2, <2>1, OneStream
  <2>4. file[pos] # "bad" /\ id[o] # "none"
    BY <1>1, <1>2, <2>1, OneStream DEF Refuses
  <2>5. Append(queue[o], pos) \in Seq(Places)
    BY <1>1, <2>1, AppendProperties DEF Shapes
  <2> HIDE DEF o
  <2> QED
    BY <1>1, <2>1, <2>2, <2>3, <2>4, <2>5 DEF Shapes
<1> QED
  BY <1>1, <1>3, <1>4

LEMMA FileRead ==
  ASSUME Shapes, OwnTracks, NoPacketLost, demux_fill_buffer,
         UNCHANGED <<file, id, current, used, delivered, since>>
  PROVE  NoPacketLost'
<1> SUFFICES ASSUME NEW s \in Streams PROVE OfStream(s)'
  BY DEF NoPacketLost, OfStream
<1>1. OfStream(s)
  BY DEF NoPacketLost, OfStream
<1>2. CASE /\ queue'[s] = Append(queue[s], pos)
           /\ Track(file[pos]) = id[s] /\ file[pos] # "bad" /\ id[s] # "none"
  BY <1>1, <1>2, PacketRead, Arrival
<1>3. CASE queue'[s] = queue[s] /\ (Track(file[pos]) # id[s] \/ file[pos] = "bad")
  <2>1. Handled(s)' = Handled(s)
    BY <1>3 DEF Handled, Wait, Unread
  <2> QED
    BY <1>1, <1>3, <2>1, PacketRead, Undisturbed
<1> QED
  BY <1>2, <1>3, PacketRead

\* Whatever else happens to the place in the file: nothing is read but a
\* packet that is refused.
LEMMA NothingRead ==
  ASSUME Shapes, NoPacketLost, pos' = pos \/ (pos' = pos + 1 /\ Refuses),
         UNCHANGED <<file, id, since>>, \A s \in Streams : Handled(s)' = Handled(s)
  PROVE  NoPacketLost'
<1> SUFFICES ASSUME NEW s \in Streams PROVE OfStream(s)'
  BY DEF NoPacketLost, OfStream
<1>1. OfStream(s)
  BY DEF NoPacketLost, OfStream
<1> QED
  BY <1>1, Undisturbed DEF Refuses

\* A stream whose packets are freed starts again at the place in the file.
LEMMA Freed ==
  ASSUME NEW S \in SUBSET Streams, ds_free_packs(S), pos' \in Nat, NEW s \in S
  PROVE  OfStream(s)'
<1>1. s \in Streams /\ queue'[s] = <<>> /\ current'[s] = 0 /\ delivered'[s] = <<>> /\ since'[s] = pos'
  BY DEF ds_free_packs
<1>2. <<>> \in Seq(Places)
  BY EmptySeq
<1>3. Handled(s)' = <<>>
  BY <1>1, <1>2, ConcatEmptySeq DEF Handled, Wait, Unread
<1>4. ReadOf(s)' = {}
  BY <1>1 DEF ReadOf
<1> QED
  BY <1>3, <1>4, NothingInOrder DEF OfStream, InOrder

\* The packet in front of the queue is handed over, at once or later.
LEMMA Handing ==
  ASSUME Shapes, NEW s \in Streams, NEW read \in {0, 1}, Taken(s, read),
         queue[s] # <<>>, ~Unread(s)
  PROVE  \A o \in Streams : Handled(o)' = Handled(o)
<1> SUFFICES ASSUME NEW o \in Streams PROVE Handled(o)' = Handled(o)
  OBVIOUS
<1>1. CASE o # s
  <2>1. /\ queue'[o] = queue[o] /\ current'[o] = current[o] /\ used'[o] = used[o]
        /\ delivered'[o] = delivered[o]
    BY <1>1 DEF Taken, Shapes
  <2> QED
    BY <2>1 DEF Handled, Wait, Unread
<1>2. CASE o = s
  <2>1. queue[s] \in Seq(Places) /\ delivered[s] \in Seq(Places)
    BY HandledIsSeq
  <2>2. /\ Head(queue[s]) \in Places /\ Tail(queue[s]) \in Seq(Places)
        /\ <<Head(queue[s])>> \o Tail(queue[s]) = queue[s]
    BY <2>1, HeadAndTail
  <2>3. /\ queue'[s] = Tail(queue[s]) /\ current'[s] = Head(queue[s]) /\ used'[s] = read
        /\ delivered'[s] = IF read = 0 THEN delivered[s]
                           ELSE Append(delivered[s], Head(queue[s]))
    BY DEF Taken, Shapes
  <2>4. Handled(s) = delivered[s] \o queue[s]
    BY <2>1, ConcatEmptySeq DEF Handled, Wait
  <2>5. CASE read = 0
    <3>1. Unread(s)'
      BY <2>2, <2>3, <2>5 DEF Unread, Places
    <3>2. Wait(s)' = <<Head(queue[s])>> \o Tail(queue[s])
      BY <2>3, <3>1 DEF Wait
    <3> QED
      BY <1>2, <2>2, <2>3, <2>4, <2>5, <3>2 DEF Handled
  <2>6. CASE read = 1
    <3>1. ~Unread(s)'
      BY <2>3, <2>6 DEF Unread
    <3>2. Wait(s)' = Tail(queue[s])
      BY <2>2, <2>3, <3>1, ConcatEmptySeq DEF Wait
    <3>3. Handled(s)' = Append(delivered[s], Head(queue[s])) \o Tail(queue[s])
      BY <2>3, <2>6, <3>2 DEF Handled
    <3>4. Append(delivered[s], Head(queue[s])) \o Tail(queue[s])
            = delivered[s] \o (<<Head(queue[s])>> \o Tail(queue[s]))
      BY <2>1, <2>2, AppendThenConcat
    <3> QED
      BY <1>2, <2>2, <2>4, <3>3, <3>4
  <2> QED
    BY <2>5, <2>6
<1> QED
  BY <1>1, <1>2

\* The current packet, which waited, is handed over.
LEMMA Reads ==
  ASSUME Shapes, NEW s \in Streams, Unread(s), queue' = queue, current' = current,
         used' = [used EXCEPT ![s] = 1],
         delivered' = [delivered EXCEPT ![s] = Append(@, current[s])]
  PROVE  \A o \in Streams : Handled(o)' = Handled(o)
<1> SUFFICES ASSUME NEW o \in Streams PROVE Handled(o)' = Handled(o)
  OBVIOUS
<1>1. CASE o # s
  <2>1. used'[o] = used[o] /\ delivered'[o] = delivered[o]
    BY <1>1 DEF Shapes
  <2> QED
    BY <2>1 DEF Handled, Wait, Unread
<1>2. CASE o = s
  <2>1. queue[s] \in Seq(Places) /\ delivered[s] \in Seq(Places) /\ current[s] \in Places
    BY HandledIsSeq DEF Shapes, Unread, Places
  <2>2. used'[s] = 1 /\ delivered'[s] = Append(delivered[s], current[s])
    BY DEF Shapes
  <2>3. Wait(s)' = queue[s]
    <3>1. ~Unread(s)'
      BY <2>2 DEF Unread
    <3> QED
      BY <2>1, <3>1, ConcatEmptySeq DEF Wait
  <2>4. Handled(s)' = Append(delivered[s], current[s]) \o queue[s]
    BY <2>2, <2>3 DEF Handled
  <2>5. Handled(s) = delivered[s] \o (<<current[s]>> \o queue[s])
    BY DEF Handled, Wait
  <2>6. Append(delivered[s], current[s]) \o queue[s] = delivered[s] \o (<<current[s]>> \o queue[s])
    BY <2>1, AppendThenConcat
  <2> QED
    BY <1>2, <2>4, <2>5, <2>6
<1> QED
  BY <1>1, <1>2

-----------------------------------------------------------------------------
(* The variables keep their shapes *)

LEMMA TakenShape ==
  ASSUME Shapes, NEW s \in Streams, NEW read \in {0, 1}, Taken(s, read), queue[s] # <<>>
  PROVE  /\ queue' \in [Streams -> Seq(Places)] /\ current' \in [Streams -> Nat]
         /\ used' \in [Streams -> {0, 1}] /\ eof' \in [Streams -> {0, 1}]
         /\ fill_count' \in [Streams -> Int] /\ delivered' \in [Streams -> Seq(Places)]
<1>1. queue[s] \in Seq(Places) /\ delivered[s] \in Seq(Places)
  BY DEF Shapes
<1>2. Head(queue[s]) \in Places /\ Tail(queue[s]) \in Seq(Places) /\ Head(queue[s]) \in Nat
  BY <1>1, HeadAndTail DEF Places
<1>3. Append(delivered[s], Head(queue[s])) \in Seq(Places)
  BY <1>1, <1>2, AppendProperties
<1> QED
  BY <1>2, <1>3 DEF Shapes, Taken

LEMMA FreedShape ==
  ASSUME Shapes, NEW S \in SUBSET Streams, ds_free_packs(S), pos' \in Places
  PROVE  /\ queue' \in [Streams -> Seq(Places)] /\ current' \in [Streams -> Nat]
         /\ used' \in [Streams -> {0, 1}] /\ delivered' \in [Streams -> Seq(Places)]
         /\ since' \in [Streams -> Places]
         /\ \A s \in Streams : IF s \in S THEN since'[s] = pos' ELSE since'[s] = since[s]
<1>1. <<>> \in Seq(Places)
  BY EmptySeq
<1> QED
  BY <1>1 DEF Shapes, ds_free_packs

LEMMA ShapesKept ==
  ASSUME Shapes, OwnTracks, DemuxNext
  PROVE  Shapes' /\ OwnTracks'
<1>1. Len(file) \in Nat /\ pos \in Places /\ pos \in 1 .. Len(file) + 1
  BY LenProperties DEF Shapes, Places
<1>2. ASSUME NEW s \in Queued, ds_get_packet(s)
      PROVE  Shapes' /\ OwnTracks'
  <2>1. s \in Streams
    BY DEF Queued, Streams
  <2>2. CASE Unread(s)
    <3>1. Append(delivered[s], current[s]) \in Seq(Places)
      BY <2>1, <2>2, AppendProperties DEF Shapes, Unread, Places
    <3> QED
      BY <1>2, <2>1, <2>2, <3>1 DEF ds_get_packet, Shapes, OwnTracks
  <2>3. CASE ~Unread(s)
    <3>1. call' \in [op : {"idle", "get", "refill", "next_pts"}, s : Streams]
      BY <1>2, <2>1, <2>3 DEF ds_get_packet, StartFill
    <3>2. current' \in [Streams -> Nat]
      <4>1. current \in [Streams -> Nat] /\ current' = [current EXCEPT ![s] = 0]
        BY <1>2, <2>3 DEF ds_get_packet, StartFill, Shapes
      <4> QED
        BY <4>1
    <3> QED
      BY <1>2, <2>3, <3>1, <3>2 DEF ds_get_packet, Shapes, OwnTracks
  <2> QED
    BY <2>2, <2>3
<1>3. CASE Deliver
  <2>1. call.s \in Streams /\ Idle \in [op : {"idle", "get", "refill", "next_pts"}, s : Streams]
    BY DEF Shapes, Idle, Streams
  <2> QED
    BY <1>3, <2>1, TakenShape DEF Deliver, Shapes, OwnTracks
<1>4. CASE Demux \/ ReadAhead
  <2>1. /\ pos <= Len(file) /\ pos' = pos + 1 /\ queue' \in [Streams -> Seq(Places)]
    BY <1>4, PacketRead DEF Demux, ReadAhead
  <2>2. /\ UNCHANGED <<file, id, current, used, eof, call, delivered, since, ended, seeks, switches>>
        /\ fill_count' \in [Streams -> Int]
    BY <1>4 DEF Demux, ReadAhead, Shapes, Passed, player
  <2>3. pos' \in 1 .. Len(file) + 1 /\ \A s \in Streams : since[s] <= pos'
    BY <1>1, <2>1 DEF Shapes, Places
  <2> QED
    BY <2>1, <2>2, <2>3 DEF Shapes, OwnTracks
<1>5. CASE Unsuccessful
  BY <1>1, <1>5 DEF Unsuccessful, Fails, Refuses, AtEof, StartFill, player, Shapes, OwnTracks,
       Idle, Places, Streams
<1>6. CASE EndOfPlay
  <2>1. pos' \in 1 .. Len(file) + 1 /\ pos' >= pos
    BY <1>1, <1>6 DEF EndOfPlay, Fails, Refuses, Places
  <2>2. \A s \in Streams : since[s] <= pos'
    BY <1>1, <2>1 DEF Shapes, Places
  <2>3. call' \in [op : {"idle", "get", "refill", "next_pts"}, s : Streams]
    BY <1>6 DEF EndOfPlay, Idle, Streams
  <2>4. eof' \in [Streams -> {0, 1}] /\ used' \in [Streams -> {0, 1}]
    BY <1>6 DEF EndOfPlay, AtEof, Shapes
  <2> QED
    BY <1>6, <2>1, <2>2, <2>3, <2>4 DEF EndOfPlay, Shapes, OwnTracks
<1>7. ASSUME NEW s \in Streams, ds_get_next_pts(s)
      PROVE  Shapes' /\ OwnTracks'
  BY <1>7 DEF ds_get_next_pts, ds, player, Shapes, OwnTracks
<1>8. CASE Peeked
  BY <1>1, <1>8 DEF Peeked, Refuses, ds, player, Shapes, OwnTracks, Idle, Places, Streams
<1>9. CASE ds_get_packet_sub
  <2>1. "sub" \in Streams
    BY DEF Streams
  <2>2. CASE Unread("sub")
    <3>1. Append(delivered["sub"], current["sub"]) \in Seq(Places)
      BY <2>1, <2>2, AppendProperties DEF Shapes, Unread, Places
    <3>2. used' \in [Streams -> {0, 1}] /\ delivered' \in [Streams -> Seq(Places)]
      <4>1. used \in [Streams -> {0, 1}] /\ delivered \in [Streams -> Seq(Places)]
        BY DEF Shapes
      <4>2. /\ used' = [used EXCEPT !["sub"] = 1]
            /\ delivered' = [delivered EXCEPT !["sub"] = Append(@, current["sub"])]
        BY <1>9, <2>2 DEF ds_get_packet_sub
      <4> QED
        BY <3>1, <4>1, <4>2
    <3> QED
      BY <1>9, <2>2, <3>2 DEF ds_get_packet_sub, Shapes, OwnTracks
  <2>3. CASE ~Unread("sub")
    <3>1. PICK due \in {0, 1} : Taken("sub", due)
      BY <1>9, <2>3 DEF ds_get_packet_sub
    <3> QED
      BY <1>9, <2>1, <2>3, <3>1, TakenShape DEF ds_get_packet_sub, Shapes, OwnTracks
  <2> QED
    BY <2>2, <2>3
<1>10. CASE demux_seek
  <2>1. pos' \in 1 .. Len(file) + 1 /\ pos' \in Places /\ pos' <= pos'
    BY <1>1, <1>10 DEF demux_seek, Places
  <2>2. /\ queue' \in [Streams -> Seq(Places)] /\ current' \in [Streams -> Nat]
        /\ used' \in [Streams -> {0, 1}] /\ delivered' \in [Streams -> Seq(Places)]
        /\ since' \in [Streams -> Places] /\ \A s \in Streams : since'[s] = pos'
    BY <1>10, <2>1, FreedShape DEF demux_seek
  <2>3. /\ eof' \in [Streams -> {0, 1}] /\ fill_count' \in [Streams -> Int]
        /\ UNCHANGED <<file, id, call, ended, switches>> /\ seeks' \in Nat
    BY <1>10, DemuxAssumption DEF demux_seek, Shapes
  <2>4. \A s \in Streams : since'[s] <= pos'
    BY <2>1, <2>2
  <2> QED
    BY <2>1, <2>2, <2>3, <2>4 DEF Shapes, OwnTracks
<1>11. ASSUME NEW s \in Queued, NEW t \in {"a1", "a2", "v", "none"}, demuxer_switch(s, t),
              s = "audio" => t # "v", s = "video" => t \in {"v", "none"}
       PROVE  Shapes' /\ OwnTracks'
  <2>1. s \in Streams /\ pos' = pos
    BY <1>11 DEF Queued, Streams, demuxer_switch
  <2>2. {s} \in SUBSET Streams /\ ds_free_packs({s}) /\ pos' \in Places
    BY <1>1, <1>11, <2>1 DEF demuxer_switch
  <2>3. /\ queue' \in [Streams -> Seq(Places)] /\ current' \in [Streams -> Nat]
        /\ used' \in [Streams -> {0, 1}] /\ delivered' \in [Streams -> Seq(Places)]
        /\ since' \in [Streams -> Places]
        /\ \A o \in Streams : since'[o] = pos' \/ since'[o] = since[o]
    BY <2>2, FreedShape
  <2>4. \A o \in Streams : since'[o] <= pos
    <3>1. pos <= pos /\ \A o \in Streams : since[o] <= pos
      BY <1>1 DEF Shapes, Places
    <3> QED
      BY <2>1, <2>3, <3>1
  <2>5. id' = [id EXCEPT ![s] = t] /\ id' \in [Streams -> {"a1", "a2", "v", "s", "none"}]
    BY <1>11, <2>1 DEF demuxer_switch, Shapes
  <2>6. ASSUME s = "audio" PROVE OwnTracks'
    <3>1. /\ id'["audio"] = t /\ id'["video"] = id["video"] /\ id'["sub"] = id["sub"]
      BY <2>5, <2>6 DEF Shapes, Streams
    <3> QED
      <4>1. t \in {"a1", "a2", "none"}
        BY <1>11, <2>6
      <4>2. id["video"] \in {"v", "none"} /\ id["sub"] \in {"s", "none"}
        BY DEF OwnTracks
      <4> QED
        BY <3>1, <4>1, <4>2 DEF OwnTracks
  <2>7. ASSUME s = "video" PROVE OwnTracks'
    <3>1. /\ id'["audio"] = id["audio"] /\ id'["video"] = t /\ id'["sub"] = id["sub"]
      BY <2>5, <2>7 DEF Shapes, Streams
    <3> QED
      <4>1. t \in {"v", "none"}
        BY <1>11, <2>7
      <4>2. id["audio"] \in {"a1", "a2", "none"} /\ id["sub"] \in {"s", "none"}
        BY DEF OwnTracks
      <4> QED
        BY <3>1, <4>1, <4>2 DEF OwnTracks
  <2>8. OwnTracks'
    BY <2>6, <2>7 DEF Queued
  <2>9. UNCHANGED <<file, eof, fill_count, call, ended, seeks>> /\ switches' \in Nat
    BY <1>11 DEF demuxer_switch, Shapes
  <2> QED
    BY <2>1, <2>3, <2>4, <2>5, <2>8, <2>9 DEF Shapes
<1>12. CASE switch_sub
  <2>1. "sub" \in Streams
    BY DEF Streams
  <2>2. CASE id["sub"] = "none"
    <3>1. ds_free_packs({"sub"}) /\ pos' = pos
      BY <1>12, <2>2 DEF switch_sub
    <3>2. /\ queue' \in [Streams -> Seq(Places)] /\ current' \in [Streams -> Nat]
          /\ used' \in [Streams -> {0, 1}] /\ delivered' \in [Streams -> Seq(Places)]
          /\ since' \in [Streams -> Places]
          /\ \A o \in Streams : since'[o] = pos' \/ since'[o] = since[o]
      <4>1. {"sub"} \in SUBSET Streams /\ pos' \in Places
        BY <1>1, <2>1, <3>1
      <4> QED
        BY <3>1, <4>1, FreedShape
    <3>3. \A o \in Streams : since'[o] <= pos
      <4>1. pos <= pos /\ \A o \in Streams : since[o] <= pos
        BY <1>1 DEF Shapes, Places
      <4> QED
        BY <3>1, <3>2, <4>1
    <3>4. /\ id' = [id EXCEPT !["sub"] = "s"] /\ switches' \in Nat
          /\ UNCHANGED <<file, eof, fill_count, call, ended, seeks>>
      BY <1>12, <2>2 DEF switch_sub, Shapes
    <3>5. OwnTracks' /\ id' \in [Streams -> {"a1", "a2", "v", "s", "none"}]
      BY <3>4 DEF OwnTracks, Shapes, Streams
    <3> QED
      BY <3>1, <3>2, <3>3, <3>4, <3>5 DEF Shapes
  <2>3. CASE id["sub"] # "none"
    <3>1. <<>> \in Seq(Places)
      BY EmptySeq
    <3>2. queue["sub"] # <<>> => Last(queue["sub"]) \in Nat
      <4>1. queue["sub"] \in Seq(Places)
        BY <2>1 DEF Shapes
      <4>2. queue["sub"] # <<>> => Len(queue["sub"]) \in 1 .. Len(queue["sub"])
        BY <4>1, EmptySeq, LenProperties
      <4> QED
        BY <4>1, <4>2, ElementOfSeq DEF Last, Places
    <3>3. /\ queue' = [queue EXCEPT !["sub"] = <<>>]
          /\ current' = [current EXCEPT !["sub"] =
                           IF queue["sub"] = <<>> THEN @ ELSE Last(queue["sub"])]
          /\ used' = [used EXCEPT !["sub"] = 1]
          /\ id' = [id EXCEPT !["sub"] = "none"] /\ switches' = switches + 1
          /\ UNCHANGED <<file, pos, eof, fill_count, call, ended, seeks, delivered, since>>
      BY <1>12, <2>3 DEF switch_sub
    <3>4. /\ queue' \in [Streams -> Seq(Places)] /\ current' \in [Streams -> Nat]
          /\ used' \in [Streams -> {0, 1}] /\ switches' \in Nat
      <4>1. /\ queue \in [Streams -> Seq(Places)] /\ current \in [Streams -> Nat]
            /\ used \in [Streams -> {0, 1}] /\ switches \in Nat
        BY DEF Shapes
      <4>2. (IF queue["sub"] = <<>> THEN current["sub"] ELSE Last(queue["sub"])) \in Nat
        BY <2>1, <3>2, <4>1
      <4>3. current' \in [Streams -> Nat]
        BY <3>3, <4>1, <4>2
      <4> QED
        BY <3>1, <3>3, <4>1, <4>3
    <3>5. OwnTracks' /\ id' \in [Streams -> {"a1", "a2", "v", "s", "none"}]
      BY <3>3 DEF OwnTracks, Shapes, Streams
    <3> QED
      BY <3>3, <3>4, <3>5 DEF Shapes
  <2> QED
    BY <2>2, <2>3
<1>13. CASE UNCHANGED demuxVars
  BY <1>13 DEF demuxVars, Shapes, OwnTracks
<1> QED
  BY <1>2, <1>3, <1>4, <1>5, <1>6, <1>7, <1>8, <1>9, <1>10, <1>11, <1>12, <1>13
     DEF DemuxNext, Reading, Fill, Queued

-----------------------------------------------------------------------------
(* No packet is lost *)

LEMMA Untouched ==
  ASSUME NEW s \in Streams, queue'[s] = queue[s], delivered'[s] = delivered[s],
         \/ ~Unread(s) /\ ~Unread(s)'
         \/ current'[s] = current[s] /\ used'[s] = used[s]
  PROVE  Handled(s)' = Handled(s)
  BY DEF Handled, Wait, Unread

LEMMA PacketsKept ==
  ASSUME Shapes, OwnTracks, CallTrue, EndedIsRead, NoPacketLost, DemuxNext
  PROVE  NoPacketLost'
<1>1. \A s \in Streams : OfStream(s)
  BY DEF NoPacketLost, OfStream
<1>2. ASSUME NEW s \in Queued, ds_get_packet(s)
      PROVE  NoPacketLost'
  <2>1. s \in Streams /\ pos' = pos /\ UNCHANGED <<file, id, since>> /\ queue' = queue
    BY <1>2 DEF Queued, Streams, ds_get_packet
  <2>2. CASE Unread(s)
    <3>1. \A o \in Streams : Handled(o)' = Handled(o)
      BY <1>2, <2>1, <2>2, Reads DEF ds_get_packet
    <3> QED
      BY <2>1, <3>1, NothingRead
  <2>3. CASE ~Unread(s)
    <3>1. current' = [current EXCEPT ![s] = 0] /\ UNCHANGED <<used, delivered>>
      BY <1>2, <2>3 DEF ds_get_packet, StartFill
    <3>2. ASSUME NEW o \in Streams PROVE Handled(o)' = Handled(o)
      <4>1. IF o = s THEN ~Unread(o) /\ ~Unread(o)' ELSE current'[o] = current[o]
        BY <2>3, <3>1 DEF Shapes, Unread
      <4> QED
        BY <2>1, <3>1, <4>1, Untouched
    <3> QED
      BY <2>1, <3>2, NothingRead
  <2> QED
    BY <2>2, <2>3
<1>3. CASE Deliver
  <2>1. call.s \in Streams /\ queue[call.s] # <<>> /\ ~Unread(call.s)
    BY <1>3 DEF Shapes, Deliver, CallTrue, Unread
  <2>2. PICK read \in {0, 1} : Taken(call.s, read)
    BY <1>3 DEF Deliver
  <2>3. \A o \in Streams : Handled(o)' = Handled(o)
    BY <2>1, <2>2, Handing
  <2> QED
    BY <1>3, <2>3, NothingRead DEF Deliver
<1>4. CASE Demux \/ ReadAhead
  BY <1>4, FileRead DEF Demux, ReadAhead, player
<1>5. CASE Unsuccessful
  <2>1. call.s \in Streams /\ current[call.s] = 0 /\ Filling
    BY <1>5 DEF Shapes, CallTrue, Unsuccessful, Fails
  <2>2. /\ used' = [used EXCEPT ![call.s] = 1]
        /\ UNCHANGED <<file, id, since, queue, delivered>>
        /\ pos' = pos \/ (pos' = pos + 1 /\ Refuses)
    BY <1>5 DEF Unsuccessful, Fails, AtEof, player
  <2>3. \/ current' = current
        \/ eof["audio"] = 1 /\ call.s # "audio" /\ current' = [current EXCEPT !["audio"] = 0]
    BY <1>5 DEF Unsuccessful, AudioInDoubt, StartFill
  <2>4. ASSUME NEW o \in Streams PROVE Handled(o)' = Handled(o)
    <3>1. CASE o = call.s
      <4>1. ~Unread(o) /\ ~Unread(o)'
        BY <2>1, <2>2, <3>1 DEF Unread, Shapes
      <4> QED
        BY <2>2, <4>1, Untouched
    <3>2. CASE o # call.s /\ current'[o] = current[o]
      <4>1. used'[o] = used[o]
        BY <2>2, <3>2 DEF Shapes
      <4> QED
        BY <2>2, <3>2, <4>1, Untouched
    <3>3. CASE o # call.s /\ current'[o] # current[o]
      <4>1. o = "audio" /\ eof["audio"] = 1 /\ current'[o] = 0
        BY <2>3, <3>3 DEF Shapes
      <4>2. ~Unread(o) /\ ~Unread(o)'
        BY <4>1 DEF EndedIsRead, Unread
      <4> QED
        BY <2>2, <4>2, Untouched
    <3> QED
      BY <3>1, <3>2, <3>3
  <2> QED
    BY <2>2, <2>4, NothingRead
<1>6. CASE EndOfPlay
  <2>1. call.s \in Streams /\ current[call.s] = 0
    BY <1>6 DEF Shapes, CallTrue, EndOfPlay, Fails
  <2>2. /\ used' = [used EXCEPT ![call.s] = 1]
        /\ UNCHANGED <<file, id, since, queue, current, delivered>>
        /\ pos' = pos \/ (pos' = pos + 1 /\ Refuses)
    BY <1>6 DEF EndOfPlay, Fails, AtEof
  <2>3. ASSUME NEW o \in Streams PROVE Handled(o)' = Handled(o)
    <3>1. CASE o = call.s
      <4>1. ~Unread(o) /\ ~Unread(o)'
        BY <2>1, <2>2, <3>1 DEF Unread
      <4> QED
        BY <2>2, <4>1, Untouched
    <3>2. CASE o # call.s
      <4>1. used'[o] = used[o]
        BY <2>2, <3>2 DEF Shapes
      <4> QED
        BY <2>2, <4>1, Untouched
    <3> QED
      BY <3>1, <3>2
  <2> QED
    BY <2>2, <2>3, NothingRead
<1>7. ASSUME NEW s \in Streams, ds_get_next_pts(s)
      PROVE  NoPacketLost'
  <2>1. pos' = pos /\ UNCHANGED <<file, id, since, queue, current, used, delivered>>
    BY <1>7 DEF ds_get_next_pts, ds, player
  <2> QED
    BY <2>1, Untouched, NothingRead
<1>8. CASE Peeked
  <2>1. /\ pos' = pos \/ (pos' = pos + 1 /\ Refuses)
        /\ UNCHANGED <<file, id, since, queue, current, used, delivered>>
    BY <1>8 DEF Peeked, ds, player
  <2> QED
    BY <2>1, Untouched, NothingRead
<1>9. CASE ds_get_packet_sub
  <2>1. "sub" \in Streams /\ pos' = pos /\ UNCHANGED <<file, id, since>>
    BY <1>9 DEF Streams, ds_get_packet_sub
  <2>2. CASE Unread("sub")
    BY <1>9, <2>1, <2>2, Reads, NothingRead DEF ds_get_packet_sub
  <2>3. CASE ~Unread("sub")
    <3>1. queue["sub"] # <<>> /\ \E due \in {0, 1} : Taken("sub", due)
      BY <1>9, <2>3 DEF ds_get_packet_sub
    <3> QED
      BY <2>1, <2>3, <3>1, Handing, NothingRead
  <2> QED
    BY <2>2, <2>3
<1>10. CASE demux_seek
  <2>1. ds_free_packs(Streams) /\ pos' \in Nat
    BY <1>10, LenProperties DEF demux_seek, Shapes
  <2>2. \A s \in Streams : OfStream(s)'
    BY <2>1, Freed
  <2> QED
    BY <2>2 DEF NoPacketLost, OfStream
<1>11. ASSUME NEW s \in Queued, NEW t, demuxer_switch(s, t)
       PROVE  NoPacketLost'
  <2>1. /\ {s} \in SUBSET Streams /\ s \in {s} /\ ds_free_packs({s})
        /\ pos' = pos /\ file' = file /\ id' = [id EXCEPT ![s] = t]
    BY <1>11 DEF Queued, Streams, demuxer_switch
  <2>2. pos' \in Nat
    BY <2>1, LenProperties DEF Shapes
  <2>3. OfStream(s)'
    BY <2>1, <2>2, Freed
  <2>4. ASSUME NEW o \in Streams, o # s PROVE OfStream(o)'
    <3>1. /\ queue'[o] = queue[o] /\ delivered'[o] = delivered[o] /\ since'[o] = since[o]
          /\ current'[o] = current[o] /\ used'[o] = used[o]
      BY <2>1, <2>4 DEF ds_free_packs
    <3>2. id'[o] = id[o]
      BY <2>1, <2>4 DEF Shapes
    <3>3. Handled(o)' = Handled(o)
      BY <3>1, Untouched
    <3> QED
      BY <1>1, <2>1, <3>1, <3>2, <3>3, Undisturbed
  <2> QED
    BY <2>3, <2>4 DEF NoPacketLost, OfStream
<1>12. CASE switch_sub
  <2>1. /\ {"sub"} \in SUBSET Streams /\ "sub" \in {"sub"} /\ pos' = pos /\ file' = file
    BY <1>12 DEF Streams, switch_sub
  <2>2. ASSUME NEW o \in Streams, o # "sub" PROVE OfStream(o)'
    <3>1. /\ queue'[o] = queue[o] /\ delivered'[o] = delivered[o] /\ since'[o] = since[o]
          /\ current'[o] = current[o] /\ used'[o] = used[o] /\ id'[o] = id[o]
      BY <1>12, <2>2 DEF switch_sub, ds_free_packs, Shapes
    <3>2. Handled(o)' = Handled(o)
      BY <3>1, Untouched
    <3> QED
      BY <1>1, <2>1, <3>1, <3>2, Undisturbed
  <2>3. OfStream("sub")'
    <3>1. CASE id["sub"] = "none"
      <4>1. ds_free_packs({"sub"}) /\ pos' \in Nat
        BY <1>12, <2>1, <3>1, LenProperties DEF switch_sub, Shapes
      <4> QED
        BY <2>1, <4>1, Freed
    <3>2. CASE id["sub"] # "none"
      <4>1. id'["sub"] = "none"
        BY <1>12, <2>1, <3>2 DEF switch_sub, Shapes
      <4> QED
        BY <4>1 DEF OfStream
    <3> QED
      BY <3>1, <3>2
  <2> QED
    BY <2>2, <2>3 DEF NoPacketLost, OfStream
<1>13. CASE UNCHANGED demuxVars
  <2>1. pos' = pos /\ UNCHANGED <<file, id, since, queue, current, used, delivered>>
    BY <1>13 DEF demuxVars
  <2> QED
    BY <2>1, Untouched, NothingRead
<1> QED
  BY <1>2, <1>3, <1>4, <1>5, <1>6, <1>7, <1>8, <1>9, <1>10, <1>11, <1>12, <1>13
     DEF DemuxNext, Reading, Fill, Queued

-----------------------------------------------------------------------------
(* Calls, and the ends they report *)

LEMMA CallsKept ==
  ASSUME Shapes, CallTrue, EndedIsRead, DemuxNext
  PROVE  CallTrue' /\ EndedIsRead'
<1>1. /\ current \in [Streams -> Nat] /\ used \in [Streams -> {0, 1}]
      /\ eof \in [Streams -> {0, 1}] /\ call.s \in Streams
      /\ queue \in [Streams -> Seq(Places)]
  BY DEF Shapes
<1>2. ASSUME NEW s \in Queued, ds_get_packet(s)
      PROVE  CallTrue' /\ EndedIsRead'
  <2>1. s \in Streams /\ call = Idle /\ queue' = queue /\ eof' = eof
    BY <1>2 DEF Queued, Streams, ds_get_packet
  <2>2. \/ used' = [used EXCEPT ![s] = 1] /\ UNCHANGED <<call, current>>
        \/ /\ call' = [op |-> "get", s |-> s] /\ current' = [current EXCEPT ![s] = 0]
           /\ used' = used
    BY <1>2 DEF ds_get_packet, StartFill
  <2>3. EndedIsRead'
    BY <1>1, <2>1, <2>2 DEF EndedIsRead, Unread
  <2>4. CallTrue'
    BY <1>1, <1>2, <2>1, <2>2 DEF CallTrue, Filling, Idle
  <2> QED
    BY <2>3, <2>4
<1>3. CASE Deliver
  <2>1. call' = Idle /\ eof' = [eof EXCEPT ![call.s] = 0]
    BY <1>3 DEF Deliver, Taken
  <2>2. \A o \in Streams : o # call.s => current'[o] = current[o] /\ used'[o] = used[o]
    BY <1>1, <1>3 DEF Deliver, Taken
  <2> QED
    BY <1>1, <2>1, <2>2 DEF CallTrue, Filling, Idle, EndedIsRead, Unread
<1>4. CASE Demux
  <2>1. UNCHANGED <<current, used, eof, call>> /\ call.op # "refill"
    BY <1>4 DEF Demux, GivesUp, CallTrue
  <2> QED
    BY <2>1 DEF CallTrue, Filling, EndedIsRead, Unread
<1>5. CASE ReadAhead
  <2>1. UNCHANGED <<current, used, eof, call>> /\ call.op = "next_pts"
    BY <1>5 DEF ReadAhead
  <2> QED
    BY <2>1 DEF CallTrue, Filling, EndedIsRead, Unread
<1>6. CASE Unsuccessful
  <2>1. /\ used' = [used EXCEPT ![call.s] = 1] /\ eof' = [eof EXCEPT ![call.s] = 1]
        /\ queue' = queue /\ queue[call.s] = <<>> /\ Filling
    BY <1>6 DEF Unsuccessful, AtEof, Fails
  <2>2. CASE AudioInDoubt
    <3>1. call' = [op |-> "refill", s |-> "audio"] /\ current' = [current EXCEPT !["audio"] = 0]
      BY <1>6, <2>2 DEF Unsuccessful, StartFill
    <3>2. call.s = "video" /\ eof["audio"] = 1
      BY <2>2 DEF AudioInDoubt
    <3>3. "audio" \in Streams /\ "video" \in Streams /\ "audio" \in Queued
      BY DEF Streams, Queued
    <3> QED
      BY <1>1, <2>1, <3>1, <3>2, <3>3 DEF CallTrue, Filling, EndedIsRead, Unread
  <2>3. CASE ~AudioInDoubt
    <3>1. call' = Idle /\ current' = current
      BY <1>6, <2>3 DEF Unsuccessful
    <3> QED
      BY <1>1, <2>1, <3>1 DEF CallTrue, Filling, Idle, EndedIsRead, Unread
  <2> QED
    BY <2>2, <2>3
<1>7. CASE EndOfPlay
  <2>1. /\ used' = [used EXCEPT ![call.s] = 1] /\ eof' = [eof EXCEPT ![call.s] = 1]
        /\ call' = Idle /\ current' = current
    BY <1>7 DEF EndOfPlay, AtEof
  <2> QED
    BY <1>1, <2>1 DEF CallTrue, Filling, Idle, EndedIsRead, Unread
<1>8. ASSUME NEW s \in Streams, ds_get_next_pts(s)
      PROVE  CallTrue' /\ EndedIsRead'
  <2>1. call' = [op |-> "next_pts", s |-> s] /\ UNCHANGED <<current, used, eof>>
    BY <1>8 DEF ds_get_next_pts, ds
  <2> QED
    BY <2>1 DEF CallTrue, Filling, EndedIsRead, Unread
<1>9. CASE Peeked
  <2>1. call' = Idle /\ UNCHANGED <<current, used, eof>>
    BY <1>9 DEF Peeked, ds
  <2> QED
    BY <2>1 DEF CallTrue, Filling, Idle, EndedIsRead, Unread
<1>10. CASE ds_get_packet_sub
  <2>1. call = Idle /\ call' = call /\ "sub" \in Streams
    BY <1>10 DEF ds_get_packet_sub, Streams
  <2>2. \/ used' = [used EXCEPT !["sub"] = 1] /\ UNCHANGED <<current, eof>>
        \/ \E due \in {0, 1} : Taken("sub", due)
    BY <1>10 DEF ds_get_packet_sub
  <2>3. \A o \in Streams :
           \/ current'[o] = current[o] /\ used'[o] \in {used[o], 1} /\ eof'[o] = eof[o]
           \/ eof'[o] = 0
    BY <1>1, <2>1, <2>2 DEF Taken
  <2> QED
    BY <2>1, <2>3 DEF CallTrue, Filling, Idle, EndedIsRead, Unread
<1>11. CASE demux_seek
  <2>1. call = Idle /\ call' = call /\ \A s \in Streams : eof'[s] = 0
    BY <1>11 DEF demux_seek
  <2> QED
    BY <2>1 DEF CallTrue, Filling, Idle, EndedIsRead
<1>12. ASSUME NEW s \in Streams, ds_free_packs({s}), call = Idle, call' = call, eof' = eof
       PROVE  CallTrue' /\ EndedIsRead'
  <2>1. \A o \in Streams : \/ current'[o] = current[o] /\ used'[o] = used[o]
                           \/ current'[o] = 0
    BY <1>12 DEF ds_free_packs
  <2> QED
    BY <1>12, <2>1 DEF CallTrue, Filling, Idle, EndedIsRead, Unread
<1>13. ASSUME NEW s \in Queued, NEW t, demuxer_switch(s, t)
       PROVE  CallTrue' /\ EndedIsRead'
  BY <1>12, <1>13 DEF demuxer_switch, Queued, Streams
<1>14. CASE switch_sub
  <2>1. call = Idle /\ call' = call /\ eof' = eof /\ "sub" \in Streams
    BY <1>14 DEF switch_sub, Streams
  <2>2. CASE ds_free_packs({"sub"})
    BY <1>12, <2>1, <2>2
  <2>3. CASE ~ds_free_packs({"sub"})
    <3>1. /\ used' = [used EXCEPT !["sub"] = 1]
          /\ \A o \in Streams : o # "sub" => current'[o] = current[o]
      BY <1>1, <1>14, <2>3 DEF switch_sub
    <3> QED
      BY <1>1, <2>1, <3>1 DEF CallTrue, Filling, Idle, EndedIsRead, Unread
  <2> QED
    BY <2>2, <2>3
<1>15. CASE UNCHANGED demuxVars
  BY <1>15 DEF demuxVars, CallTrue, Filling, EndedIsRead, Unread
<1> QED
  BY <1>2, <1>3, <1>4, <1>5, <1>6, <1>7, <1>8, <1>9, <1>10, <1>11, <1>13, <1>14, <1>15
     DEF DemuxNext, Reading, Fill, Queued

\* A packet that is counted is in a queue now.
LEMMA CountedIsQueued ==
  ASSUME Shapes, OwnTracks, demux_fill_buffer
  PROVE  /\ Passed \in {0, 1}
         /\ Passed = 1 => \E o \in Queued : queue'[o] # <<>>
         /\ \A o \in Queued : queue[o] # <<>> => queue'[o] # <<>>
<1>1. pos \in Places /\ \A o \in Queued : o \in Streams /\ queue[o] \in Seq(Places)
  BY LenProperties DEF Shapes, Places, Queued, Streams
<1>2. \A o \in Queued : Append(queue[o], pos) # <<>>
  BY <1>1, AppendProperties
<1>3. \A o \in Queued : queue'[o] = queue[o] \/ queue'[o] = Append(queue[o], pos)
  BY <1>1, PacketRead
<1>4. ASSUME Passed = 1 PROVE \E o \in Queued : queue'[o] # <<>>
  <2>1. CASE file[pos] = id["audio"]
    <3>1. "audio" \in Queued /\ "audio" \in Streams
      BY DEF Queued, Streams
    <3>2. pos \in 1 .. Len(file)
      BY <1>1, PacketRead, LenProperties DEF Shapes, Places
    <3>3. Track(file[pos]) = id["audio"] /\ file[pos] # "bad"
      BY <2>1 DEF OwnTracks, Track
    <3> QED
      BY <1>2, <3>1, <3>3, PacketRead
  <2>2. CASE file[pos] = "v" /\ id["video"] = "v"
    <3>1. "video" \in Queued /\ "video" \in Streams /\ Track(file[pos]) = id["video"]
      BY <2>2 DEF Queued, Streams, Track
    <3> QED
      BY <1>2, <2>2, <3>1, PacketRead
  <2> QED
    BY <1>4, <2>1, <2>2 DEF Passed
<1> QED
  BY <1>2, <1>3, <1>4 DEF Passed

LEMMA CountedKept ==
  ASSUME Shapes, OwnTracks, CallTrue, Counted, DemuxNext
  PROVE  Counted'
<1>1. /\ eof \in [Streams -> {0, 1}] /\ fill_count \in [Streams -> Int] /\ call.s \in Streams
      /\ queue \in [Streams -> Seq(Places)] /\ \A s \in Queued : s \in Streams
  BY DEF Shapes, Queued, Streams
<1>2. ASSUME NEW s \in Queued, ds_get_packet(s)
      PROVE  Counted'
  <2>1. ~Filling /\ UNCHANGED <<fill_count, eof>>
    BY <1>2 DEF ds_get_packet, Filling, Idle
  <2> QED
    BY <2>1 DEF Counted
<1>3. CASE Deliver
  <2>1. /\ fill_count' = [fill_count EXCEPT ![call.s] = 0]
        /\ eof' = [eof EXCEPT ![call.s] = 0]
    BY <1>3 DEF Deliver, Taken
  <2> QED
    BY <1>1, <2>1 DEF Counted
<1>4. CASE Demux
  <2>1. /\ fill_count' = [fill_count EXCEPT ![call.s] = @ + Passed] /\ UNCHANGED <<eof, call>>
        /\ demux_fill_buffer /\ Filling /\ eof[call.s] # 1
    BY <1>4 DEF Demux, GivesUp
  <2>2. ASSUME NEW s \in Queued, fill_count'[s] > 0
        PROVE  \/ eof'[s] = 1
               \/ Filling' /\ call'.s = s /\ \E o \in Queued : queue'[o] # <<>>
    <3>1. CASE s # call.s
      <4>1. fill_count'[s] = fill_count[s]
        BY <1>1, <2>1, <3>1
      <4> QED
        BY <2>1, <2>2, <3>1, <4>1 DEF Counted
    <3>2. CASE s = call.s
      <4>1. fill_count'[s] = fill_count[s] + Passed /\ Filling'
        BY <1>1, <2>1, <3>2 DEF Filling
      <4>2. Passed = 1 \/ fill_count[s] > 0
        BY <1>1, <2>1, <2>2, <4>1, CountedIsQueued
      <4>3. \E o \in Queued : queue'[o] # <<>>
        BY <2>1, <3>2, <4>2, CountedIsQueued DEF Counted
      <4> QED
        BY <2>1, <3>2, <4>1, <4>3
    <3> QED
      BY <3>1, <3>2
  <2> QED
    BY <2>2 DEF Counted
<1>5. CASE Unsuccessful \/ EndOfPlay
  <2>1. eof' = [eof EXCEPT ![call.s] = 1] /\ fill_count' = fill_count
    BY <1>5 DEF Unsuccessful, EndOfPlay, AtEof
  <2> QED
    BY <1>1, <2>1 DEF Counted
<1>6. CASE ReadAhead \/ Peeked \/ \E s \in Streams : ds_get_next_pts(s)
  <2>1. ~Filling /\ UNCHANGED <<fill_count, eof>>
    BY <1>6 DEF ReadAhead, Peeked, ds_get_next_pts, Filling, Idle, ds
  <2> QED
    BY <2>1 DEF Counted
<1>7. CASE ds_get_packet_sub
  <2>1. /\ ~Filling /\ "sub" \notin Queued
        /\ (UNCHANGED <<fill_count, eof>>) \/ \E due \in {0, 1} : Taken("sub", due)
    BY <1>7 DEF ds_get_packet_sub, Filling, Idle, Queued
  <2>2. \A s \in Queued : fill_count'[s] = fill_count[s] /\ eof'[s] = eof[s]
    BY <1>1, <2>1 DEF Taken
  <2> QED
    BY <2>1, <2>2 DEF Counted
<1>8. CASE demux_seek
  <2>1. \A s \in Queued : fill_count'[s] = 0 - FillLimit
    BY <1>1, <1>8 DEF demux_seek
  <2>2. ~(0 - FillLimit > 0)
    BY DemuxAssumption
  <2> QED
    BY <2>1, <2>2 DEF Counted
<1>9. CASE switch_sub \/ \E s \in Queued, t \in {"a1", "a2", "v", "none"} : demuxer_switch(s, t)
  <2>1. ASSUME NEW s, NEW t, demuxer_switch(s, t)
        PROVE  ~Filling /\ UNCHANGED <<fill_count, eof>>
    BY <2>1 DEF demuxer_switch, Filling, Idle
  <2>2. switch_sub => ~Filling /\ UNCHANGED <<fill_count, eof>>
    BY DEF switch_sub, Filling, Idle
  <2>3. ~Filling /\ UNCHANGED <<fill_count, eof>>
    BY <1>9, <2>1, <2>2
  <2> QED
    BY <2>3 DEF Counted
<1>10. CASE UNCHANGED demuxVars
  BY <1>10 DEF demuxVars, Counted, Filling
<1> QED
  BY <1>2, <1>3, <1>4, <1>5, <1>6, <1>7, <1>8, <1>9, <1>10
     DEF DemuxNext, Reading, Fill, Queued

-----------------------------------------------------------------------------
(* No queue outgrows its bound: nothing is read while one of them is full. *)

LEMMA BoundKept ==
  ASSUME Shapes, OwnTracks, QueuesBounded, DemuxNext
  PROVE  QueuesBounded'
<1>1. /\ queue \in [Streams -> Seq(Places)] /\ \A s \in Queued : s \in Streams
      /\ pos \in Places /\ "sub" \notin Queued
  BY LenProperties DEF Shapes, Places, Queued, Streams
<1>2. ASSUME NEW s \in Queued PROVE Len(queue[s]) \in Nat /\ Len(queue[s]) <= MaxPacks
  BY <1>1, <1>2, LenProperties DEF QueuesBounded
<1>3. CASE Demux \/ ReadAhead
  <2>1. demux_fill_buffer /\ ~Full
    BY <1>3 DEF Demux, ReadAhead, GivesUp
  <2>2. ASSUME NEW s \in Queued PROVE Len(queue'[s]) <= MaxPacks
    <3>1. queue'[s] = queue[s] \/ queue'[s] = Append(queue[s], pos)
      BY <1>1, <2>1, PacketRead
    <3>2. Len(Append(queue[s], pos)) = Len(queue[s]) + 1
      BY <1>1, AppendProperties
    <3>3. Len(queue[s]) < MaxPacks
      BY <1>2, <2>1, DemuxAssumption DEF Full
    <3> QED
      BY <1>2, <3>1, <3>2, <3>3, DemuxAssumption
  <2> QED
    BY <2>2 DEF QueuesBounded
<1>4. ASSUME NEW s \in Streams, NEW read, Taken(s, read), queue[s] # <<>>
      PROVE  QueuesBounded'
  <2>1. queue' = [queue EXCEPT ![s] = Tail(queue[s])]
    BY <1>4 DEF Taken
  <2>2. queue[s] \in Seq(Places) /\ Len(Tail(queue[s])) = Len(queue[s]) - 1
    BY <1>1, <1>4, HeadTailProperties
  <2>3. ASSUME NEW o \in Queued PROVE Len(queue'[o]) <= MaxPacks
    <3>1. queue'[o] = queue[o] \/ (o = s /\ queue'[o] = Tail(queue[s]))
      BY <1>1, <2>1
    <3>2. CASE queue'[o] = queue[o]
      BY <1>2, <3>2
    <3>3. CASE o = s /\ queue'[o] = Tail(queue[s])
      <4>1. Len(queue[s]) \in Nat /\ Len(queue[s]) <= MaxPacks
        BY <1>2, <3>3
      <4>2. Len(queue'[o]) = Len(queue[s]) - 1
        BY <2>2, <3>3
      <4> QED
        BY <4>1, <4>2, DemuxAssumption
    <3> QED
      BY <3>1, <3>2, <3>3
  <2> QED
    BY <2>3 DEF QueuesBounded
<1>5. CASE Deliver
  <2>1. PICK read \in {0, 1} : Taken(call.s, read)
    BY <1>5 DEF Deliver
  <2> QED
    BY <1>4, <1>5, <2>1 DEF Deliver, Shapes
<1>6. CASE ds_get_packet_sub
  <2>1. CASE queue' = queue
    BY <2>1 DEF QueuesBounded
  <2>2. CASE queue["sub"] # <<>> /\ \E due \in {0, 1} : Taken("sub", due)
    BY <1>4, <2>2 DEF Streams
  <2> QED
    BY <1>6, <2>1, <2>2 DEF ds_get_packet_sub
<1>7. ASSUME NEW S, ds_free_packs(S) PROVE QueuesBounded'
  <2>1. Len(<<>>) = 0
    BY EmptySeq
  <2> QED
    BY <1>1, <1>2, <1>7, <2>1, DemuxAssumption DEF ds_free_packs, QueuesBounded
<1>8. CASE demux_seek \/ (\E s \in Queued, t \in {"a1", "a2", "v", "none"} : demuxer_switch(s, t))
  BY <1>7, <1>8 DEF demux_seek, demuxer_switch
<1>9. CASE switch_sub
  <2>1. CASE ds_free_packs({"sub"})
    BY <1>7, <2>1
  <2>2. CASE ~ds_free_packs({"sub"})
    <3>1. \A s \in Queued : queue'[s] = queue[s]
      BY <1>1, <1>9, <2>2 DEF switch_sub
    <3> QED
      BY <3>1 DEF QueuesBounded
  <2> QED
    BY <2>1, <2>2
<1>10. CASE UNCHANGED queue
  BY <1>10 DEF QueuesBounded
<1> QED
  BY <1>3, <1>5, <1>6, <1>8, <1>9, <1>10
     DEF DemuxNext, Reading, Fill, Queued, ds_get_packet, ds_get_next_pts, Unsuccessful, EndOfPlay,
         Peeked, ds, player, demuxVars

-----------------------------------------------------------------------------
(* The end of the playback *)

\* A stream that fails to the end of its patience leaves the packets of the
\* other one in its queue, unless that one has ended as well.
LEMMA GivenUp ==
  ASSUME Shapes, Counted, Filling, GivesUp(call.s), call.s \in Queued,
         eof[call.s] = 0
  PROVE  \E o \in Queued : queue[o] # <<>>
<1>1. CASE fill_count[call.s] > FillLimit
  <2>1. fill_count[call.s] > 0
    BY <1>1, DemuxAssumption DEF Shapes
  <2> QED
    BY <2>1 DEF Counted
<1>2. CASE Full
  <2>1. PICK o \in Queued : Len(queue[o]) >= MaxPacks
    BY <1>2 DEF Full
  <2>2. queue[o] # <<>>
    BY <2>1, DemuxAssumption, EmptySeq
  <2> QED
    BY <2>2
<1> QED
  BY <1>1, <1>2 DEF GivesUp

LEMMA StandoffKept ==
  ASSUME Shapes, OwnTracks, CallTrue, Counted, NoStandoff, DemuxNext
  PROVE  NoStandoff'
<1>1. /\ eof \in [Streams -> {0, 1}] /\ call.s \in Streams /\ switches \in Nat
      /\ queue \in [Streams -> Seq(Places)] /\ \A s \in Queued : s \in Streams
      /\ "audio" \in Queued /\ "video" \in Queued
  BY DEF Shapes, Queued, Streams
<1>2. CASE UNCHANGED <<file, pos, id, eof, queue, switches>>
  BY <1>2 DEF NoStandoff, Plain
<1>3. ASSUME NEW s \in Queued, ds_get_packet(s)
      PROVE  NoStandoff'
  BY <1>2, <1>3 DEF ds_get_packet
<1>4. CASE Deliver
  <2>1. /\ UNCHANGED <<file, id, switches>> /\ call.s \in Queued
        /\ eof' = [eof EXCEPT ![call.s] = 0]
    BY <1>4 DEF Deliver, Taken, CallTrue
  <2>2. eof'["audio"] = 0 \/ eof'["video"] = 0
    BY <1>1, <2>1 DEF Queued
  <2> QED
    BY <2>1, <2>2 DEF NoStandoff, Plain
<1>5. CASE Demux \/ ReadAhead
  <2>1. UNCHANGED <<file, id, eof, switches>> /\ demux_fill_buffer
    BY <1>5 DEF Demux, ReadAhead, player
  <2>2. pos <= Len(file) /\ \A o \in Queued : queue[o] # <<>> => queue'[o] # <<>>
    BY <2>1, PacketRead, CountedIsQueued
  <2> QED
    BY <2>1, <2>2 DEF NoStandoff, Plain
<1>6. CASE Unsuccessful \/ EndOfPlay
  <2>1. /\ UNCHANGED <<file, id, queue, switches>> /\ Filling /\ call.s \in Queued
        /\ eof' = [eof EXCEPT ![call.s] = 1] /\ Fails
    BY <1>6 DEF Unsuccessful, EndOfPlay, AtEof, player, Fails, CallTrue
  <2>2. ASSUME Plain, pos' <= Len(file), eof'["audio"] = 1, eof'["video"] = 1
        PROVE  \E o \in Queued : queue[o] # <<>>
    <3>1. ~Refuses
      BY <2>2, LenProperties DEF Plain, Refuses, Shapes
    <3>2. pos' = pos /\ GivesUp(call.s)
      BY <2>1, <2>2, <3>1, LenProperties DEF Fails, Shapes
    <3>3. CASE eof[call.s] = 0
      BY <2>1, <3>2, <3>3, GivenUp
    <3>4. CASE eof[call.s] = 1
      <4>1. eof' = eof
        BY <1>1, <2>1, <3>4
      <4> QED
        BY <2>2, <3>2, <4>1 DEF NoStandoff
    <3> QED
      BY <1>1, <3>3, <3>4
  <2> QED
    BY <2>1, <2>2 DEF NoStandoff, Plain
<1>7. ASSUME NEW s \in Streams, ds_get_next_pts(s)
      PROVE  NoStandoff'
  BY <1>2, <1>7 DEF ds_get_next_pts, ds, player
<1>8. CASE Peeked
  <2>1. UNCHANGED <<file, id, eof, queue, switches>> /\ (pos' = pos \/ Refuses)
    BY <1>8 DEF Peeked, ds, player
  <2>2. Plain => ~Refuses
    BY LenProperties DEF Plain, Refuses, Shapes
  <2> QED
    BY <2>1, <2>2 DEF NoStandoff, Plain
<1>9. CASE ds_get_packet_sub
  <2>1. CASE Unread("sub")
    BY <1>2, <1>9, <2>1 DEF ds_get_packet_sub
  <2>2. CASE ~Unread("sub")
    <3>1. /\ UNCHANGED <<file, pos, id, switches>> /\ "sub" \notin Queued
          /\ \E due \in {0, 1} : Taken("sub", due)
      BY <1>9, <2>2 DEF ds_get_packet_sub, Queued
    <3>2. \A o \in Queued : eof'[o] = eof[o] /\ queue'[o] = queue[o]
      BY <1>1, <3>1 DEF Taken
    <3> QED
      BY <1>1, <3>1, <3>2 DEF NoStandoff, Plain
  <2> QED
    BY <2>1, <2>2
<1>10. CASE demux_seek
  <2>1. UNCHANGED <<file, id, switches>> /\ eof'["audio"] = 0
    BY <1>1, <1>10 DEF demux_seek
  <2> QED
    BY <2>1 DEF NoStandoff, Plain
<1>11. CASE switch_sub \/ \E s \in Queued, t \in {"a1", "a2", "v", "none"} : demuxer_switch(s, t)
  <2>1. switches' = switches + 1
    BY <1>11 DEF switch_sub, demuxer_switch
  <2> QED
    BY <1>1, <2>1 DEF NoStandoff, Plain
<1>12. CASE UNCHANGED demuxVars
  BY <1>2, <1>12 DEF demuxVars
<1> QED
  BY <1>3, <1>4, <1>5, <1>6, <1>7, <1>8, <1>9, <1>10, <1>11, <1>12
     DEF DemuxNext, Reading, Fill, Queued

LEMMA EndKept ==
  ASSUME Shapes, CallTrue, NoStandoff, StoppedIsIdle, PlayedOut, DemuxNext
  PROVE  StoppedIsIdle' /\ PlayedOut'
<1>1. CASE EndOfPlay
  <2>1. /\ UNCHANGED <<file, id, queue, switches>> /\ call' = Idle /\ Fails
        /\ LastStream
    BY <1>1 DEF EndOfPlay
  <2>2. ASSUME Plain PROVE pos' > Len(file) /\ \A s \in Queued : queue[s] = <<>>
    <3>1. id["audio"] # "none" /\ id["video"] # "none"
      BY <2>2 DEF NoStandoff
    <3>2. call.op = "refill"
      BY <2>1, <3>1 DEF LastStream
    <3>3. /\ eof["audio"] = 1 /\ eof["video"] = 1
          /\ queue["video"] = <<>> /\ queue["audio"] = <<>>
      BY <2>1, <3>2 DEF CallTrue, Fails
    <3>4. \A s \in Queued : queue[s] = <<>>
      BY <3>3 DEF Queued
    <3>5. ~(pos <= Len(file))
      BY <2>2, <3>3, <3>4 DEF NoStandoff
    <3>6. pos' >= pos /\ pos \in Nat /\ Len(file) \in Nat /\ pos' \in Nat
      BY <2>1, LenProperties DEF Fails, Refuses, Shapes
    <3> QED
      BY <3>4, <3>5, <3>6
  <2> QED
    BY <2>1, <2>2 DEF StoppedIsIdle, PlayedOut, Plain
<1>2. CASE ~EndOfPlay /\ ended = 1
  <2>1. call = Idle
    BY <1>2 DEF StoppedIsIdle
  <2>2. UNCHANGED demuxVars
    BY <1>2, <2>1 DEF DemuxNext, Reading, Fill, Deliver, Demux, Unsuccessful, Fails, ReadAhead, Peeked,
         ds_get_packet, ds_get_next_pts, ds_get_packet_sub, demux_seek, demuxer_switch, switch_sub,
         Filling, Idle
  <2> QED
    BY <2>2 DEF demuxVars, StoppedIsIdle, PlayedOut
<1>3. CASE ~EndOfPlay /\ ended # 1
  <2>1. ended' = ended
    BY <1>3 DEF DemuxNext, Reading, Fill, Deliver, Demux, Unsuccessful, ReadAhead, Peeked,
         ds_get_packet, ds_get_next_pts, ds_get_packet_sub, demux_seek, demuxer_switch, switch_sub,
         player, demuxVars
  <2> QED
    BY <1>3, <2>1 DEF StoppedIsIdle, PlayedOut
<1> QED
  BY <1>1, <1>2, <1>3

-----------------------------------------------------------------------------
LEMMA DemuxInitInv ==
  ASSUME DemuxInit
  PROVE  DemuxInv
<1>1. <<>> \in Seq(Places) /\ file \in Seq(AllKinds)
  <2>1. PICK n \in 0 .. MaxFile : file \in [1 .. n -> Kinds]
    BY DEF DemuxInit
  <2>2. n \in Nat /\ file \in [1 .. n -> AllKinds]
    BY <2>1, DemuxAssumption
  <2>3. file \in UNION {[1 .. k -> AllKinds] : k \in Nat}
    BY <2>2
  <2> QED
    BY <2>3, EmptySeq, SeqDef
<1>2. Len(file) \in Nat
  BY <1>1, LenProperties
<1>3. Shapes
  BY <1>1, <1>2 DEF DemuxInit, Shapes, Places, Idle, Streams
<1>4. OwnTracks /\ CallTrue /\ EndedIsRead /\ Counted /\ NoStandoff
  BY DEF DemuxInit, OwnTracks, CallTrue, Filling, Idle, EndedIsRead, Unread, Counted, NoStandoff,
     Queued, Streams
<1>5. StoppedIsIdle /\ PlayedOut /\ QueuesBounded
  <2>1. Len(<<>>) = 0
    BY EmptySeq
  <2> QED
    BY <2>1, DemuxAssumption DEF DemuxInit, StoppedIsIdle, PlayedOut, QueuesBounded, Queued, Streams
<1>6. ASSUME NEW s \in Streams PROVE InOrder(Handled(s)) /\ Range(Handled(s)) = ReadOf(s)
  <2>1. /\ queue[s] = <<>> /\ current[s] = 0 /\ delivered[s] = <<>> /\ since[s] = 1 /\ pos = 1
    BY DEF DemuxInit
  <2>2. Handled(s) = <<>>
    BY <1>1, <2>1, ConcatEmptySeq DEF Handled, Wait, Unread
  <2>3. ReadOf(s) = {}
    BY <2>1 DEF ReadOf
  <2> QED
    BY <2>2, <2>3, NothingInOrder
<1> QED
  BY <1>3, <1>4, <1>5, <1>6 DEF DemuxInv, NoPacketLost

\* Every packet of the selected tracks reaches the decoder in the order of the
\* file and once, however requests, peeks, seeks and track switches alternate, no
\* queue outgrows MAX_PACKS, and the player does not stop with a part of the film
\* unread (PacketsTrue of DemuxQueues, about ds_fill_buffer and
\* demux_lavf_fill_buffer).
THEOREM PacketsReachTheDecoder == DemuxSpec => []PacketsTrue
<1>1. DemuxInit => DemuxInv
  BY DemuxInitInv
<1>2. DemuxInv /\ [DemuxNext]_demuxVars => DemuxInv'
  <2>1. DemuxInv /\ DemuxNext => DemuxInv'
    BY ShapesKept, CallsKept, CountedKept, StandoffKept, EndKept, PacketsKept, BoundKept DEF DemuxInv
  <2>2. DemuxInv /\ UNCHANGED demuxVars => DemuxInv'
    <3> SUFFICES ASSUME DemuxInv, UNCHANGED demuxVars PROVE DemuxInv'
      OBVIOUS
    <3>1. Shapes' /\ OwnTracks' /\ CallTrue' /\ EndedIsRead' /\ Counted'
      BY DEF DemuxInv, demuxVars, Shapes, OwnTracks, CallTrue, Filling, EndedIsRead, Unread, Counted
    <3>2. NoStandoff' /\ StoppedIsIdle' /\ PlayedOut'
      BY DEF DemuxInv, demuxVars, NoStandoff, Plain, StoppedIsIdle, PlayedOut
    <3>3. NoPacketLost' /\ QueuesBounded'
      <4>1. pos' = pos /\ UNCHANGED <<file, id, since, queue, current, used, delivered>>
        BY DEF demuxVars
      <4> QED
        BY <4>1, Untouched, NothingRead DEF DemuxInv, QueuesBounded
    <3> QED
      BY <3>1, <3>2, <3>3 DEF DemuxInv
  <2> QED
    BY <2>1, <2>2
<1>3. DemuxInv => PacketsTrue
  BY DEF DemuxInv, PacketsTrue
<1> QED
  BY <1>1, <1>2, <1>3, PTL DEF DemuxSpec
=============================================================================
