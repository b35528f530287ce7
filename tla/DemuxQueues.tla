----------------------------- MODULE DemuxQueues -----------------------------
(***************************************************************************)
(* The packet queues between the demuxer and the decoders                  *)
(* (libmpdemux/demuxer.c, demux_lavf.c).                                   *)
(*                                                                         *)
(* One file holds the packets of several tracks, interleaved.  A decoder   *)
(* asks for the next packet of its stream (audio, video, subtitles);       *)
(* packets of the other selected streams met on the way are queued, those  *)
(* of unselected tracks are thrown away.  A request is given up, and       *)
(* reported as the end of the stream, when too many packets of the other   *)
(* streams went by (fill_count) or when a queue is full (MAX_PACKS); that  *)
(* end is sticky until a packet arrives.  The player (mplayer.c) stops     *)
(* when the video has ended and the audio has ended as well.               *)
(*                                                                         *)
(* A packet is its place in the file.  The loop of ds_fill_buffer is one   *)
(* action per iteration; between two requests the player may read either   *)
(* stream, peek, seek, or switch tracks.                                   *)
(***************************************************************************)
EXTENDS Naturals, Integers, Sequences, SequencesExt

CONSTANTS
    Kinds,        \* the kinds of packets a file is made of, out of AllKinds
    MaxFile,      \* bound: the longest file
    FillLimit,    \* 80: packets of other streams that a request lets go by
    MaxPacks,     \* MAX_PACKS: packets an audio or video queue may hold
    MaxMoves      \* bound: seeks and switches of tracks

Streams == {"audio", "video", "sub"}
Queued == {"audio", "video"}

\* "a1" and "a2" are packets of two audio tracks, "v" of the video track,
\* "skip" a video packet of at most 100 bytes, "bad" one that the bitstream
\* filter refuses, "s" a packet of a subtitle track.
AllKinds == {"a1", "a2", "v", "skip", "bad", "s"}

ASSUME DemuxAssumption ==
    /\ Kinds \subseteq AllKinds /\ MaxFile \in Nat /\ FillLimit \in Nat
    /\ MaxPacks \in Nat \ {0} /\ MaxMoves \in Nat

Track(kind) == IF kind \in {"skip", "bad"} THEN "v" ELSE kind

VARIABLES
    file,         \* the packets of the file, in order
    pos,          \* the place of the packet av_read_frame returns next
    id,           \* ds->id: the track each stream takes its packets from
    queue,        \* ds->first .. ds->last
    current,      \* ds->current, 0 for NULL
    used,         \* 1 once buffer_pos is past the current packet
    eof,          \* ds->eof
    fill_count,   \* ds->fill_count
    call,         \* the call in progress: its name and its stream
    delivered,    \* what the decoder got since its queue was last emptied
    since,        \* the place in the file at that time
    ended,        \* mpctx->eof
    seeks, switches

ds == <<queue, current, used, eof, fill_count>>
player == <<delivered, since, ended, seeks, switches>>
demuxVars == <<file, pos, id, queue, current, used, eof, fill_count, call,
               delivered, since, ended, seeks, switches>>

Idle == [op |-> "idle", s |-> "sub"]

DemuxInit ==
    /\ file \in UNION {[1..n -> Kinds] : n \in 0..MaxFile}
    /\ pos = 1
    /\ id = [audio |-> "a1", video |-> "v", sub |-> "s"]
    /\ queue = [s \in Streams |-> <<>>]
    /\ current = [s \in Streams |-> 0]
    /\ used = [s \in Streams |-> 1]
    /\ eof = [s \in Streams |-> 0]
    /\ fill_count = [s \in Streams |-> 0]
    /\ call = Idle
    /\ delivered = [s \in Streams |-> <<>>]
    /\ since = [s \in Streams |-> 1]
    /\ ended = 0
    /\ seeks = 0
    /\ switches = 0

(***************************************************************************)
(* demux_lavf_fill_buffer: one packet is read and appended to the queue of *)
(* the stream that selected its track; a packet nobody selected is freed,  *)
(* and so is one the bitstream filter refuses, but then the call fails.    *)
(***************************************************************************)
Wanted(kind) == {s \in Streams : id[s] = Track(kind)}

ds_add_packet(s) == [queue EXCEPT ![s] = Append(@, pos)]

Refuses == pos <= Len(file) /\ file[pos] = "bad" /\ id["video"] = "v"

demux_fill_buffer ==
    /\ pos <= Len(file)
    /\ ~Refuses
    /\ pos' = pos + 1
    /\ IF Wanted(file[pos]) = {}
       THEN UNCHANGED queue
       ELSE queue' = ds_add_packet(CHOOSE s \in Wanted(file[pos]) : TRUE)

\* What a packet adds to the fill_count of the stream that asked: audio
\* packets, and video packets larger than 100 bytes.
Passed == IF file[pos] = id["audio"] \/ (file[pos] = "v" /\ id["video"] = "v")
          THEN 1 ELSE 0

\* Seeded error: one packet more than MAX_PACKS.
FullLate == \E s \in Queued : Len(queue[s]) > MaxPacks

\* The queues that end every request: MAX_PACKS packets of audio or video.
Full == \E s \in Queued : Len(queue[s]) >= MaxPacks

(***************************************************************************)
(* ds_fill_buffer, for ds_get_packet ("get") and for the player's test of  *)
(* the end of the audio ("refill").                                        *)
(***************************************************************************)
Unread(s) == current[s] # 0 /\ used[s] = 0

Filling == call.op \in {"get", "refill"}

\* The current packet is freed before anything else.
StartFill(op, s) ==
    /\ call' = [op |-> op, s |-> s]
    /\ current' = [current EXCEPT ![s] = 0]

ds_get_packet(s) ==
    /\ call = Idle
    /\ ended = 0
    /\ id[s] # "none"
    /\ IF Unread(s)
       THEN /\ used' = [used EXCEPT ![s] = 1]
            /\ delivered' = [delivered EXCEPT ![s] = Append(@, current[s])]
            /\ UNCHANGED <<call, current>>
       ELSE StartFill("get", s) /\ UNCHANGED <<used, delivered>>
    /\ UNCHANGED <<file, pos, id, queue, eof, fill_count, since, ended, seeks,
                   switches>>

\* Seeded error: a packet does not take back the end that was reported.
TakenStaysEof(s, read) ==
    /\ current' = [current EXCEPT ![s] = Head(queue[s])]
    /\ queue' = [queue EXCEPT ![s] = Tail(@)]
    /\ fill_count' = [fill_count EXCEPT ![s] = 0]
    /\ used' = [used EXCEPT ![s] = read]
    /\ delivered' = IF read = 0 THEN delivered
                    ELSE [delivered EXCEPT ![s] = Append(@, Head(queue[s]))]
    /\ UNCHANGED eof

\* The first packet of the queue becomes the current one; a "get" goes on to
\* hand it to the decoder.
Taken(s, read) ==
    /\ current' = [current EXCEPT ![s] = Head(queue[s])]
    /\ queue' = [queue EXCEPT ![s] = Tail(@)]
    /\ eof' = [eof EXCEPT ![s] = 0]
    /\ fill_count' = [fill_count EXCEPT ![s] = 0]
    /\ used' = [used EXCEPT ![s] = read]
    /\ delivered' = IF read = 0 THEN delivered
                    ELSE [delivered EXCEPT ![s] = Append(@, Head(queue[s]))]

Deliver ==
    /\ Filling
    /\ queue[call.s] # <<>>
    /\ Taken(call.s, IF call.op = "get" THEN 1 ELSE 0)
    /\ call' = Idle
    /\ UNCHANGED <<file, pos, id, since, ended, seeks, switches>>

GivesUp(s) == fill_count[s] > FillLimit \/ eof[s] = 1 \/ Full

Demux ==
    /\ Filling
    /\ queue[call.s] = <<>>
    /\ ~GivesUp(call.s)
    /\ demux_fill_buffer
    /\ fill_count' = [fill_count EXCEPT ![call.s] = @ + Passed]
    /\ UNCHANGED <<file, id, current, used, eof, call, player>>

\* Nothing is read after giving up; a refused packet is.
Fails ==
    /\ Filling
    /\ queue[call.s] = <<>>
    /\ \/ (GivesUp(call.s) \/ pos > Len(file)) /\ pos' = pos
       \/ ~GivesUp(call.s) /\ Refuses /\ pos' = pos + 1

\* Seeded error: the end is counted, not set.
AtEofCounted(s) == eof' = [eof EXCEPT ![s] = @ + 1] /\ used' = [used EXCEPT ![s] = 1]

AtEof(s) == eof' = [eof EXCEPT ![s] = 1] /\ used' = [used EXCEPT ![s] = 1]

\* Seeded error: the audio is tried again only while it has not ended.
AudioNotInDoubt == /\ call = [op |-> "get", s |-> "video"]
                   /\ id["audio"] # "none"
                   /\ eof["audio"] = 0

\* The player (main loop): when there is no more video it only stops playing
\* when the audio is at its end as well; when there is no video it stops
\* with the audio.
AudioInDoubt == /\ call = [op |-> "get", s |-> "video"]
                /\ id["audio"] # "none"
                /\ eof["audio"] = 1

LastStream ==
    \/ call.op = "refill"
    \/ call.s = "video" /\ id["audio"] = "none"
    \/ call.s = "audio" /\ id["video"] = "none"

Unsuccessful ==
    /\ Fails
    /\ AtEof(call.s)
    /\ IF AudioInDoubt
       THEN StartFill("refill", "audio")
       ELSE call' = Idle /\ UNCHANGED current
    /\ UNCHANGED <<file, id, queue, fill_count, player>>

\* mpctx->eof = time_frame <= 0: the player may go round a few times more
\* (Unsuccessful) before it stops.
EndOfPlay ==
    /\ Fails
    /\ LastStream
    /\ AtEof(call.s)
    /\ ended' = 1
    /\ call' = Idle
    /\ UNCHANGED <<file, id, queue, current, fill_count, delivered, since,
                   seeks, switches>>

(***************************************************************************)
(* ds_get_next_pts: reads ahead until its stream has a packet, whatever    *)
(* fill_count and eof say.                                                 *)
(***************************************************************************)
Peekable(s) == queue[s] # <<>> \/ Unread(s)

ds_get_next_pts(s) ==
    /\ call = Idle
    /\ ended = 0
    /\ id[s] # "none"
    /\ ~Peekable(s)
    /\ call' = [op |-> "next_pts", s |-> s]
    /\ UNCHANGED <<file, pos, id, ds, player>>

ReadAhead ==
    /\ call.op = "next_pts"
    /\ ~Peekable(call.s)
    /\ ~Full
    /\ demux_fill_buffer
    /\ UNCHANGED <<file, id, current, used, eof, fill_count, call, player>>

Peeked ==
    /\ call.op = "next_pts"
    /\ \/ (Peekable(call.s) \/ Full \/ pos > Len(file)) /\ pos' = pos
       \/ ~Peekable(call.s) /\ ~Full /\ Refuses /\ pos' = pos + 1
    /\ call' = Idle
    /\ UNCHANGED <<file, id, ds, player>>

(***************************************************************************)
(* ds_get_packet_sub: never reads the file; a packet that is not due yet   *)
(* becomes the current one and is kept.                                    *)
(***************************************************************************)
ds_get_packet_sub ==
    /\ call = Idle
    /\ ended = 0
    /\ id["sub"] # "none"
    /\ \/ /\ Unread("sub")
          /\ used' = [used EXCEPT !["sub"] = 1]
          /\ delivered' = [delivered EXCEPT !["sub"] = Append(@, current["sub"])]
          /\ UNCHANGED <<queue, current, eof, fill_count>>
       \/ /\ ~Unread("sub")
          /\ queue["sub"] # <<>>
          /\ \E due \in {0, 1} : Taken("sub", due)
    /\ UNCHANGED <<file, pos, id, call, since, ended, seeks, switches>>

(***************************************************************************)
(* Emptying the queues: ds_free_packs, demux_seek and the track switches.  *)
(***************************************************************************)
ds_free_packs(S) ==
    /\ queue' = [s \in Streams |-> IF s \in S THEN <<>> ELSE queue[s]]
    /\ current' = [s \in Streams |-> IF s \in S THEN 0 ELSE current[s]]
    /\ used' = [s \in Streams |-> IF s \in S THEN 1 ELSE used[s]]
    /\ delivered' = [s \in Streams |-> IF s \in S THEN <<>> ELSE delivered[s]]
    /\ since' = [s \in Streams |-> IF s \in S THEN pos' ELSE since[s]]

\* demux_seek and demux_resync: the file position moves anywhere (or stays,
\* when av_seek_frame fails), every end is forgotten and the first packets
\* after a seek may be further apart.
demux_seek ==
    /\ call = Idle
    /\ ended = 0
    /\ seeks + switches < MaxMoves
    /\ seeks' = seeks + 1
    /\ pos' \in 1..Len(file) + 1
    /\ ds_free_packs(Streams)
    /\ eof' = [s \in Streams |-> 0]
    /\ fill_count' = [s \in Streams |->
                        IF s \in Queued THEN 0 - FillLimit ELSE fill_count[s]]
    /\ UNCHANGED <<file, id, call, ended, switches>>

\* Seeded error: the packets of the old track stay.
demuxer_switch_keeping(s, track) ==
    /\ call = Idle
    /\ ended = 0
    /\ seeks + switches < MaxMoves
    /\ id[s] # track
    /\ switches' = switches + 1
    /\ id' = [id EXCEPT ![s] = track]
    /\ UNCHANGED <<file, pos, ds, call, delivered, since, ended, seeks>>

\* demuxer_switch_audio and demuxer_switch_video through the control of the
\* lavf demuxer: the old packets are freed, eof and fill_count stay.
demuxer_switch(s, track) ==
    /\ call = Idle
    /\ ended = 0
    /\ seeks + switches < MaxMoves
    /\ id[s] # track
    /\ switches' = switches + 1
    /\ id' = [id EXCEPT ![s] = track]
    /\ pos' = pos
    /\ ds_free_packs({s})
    /\ UNCHANGED <<file, eof, fill_count, call, ended, seeks>>

\* mp_property_sub: selecting a track frees the old packets, switching the
\* subtitles off leaves them to update_subtitles, which reads and drops them.
switch_sub ==
    /\ call = Idle
    /\ ended = 0
    /\ seeks + switches < MaxMoves
    /\ switches' = switches + 1
    /\ \/ /\ id["sub"] = "none"
          /\ id' = [id EXCEPT !["sub"] = "s"]
          /\ pos' = pos
          /\ ds_free_packs({"sub"})
          /\ UNCHANGED <<eof, fill_count>>
       \/ /\ id["sub"] # "none"
          /\ id' = [id EXCEPT !["sub"] = "none"]
          /\ queue' = [queue EXCEPT !["sub"] = <<>>]
          /\ current' = [current EXCEPT !["sub"] =
                           IF queue["sub"] = <<>> THEN @ ELSE Last(queue["sub"])]
          /\ used' = [used EXCEPT !["sub"] = 1]
          /\ UNCHANGED <<pos, eof, fill_count, delivered, since>>
    /\ UNCHANGED <<file, call, ended, seeks>>

-----------------------------------------------------------------------------
\* Playback has ended, or every stream is switched off.
Stopped == call = Idle /\ (ended = 1 \/ \A s \in Queued : id[s] = "none")

Fill == Deliver \/ Demux \/ Unsuccessful \/ EndOfPlay \/ ReadAhead \/ Peeked

Reading == \/ \E s \in Queued : ds_get_packet(s)
           \/ Fill

DemuxNext == \/ Reading
             \/ \E s \in Streams : ds_get_next_pts(s)
             \/ ds_get_packet_sub
             \/ demux_seek
             \/ \E t \in {"a1", "a2", "none"} : demuxer_switch("audio", t)
             \/ \E t \in {"v", "none"} : demuxer_switch("video", t)
             \/ switch_sub
             \/ Stopped /\ UNCHANGED demuxVars

\* The main loop fills the audio output and fetches a frame in every turn,
\* and its timer runs out.
DemuxFairness ==
    /\ WF_demuxVars(Fill)
    /\ \A s \in Queued : SF_demuxVars(ds_get_packet(s))
    /\ SF_demuxVars(EndOfPlay)

DemuxSpec == DemuxInit /\ [][DemuxNext]_demuxVars
DemuxFairSpec == DemuxSpec /\ DemuxFairness
-----------------------------------------------------------------------------
(***************************************************************************)
(* Properties                                                              *)
(***************************************************************************)

\* The types of the variables.
TypeOK ==
    /\ pos \in 1..Len(file) + 1
    /\ id \in [Streams -> {"a1", "a2", "v", "s", "none"}]
    /\ queue \in [Streams -> Seq(DOMAIN file)]
    /\ current \in [Streams -> {0} \cup DOMAIN file]
    /\ used \in [Streams -> {0, 1}]
    /\ eof \in [Streams -> {0, 1}]
    /\ fill_count \in [Streams -> (0 - FillLimit)..(FillLimit + 1)]
    /\ call \in [op : {"idle", "get", "refill", "next_pts"}, s : Streams]

\* The packets of the selected track that were read since the queue was last
\* emptied are, in the order of the file and each once, those the decoder got,
\* the current one if it has not been read yet, and those of the queue: no
\* premature end, peek, late subtitle or track switch loses or repeats one.
Wait(s) == (IF Unread(s) THEN <<current[s]>> ELSE <<>>) \o queue[s]
Handled(s) == delivered[s] \o Wait(s)
ReadOf(s) == {i \in since[s]..pos - 1 : Track(file[i]) = id[s] /\ file[i] # "bad"}
InOrder(packets) == \A i, j \in 1..Len(packets) : i < j => packets[i] < packets[j]

NoPacketLost ==
    \A s \in Streams : id[s] # "none" =>
        InOrder(Handled(s)) /\ Range(Handled(s)) = ReadOf(s)

\* However requests and peeks alternate, no more than MAX_PACKS packets of
\* audio or of video are ever buffered.
QueuesBounded == \A s \in Queued : Len(queue[s]) <= MaxPacks

\* An end reported too early (bad interleaving, a full queue) does not end the
\* playback: when the player stops, the file has been read to its end and
\* nothing selected is left in the queues.  (Packets that are refused, and a
\* switch of tracks, see EofIsEnd, may well end it.)
PlayedOut ==
    ended = 1 /\ switches = 0 /\ (\A i \in DOMAIN file : file[i] # "bad") =>
        pos > Len(file) /\ \A s \in Queued : queue[s] = <<>>

\* A player that keeps reading its streams comes to the end of every file: the
\* sticky ends of the two streams never wait for each other, also after a seek
\* or a switch of tracks.
PlayingEnds == <>Stopped

\* "end of demuxed stream? (true if all buffer empty)" (demuxer.h): when the
\* player stops because eof is set, the demuxed streams have ended.  Here for
\* a player that also switches tracks.
EofIsEnd == ended = 1 => pos > Len(file)

\* Packets reach the player in the order of the file, once, and none is forgotten,
\* and no queue outgrows MAX_PACKS.
PacketsTrue == PlayedOut /\ NoPacketLost /\ QueuesBounded
=============================================================================
