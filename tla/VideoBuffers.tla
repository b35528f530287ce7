---------------------------- MODULE VideoBuffers ----------------------------
(***************************************************************************)
(* Frames on their way to the screen: the hardware decoder (vd_omap_dce.c) *)
(* with its pool of frame buffers, the time stamps dec_video.c gives its   *)
(* frames, the ring of three buffers of the display driver (vo_omap_drm.c) *)
(* and the part of the player's loop that decodes, waits, flips and seeks. *)
(*                                                                         *)
(* A buffer of the pool is marked twice: locked by the decoder as long as  *)
(* the codec has it, and by the display from the call that shows it until  *)
(* the ring is about to come round.  Frames of a software decoder are      *)
(* copied into buffers of the display's own, one per slot of the ring.     *)
(*                                                                         *)
(* A packet holds a frame; it is known by its time stamp.  The codec puts  *)
(* frames out in the order of those.                                       *)
(***************************************************************************)
EXTENDS Integers, Sequences, FiniteSets, FiniteSetsExt

CONSTANTS
  VideoFiles,   \* the files played: sequences of time stamps, from 1, in the order of decoding
  Dpb,          \* buffers the codec needs, the one it decodes into included
  MaxBuffered,  \* length of buffered_pts
  MaxShows, MaxSeeks, MaxFaults  \* bounds

\* A codec has a buffer at least, and dec_video.c room for 64 stamps, more than any codec has
\* buffers.  No two packets of a file have one stamp.
ASSUME VideoAssumption ==
  /\ Dpb \in Nat \ {0} /\ MaxBuffered \in Nat /\ Dpb <= MaxBuffered
  /\ \A f \in VideoFiles : /\ f \in Seq(Nat \ {0})
                           /\ \A i, j \in 1..Len(f) : f[i] = f[j] => i = j

NUM_VIDEO_FB == 3
Slots == 0..NUM_VIDEO_FB - 1
numFrameBuffers == Dpb + 2             \* "for display buffering"
Pool == 1..numFrameBuffers
Own(slot) == numFrameBuffers + 1 + slot
Buffers == Pool \cup {Own(slot) : slot \in Slots}
NoBuf == [file |-> 0, buf |-> 0]

VARIABLES
  picture,             \* what the player does
  keep_vo, dce,        \* the option fixed-vo; decoded by hardware
  file, shows, pos,    \* the file, how many were played, and its next packet
  locked, shown,       \* buffers with FrameBuffer.locked and with DisplayVideoBuffer.locked
  pend, ref,           \* the codec: frames decoded and not put out, buffers it refers to
  content,             \* the frame in a buffer
  buffered_pts,
  ring, cur,           \* _videoBuffers and _currentVideoBuffer
  plane, before,       \* the buffer on the screen and the one it replaced
  frame,               \* buffer and time stamp of the frame not flipped yet, while
                       \* num_buffered_frames is 1
  missed,              \* packets the codec made no frame of, since it was reset
  unflipped,           \* frames put that were never flipped, in this file
  starved,             \* there was no free buffer
  seeks, faults
decoder == <<locked, pend, ref, missed, starved>>
display == <<ring, cur, plane, before>>
play == <<keep_vo, dce, file, shows>>
videoBounds == <<seeks, faults>>
videoVars == <<picture, play, pos, decoder, shown, content, buffered_pts, display, frame, unflipped, videoBounds>>

NoFrame == [pts |-> 0, buf |-> 0]
Waiting == IF frame = NoFrame THEN {} ELSE {frame.buf}
Fault == faults < MaxFaults /\ faults' = faults + 1
Live(entry) == entry.file = shows /\ entry.buf \in Pool

VideoInit ==
  /\ picture = "open" /\ keep_vo \in BOOLEAN /\ dce = FALSE
  /\ file = <<>> /\ shows = 0 /\ pos = 1
  /\ locked = {} /\ shown = {} /\ pend = {} /\ ref = {} /\ content = [b \in Buffers |-> 0]
  /\ buffered_pts = {} /\ ring = [slot \in Slots |-> NoBuf] /\ cur = 0
  /\ plane = 0 /\ before = 0 /\ frame = NoFrame /\ missed = 0 /\ unflipped = 0 /\ starved = FALSE
  /\ seeks = 0 /\ faults = 0

\* reinit_video_chain: buffers are allocated by the hardware decoder, and by the display only
\* when a frame is put.  Nothing clears the ring.
Open ==
  /\ picture = "open" /\ shows < MaxShows /\ shows' = shows + 1
  /\ file' \in VideoFiles /\ dce' \in BOOLEAN /\ pos' = 1
  /\ locked' = {} /\ shown' = {} /\ pend' = {} /\ ref' = {} /\ missed' = 0 /\ starved' = FALSE
  /\ content' = [b \in Buffers |-> 0]
  /\ buffered_pts' = {} /\ cur' = 0 /\ frame' = NoFrame /\ unflipped' = 0 /\ picture' = "decode"
  /\ UNCHANGED <<keep_vo, ring, plane, before, videoBounds>>

-----------------------------------------------------------------------------
(* Decoding.                                                               *)

Free == Pool \ (locked \cup shown)
\* Seeded error: what is on its way to the screen is free as soon as the codec is done with it.
getBufferShown == IF Pool \ locked = {} THEN 0 ELSE Min(Pool \ locked)
getBuffer == IF Free = {} THEN 0 ELSE Min(Free)

\* decode_video: the time stamp is queued for every packet, and a frame takes the least
\* Seeded error: only packets that give a frame at once are queued.
QueuedIfOut(pts, out) == IF out = 0 THEN buffered_pts ELSE buffered_pts \cup {pts}
Queued(pts, out) ==
  IF Cardinality(buffered_pts) = MaxBuffered THEN buffered_pts ELSE buffered_pts \cup {pts}
\* The time stamp of the frame in buffer out, 0 for none
Put(queue, out, drop) ==
  IF out = 0 THEN /\ buffered_pts' = queue /\ picture' = IF drop THEN "commands" ELSE "decode"
                  /\ UNCHANGED <<frame, shown, ring>>
  ELSE /\ buffered_pts' = IF queue = {} THEN {} ELSE queue \ {Min(queue)}
       /\ IF drop THEN picture' = "commands" /\ UNCHANGED <<frame, shown, ring>>
          ELSE /\ frame' = [pts |-> IF queue = {} THEN 0 ELSE Min(queue), buf |-> out]
               /\ picture' = "flip"
               /\ ring' = [ring EXCEPT ![cur] = [file |-> shows, buf |-> out]]
               /\ shown' = IF out \in Pool THEN shown \cup {out} ELSE shown

\* What the codec may do with a packet decoded into b: put out the first of its frames when no
\* packet to come is before it, and give buffers back it has put out
Later == {file[i] : i \in pos + 1..Len(file)}
Outputs(frames) ==
  {f \in frames : \A g \in frames : f.pts <= g.pts} \cap {f \in frames : \A p \in Later : f.pts < p}
\* drop: the player is late, check_framedrop
DecodePacket(drop) ==
  /\ picture = "decode" /\ dce /\ pos <= Len(file) /\ getBuffer # 0
  /\ \E out \in {NoFrame} \cup Outputs(pend \cup {[pts |-> file[pos], buf |-> getBuffer]}) :
     \E freed \in SUBSET (ref \cup ({out.buf} \ {0})) :
       /\ pend' = (pend \cup {[pts |-> file[pos], buf |-> getBuffer]}) \ {out}
       /\ ref' = (ref \cup ({out.buf} \ {0})) \ freed
       /\ Cardinality(pend') + Cardinality(ref') < Dpb
       /\ locked' = (locked \cup {getBuffer}) \ freed
       /\ content' = [content EXCEPT ![getBuffer] = file[pos]]
       /\ Put(Queued(file[pos], out.buf), out.buf, drop)
  /\ pos' = pos + 1 /\ UNCHANGED <<play, missed, starved, cur, plane, before, unflipped, videoBounds>>

\* A packet the codec makes nothing of: the buffer is unlocked after a fatal error, and else
\* at once or later, when the codec says so
DecodeFails(drop) ==
  /\ picture = "decode" /\ dce /\ pos <= Len(file) /\ getBuffer # 0 /\ Fault
  /\ \/ locked' = locked /\ ref' = ref
     \/ /\ Cardinality(pend) + Cardinality(ref) + 1 < Dpb
        /\ locked' = locked \cup {getBuffer} /\ ref' = ref \cup {getBuffer}
  /\ \E junk \in {content[getBuffer], 0} : content' = [content EXCEPT ![getBuffer] = junk]
  /\ Put(Queued(file[pos], 0), 0, drop)
  /\ missed' = missed + 1 /\ pos' = pos + 1
  /\ UNCHANGED <<play, pend, starved, cur, plane, before, unflipped, seeks>>

\* "No free slots for output buffer": the packet is dropped
DecodeStarved(drop) ==
  /\ picture = "decode" /\ dce /\ pos <= Len(file) /\ getBuffer = 0
  /\ Put(Queued(file[pos], 0), 0, drop)
  /\ missed' = missed + 1 /\ starved' = TRUE /\ pos' = pos + 1
  /\ UNCHANGED <<play, locked, pend, ref, content, cur, plane, before, unflipped, videoBounds>>

\* A software decoder: frames, one for each packet here, are copied into the buffer of the slot,
\* which is made when there is none yet, whoever left the one that is there
DecodeSoftware(drop) ==
  /\ picture = "decode" /\ ~dce /\ pos <= Len(file)
  /\ \/ /\ drop \/ ring[cur].buf \notin Pool
        /\ content' = IF drop THEN content ELSE [content EXCEPT ![Own(cur)] = file[pos]]
        /\ Put(Queued(file[pos], Own(cur)), Own(cur), drop)
     \/ /\ ~drop /\ ring[cur].buf \in Pool /\ picture' = "crashed"  \* unmapped with its decoder
        /\ UNCHANGED <<shown, content, buffered_pts, ring, frame>>
  /\ pos' = pos + 1 /\ UNCHANGED <<play, decoder, cur, plane, before, unflipped, videoBounds>>

\* No packet is left: the frames the hardware codec still has are not asked for (len <= 0)
NoPacket ==
  /\ picture = "decode" /\ pos > Len(file) /\ picture' = "commands"
  /\ UNCHANGED <<play, pos, decoder, shown, content, buffered_pts, display, frame, unflipped, videoBounds>>

-----------------------------------------------------------------------------
(* Flipping.                                                               *)

\* Seeded error: the slot after next is unlocked.
NextSlotSkipping == (cur + 2) % NUM_VIDEO_FB
NextSlot == (cur + 1) % NUM_VIDEO_FB
\* frame_time_remaining: commands are handled before the frame's time has come
Wait == /\ picture = "flip" /\ picture' = "commands"
        /\ UNCHANGED <<play, pos, decoder, shown, content, buffered_pts, display, frame, unflipped, videoBounds>>
\* flip_page.  The next slot may hold a buffer freed with the decoder of an earlier file: what is
\* read there may be anything.
Flip ==
  /\ picture = "flip" /\ plane' = ring[cur].buf /\ before' = plane
  /\ cur' = (cur + 1) % NUM_VIDEO_FB
  /\ LET next == ring[NextSlot] IN
     /\ shown' = IF Live(next) THEN shown \ {next.buf} ELSE shown
     /\ \/ picture' = "commands"
        \/ next.buf \in Pool /\ ~Live(next) /\ picture' = "crashed"
  /\ frame' = NoFrame
  /\ UNCHANGED <<play, pos, decoder, content, buffered_pts, ring, unflipped, videoBounds>>
\* drmModeSetPlane fails: the ring stays where it is, the frame is taken for shown
FlipFails ==
  /\ picture = "flip" /\ Fault /\ frame' = NoFrame /\ unflipped' = unflipped + 1 /\ picture' = "commands"
  /\ UNCHANGED <<play, pos, decoder, shown, content, buffered_pts, display, seeks>>

-----------------------------------------------------------------------------
(* Commands, and the ends of files.                                        *)

Continue == /\ picture = "commands" /\ picture' = IF frame = NoFrame THEN "decode" ELSE "flip"
            /\ frame # NoFrame \/ pos <= Len(file)
            /\ UNCHANGED <<play, pos, decoder, shown, content, buffered_pts, display, frame, unflipped, videoBounds>>
\* VDCTRL_RESYNC_STREAM: everything the codec has is given up
\* Seeded error: buffers keep the decoder's lock.
FlushedKept == locked
Flushed == {}
\* seek, demux_resync and resync_video_stream: the frame that waits is forgotten
Seek ==
  /\ picture = "commands" /\ seeks < MaxSeeks /\ seeks' = seeks + 1
  /\ pos' \in {p \in 1..Len(file) : \A i \in p..Len(file) : file[i] >= p}
  /\ locked' = Flushed /\ pend' = {} /\ ref' = {} /\ missed' = 0 /\ starved' = starved
  /\ buffered_pts' = {} /\ frame' = NoFrame
  /\ unflipped' = (IF frame = NoFrame THEN unflipped ELSE unflipped + 1) /\ picture' = "decode"
  /\ UNCHANGED <<play, shown, content, display, faults>>

\* uninit_player at the end of a file: the decoder frees its buffers, and then the display, unless
\* it is to stay, those of its own only after a file of frames copied; it takes the ring for full.  What a display
\* that stays goes on showing is not followed: the next file writes over it.
Close ==
  /\ picture = "commands"
  /\ locked' = {} /\ shown' = {} /\ pend' = {} /\ ref' = {} /\ frame' = NoFrame
  /\ plane' = 0 /\ before' = 0
  /\ \/ (keep_vo \/ dce) /\ picture' = "open" /\ ring' = ring
     \/ /\ ~keep_vo /\ ~dce
        /\ \/ (\A slot \in Slots : ring[slot] # NoBuf) /\ picture' = "open"
           \/ (\E slot \in Slots : ring[slot] = NoBuf \/ ring[slot].buf \in Pool) /\ picture' = "crashed"
        /\ ring' = [slot \in Slots |-> NoBuf]
  \* set by Open before they are read again
  /\ pos' = 1 /\ missed' = 0 /\ starved' = FALSE /\ unflipped' = 0 /\ buffered_pts' = {} /\ cur' = 0
  /\ content' = [b \in Buffers |-> 0] /\ dce' = FALSE /\ file' = <<>>
  /\ UNCHANGED <<keep_vo, shows, videoBounds>>

Decode(drop) == DecodePacket(drop) \/ DecodeFails(drop) \/ DecodeStarved(drop) \/ DecodeSoftware(drop)
VideoNext == \/ Open \/ (\E drop \in BOOLEAN : Decode(drop)) \/ NoPacket
             \/ Wait \/ Flip \/ FlipFails \/ Continue \/ Seek \/ Close
VideoSpec == VideoInit /\ [][VideoNext]_videoVars

-----------------------------------------------------------------------------
(* Properties.                                                             *)

Visible == {plane, before} \cup Waiting

\* Nothing is decoded or copied into a buffer that is on the screen, was there until the last
\* flip, or waits to be shown: the two marks and the ring of three see to it between them.
ScreenSteady ==
  [][\A b \in (Visible \cap Visible') \ {0} : content'[b] = content[b]]_videoVars

\* A frame is shown with its own time stamp, although stamps are queued when packets go in and
\* taken when frames come out, in another order and not by every packet; after packets the codec
\* made nothing of it may be shown too early, never too late, as long as the stamps these leave
\* do not fill buffered_pts.
PtsTrue ==
  frame # NoFrame => /\ frame.pts <= content[frame.buf]
                     /\ missed = 0 => frame.pts = content[frame.buf]

\* The decoder finds a free buffer for every packet, unless frames were put and never flipped:
\* what the codec and the display hold together always leaves one of the pool.
FreeBufferFound == starved => unflipped > 0

\* What "+= 2; // for display buffering" in vd_omap_dce.c says: while a packet is decoded the
\* display has no more than two of the buffers.
DisplayTakesTwo == picture = "decode" => Cardinality(shown) <= 2

\* Frames keep their time stamps, and there is a buffer for each.
FramesTrue == FreeBufferFound /\ PtsTrue
=============================================================================
