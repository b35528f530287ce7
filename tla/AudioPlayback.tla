--------------------------- MODULE AudioPlayback ---------------------------
(***************************************************************************)
(* Audio on its way from the demuxer to the sound card: the decoder        *)
(* (ad_ffmpeg.c), the buffer of decoded samples and that of filtered ones  *)
(* (dec_audio.c), the loop that fills the audio output from them           *)
(* (fill_audio_out_buffers of mplayer.c) and ALSA (ao_alsa.c), which plays *)
(* on its own meanwhile, runs short, is suspended, paused and reset.       *)
(*                                                                         *)
(* Samples are numbered from 1 by their time in the file, and counted, not *)
(* measured in bytes; 0 stands for silence, and for what a filter kept     *)
(* from before a seek.  A file is a sequence of packets of equal length    *)
(* with time stamps, each of the format it decodes to or "bad".  Filters   *)
(* hand on as many samples as they get, but may keep some back.            *)
(***************************************************************************)
EXTENDS Integers, Sequences, FiniteSets, SequencesExt, FiniteSetsExt

CONSTANTS
  Files,         \* the files played
  FrameLen,      \* samples of a packet: audio_out_minsize
  MaxBurst,      \* MAX_OUTBURST: as much is written in one go
  Extra, Chunk,  \* decoded beyond what is needed, and when filters keep much back
  MaxHeld,       \* samples a filter keeps back
  DevSize,       \* buffersize of the device
  Outburst,      \* its period
  MaxPauses,     \* bound: seeks and pauses
  MaxFaults      \* bound: suspensions and failing calls of the device, packets late for
                 \* the demuxer's patience

ASSUME SoundAssumption ==
  /\ \A f \in Files : f \in Seq(STRING) /\ f # <<>> /\ f[1] # "bad"
  /\ FrameLen \in Nat \ {0} /\ MaxBurst \in Nat \ {0} /\ Outburst \in Nat \ {0}
  /\ Extra \in Nat /\ Chunk \in Nat /\ MaxHeld \in Nat /\ DevSize \in Nat
  /\ MaxPauses \in Nat /\ MaxFaults \in Nat

ABufSize == FrameLen + MaxBurst        \* a_buffer_size
MaxDecode == ABufSize - FrameLen       \* max_decode_len

VARIABLES
  track, at,     \* the packets, and the next one the decoder gets
  ending,        \* d_audio->eof
  drained,       \* the codec was told of an end, and takes no packet until it is flushed
  sh,            \* sample_format, channels and samplerate of sh_audio
  pts,           \* sh_audio->pts and pts_bytes: the decoder's position
  missed,        \* the last sample before it that was never decoded
  abuf, out,     \* a_buffer and a_out_buffer
  held, af,      \* samples in the filters, and the format they are set up for
  change,        \* a_buffer_format_change
  pc,            \* where fill_audio_out_buffers and its callees are
  toWrite, playsize, final, audio_eof, \* its locals
  declen, huge, res,                   \* the locals of mp_decode_audio
  dev, devst,    \* the device's buffer, and its state
  space,         \* prepause_space
  video, canPause, \* there is video as well; alsa_can_pause
  written,       \* samples the device was given
  skipped,       \* samples lost at a change of format: decoded by the call that met it, or
                 \* kept by a filter
  moves, faults
decoder == <<track, at, ending, drained, sh, pts, missed>>
buffers == <<abuf, out, held, af, change>>
locals == <<toWrite, playsize, final, audio_eof, declen, huge, res>>
device == <<dev, devst, space>>
fixed == <<video, canPause>>
soundVars == <<decoder, buffers, pc, locals, device, fixed, written, skipped, moves, faults>>

-----------------------------------------------------------------------------
Samples(f, n) ==       \* what n good packets from packet f on decode to
  [i \in 1..n * FrameLen |-> FrameLen * (f - 1) + i]
FormatOf(u) == track[(u - 1) \div FrameLen + 1]
Least(a, b) == IF a < b THEN a ELSE b
Packets(n) == (n + FrameLen - 1) \div FrameLen
Space == DevSize - Len(dev)            \* get_space
\* Good packets of the current format that come next
Good == Min({n \in 0..Len(track) : at + n > Len(track) \/ track[at + n] # sh})
\* The decoder decoded a first packet to learn the format, for which device and filters were
\* then set up
SoundInit ==
  /\ track \in Files /\ at = 2 /\ ending = FALSE /\ drained = FALSE /\ sh = track[1]
  /\ abuf = Samples(1, 1) /\ pts = FrameLen /\ missed = 0 /\ out = <<>> /\ held = <<>> /\ af = sh /\ change = FALSE
  /\ pc = "main" /\ toWrite = 0 /\ playsize = 0 /\ final = FALSE /\ audio_eof = FALSE
  /\ declen = 0 /\ huge = FALSE /\ res = 0
  /\ dev = <<>> /\ devst = "prepared" /\ space = 0
  /\ video \in BOOLEAN /\ canPause \in BOOLEAN
  /\ written = {} /\ skipped = {} /\ moves = 0 /\ faults = 0

-----------------------------------------------------------------------------
(* fill_audio_out_buffers.                                                 *)

\* Without video the player sleeps until a period is free, but not for ever when the device
\* is stuck
GetSpace ==
  /\ pc = "main" /\ (video \/ Space >= Outburst \/ devst # "running")
  /\ toWrite' = Space /\ audio_eof' = FALSE /\ final' = FALSE
  /\ pc' = "loop"
  /\ UNCHANGED <<decoder, buffers, playsize, declen, huge, res, device, fixed, written, skipped, moves, faults>>
\* The next piece; nothing is decoded any more once a change of format was met
Piece ==
  /\ pc = "loop" /\ toWrite > 0
  /\ playsize' = Least(toWrite, MaxBurst) /\ toWrite' = toWrite - playsize'
  /\ res' = 0 /\ huge' = FALSE
  /\ pc' = IF change THEN "piece" ELSE "decode"
  /\ UNCHANGED <<decoder, buffers, final, audio_eof, declen, device, fixed, written, skipped, moves, faults>>

\* mp_decode_audio: decode and filter until there is enough
Enough ==
  /\ pc = "decode" /\ (res < 0 \/ Len(out) >= playsize)
  /\ change' = (res = -2)
  /\ pc' = "piece"
  /\ UNCHANGED <<decoder, abuf, out, held, af, locals, device, fixed, written, skipped, moves, faults>>
DecodeMore ==
  /\ pc = "decode" /\ res >= 0 /\ Len(out) < playsize
  /\ LET d == IF huge THEN Chunk ELSE playsize - Len(out) + Extra
     IN declen' = Least(d, MaxDecode) /\ huge' = (huge \/ d <= MaxDecode)
  /\ pc' = "feed"
  /\ UNCHANGED <<decoder, buffers, toWrite, playsize, final, audio_eof, res, device, fixed, written, skipped, moves, faults>>

\* filter_n_bytes calls decode_audio for the samples that are missing.  It returns with as
\* many, or where there is no packet, or after one that the codec refuses or that is of
\* another format; what the call decoded in that last case does not count.
Missing == Packets(declen - Len(abuf))
Ready == IF drained THEN 0 ELSE Good   \* packets the codec decodes as they come next
\* The position is that of the last packet's stamp and of what was decoded since; where the
\* first packet does not follow on the position, the samples between them were lost
Stamped(n) == /\ pts' = FrameLen * (at - 1 + n)
              /\ missed' = IF pts = FrameLen * (at - 1) THEN missed ELSE FrameLen * (at - 1)
Decoded(n) ==
  /\ abuf' = abuf \o Samples(at, n)
  /\ IF n = 0 THEN res' = -1 /\ declen' = Len(abuf) ELSE UNCHANGED <<res, declen>>
  /\ UNCHANGED <<sh, skipped>>
AsMany ==
  /\ Missing <= Ready
  /\ Decoded(Missing) /\ Stamped(Missing) /\ at' = at + Missing
  /\ ending' = FALSE /\ UNCHANGED <<drained, faults>>
\* No packet: the end of the file, or the other streams' queues are full before there is one
\* (ds_fill_buffer).  The codec is drained, which it takes for the end.
NoPacket(n) ==
  /\ n <= Ready /\ n < Missing
  /\ IF at + n > Len(track) THEN UNCHANGED faults
     ELSE video /\ faults < MaxFaults /\ faults' = faults + 1
  /\ Decoded(n) /\ (IF n = 0 THEN UNCHANGED <<pts, missed>> ELSE Stamped(n)) /\ at' = at + n
  /\ ending' = TRUE /\ drained' = TRUE
NotTaken ==            \* a bad packet, or any after the codec was drained
  /\ Ready < Missing /\ at + Ready <= Len(track) /\ (drained \/ track[at + Ready] = "bad")
  /\ Decoded(Ready) /\ Stamped(Ready) /\ at' = at + Ready + 1
  /\ ending' = FALSE /\ UNCHANGED <<drained, faults>>
OtherFormat ==
  /\ Ready < Missing /\ at + Ready <= Len(track) /\ ~drained /\ track[at + Ready] # "bad"
  /\ sh' = track[at + Ready] /\ Stamped(Ready + 1) /\ at' = at + Ready + 1
  /\ skipped' = skipped \cup Range(Samples(at, Ready + 1))
  /\ res' = -2 /\ declen' = Len(abuf)
  /\ ending' = FALSE /\ UNCHANGED <<abuf, drained, faults>>
decode_audio ==
  /\ pc = "feed" /\ Len(abuf) < declen
  /\ AsMany \/ (\E n \in 0..Len(track) : NoPacket(n)) \/ NotTaken \/ OtherFormat
  /\ UNCHANGED <<track, out, held, af, change, pc, toWrite, playsize, final, audio_eof, huge, device, fixed, written, moves>>
\* af_play, and the rest of filter_n_bytes
Filter(n) ==
  /\ pc = "feed" /\ Len(abuf) >= declen
  /\ LET all == held \o SubSeq(abuf, 1, declen)
         keep == Least(n, Len(all))
     IN /\ out' = out \o SubSeq(all, 1, Len(all) - keep)
        /\ held' = SubSeq(all, Len(all) - keep + 1, Len(all))
  /\ abuf' = SubSeq(abuf, declen + 1, Len(abuf))
  /\ pc' = "decode"
  /\ UNCHANGED <<decoder, af, change, locals, device, fixed, written, skipped, moves, faults>>

\* What mp_decode_audio left to play of the piece
AtEnd == ~change /\ res < 0 /\ ending
ToPlay ==
  /\ pc = "piece"
  /\ audio_eof' = (audio_eof \/ AtEnd)
  /\ playsize' = Least(playsize, Len(out))
  /\ final' = (final \/ (playsize > Len(out) /\ (audio_eof' \/ change)))
  /\ pc' = IF AtEnd /\ out = <<>> THEN "finished"
           ELSE IF playsize' = 0 THEN "filled" ELSE "play"
  /\ UNCHANGED <<decoder, buffers, toWrite, declen, huge, res, device, fixed, written, skipped, moves, faults>>

\* play of ao_alsa.c, which writes whole periods unless this is the final chunk.  A suspended
\* device is woken by the write, and loses its buffer when it has to be prepared anew.
Frames == IF final THEN playsize ELSE (playsize \div Outburst) * Outburst
Started(d, st) == IF st = "prepared" /\ Len(d) < Outburst THEN st ELSE "running"
Accepted(n) ==
  /\ out' = SubSeq(out, n + 1, Len(out))
  /\ written' = written \cup Range(SubSeq(out, 1, n))
\* Nothing was taken: given up at the end, when the device has nothing left either
Refused ==
  /\ out' = IF (change \/ audio_eof) /\ (dev = <<>> \/ devst = "suspended") THEN <<>> ELSE out
  /\ UNCHANGED <<dev, devst, written>>
Play ==
  /\ pc = "play"
  /\ IF Frames = 0 THEN Refused /\ UNCHANGED faults
     ELSE \/ \E n \in 1..Frames, lost \in BOOLEAN :
               /\ n < Frames => faults < MaxFaults     \* interrupted
               /\ faults' = faults + (IF n < Frames THEN 1 ELSE 0)
               /\ lost => devst = "suspended"
               /\ dev' = (IF lost THEN <<>> ELSE dev) \o SubSeq(out, 1, n)
               /\ devst' = Started(dev', IF lost THEN "prepared" ELSE devst)
               /\ Accepted(n)
          \/ /\ devst = "suspended" /\ faults < MaxFaults /\ faults' = faults + 1
             /\ Refused                                \* it cannot be prepared
  /\ pc' = "loop"
  /\ UNCHANGED <<decoder, abuf, held, af, change, locals, space, fixed, skipped, moves>>

\* The end of the loop: a change of format waits for the filtered samples to be written, and
\* then closes the device (dropping what it holds), and sets all up for the new format
\* Seeded error: the change stays announced.
ReopenedChanging ==
  /\ dev' = <<>> /\ devst' = "prepared" /\ held' = <<>> /\ af' = sh /\ change' = change
  /\ skipped' = skipped \cup Range(held)
Reopened ==
  /\ dev' = <<>> /\ devst' = "prepared" /\ held' = <<>> /\ af' = sh /\ change' = FALSE
  /\ skipped' = skipped \cup Range(held)
OutFilled ==
  /\ pc = "filled" \/ (pc = "loop" /\ toWrite = 0)
  /\ IF change /\ out = <<>> THEN Reopened
     ELSE UNCHANGED <<dev, devst, held, af, change, skipped>>
  /\ pc' = "main"
  /\ UNCHANGED <<decoder, abuf, out, locals, space, fixed, written, moves, faults>>
\* The device cannot be opened for the new format: reinit_audio_chain gives the audio up
NoSoundDevice ==
  /\ pc = "filled" \/ (pc = "loop" /\ toWrite = 0)
  /\ change /\ out = <<>> /\ faults < MaxFaults /\ faults' = faults + 1
  /\ pc' = "nosound"
  /\ UNCHANGED <<decoder, buffers, locals, device, fixed, written, skipped, moves>>
\* fill_audio_out_buffers returns 0: without video this is the end of the file
Finished ==
  /\ pc = "finished"
  /\ pc' = IF video THEN "main" ELSE "ended"
  /\ UNCHANGED <<decoder, buffers, locals, device, fixed, written, skipped, moves, faults>>
\* With video the player ends when that is over, and so no queue full of it in the way of the
\* audio, and the demuxer has no more audio
VideoEnds ==
  /\ pc = "main" /\ video /\ ending /\ at > Len(track)
  /\ pc' = "ended"
  /\ UNCHANGED <<decoder, buffers, locals, device, fixed, written, skipped, moves, faults>>
-----------------------------------------------------------------------------
(* Seeking and pausing.                                                    *)

\* Seeded error: what was decoded but not filtered yet stays.
ResyncFiltered == out' = <<>> /\ abuf' = abuf /\ drained' = FALSE /\ held' = [i \in DOMAIN held |-> 0]
Resync == out' = <<>> /\ abuf' = <<>> /\ drained' = FALSE /\ held' = [i \in DOMAIN held |-> 0]
Seek(t) ==
  /\ pc = "main" /\ moves < MaxPauses /\ moves' = moves + 1
  /\ at' = t /\ ending' = FALSE
  /\ Resync                                                   \* demux_seek
  /\ dev' = <<>> /\ devst' = "prepared"                       \* reset
  /\ written' = 1..FrameLen * (t - 1) /\ skipped' = {}
  /\ UNCHANGED <<track, sh, pts, missed, af, change, pc, locals, space, fixed, faults>>
Pause ==
  /\ pc = "main" /\ moves < MaxPauses /\ moves' = moves + 1
  /\ IF canPause THEN /\ devst' = IF devst = "running" THEN "paused" ELSE devst
                      /\ UNCHANGED <<dev, space>>
     ELSE space' = Space /\ dev' = <<>> /\ devst' = "setup"
  /\ pc' = "paused"
  /\ UNCHANGED <<decoder, buffers, locals, fixed, written, skipped, faults>>
\* mp_ao_resume_refill makes up for the samples dropped with silence, in whole periods
Refill == [i \in 1..((DevSize - space) \div Outburst) * Outburst |-> 0]
Resume ==
  /\ pc = "paused"
  /\ IF canPause THEN /\ devst' \in (IF devst \in {"paused", "suspended"} THEN {"running"} ELSE {devst})
                                    \cup ({devst} \cap {"suspended"})
                      /\ dev' = dev
     ELSE dev' = Refill /\ devst' = Started(Refill, "prepared")
  /\ pc' = "main"
  /\ UNCHANGED <<decoder, buffers, locals, space, fixed, written, skipped, moves, faults>>

(* The sound card.                                                         *)
Tick == /\ devst = "running" /\ dev # <<>>
        /\ dev' = Tail(dev)
        /\ UNCHANGED <<decoder, buffers, pc, locals, devst, space, fixed, written, skipped, moves, faults>>
Suspend == /\ devst \in {"running", "paused"} /\ faults < MaxFaults /\ faults' = faults + 1
           /\ devst' = "suspended"
           /\ UNCHANGED <<decoder, buffers, pc, locals, dev, space, fixed, written, skipped, moves>>

FillOut == GetSpace \/ Piece \/ Enough \/ DecodeMore \/ decode_audio \/ (\E n \in 0..MaxHeld : Filter(n))
        \/ ToPlay \/ Play \/ OutFilled \/ NoSoundDevice \/ Finished
SoundNext == FillOut \/ VideoEnds \/ (\E t \in DOMAIN track : Seek(t)) \/ Pause \/ Resume \/ Tick \/ Suspend
SoundSpec == SoundInit /\ [][SoundNext]_soundVars
\* The player runs on, the device plays what it has, a paused player is resumed; the main
\* loop comes by the test for the end of the video again and again
SoundFairSpec == SoundSpec /\ WF_soundVars(FillOut) /\ WF_soundVars(Tick) /\ WF_soundVars(Resume) /\ SF_soundVars(VideoEnds)
-----------------------------------------------------------------------------
\* Filters only ever get samples of the format they were set up for, although the decoder
\* runs ahead of them (filter_n_bytes).
RightFormat == \A u \in Range(abuf) \cup Range(held) : u # 0 => FormatOf(u) = af

\* A packet always fits behind the samples that were decoded before (the assertion of
\* filter_n_bytes), and the filtered samples stay few.
BufferFits ==
  /\ Len(abuf) <= ABufSize
  /\ pc = "feed" => declen - 1 + FrameLen <= ABufSize
  /\ Len(out) <= MaxBurst + MaxDecode + MaxHeld

\* The samples between decoder and device are those up to the decoder's position, without a
\* gap or a repetition: written_audio_pts, which subtracts their number from that position, is
\* the time of the next sample the device gets.  When packets were lost the position is the
\* stamp of the next one, and that holds of what comes after them only.
TimeTrue ==
  ~change /\ pc # "feed" =>
    LET q == out \o held \o abuf
    IN res # -2 => \A i \in DOMAIN q : q[i] > missed => q[i] = pts - Len(q) + i

\* "at eof, all audio at least written to ao" (mplayer.c): when an audio file ends, the device
\* was given every sample that decodes but those a filter kept and those lost at a change of
\* format.
AllWritten ==
  pc = "ended" /\ ~video /\ faults = 0 =>
    \A u \in 1..FrameLen * Len(track) :
      FormatOf(u) # "bad" => u \in written \cup skipped \cup Range(held)

\* What the device is given is in its format, all of the file, and at the time the player thinks
\* it is.
SamplesTrue == RightFormat /\ AllWritten /\ TimeTrue

\* "obviously not yet EOF after all" (ds_fill_buffer of demuxer.c): an end that was only the
\* other streams' queues being full is taken back with the next packet, and what comes then is
\* played.
LatePacketsHeard ==
  [][\A f \in at..at' - 1 : pc = "feed" /\ track[f] = sh =>
       Range(Samples(f, 1)) \subseteq Range(abuf') \cup skipped']_soundVars

\* Playback ends, but for two cases: a suspended device which has no room for a whole period is
\* not written to, and only a write would wake it; and an audio file whose new format no
\* device takes is not played any more, nor left.
SoundEnds ==
  <>(pc = "ended" \/ (devst = "suspended" /\ Space < Outburst) \/ pc = "nosound")
=============================================================================
