-------------------------- MODULE PlayerLifeProofs --------------------------
(***************************************************************************)
(* Proof that what plays is open, that what is closed is closed in order,  *)
(* that nothing is left open and that the terminal is restored, whatever   *)
(* files hold, and however many are played, fail and are switched.         *)
(*                                                                         *)
(* uninit_player closes one part after the other.  The invariant is stated *)
(* for where the player is once that is done: the place it goes on at, the *)
(* flags that stay and the tracks that stay.                               *)
(***************************************************************************)
EXTENDS PlayerLife, TLAPS

CodecFlags == {"ACODEC", "VCODEC"}
AudioChain == {"audio_codec", "audio_out", "audio_filters", "audio_error", "audio_given_up"}
VideoChain == {"video_out", "video_codec", "video_error", "video_given_up"}
Loop == {"begin", "play", "play_video", "body", "commands", "switched_audio", "switched_video"}
Running == AudioChain \cup VideoChain \cup Loop \cup {"selected"}
Between == {"file", "enabling", "enabled", "idle", "open"}
Places == Between \cup Running \cup {"demux", "next", "exited"}

At == IF pc = "uninit" THEN then ELSE pc
Flags == IF pc = "uninit" THEN initialized_flags \ mask ELSE initialized_flags
Track == [k \in KINDS |-> IF pc = "uninit" /\ Codec[k] \in mask THEN 0 ELSE sh[k]]

LifeTypeOK ==
  /\ pc \in Places \cup {"uninit", "killed", "killed_enabling"} /\ then \in Places
  /\ initialized_flags \subseteq ALL /\ (pc = "uninit" => mask \subseteq initialized_flags)
  /\ sh \in [KINDS -> Nat] /\ ds \in [KINDS -> [id : Nat, sh : BOOLEAN]]
  /\ tracks \in [KINDS -> Nat] /\ fixed_vo \in BOOLEAN
  /\ raw \in BOOLEAN /\ getch2_status \in BOOLEAN

\* What stays from file to file
Base == {"INPUT", "GETCH2"} \cup (IF fixed_vo THEN {"VO"} ELSE {})
\* Which flags are set where
FlagsInv(a, f, r) ==
  /\ a \in Between => f \subseteq Base
  /\ a = "enabling" => "GETCH2" \notin f
  /\ a = "demux" => f \subseteq Base \cup {"STREAM"} /\ "STREAM" \in f
  /\ a \in Running => {"STREAM", "DEMUXER"} \subseteq f
  /\ a = "selected" \/ (a \in VideoChain /\ r = "selected") =>
       f \cap {"SUBS", "ACODEC", "AO"} = {}
  /\ a = "exited" => f = {}
  /\ a = "audio_given_up" => "ACODEC" \notin f
  /\ a \in {"video_out", "video_given_up"} => "VCODEC" \notin f
  /\ a = "video_codec" => "VCODEC" \notin f
  /\ a \in {"audio_out", "audio_filters"} => "ACODEC" \in f
  /\ a = "audio_filters" => "AO" \in f
  /\ a = "video_codec" => "VO" \in f
  /\ a \in {"video_out", "video_error", "video_given_up"} /\ ~fixed_vo => "VO" \notin f
  /\ \A k \in KINDS : Codec[k] \in f => "DEMUXER" \in f
  /\ "DEMUXER" \in f => "STREAM" \in f
  /\ a \in AudioChain => r \in {"begin", "play_video", "commands", "play"}
  /\ a \in VideoChain => r \in {"selected", "body", "play"}
  /\ a \in {"switched_audio", "switched_video"} => r = "play"

\* Where the flags of a kind of track go with its pointer
Settled(k, a, r) ==
  /\ a \in Running \ {"selected"}
  /\ k = "audio" => a \notin AudioChain /\ ~(a \in VideoChain /\ r = "selected")
  /\ k = "video" => a \notin VideoChain
TracksInv(a, f, t, r) ==
  /\ \A k \in KINDS :
       /\ a \in Running \cup {"next"} =>
            IF Codec[k] \in f THEN t[k] # 0 ELSE TRUE
       /\ Settled(k, a, r) \/ a = "next" => (t[k] # 0 => Codec[k] \in f)
       /\ Settled(k, a, r) /\ t[k] # 0 => Out[k] \in f
       /\ a \in Between \cup {"demux"} => t[k] = 0
       /\ a = SwitchedTo[k] => t[k] = 0 /\ ds[k].id # 0
       /\ ds[k].sh => ds[k].id # 0
       /\ a \in Running /\ ds[k].id = 0 => t[k] = 0
  /\ a \in AudioChain \ {"audio_given_up"} => t["audio"] # 0
  /\ a \in {"video_out", "video_codec"} => t["video"] # 0
  /\ a = "selected" => (t["video"] # 0 => {"VCODEC", "VO"} \subseteq f)
  /\ a \in Running /\ t["video"] = 0 /\ ~fixed_vo => "VO" \notin f

\* What is open, and for which flag
HeldInv ==
  /\ \A p \in held :
       \/ p.kind = "none" /\ p = Part(p.part) /\ p.part \in initialized_flags \ CodecFlags
       \/ /\ p.kind \in KINDS /\ Codec[p.kind] \in initialized_flags
          /\ p \in {Decoder(p.kind, sh[p.kind]), Filters(p.kind, sh[p.kind])}
  /\ \A name \in initialized_flags \ CodecFlags : Part(name) \in held
  /\ \A k \in KINDS :
       At \in Running /\ Codec[k] \in Flags =>
         /\ ~(k = "video" /\ At = "video_error") => Decoder(k, sh[k]) \in held
         /\ ~(k = "audio" /\ At \in AudioChain) => Filters(k, sh[k]) \in held
  /\ \A k \in KINDS : Codec[k] \in initialized_flags => "DEMUXER" \in initialized_flags
  /\ "DEMUXER" \in initialized_flags => "STREAM" \in initialized_flags
  /\ lost = {}

TerminalInv ==
  /\ raw => getch2_status \/ pc \in {"enabling", "killed_enabling"}
  /\ getch2_status => "GETCH2" \in initialized_flags /\ pc # "killed"

LifeInv == /\ LifeTypeOK /\ FlagsInv(At, Flags, ret) /\ TracksInv(At, Flags, Track, ret)
           /\ HeldInv /\ TerminalInv

-----------------------------------------------------------------------------
LEMMA Names ==
  /\ KINDS = {"audio", "video"} /\ Codec["audio"] = "ACODEC" /\ Codec["video"] = "VCODEC"
  /\ Out["audio"] = "AO" /\ Out["video"] = "VO"
  /\ SwitchedTo["audio"] = "switched_audio" /\ SwitchedTo["video"] = "switched_video"
  /\ ALL = {"ACODEC", "VCODEC", "DEMUXER", "STREAM", "AO", "VO", "GETCH2", "SUBS", "INPUT"}
<1>1. ALL = {Order[1], Order[2], Order[3], Order[4], Order[5], Order[6], Order[7], Order[8],
    Order[9]}
  BY DEF ALL, Order
<1>. QED BY <1>1 DEF KINDS, Codec, Out, SwitchedTo, Order

-----------------------------------------------------------------------------
(* uninit_player: nothing of what the invariant speaks of moves while it closes.  *)

LEMMA ClosedBefore ==
  ASSUME NEW names, NEW name, IsFirst(name, names)
  PROVE  /\ name = "DEMUXER" => names \cap CodecFlags = {}
         /\ name = "STREAM" => "DEMUXER" \notin names
<1>1. PICK i \in 1..9 : Order[i] = name /\ \A j \in 1..i - 1 : Order[j] \notin names
  BY DEF IsFirst, Order
<1>2. Order[1] = "ACODEC" /\ Order[2] = "VCODEC" /\ Order[3] = "DEMUXER" /\ Order[4] = "STREAM" /\ Order[5] = "AO"
   /\ Order[6] = "VO" /\ Order[7] = "GETCH2" /\ Order[8] = "SUBS" /\ Order[9] = "INPUT"
  BY DEF Order
<1>3. name = "DEMUXER" => i = 3 BY <1>1, <1>2
<1>4. name = "STREAM" => i = 4 BY <1>1, <1>2
<1>. QED BY <1>1, <1>2, <1>3, <1>4 DEF CodecFlags

LEMMA UninitKeeps == LifeInv /\ UninitNext => LifeInv'
<1> SUFFICES ASSUME LifeInv, UninitNext PROVE LifeInv'
  OBVIOUS
<1> USE Names DEF LifeInv
<1>0. PICK name \in mask :
     /\ IsFirst(name, mask) /\ mask' = mask \ {name} /\ initialized_flags' = initialized_flags \ {name}
     /\ held' = held \ Closes(name)
     /\ sh' = [k \in KINDS |-> IF name = Codec[k] THEN 0 ELSE sh[k]]
     /\ IF name = "GETCH2" /\ getch2_status
        THEN raw' = FALSE /\ getch2_status' = FALSE ELSE UNCHANGED term
     /\ UNCHANGED <<pc, ret, then, fixed_vo, lost, tracks, ds>> /\ pc = "uninit"
  BY DEF UninitNext, mode, streams
<1>6. At' = At /\ Flags' = Flags BY <1>0 DEF At, Flags, LifeTypeOK
<1>7. Track' = Track BY <1>0 DEF LifeTypeOK, Track
<1>1. LifeTypeOK' BY <1>0 DEF LifeTypeOK, term
<1>2. FlagsInv(At, Flags, ret)' BY <1>0, <1>6 DEF FlagsInv, Base
<1>3. TracksInv(At, Flags, Track, ret)' BY <1>0, <1>6, <1>7 DEF TracksInv, Settled
<1>4. HeldInv'
  <2>1. Closes(name) = IF name = "ACODEC" THEN {Decoder("audio", sh["audio"]), Filters("audio",
      sh["audio"])}
                       ELSE IF name = "VCODEC" THEN {Decoder("video", sh["video"]), Filters("video", sh["video"])}
                       ELSE {Part(name)} BY DEF Closes, KindOf
  <2>. QED BY <1>0, <1>6, <1>7, <2>1, ClosedBefore DEF LifeTypeOK, FlagsInv, Flags, HeldInv,
      CodecFlags, Part, Decoder, Filters
<1>5. TerminalInv' BY <1>0 DEF TerminalInv, term, LifeTypeOK
<1>. QED BY <1>1, <1>2, <1>3, <1>4, <1>5

LEMMA UninitDoneKeeps == LifeInv /\ UninitDone => LifeInv'
<1> SUFFICES ASSUME LifeInv, UninitDone PROVE LifeInv'
  OBVIOUS
<1> USE Names, FilesAssumption DEF LifeInv, UninitDone, parts, term, streams, closing, mode,
      Places, Running, Between, AudioChain, VideoChain, Loop
<1>1. LifeTypeOK' BY DEF LifeTypeOK
<1>2. FlagsInv(At, Flags, ret)' BY DEF LifeTypeOK, FlagsInv, TracksInv, Settled, At, Flags, Track,
    Base
<1>3. TracksInv(At, Flags, Track, ret)' BY DEF LifeTypeOK, FlagsInv, TracksInv, Settled, At, Flags,
    Track, Base
<1>4. HeldInv' BY DEF LifeTypeOK, FlagsInv, TracksInv, Settled, At, Flags, Track, Base,
              HeldInv, CodecFlags, Part, Decoder, Filters
<1>5. TerminalInv' BY DEF LifeTypeOK, FlagsInv, At, Flags, Base, TerminalInv
<1>. QED BY <1>1, <1>2, <1>3, <1>4, <1>5

-----------------------------------------------------------------------------
(* A file is opened. *)

LEMMA EnableKeysKeeps == LifeInv /\ EnableKeys => LifeInv'
<1> SUFFICES ASSUME LifeInv, EnableKeys PROVE LifeInv'
  OBVIOUS
<1> USE Names, FilesAssumption DEF LifeInv, EnableKeys, parts, streams, closing, mode,
      Places, Running, Between, AudioChain, VideoChain, Loop
<1>1. LifeTypeOK' BY DEF LifeTypeOK
<1>2. FlagsInv(At, Flags, ret)' BY DEF LifeTypeOK, FlagsInv, TracksInv, Settled, At, Flags, Track,
    Base
<1>3. TracksInv(At, Flags, Track, ret)' BY DEF LifeTypeOK, FlagsInv, TracksInv, Settled, At, Flags,
    Track, Base
<1>4. HeldInv' BY DEF LifeTypeOK, FlagsInv, TracksInv, Settled, At, Flags, Track, Base,
              HeldInv, CodecFlags, Part, Decoder, Filters
<1>5. TerminalInv' BY DEF LifeTypeOK, FlagsInv, At, Flags, Base, TerminalInv
<1>. QED BY <1>1, <1>2, <1>3, <1>4, <1>5

LEMMA KeysEnabledKeeps == LifeInv /\ KeysEnabled => LifeInv'
<1> SUFFICES ASSUME LifeInv, KeysEnabled PROVE LifeInv'
  OBVIOUS
<1> USE Names, FilesAssumption DEF LifeInv, KeysEnabled, Opened, Flag, streams, closing, mode,
      Places, Running, Between, AudioChain, VideoChain, Loop
<1>1. LifeTypeOK' BY DEF LifeTypeOK
<1>2. FlagsInv(At, Flags, ret)' BY DEF LifeTypeOK, FlagsInv, TracksInv, Settled, At, Flags, Track,
    Base
<1>3. TracksInv(At, Flags, Track, ret)' BY DEF LifeTypeOK, FlagsInv, TracksInv, Settled, At, Flags,
    Track, Base
<1>4. HeldInv' BY DEF LifeTypeOK, FlagsInv, TracksInv, Settled, At, Flags, Track, Base,
              HeldInv, CodecFlags, Part, Decoder, Filters
<1>5. TerminalInv' BY DEF LifeTypeOK, FlagsInv, At, Flags, Base, TerminalInv
<1>. QED BY <1>1, <1>2, <1>3, <1>4, <1>5

LEMMA NextNameKeeps == LifeInv /\ NextName => LifeInv'
<1> SUFFICES ASSUME LifeInv, NextName PROVE LifeInv'
  OBVIOUS
<1> USE Names, FilesAssumption DEF LifeInv, NextName, parts, term, streams, closing, mode,
      Places, Running, Between, AudioChain, VideoChain, Loop
<1>1. LifeTypeOK' BY DEF LifeTypeOK
<1>2. FlagsInv(At, Flags, ret)' BY DEF LifeTypeOK, FlagsInv, TracksInv, Settled, At, Flags, Track,
    Base
<1>3. TracksInv(At, Flags, Track, ret)' BY DEF LifeTypeOK, FlagsInv, TracksInv, Settled, At, Flags,
    Track, Base
<1>4. HeldInv' BY DEF LifeTypeOK, FlagsInv, TracksInv, Settled, At, Flags, Track, Base,
              HeldInv, CodecFlags, Part, Decoder, Filters
<1>5. TerminalInv' BY DEF LifeTypeOK, FlagsInv, At, Flags, Base, TerminalInv
<1>. QED BY <1>1, <1>2, <1>3, <1>4, <1>5

LEMMA IdleKeeps == LifeInv /\ Idle => LifeInv'
<1> SUFFICES ASSUME LifeInv, Idle PROVE LifeInv'
  OBVIOUS
<1> USE Names, FilesAssumption DEF LifeInv, Idle, Uninit, Exit, parts, term, streams, closing, mode,
      Places, Running, Between, AudioChain, VideoChain, Loop
<1>1. LifeTypeOK' BY DEF LifeTypeOK
<1>2. FlagsInv(At, Flags, ret)' BY DEF LifeTypeOK, FlagsInv, TracksInv, Settled, At, Flags, Track,
    Base
<1>3. TracksInv(At, Flags, Track, ret)' BY DEF LifeTypeOK, FlagsInv, TracksInv, Settled, At, Flags,
    Track, Base
<1>4. HeldInv' BY DEF LifeTypeOK, FlagsInv, TracksInv, Settled, At, Flags, Track, Base,
              HeldInv, CodecFlags, Part, Decoder, Filters
<1>5. TerminalInv' BY DEF LifeTypeOK, FlagsInv, At, Flags, Base, TerminalInv
<1>. QED BY <1>1, <1>2, <1>3, <1>4, <1>5

LEMMA OpenStreamKeeps == LifeInv /\ OpenStream => LifeInv'
<1> SUFFICES ASSUME LifeInv, OpenStream PROVE LifeInv'
  OBVIOUS
<1> USE Names, FilesAssumption DEF LifeInv, OpenStream, Uninit, Exit, Opened, Flag, Fail, Fine,
    parts, term, closing, mode, NoTrack,
      Places, Running, Between, AudioChain, VideoChain, Loop
<1>1. LifeTypeOK' BY DEF LifeTypeOK
<1>2. FlagsInv(At, Flags, ret)' BY DEF LifeTypeOK, FlagsInv, TracksInv, Settled, At, Flags, Track,
    Base
<1>3. TracksInv(At, Flags, Track, ret)' BY DEF LifeTypeOK, FlagsInv, TracksInv, Settled, At, Flags,
    Track, Base
<1>4. HeldInv' BY DEF LifeTypeOK, FlagsInv, TracksInv, Settled, At, Flags, Track, Base,
              HeldInv, CodecFlags, Part, Decoder, Filters
<1>5. TerminalInv' BY DEF LifeTypeOK, FlagsInv, At, Flags, Base, TerminalInv
<1>. QED BY <1>1, <1>2, <1>3, <1>4, <1>5

LEMMA OpenDemuxerKeeps == LifeInv /\ OpenDemuxer => LifeInv'
<1> SUFFICES ASSUME LifeInv, OpenDemuxer PROVE LifeInv'
  OBVIOUS
<1> USE Names, FilesAssumption DEF LifeInv
<1>1. CASE /\ Fail /\ UNCHANGED <<initialized_flags, parts, streams>>
           /\ \/ pc' = "next" /\ UNCHANGED closing
              \/ async_quit_request /\ Exit
  <2> USE <1>1 DEF OpenDemuxer, Uninit, Exit, parts, term, streams, closing, mode, Places, Running,
      Between, AudioChain, VideoChain, Loop
  <2>1. LifeTypeOK' BY DEF LifeTypeOK
  <2>2. FlagsInv(At, Flags, ret)' BY DEF LifeTypeOK, FlagsInv, TracksInv, Settled, At, Flags,
      Track, Base
  <2>3. TracksInv(At, Flags, Track, ret)' BY DEF LifeTypeOK, FlagsInv, TracksInv, Settled, At,
      Flags, Track, Base
  <2>4. HeldInv' BY DEF LifeTypeOK, FlagsInv, TracksInv, Settled, At, Flags, Track, Base, HeldInv,
      CodecFlags, Part, Decoder, Filters
  <2>5. TerminalInv' BY DEF LifeTypeOK, FlagsInv, At, Flags, Base, TerminalInv
  <2>. QED BY <2>1, <2>2, <2>3, <2>4, <2>5
<1>2. CASE initialized_flags' = initialized_flags \cup {"DEMUXER"}
  <2> USE <1>2 DEF OpenDemuxer, Flag, Opened, parts, term, streams, closing, mode, Places, Running,
      Between, AudioChain, VideoChain, Loop
  <2>0. PICK s \in [KINDS -> 0..1] : sh' = s /\ ds' = [k \in KINDS |-> [id |-> s[k],
      sh |-> s[k] # 0]]
     BY DEF LifeTypeOK, FlagsInv, At, Flags, Base
  <2>6. pc = "demux" /\ pc' = (IF sh'["video"] # 0 THEN "video_out" ELSE "selected") /\ ret' = "selected" /\ UNCHANGED <<then, mask>>
        /\ held' = held \cup {Part("DEMUXER")} /\ lost' = lost \cup (held \cap {Part("DEMUXER")}) 
      BY DEF FlagsInv, At, Flags, Base, LifeTypeOK
  <2>00. tracks' \in [KINDS -> Nat]
   BY DEF LifeTypeOK, FlagsInv, At, Flags, Base
  <2>01. sh' \in [KINDS -> Nat] /\ ds' \in [KINDS -> [id : Nat, sh : BOOLEAN]] 
     BY <2>0 
  <2>1. LifeTypeOK' BY <2>00, <2>01, <2>6 DEF LifeTypeOK
  <2>2. FlagsInv(At, Flags, ret)' BY <2>6 DEF LifeTypeOK, FlagsInv, TracksInv, At, Flags, Base
  <2>7. \A k \in KINDS : ds'[k].id = sh'[k] /\ (ds'[k].sh <=> sh'[k] # 0) BY <2>0
  <2>3. TracksInv(At, Flags, Track, ret)' BY <2>6, <2>7, <2>01 DEF LifeTypeOK, FlagsInv, TracksInv,
      Settled, At, Flags, Track, Base
  <2>4. HeldInv' BY <2>6 DEF LifeTypeOK, FlagsInv, TracksInv, At, Flags, Base, HeldInv, CodecFlags,
      Part, Decoder, Filters
  <2>5. TerminalInv' BY <2>6 DEF TerminalInv
  <2>. QED BY <2>1, <2>2, <2>3, <2>4, <2>5
<1>. QED BY <1>1, <1>2 DEF OpenDemuxer, Flag

LEMMA SelectedKeeps == LifeInv /\ Selected => LifeInv'
<1> SUFFICES ASSUME LifeInv, Selected PROVE LifeInv'
  OBVIOUS
<1> USE Names, FilesAssumption DEF LifeInv, Selected, Opened, Flag, parts, term, streams, closing,
    mode,
      Places, Running, Between, AudioChain, VideoChain, Loop
<1>1. LifeTypeOK' BY DEF LifeTypeOK
<1>2. FlagsInv(At, Flags, ret)' BY DEF LifeTypeOK, FlagsInv, TracksInv, Settled, At, Flags, Track,
    Base
<1>3. TracksInv(At, Flags, Track, ret)' BY DEF LifeTypeOK, FlagsInv, TracksInv, Settled, At, Flags,
    Track, Base
<1>4. HeldInv' BY DEF LifeTypeOK, FlagsInv, TracksInv, Settled, At, Flags, Track, Base,
              HeldInv, CodecFlags, Part, Decoder, Filters
<1>5. TerminalInv' BY DEF LifeTypeOK, FlagsInv, At, Flags, Base, TerminalInv
<1>. QED BY <1>1, <1>2, <1>3, <1>4, <1>5

LEMMA BeginKeeps == LifeInv /\ Begin => LifeInv'
<1> SUFFICES ASSUME LifeInv, Begin PROVE LifeInv'
  OBVIOUS
<1> USE Names, FilesAssumption DEF LifeInv, Begin, parts, term, streams, closing, mode,
      Places, Running, Between, AudioChain, VideoChain, Loop
<1>1. LifeTypeOK' BY DEF LifeTypeOK
<1>2. FlagsInv(At, Flags, ret)' BY DEF LifeTypeOK, FlagsInv, TracksInv, Settled, At, Flags, Track,
    Base
<1>3. TracksInv(At, Flags, Track, ret)' BY DEF LifeTypeOK, FlagsInv, TracksInv, Settled, At, Flags,
    Track, Base
<1>4. HeldInv' BY DEF LifeTypeOK, FlagsInv, TracksInv, Settled, At, Flags, Track, Base,
              HeldInv, CodecFlags, Part, Decoder, Filters
<1>5. TerminalInv' BY DEF LifeTypeOK, FlagsInv, At, Flags, Base, TerminalInv
<1>. QED BY <1>1, <1>2, <1>3, <1>4, <1>5

-----------------------------------------------------------------------------
(* The chains *)

LEMMA AudioCodecKeeps == LifeInv /\ AudioCodec => LifeInv'
<1> SUFFICES ASSUME LifeInv, AudioCodec PROVE LifeInv'
  OBVIOUS
<1> USE Names, FilesAssumption DEF LifeInv, AudioCodec, Opened, Flag, Fail, Fine, parts, term,
    streams, closing, mode,
      Places, Running, Between, AudioChain, VideoChain, Loop
<1>1. LifeTypeOK' BY DEF LifeTypeOK
<1>2. FlagsInv(At, Flags, ret)' BY DEF LifeTypeOK, FlagsInv, TracksInv, Settled, At, Flags, Track,
    Base
<1>3. TracksInv(At, Flags, Track, ret)' BY DEF LifeTypeOK, FlagsInv, TracksInv, Settled, At, Flags,
    Track, Base
<1>4. HeldInv' BY DEF LifeTypeOK, FlagsInv, TracksInv, Settled, At, Flags, Track, Base,
              HeldInv, CodecFlags, Part, Decoder, Filters
<1>5. TerminalInv' BY DEF LifeTypeOK, FlagsInv, At, Flags, Base, TerminalInv
<1>. QED BY <1>1, <1>2, <1>3, <1>4, <1>5

LEMMA AudioOutKeeps == LifeInv /\ AudioOut => LifeInv'
<1> SUFFICES ASSUME LifeInv, AudioOut PROVE LifeInv'
  OBVIOUS
<1> USE Names, FilesAssumption DEF LifeInv, AudioOut, Uninit, Exit, Flag, Fail, Fine, parts, term,
    streams, closing, mode,
      Places, Running, Between, AudioChain, VideoChain, Loop
<1>1. LifeTypeOK' BY DEF LifeTypeOK
<1>2. FlagsInv(At, Flags, ret)'
  <2>1. CASE pc' = "uninit"
    <3>1. Flags' = {} /\ At' = "exited" BY <2>1 DEF LifeTypeOK, At, Flags
    <3>. QED BY <3>1 DEF FlagsInv
  <2>2. CASE pc' = "audio_error"
    <3>1. Flags' = Flags /\ At = "audio_out" /\ At' = "audio_error" /\ ret' = ret
      BY <2>2 DEF At, Flags
    <3>. QED BY <3>1 DEF FlagsInv, Base
  <2>3. CASE pc' = "audio_filters" BY <2>3 DEF LifeTypeOK, FlagsInv, At, Flags, Base
  <2>. QED BY <2>1, <2>2, <2>3
<1>3. TracksInv(At, Flags, Track, ret)' BY DEF LifeTypeOK, FlagsInv, TracksInv, Settled, At, Flags,
    Track, Base
<1>4. HeldInv' BY DEF LifeTypeOK, FlagsInv, TracksInv, Settled, At, Flags, Track, Base,
              HeldInv, CodecFlags, Part, Decoder, Filters
<1>5. TerminalInv' BY DEF LifeTypeOK, FlagsInv, At, Flags, Base, TerminalInv
<1>. QED BY <1>1, <1>2, <1>3, <1>4, <1>5

LEMMA AudioFiltersKeeps == LifeInv /\ AudioFilters => LifeInv'
<1> SUFFICES ASSUME LifeInv, AudioFilters PROVE LifeInv'
  OBVIOUS
<1> USE Names, FilesAssumption DEF LifeInv, AudioFilters, Fail, Fine, term, streams, closing, mode,
      Places, Running, Between, AudioChain, VideoChain, Loop
<1>1. LifeTypeOK' BY DEF LifeTypeOK, FlagsInv, At
<1>2. FlagsInv(At, Flags, ret)' BY DEF LifeTypeOK, FlagsInv, TracksInv, Settled, At, Flags, Track,
    Base
<1>3. TracksInv(At, Flags, Track, ret)' BY DEF LifeTypeOK, FlagsInv, TracksInv, Settled, At, Flags,
    Track, Base
<1>4. HeldInv' BY DEF LifeTypeOK, FlagsInv, TracksInv, Settled, At, Flags, Track, Base,
              HeldInv, CodecFlags, Part, Decoder, Filters
<1>5. TerminalInv' BY DEF LifeTypeOK, FlagsInv, At, Flags, Base, TerminalInv
<1>. QED BY <1>1, <1>2, <1>3, <1>4, <1>5

LEMMA AudioErrorKeeps == LifeInv /\ AudioError => LifeInv'
<1> SUFFICES ASSUME LifeInv, AudioError PROVE LifeInv'
  OBVIOUS
<1> USE Names, FilesAssumption DEF LifeInv, AudioError, Uninit, AudioErrorFlags, parts, term,
    streams, mode,
      Places, Running, Between, AudioChain, VideoChain, Loop
<1>1. LifeTypeOK' BY DEF LifeTypeOK
<1>2. FlagsInv(At, Flags, ret)' BY DEF LifeTypeOK, FlagsInv, TracksInv, Settled, At, Flags, Track,
    Base
<1>3. TracksInv(At, Flags, Track, ret)' BY DEF LifeTypeOK, FlagsInv, TracksInv, Settled, At, Flags,
    Track, Base
<1>4. HeldInv' BY DEF LifeTypeOK, FlagsInv, TracksInv, Settled, At, Flags, Track, Base,
              HeldInv, CodecFlags, Part, Decoder, Filters
<1>5. TerminalInv' BY DEF LifeTypeOK, FlagsInv, At, Flags, Base, TerminalInv
<1>. QED BY <1>1, <1>2, <1>3, <1>4, <1>5

LEMMA AudioGivenUpKeeps == LifeInv /\ AudioGivenUp => LifeInv'
<1> SUFFICES ASSUME LifeInv, AudioGivenUp PROVE LifeInv'
  OBVIOUS
<1> USE Names, FilesAssumption DEF LifeInv, AudioGivenUp, parts, term, closing, mode, NoTrack,
      Places, Running, Between, AudioChain, VideoChain, Loop
<1>1. LifeTypeOK' BY DEF LifeTypeOK, FlagsInv, At
<1>2. FlagsInv(At, Flags, ret)' BY DEF LifeTypeOK, FlagsInv, TracksInv, Settled, At, Flags, Track,
    Base
<1>3. TracksInv(At, Flags, Track, ret)' BY DEF LifeTypeOK, FlagsInv, TracksInv, Settled, At, Flags,
    Track, Base
<1>4. HeldInv' BY DEF LifeTypeOK, FlagsInv, TracksInv, Settled, At, Flags, Track, Base,
              HeldInv, CodecFlags, Part, Decoder, Filters
<1>5. TerminalInv' BY DEF LifeTypeOK, FlagsInv, At, Flags, Base, TerminalInv
<1>. QED BY <1>1, <1>2, <1>3, <1>4, <1>5

LEMMA VideoOutKeeps == LifeInv /\ VideoOut => LifeInv'
<1> SUFFICES ASSUME LifeInv, VideoOut PROVE LifeInv'
  OBVIOUS
<1> USE Names, FilesAssumption DEF LifeInv, VideoOut, Opened, Flag, Fail, Fine, Kept, parts, term,
    closing, mode,
      Places, Running, Between, AudioChain, VideoChain, Loop
<1>1. LifeTypeOK' BY DEF LifeTypeOK
<1>2. FlagsInv(At, Flags, ret)' BY DEF LifeTypeOK, FlagsInv, TracksInv, Settled, At, Flags, Track,
    Base
<1>3. TracksInv(At, Flags, Track, ret)' BY DEF LifeTypeOK, FlagsInv, TracksInv, Settled, At, Flags,
    Track, Base
<1>4. HeldInv' BY DEF LifeTypeOK, FlagsInv, TracksInv, Settled, At, Flags, Track, Base,
              HeldInv, CodecFlags, Part, Decoder, Filters
<1>5. TerminalInv' BY DEF LifeTypeOK, FlagsInv, At, Flags, Base, TerminalInv
<1>. QED BY <1>1, <1>2, <1>3, <1>4, <1>5

LEMMA VideoCodecKeeps == LifeInv /\ VideoCodec => LifeInv'
<1> SUFFICES ASSUME LifeInv, VideoCodec PROVE LifeInv'
  OBVIOUS
<1> USE Names, FilesAssumption DEF LifeInv, VideoCodec, Flag, Fail, Fine, term, streams, closing,
    mode,
      Places, Running, Between, AudioChain, VideoChain, Loop
<1>1. LifeTypeOK' BY DEF LifeTypeOK, FlagsInv, At
<1>2. FlagsInv(At, Flags, ret)' BY DEF LifeTypeOK, FlagsInv, TracksInv, Settled, At, Flags, Track,
    Base
<1>3. TracksInv(At, Flags, Track, ret)' BY DEF LifeTypeOK, FlagsInv, TracksInv, Settled, At, Flags,
    Track, Base
<1>4. HeldInv' BY DEF LifeTypeOK, FlagsInv, TracksInv, Settled, At, Flags, Track, Base,
              HeldInv, CodecFlags, Part, Decoder, Filters
<1>5. TerminalInv' BY DEF LifeTypeOK, FlagsInv, At, Flags, Base, TerminalInv
<1>. QED BY <1>1, <1>2, <1>3, <1>4, <1>5

LEMMA VideoErrorKeeps == LifeInv /\ VideoError => LifeInv'
<1> SUFFICES ASSUME LifeInv, VideoError PROVE LifeInv'
  OBVIOUS
<1> USE Names, FilesAssumption DEF LifeInv, VideoError, Uninit, parts, term, streams, mode,
      Places, Running, Between, AudioChain, VideoChain, Loop
<1>1. LifeTypeOK' BY DEF LifeTypeOK
<1>2. FlagsInv(At, Flags, ret)' BY DEF LifeTypeOK, FlagsInv, TracksInv, Settled, At, Flags, Track,
    Base
<1>3. TracksInv(At, Flags, Track, ret)' BY DEF LifeTypeOK, FlagsInv, TracksInv, Settled, At, Flags,
    Track, Base
<1>4. HeldInv' BY DEF LifeTypeOK, FlagsInv, TracksInv, Settled, At, Flags, Track, Base,
              HeldInv, CodecFlags, Part, Decoder, Filters
<1>5. TerminalInv' BY DEF LifeTypeOK, FlagsInv, At, Flags, Base, TerminalInv
<1>. QED BY <1>1, <1>2, <1>3, <1>4, <1>5

LEMMA VideoGivenUpKeeps == LifeInv /\ VideoGivenUp => LifeInv'
<1> SUFFICES ASSUME LifeInv, VideoGivenUp PROVE LifeInv'
  OBVIOUS
<1> USE Names, FilesAssumption DEF LifeInv, VideoGivenUp, parts, term, closing, mode,
      Places, Running, Between, AudioChain, VideoChain, Loop
<1>1. LifeTypeOK' BY DEF LifeTypeOK, FlagsInv, At
<1>2. FlagsInv(At, Flags, ret)' BY DEF LifeTypeOK, FlagsInv, TracksInv, Settled, At, Flags, Track,
    Base
<1>3. TracksInv(At, Flags, Track, ret)' BY DEF LifeTypeOK, FlagsInv, TracksInv, Settled, At, Flags,
    Track, Base
<1>4. HeldInv' BY DEF LifeTypeOK, FlagsInv, TracksInv, Settled, At, Flags, Track, Base,
              HeldInv, CodecFlags, Part, Decoder, Filters
<1>5. TerminalInv' BY DEF LifeTypeOK, FlagsInv, At, Flags, Base, TerminalInv
<1>. QED BY <1>1, <1>2, <1>3, <1>4, <1>5

-----------------------------------------------------------------------------
(* The main loop *)

LEMMA PlayAudioKeeps == LifeInv /\ PlayAudio => LifeInv'
<1> SUFFICES ASSUME LifeInv, PlayAudio PROVE LifeInv'
  OBVIOUS
<1> USE Names, FilesAssumption DEF LifeInv, PlayAudio, Missing, parts, term, closing, mode,
      Places, Running, Between, AudioChain, VideoChain, Loop
<1>1. LifeTypeOK' BY DEF LifeTypeOK
<1>2. FlagsInv(At, Flags, ret)' BY DEF LifeTypeOK, FlagsInv, TracksInv, Settled, At, Flags, Track,
    Base
<1>3. TracksInv(At, Flags, Track, ret)' BY DEF LifeTypeOK, FlagsInv, TracksInv, Settled, At, Flags,
    Track, Base
<1>4. HeldInv' BY DEF LifeTypeOK, FlagsInv, TracksInv, Settled, At, Flags, Track, Base,
              HeldInv, CodecFlags, Part, Decoder, Filters
<1>5. TerminalInv' BY DEF LifeTypeOK, FlagsInv, At, Flags, Base, TerminalInv
<1>. QED BY <1>1, <1>2, <1>3, <1>4, <1>5

LEMMA PlayVideoKeeps == LifeInv /\ PlayVideo => LifeInv'
<1> SUFFICES ASSUME LifeInv, PlayVideo PROVE LifeInv'
  OBVIOUS
<1> USE Names, FilesAssumption DEF LifeInv, PlayVideo, Missing, parts, term, closing, mode,
      Places, Running, Between, AudioChain, VideoChain, Loop
<1>1. LifeTypeOK' BY DEF LifeTypeOK
<1>2. FlagsInv(At, Flags, ret)' BY DEF LifeTypeOK, FlagsInv, TracksInv, Settled, At, Flags, Track,
    Base
<1>3. TracksInv(At, Flags, Track, ret)' BY DEF LifeTypeOK, FlagsInv, TracksInv, Settled, At, Flags,
    Track, Base
<1>4. HeldInv' BY DEF LifeTypeOK, FlagsInv, TracksInv, Settled, At, Flags, Track, Base,
              HeldInv, CodecFlags, Part, Decoder, Filters
<1>5. TerminalInv' BY DEF LifeTypeOK, FlagsInv, At, Flags, Base, TerminalInv
<1>. QED BY <1>1, <1>2, <1>3, <1>4, <1>5

LEMMA PlayKeeps == LifeInv /\ Play => LifeInv'
<1> SUFFICES ASSUME LifeInv, Play PROVE LifeInv'
  OBVIOUS
<1> USE Names, FilesAssumption DEF LifeInv, Play, Uninit, parts, term, streams, closing, mode,
      Places, Running, Between, AudioChain, VideoChain, Loop
<1>1. LifeTypeOK' BY DEF LifeTypeOK
<1>2. FlagsInv(At, Flags, ret)' BY DEF LifeTypeOK, FlagsInv, TracksInv, Settled, At, Flags, Track,
    Base
<1>3. TracksInv(At, Flags, Track, ret)' BY DEF LifeTypeOK, FlagsInv, TracksInv, Settled, At, Flags,
    Track, Base
<1>4. HeldInv' BY DEF LifeTypeOK, FlagsInv, TracksInv, Settled, At, Flags, Track, Base,
              HeldInv, CodecFlags, Part, Decoder, Filters
<1>5. TerminalInv' BY DEF LifeTypeOK, FlagsInv, At, Flags, Base, TerminalInv
<1>. QED BY <1>1, <1>2, <1>3, <1>4, <1>5

LEMMA CommandKeeps == LifeInv /\ Command => LifeInv'
<1> SUFFICES ASSUME LifeInv, Command PROVE LifeInv'
  OBVIOUS
<1> USE Names, FilesAssumption DEF LifeInv, Command, Uninit, Exit, parts, term, streams, closing,
    mode,
      Places, Running, Between, AudioChain, VideoChain, Loop
<1>1. LifeTypeOK' BY DEF LifeTypeOK
<1>2. FlagsInv(At, Flags, ret)' BY DEF LifeTypeOK, FlagsInv, TracksInv, Settled, At, Flags, Track,
    Base
<1>3. TracksInv(At, Flags, Track, ret)' BY DEF LifeTypeOK, FlagsInv, TracksInv, Settled, At, Flags,
    Track, Base
<1>4. HeldInv' BY DEF LifeTypeOK, FlagsInv, TracksInv, Settled, At, Flags, Track, Base,
              HeldInv, CodecFlags, Part, Decoder, Filters
<1>5. TerminalInv' BY DEF LifeTypeOK, FlagsInv, At, Flags, Base, TerminalInv
<1>. QED BY <1>1, <1>2, <1>3, <1>4, <1>5

LEMMA RefilterKeeps == LifeInv /\ Refilter => LifeInv'
<1> SUFFICES ASSUME LifeInv, Refilter PROVE LifeInv'
  OBVIOUS
<1> USE Names, FilesAssumption DEF LifeInv, Refilter, parts, term, streams, closing, mode,
      Places, Running, Between, AudioChain, VideoChain, Loop
<1>1. LifeTypeOK' BY DEF LifeTypeOK
<1>2. FlagsInv(At, Flags, ret)' BY DEF LifeTypeOK, FlagsInv, TracksInv, Settled, At, Flags, Track,
    Base
<1>3. TracksInv(At, Flags, Track, ret)' BY DEF LifeTypeOK, FlagsInv, TracksInv, Settled, At, Flags,
    Track, Base
<1>4. HeldInv' BY DEF LifeTypeOK, FlagsInv, TracksInv, Settled, At, Flags, Track, Base,
              HeldInv, CodecFlags, Part, Decoder, Filters
<1>5. TerminalInv' BY DEF LifeTypeOK, FlagsInv, At, Flags, Base, TerminalInv
<1>. QED BY <1>1, <1>2, <1>3, <1>4, <1>5

LEMMA SwitchKeeps == ASSUME LifeInv, NEW k \in KINDS, Switch(k) PROVE LifeInv'
<1> USE Names, FilesAssumption DEF LifeInv, SwitchFlags, parts, term, streams, signals, bounds,
    closing, mode, 
   Places, Running, Between, AudioChain, VideoChain, Loop
<1>0. PICK track \in 0..tracks[k] :
       /\ ds' = [ds EXCEPT ![k] = [id |-> track, sh |-> track # 0]]
       /\ mask' = IF track # 0 /\ (track = ds[k].id \/ ds[k].id = 0) THEN {} ELSE SwitchFlags(k, track = 0) \cap initialized_flags
       /\ pc = "commands" /\ pc' = "uninit" /\ ret' = "play"
       /\ then' = IF track # 0 /\ track # ds[k].id THEN SwitchedTo[k] ELSE "play"
       /\ UNCHANGED <<fixed_vo, initialized_flags, held, lost, raw, getch2_status, sh, tracks>>
  BY DEF Switch
<1>1. LifeTypeOK' BY <1>0 DEF LifeTypeOK
<1>2. FlagsInv(At, Flags, ret)' BY <1>0 DEF LifeTypeOK, FlagsInv, TracksInv, Settled, At, Flags,
    Track, Base
<1>3. TracksInv(At, Flags, Track, ret)'
  <2>1. /\ At = "commands" /\ Flags = initialized_flags /\ Track = [x \in KINDS |-> sh[x]]
        /\ At' = then' /\ Flags' = initialized_flags \ mask'
        /\ \A x \in KINDS : Track'[x] = IF Codec[x] \in mask' THEN 0 ELSE sh[x]
    BY <1>0 DEF At, Flags, Track
  <2>2. /\ ds'[k] = [id |-> track, sh |-> track # 0]
        /\ \A x \in KINDS \ {k} : ds'[x] = ds[x] /\ Track'[x] = sh[x] /\ (Codec[x] \in Flags' <=> Codec[x] \in Flags)
             /\ (Out[x] \in Flags' <=> Out[x] \in Flags)
    BY <1>0, <2>1 DEF LifeTypeOK, Out
  <2>3. /\ ds[k].id # 0 => /\ Codec[k] \in Flags' => track # 0 /\ track = ds[k].id
                           /\ Codec[k] \notin Flags' => Track'[k] = 0
    BY <1>0, <2>1 DEF LifeTypeOK, FlagsInv, TracksInv, Settled
  <2>4. ds[k].id = 0 => sh[k] = 0 /\ Codec[k] \notin Flags /\ Track'[k] = 0
    BY <1>0, <2>1 DEF LifeTypeOK, FlagsInv, TracksInv, Settled
  <2>5. ret' = "play" /\ fixed_vo' = fixed_vo /\ At' \in {"play", SwitchedTo[k]}
        /\ (At' = SwitchedTo[k] => track # 0 /\ track # ds[k].id)
    BY <1>0, <2>1
  <2>6. /\ \A x \in KINDS : Settled(x, At', ret') /\ Settled(x, At, ret)
        /\ At \in Running
    BY <2>1, <2>5 DEF Settled
  <2>7. /\ Codec[k] \in Flags' => /\ Codec[k] \in Flags /\ Track'[k] = sh[k]
                                  /\ Out[k] \in Flags => track # 0 /\ Out[k] \in Flags' 
        /\ Track'[k] # 0 => Codec[k] \in Flags'
     BY <1>0, <2>1, <2>3, <2>4, <2>6 DEF LifeTypeOK, FlagsInv, TracksInv, Settled, Out
  <2>8. Track'["video"] = 0 /\ ~fixed_vo => "VO" \notin Flags'
     BY <1>0, <2>1, <2>2, <2>3, <2>4, <2>5, <2>6 DEF LifeTypeOK, FlagsInv, TracksInv, Settled, Out
  <2>9. \A x \in KINDS :
       /\ IF Codec[x] \in Flags' THEN Track'[x] # 0 ELSE TRUE
       /\ Track'[x] # 0 => Codec[x] \in Flags'
       /\ Track'[x] # 0 => Out[x] \in Flags'
       /\ ds'[x].sh => ds'[x].id # 0
       /\ ds'[x].id = 0 => Track'[x] = 0
     <3>1. TAKE x \in KINDS
     <3>2. CASE x = k BY <3>2, <2>1, <2>2, <2>3, <2>4, <2>6, <2>7, <1>0 DEF TracksInv, LifeTypeOK,
         Out
     <3>3. CASE x # k BY <3>3, <2>1, <2>2, <2>6 DEF TracksInv, LifeTypeOK
     <3>. QED BY <3>2, <3>3
  <2>10. \A x \in KINDS : At' = SwitchedTo[x] => Track'[x] = 0 /\ ds'[x].id # 0
    BY <2>2, <2>3, <2>4, <2>5
  <2>. QED BY <2>5, <2>8, <2>9, <2>10 DEF TracksInv
<1>4. HeldInv' BY <1>0 DEF LifeTypeOK, FlagsInv, TracksInv, Settled, At, Flags, Track, Base,
    HeldInv, CodecFlags, Part, Decoder, Filters
<1>5. TerminalInv' BY <1>0 DEF LifeTypeOK, FlagsInv, At, Flags, Base, TerminalInv
<1>. QED BY <1>1, <1>2, <1>3, <1>4, <1>5

LEMMA SwitchedKeeps == ASSUME LifeInv, NEW k \in KINDS, Switched(k) PROVE LifeInv'
<1> USE Names, FilesAssumption DEF LifeInv, Switched, parts, term, streams, signals, bounds,
    closing, mode, 
   Places, Running, Between, AudioChain, VideoChain, Loop
<1>1. LifeTypeOK' BY DEF LifeTypeOK
<1>2. FlagsInv(At, Flags, ret)' BY DEF LifeTypeOK, FlagsInv, TracksInv, Settled, At, Flags, Track,
    Base
<1>3. TracksInv(At, Flags, Track, ret)' BY DEF LifeTypeOK, FlagsInv, TracksInv, Settled, At, Flags,
    Track, Base
<1>4. HeldInv' BY DEF LifeTypeOK, FlagsInv, TracksInv, Settled, At, Flags, Track, Base, HeldInv,
    CodecFlags, Part, Decoder, Filters
<1>5. TerminalInv' BY DEF LifeTypeOK, FlagsInv, At, Flags, Base, TerminalInv
<1>. QED BY <1>1, <1>2, <1>3, <1>4, <1>5

LEMMA NextFileKeeps == LifeInv /\ NextFile => LifeInv'
<1> SUFFICES ASSUME LifeInv, NextFile PROVE LifeInv'
  OBVIOUS
<1> USE Names, FilesAssumption DEF LifeInv, NextFile, Uninit, Exit, parts, term, streams, mode,
      Places, Running, Between, AudioChain, VideoChain, Loop
<1>1. LifeTypeOK' BY DEF LifeTypeOK
<1>2. FlagsInv(At, Flags, ret)' BY DEF LifeTypeOK, FlagsInv, TracksInv, Settled, At, Flags, Track,
    Base
<1>3. TracksInv(At, Flags, Track, ret)' BY DEF LifeTypeOK, FlagsInv, TracksInv, Settled, At, Flags,
    Track, Base
<1>4. HeldInv' BY DEF LifeTypeOK, FlagsInv, TracksInv, Settled, At, Flags, Track, Base,
              HeldInv, CodecFlags, Part, Decoder, Filters
<1>5. TerminalInv' BY DEF LifeTypeOK, FlagsInv, At, Flags, Base, TerminalInv
<1>. QED BY <1>1, <1>2, <1>3, <1>4, <1>5

-----------------------------------------------------------------------------
(* A signal *)

LEMMA SignalKeeps == LifeInv /\ Signal => LifeInv'
<1> SUFFICES ASSUME LifeInv, Signal PROVE LifeInv'
  OBVIOUS
<1> USE Names, FilesAssumption DEF LifeInv, Ended, parts, streams, bounds, closing, mode,
      Places, Running, Between, AudioChain, VideoChain, Loop
<1>1. LifeTypeOK'
  <2>1. raw' \in BOOLEAN /\ getch2_status' \in BOOLEAN BY DEF LifeTypeOK, Signal, term, Disabled
  <2>2. pc' \in {pc, "killed", "killed_enabling"} BY DEF Signal, Killed
  <2>. QED BY <2>1, <2>2 DEF LifeTypeOK, Signal
<1>2. FlagsInv(At, Flags, ret)' BY DEF Signal, Killed, LifeTypeOK, FlagsInv, TracksInv, Settled,
    At, Flags, Track, Base,
              HeldInv, CodecFlags, Part, Decoder, Filters
<1>3. TracksInv(At, Flags, Track, ret)' BY DEF Signal, Killed, LifeTypeOK, FlagsInv, TracksInv,
    Settled, At, Flags, Track, Base
<1>4. HeldInv' BY DEF Signal, Killed, LifeTypeOK, FlagsInv, TracksInv, Settled, At, Flags, Track,
    Base,
              HeldInv, CodecFlags, Part, Decoder, Filters
<1>5. TerminalInv' BY DEF Signal, Killed, term, Disabled, LifeTypeOK, TerminalInv
<1>. QED BY <1>1, <1>2, <1>3, <1>4, <1>5

-----------------------------------------------------------------------------
LEMMA InitLife == Init => LifeInv
<1> SUFFICES ASSUME Init PROVE LifeInv
  OBVIOUS
<1> USE Names DEF Init, LifeInv, NoTrack, Places, Running, Between, AudioChain, VideoChain, Loop
<1>1. LifeTypeOK BY DEF LifeTypeOK
<1>2. At = "file" /\ Flags = {"INPUT"} /\ Track = [k \in KINDS |-> 0] BY DEF At, Flags, Track
<1>3. FlagsInv(At, Flags, ret) BY <1>2 DEF FlagsInv, Base
<1>4. TracksInv(At, Flags, Track, ret) BY <1>2 DEF TracksInv, Settled
<1>5. HeldInv BY <1>2 DEF HeldInv, CodecFlags, Part
<1>6. TerminalInv BY DEF TerminalInv
<1>. QED BY <1>1, <1>3, <1>4, <1>5, <1>6

LEMMA StutterKeeps == LifeInv /\ UNCHANGED vars => LifeInv'
<1> SUFFICES ASSUME LifeInv, UNCHANGED vars PROVE LifeInv'
  OBVIOUS
<1> USE DEF LifeInv, vars, closing, mode, parts, term, streams
<1>1. LifeTypeOK' BY DEF LifeTypeOK
<1>2. At' = At /\ Flags' = Flags /\ Track' = Track /\ ret' = ret BY DEF At, Flags, Track
<1>3. FlagsInv(At, Flags, ret)' BY <1>2 DEF FlagsInv, Base
<1>4. TracksInv(At, Flags, Track, ret)' BY <1>2 DEF TracksInv, Settled
<1>5. HeldInv' BY <1>2 DEF HeldInv
<1>6. TerminalInv' BY DEF TerminalInv
<1>. QED BY <1>1, <1>3, <1>4, <1>5, <1>6

\* The invariant holds of every run of the player (uninit_player, reinit_*_chain, the main loop).
THEOREM LifeInvariant == Spec => []LifeInv
<1>1. LifeInv /\ [Next]_vars => LifeInv'
  BY StutterKeeps, UninitKeeps, UninitDoneKeeps, EnableKeysKeeps, KeysEnabledKeeps, NextNameKeeps,
     IdleKeeps, OpenStreamKeeps, OpenDemuxerKeeps, SelectedKeeps, BeginKeeps, AudioCodecKeeps,
     AudioOutKeeps, AudioFiltersKeeps, AudioErrorKeeps, AudioGivenUpKeeps, VideoOutKeeps,
     VideoCodecKeeps, VideoErrorKeeps, VideoGivenUpKeeps, PlayAudioKeeps, PlayVideoKeeps, PlayKeeps,
     CommandKeeps, RefilterKeeps, SwitchKeeps, SwitchedKeeps, NextFileKeeps, SignalKeeps
     DEF Next, Player
<1>. QED BY <1>1, InitLife, PTL DEF Spec

\* In the main loop of main() what has a pointer to its track has its decoder, its filters and its
\* output, and nothing is open for another track, whatever was switched, failed or reopened.
THEOREM PlayingIsOpen == Spec => []TracksUsable
<1>1. LifeInv => TracksUsable
  <2> SUFFICES ASSUME LifeInv, Playing, NEW k \in KINDS
               PROVE  /\ {p \in held : p.kind = k}
                           = IF sh[k] = 0 THEN {} ELSE {Decoder(k, sh[k]), Filters(k, sh[k])}
                      /\ sh[k] # 0 => Part(Out[k]) \in held
    BY DEF TracksUsable
  <2>1. At \in {"body", "commands"} /\ Flags = initialized_flags /\ Track[k] = sh[k]
    BY DEF Playing, At, Flags, Track
  <2>2. Codec[k] \in initialized_flags <=> sh[k] # 0
    BY <2>1, Names DEF LifeInv, TracksInv, Settled, Running, AudioChain, VideoChain, Loop
  <2>3. sh[k] # 0 => Part(Out[k]) \in held
    BY <2>1, Names DEF LifeInv, TracksInv, Settled, HeldInv, CodecFlags, Running, AudioChain,
        VideoChain, Loop
  <2>4. sh[k] # 0 => Decoder(k, sh[k]) \in held /\ Filters(k, sh[k]) \in held
    BY <2>1, <2>2 DEF LifeInv, HeldInv, Running, AudioChain, VideoChain, Loop
  <2>5. \A p \in held : p.kind = k => sh[k] # 0 /\ p \in {Decoder(k, sh[k]), Filters(k, sh[k])}
    BY <2>2, Names DEF LifeInv, HeldInv
  <2>. QED BY <2>3, <2>4, <2>5 DEF Decoder, Filters
<1>. QED BY <1>1, LifeInvariant, PTL

\* uninit_player closes what stands on the demuxer before it, and the demuxer before the stream.
THEOREM ClosingOrder == Spec => []ClosedInOrder
<1>1. LifeInv => ClosedInOrder
  <2> SUFFICES ASSUME LifeInv PROVE ClosedInOrder
    OBVIOUS
  <2>1. Part("DEMUXER") \in held <=> "DEMUXER" \in initialized_flags
    BY Names DEF LifeInv, HeldInv, CodecFlags, Part
  <2>2. "STREAM" \in initialized_flags => Part("STREAM") \in held
    BY Names DEF LifeInv, HeldInv, CodecFlags
  <2>3. \A p \in held : p.kind \in KINDS => "DEMUXER" \in initialized_flags
    BY Names DEF LifeInv, HeldInv
  <2>. QED BY <2>1, <2>2, <2>3 DEF ClosedInOrder, LifeInv, HeldInv
<1>. QED BY <1>1, LifeInvariant, PTL

\* Nothing is opened over itself, and what uninit_player leaves at the end of a file (goto_next_file)
\* and of the program (exit_player) is what was to stay.
THEOREM AllIsClosed == Spec => []NothingLeft
<1>1. LifeInv => NothingLeft
  <2> SUFFICES ASSUME LifeInv PROVE NothingLeft
    OBVIOUS
  <2> USE Names DEF LifeInv, HeldInv
  <2>1. ASSUME pc = "open", NEW p \in held
        PROVE  p \in {Part("INPUT"), Part("GETCH2")} \cup (IF fixed_vo THEN {Part("VO")} ELSE {})
    <3>1. initialized_flags \subseteq Base BY <2>1 DEF FlagsInv, At, Flags, Between
    <3>. QED BY <2>1, <3>1 DEF Base, Part
  <2>2. pc = "exited" => held = {}
    <3>1. pc = "exited" => initialized_flags = {} BY DEF FlagsInv, At, Flags
    <3>. QED BY <3>1
  <2>3. pc \in {"open", "idle"} => sh = [k \in KINDS |-> 0]
    BY DEF TracksInv, At, Track, Between, LifeTypeOK
  <2>. QED BY <2>1, <2>2, <2>3 DEF NothingLeft
<1>. QED BY <1>1, LifeInvariant, PTL

\* However the player ends (exit_player, exit_sighandler, getch2_disable) the terminal is restored,
\* but for a signal that kills while getch2_enable has not yet noted what it did.
THEOREM TerminalIsRestored == Spec => []TerminalRestored
<1>1. LifeInv => TerminalRestored
  <2> SUFFICES ASSUME LifeInv PROVE TerminalRestored
    OBVIOUS
  <2>1. pc = "exited" => initialized_flags = {} BY DEF LifeInv, FlagsInv, At, Flags
  <2>. QED BY <2>1 DEF LifeInv, LifeTypeOK, TerminalInv, TerminalRestored
<1>. QED BY <1>1, LifeInvariant, PTL
=============================================================================
