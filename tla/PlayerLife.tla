----------------------------- MODULE PlayerLife -----------------------------
(***************************************************************************)
(* What the player opens and closes (mplayer.c): the terminal, the stream, *)
(* the demuxer, and for sound and picture a decoder, its filters and an    *)
(* output each.  initialized_flags says which parts uninit_player has to   *)
(* close; what is really open is kept beside it.  Everything may fail to   *)
(* open, tracks are switched while a file plays, outputs are reopened for  *)
(* another format, and signals come at any time.                           *)
(***************************************************************************)
EXTENDS Integers, Sequences, FiniteSets

CONSTANTS
  Files,       \* what files hold: the number of tracks of either kind
  MaxFiles,    \* files played, one after the other
  MaxMoves,    \* commands that switch tracks, change filters or formats, in all
  MaxFails,    \* parts that fail to open, in all
  MaxSignals

KINDS == {"audio", "video"}
ASSUME FilesAssumption == Files \subseteq [KINDS -> Nat]
Codec == [audio |-> "ACODEC", video |-> "VCODEC"]
Out == [audio |-> "AO", video |-> "VO"]
Decoder(k, track) == [part |-> "decoder", kind |-> k, track |-> track]
Filters(k, track) == [part |-> "filters", kind |-> k, track |-> track]
Part(name) == [part |-> name, kind |-> "none", track |-> 0]
\* The order in which uninit_player closes
\* Seeded error: the demuxer goes first.
OrderDemuxer == <<"DEMUXER", "ACODEC", "VCODEC", "STREAM", "AO", "VO", "GETCH2", "SUBS", "INPUT">>
Order == <<"ACODEC", "VCODEC", "DEMUXER", "STREAM", "AO", "VO", "GETCH2", "SUBS", "INPUT">>
ALL == {Order[i] : i \in DOMAIN Order}

VARIABLES
  pc, ret,           \* where the player is, and where a chain is set up from
  mask, then,        \* uninit_player: what it still closes, and what comes after it
  fixed_vo, player_idle_mode,
  initialized_flags,
  held, lost,        \* parts that are open, and those opened a second time while they were
  raw, getch2_status, \* the terminal is in raw mode, and the player's note of it
  tracks, files,     \* of the file, and files played
  sh,                \* mpctx->sh_audio and sh_video: tracks, 0 for NULL
  ds,                \* d_audio and d_video: the track selected, and whether sh is there
  failed, again,     \* reinit_video_chain failed since the track was selected, and was called again
  sig_count, async_quit_request,
  moves, fails
parts == <<held, lost>>
term == <<raw, getch2_status>>
streams == <<tracks, sh, ds, failed, again>>
signals == <<sig_count, async_quit_request>>
bounds == <<moves, fails>>
closing == <<mask, then>>
mode == <<fixed_vo, player_idle_mode>>
vars == <<pc, ret, closing, mode, initialized_flags, parts, term, files, streams, signals, bounds>>

NoTrack == [id |-> 0, sh |-> FALSE]

\* Signal handlers are installed once the input is there.
Init ==
  /\ pc = "file" /\ ret = "play" /\ mask = {} /\ then = "file"
  /\ fixed_vo \in BOOLEAN /\ player_idle_mode \in BOOLEAN
  /\ initialized_flags = {"INPUT"} /\ held = {Part("INPUT")} /\ lost = {}
  /\ raw = FALSE /\ getch2_status = FALSE
  /\ tracks = [k \in KINDS |-> 0] /\ files = 0
  /\ sh = [k \in KINDS |-> 0] /\ ds = [k \in KINDS |-> NoTrack]
  /\ failed = FALSE /\ again = FALSE
  /\ sig_count = 0 /\ async_quit_request = FALSE /\ moves = 0 /\ fails = 0

-----------------------------------------------------------------------------
(* Opening and closing.                                                    *)

Opened(new) == /\ held' = held \cup new
               /\ lost' = lost \cup (held \cap new)
Flag(name) == initialized_flags' = initialized_flags \cup {name}
Fail == fails < MaxFails /\ fails' = fails + 1
Fine == fails' = fails
\* mp_input_get_cmd: a quit asked for by a signal comes before any command
\* Seeded error: it waits for its turn.
NoQuitInTurn == TRUE
NoQuit == ~async_quit_request

\* uninit_player(names), then go on at next
Uninit(names, next) ==
  pc' = "uninit" /\ mask' = names \cap initialized_flags /\ then' = next

\* The kind whose decoder flag name is
KindOf(name) == CHOOSE k \in KINDS : Codec[k] = name
\* What is closed for a flag: a decoder only through the pointer to its track
Closes(name) ==
  IF name \in {"ACODEC", "VCODEC"}
  THEN {Decoder(KindOf(name), sh[KindOf(name)]), Filters(KindOf(name), sh[KindOf(name)])}
  ELSE {Part(name)}
IsFirst(name, names) ==
  \E i \in DOMAIN Order : /\ Order[i] = name
                          /\ \A j \in 1..i - 1 : Order[j] \notin names
UninitNext ==
  /\ pc = "uninit"
  /\ \E name \in mask :
     /\ IsFirst(name, mask)
     /\ mask' = mask \ {name} /\ initialized_flags' = initialized_flags \ {name}
     /\ held' = held \ Closes(name)
     /\ sh' = [k \in KINDS |-> IF name = Codec[k] THEN 0 ELSE sh[k]]
     /\ IF name = "GETCH2" /\ getch2_status
        THEN raw' = FALSE /\ getch2_status' = FALSE ELSE UNCHANGED term
  /\ UNCHANGED <<pc, ret, then, mode, lost, tracks, ds, failed, again, files, signals, bounds>>
UninitDone ==
  /\ pc = "uninit" /\ mask = {} /\ pc' = then
  /\ UNCHANGED <<ret, closing, mode, initialized_flags, parts, term, files, streams, signals, bounds>>

Exit == Uninit(ALL, "exited")

-----------------------------------------------------------------------------
(* A file is opened.                                                       *)

\* play_next_file: the terminal is prepared for keys.  A signal may come before that is noted.
EnableKeys ==
  /\ pc = "file"
  /\ IF "GETCH2" \in initialized_flags THEN raw' = raw /\ pc' = "enabled"
     ELSE raw' = TRUE /\ pc' = "enabling"
  /\ UNCHANGED <<ret, closing, mode, initialized_flags, parts, getch2_status, files, streams, signals, bounds>>
KeysEnabled ==
  /\ pc = "enabling" /\ pc' = "enabled" /\ getch2_status' = TRUE /\ Flag("GETCH2")
  /\ Opened({Part("GETCH2")})
  /\ UNCHANGED <<ret, closing, mode, raw, files, streams, signals, bounds>>
NextName ==
  /\ pc = "enabled" /\ pc' = IF files < MaxFiles THEN "open" ELSE "idle"
  /\ UNCHANGED <<ret, closing, mode, initialized_flags, parts, term, files, streams, signals, bounds>>
\* The idle loop: another file, or a quit
Idle ==
  /\ pc = "idle"
  /\ \/ NoQuit /\ files < MaxFiles /\ pc' = "open" /\ UNCHANGED closing
     \/ Exit
  /\ UNCHANGED <<ret, mode, initialized_flags, parts, term, files, streams, signals, bounds>>

OpenStream ==
  /\ pc = "open" /\ files' = files + 1
  /\ sh' = [k \in KINDS |-> 0] /\ ds' = [k \in KINDS |-> NoTrack]
  /\ \/ /\ Fail /\ UNCHANGED <<initialized_flags, parts>>
        /\ \/ pc' = "next" /\ UNCHANGED closing
           \/ async_quit_request /\ Exit               \* libmpdemux_was_interrupted
     \/ /\ Fine /\ Flag("STREAM") /\ Opened({Part("STREAM")}) /\ UNCHANGED closing
        /\ pc' \in {"demux", "next"}                   \* a playlist is read and done with
  /\ UNCHANGED <<ret, mode, term, tracks, failed, again, signals, moves>>

\* The cache may be interrupted; demux_open; select_video and select_audio, which may be told to
\* leave a kind out
OpenDemuxer ==
  /\ pc = "demux"
  /\ \/ /\ Fail /\ UNCHANGED <<initialized_flags, parts, streams>>
        /\ \/ pc' = "next" /\ UNCHANGED closing
           \/ async_quit_request /\ Exit
     \/ /\ Fine /\ Flag("DEMUXER") /\ Opened({Part("DEMUXER")}) /\ UNCHANGED closing
        /\ tracks' \in Files
        /\ sh' \in {s \in [KINDS -> 0..1] : \A k \in KINDS : s[k] <= tracks'[k]}
        /\ ds' = [k \in KINDS |-> [id |-> sh'[k], sh |-> sh'[k] # 0]]
        /\ failed' = FALSE /\ again' = again
        /\ pc' = IF sh'["video"] # 0 THEN "video_out" ELSE "selected"
  /\ ret' = "selected"
  /\ UNCHANGED <<mode, term, files, signals, moves>>

\* Without a track the next file; then the subtitles, and the sound
Selected ==
  /\ pc = "selected"
  /\ IF sh = [k \in KINDS |-> 0] THEN pc' = "next" /\ UNCHANGED <<ret, initialized_flags, parts>>
     ELSE /\ Flag("SUBS") /\ Opened({Part("SUBS")}) /\ ret' = "begin"
          /\ pc' = IF sh["audio"] # 0 THEN "audio_codec" ELSE "begin"
  /\ UNCHANGED <<closing, mode, term, files, streams, signals, bounds>>
Begin ==
  /\ pc = "begin" /\ pc' = IF sh = [k \in KINDS |-> 0] THEN "next" ELSE "play"
  /\ UNCHANGED <<ret, closing, mode, initialized_flags, parts, term, files, streams, signals, bounds>>

-----------------------------------------------------------------------------
(* reinit_audio_chain, from the decoder on, and back to ret.               *)

AudioCodec ==
  /\ pc = "audio_codec"
  /\ \/ /\ "ACODEC" \in initialized_flags /\ Fine
        /\ pc' = "audio_out" /\ UNCHANGED <<initialized_flags, parts>>
     \/ /\ "ACODEC" \notin initialized_flags /\ Fine /\ Flag("ACODEC")
        /\ Opened({Decoder("audio", sh["audio"])}) /\ pc' = "audio_out"
     \/ /\ "ACODEC" \notin initialized_flags /\ Fail
        /\ pc' = "audio_error" /\ UNCHANGED <<initialized_flags, parts>>
  /\ UNCHANGED <<ret, closing, mode, term, files, streams, signals, moves>>
\* The filters are tried without a device first, which must not fail; then the device is opened.
AudioOut ==
  /\ pc = "audio_out"
  /\ \/ /\ "AO" \in initialized_flags /\ Fine /\ pc' = "audio_filters"
        /\ UNCHANGED <<closing, initialized_flags, parts>>
     \/ /\ "AO" \notin initialized_flags /\ UNCHANGED lost
        /\ \/ Fail /\ Exit /\ UNCHANGED <<initialized_flags, held>>
           \/ /\ Fail /\ pc' = "audio_error" /\ UNCHANGED <<closing, initialized_flags>>
              /\ held' = held \cup {Filters("audio", sh["audio"])}
     \/ /\ "AO" \notin initialized_flags /\ Fine /\ Flag("AO") /\ pc' = "audio_filters"
        /\ held' = held \cup {Filters("audio", sh["audio"]), Part("AO")}
        /\ lost' = lost \cup (held \cap {Part("AO")}) /\ UNCHANGED closing
  /\ UNCHANGED <<ret, mode, term, files, streams, signals, moves>>
AudioFilters ==
  /\ pc = "audio_filters"
  /\ \/ Fine /\ pc' = ret /\ held' = held \cup {Filters("audio", sh["audio"])}
     \/ Fail /\ pc' = "audio_error" /\ held' = held
  /\ UNCHANGED <<ret, closing, mode, initialized_flags, lost, term, files, streams, signals, moves>>
\* Seeded error: only the device is closed.
AudioErrorFlagsOut == {"AO"}
AudioErrorFlags == {"ACODEC", "AO"}
AudioError ==
  /\ pc = "audio_error" /\ Uninit(AudioErrorFlags, "audio_given_up")
  /\ UNCHANGED <<ret, mode, initialized_flags, parts, term, files, streams, signals, bounds>>
AudioGivenUp ==
  /\ pc = "audio_given_up" /\ pc' = ret
  /\ sh' = [sh EXCEPT !["audio"] = 0] /\ ds' = [ds EXCEPT !["audio"] = NoTrack]
  /\ UNCHANGED <<ret, closing, mode, initialized_flags, parts, term, files, tracks, failed, again,
                 signals, bounds>>

-----------------------------------------------------------------------------
(* reinit_video_chain.                                                     *)

Kept == fixed_vo /\ "VO" \in initialized_flags
VideoOut ==
  /\ pc = "video_out" /\ again' = (again \/ failed)
  /\ \/ /\ Kept /\ Fine
        /\ pc' = "video_codec" /\ UNCHANGED <<initialized_flags, parts>>
     \/ /\ ~Kept /\ Fine /\ Flag("VO")
        /\ Opened({Part("VO")}) /\ pc' = "video_codec"
     \/ /\ ~Kept /\ Fail
        /\ pc' = "video_error" /\ UNCHANGED <<initialized_flags, parts>>
  /\ UNCHANGED <<ret, closing, mode, term, files, tracks, sh, ds, failed, signals, moves>>
\* The filters, and the decoder; without one the display is closed first
VideoCodec ==
  /\ pc = "video_codec" /\ Flag("VCODEC") /\ lost' = lost \cup (held \cap {Decoder("video", sh["video"])})
  /\ \/ /\ Fine /\ pc' = ret /\ UNCHANGED closing
        /\ held' = held \cup {Filters("video", sh["video"]), Decoder("video", sh["video"])}
     \/ /\ Fail /\ held' = held \cup {Filters("video", sh["video"])}
        /\ pc' = "uninit" /\ then' = "video_error"
        /\ mask' = IF fixed_vo THEN {} ELSE {"VO"} \cap initialized_flags
  /\ UNCHANGED <<ret, mode, term, files, streams, signals, moves>>
VideoError ==
  /\ pc = "video_error" /\ Uninit({"VCODEC"}, "video_given_up")
  /\ UNCHANGED <<ret, mode, initialized_flags, parts, term, files, streams, signals, bounds>>
VideoGivenUp ==
  /\ pc = "video_given_up" /\ pc' = ret
  /\ sh' = [sh EXCEPT !["video"] = 0] /\ failed' = TRUE
  /\ UNCHANGED <<ret, closing, mode, initialized_flags, parts, term, files, tracks, ds, again,
                 signals, bounds>>

-----------------------------------------------------------------------------
(* The main loop.                                                          *)

\* A track whose pointer is missing is tried again, whatever made it missing.
Missing(k) == sh[k] = 0 /\ ds[k].sh
PlayAudio ==
  /\ pc = "play" /\ ret' = "play_video"
  /\ IF Missing("audio") THEN sh' = [sh EXCEPT !["audio"] = ds["audio"].id] /\ pc' = "audio_codec"
     ELSE sh' = sh /\ pc' = "play_video"
  /\ UNCHANGED <<closing, mode, initialized_flags, parts, term, files, tracks, ds, failed, again,
                 signals, bounds>>
PlayVideo ==
  /\ pc = "play_video" /\ ret' = "body"
  /\ IF Missing("video") THEN sh' = [sh EXCEPT !["video"] = ds["video"].id] /\ pc' = "video_out"
     ELSE sh' = sh /\ pc' = "body"
  /\ UNCHANGED <<closing, mode, initialized_flags, parts, term, files, tracks, ds, failed, again,
                 signals, bounds>>
\* Playing: the file may end, the filters of the picture fail, or the sound change its format
Play ==
  /\ pc = "body"
  /\ \/ pc' \in {"commands", "next"} /\ UNCHANGED <<ret, closing, moves>>
     \/ /\ sh["audio"] # 0 /\ moves < MaxMoves /\ moves' = moves + 1
        /\ Uninit({"AO"}, "audio_codec") /\ ret' = "commands"
  /\ UNCHANGED <<mode, initialized_flags, parts, term, files, streams, signals, fails>>

\* Commands.  A quit is taken first; anything may end the file.
Command ==
  /\ pc = "commands" /\ ret' = ret
  /\ \/ Exit
     \/ NoQuit /\ pc' \in {"play", "next"} /\ UNCHANGED closing
  /\ UNCHANGED <<mode, initialized_flags, parts, term, files, streams, signals, bounds>>
\* The speed and the filters
Refilter ==
  /\ pc = "commands" /\ NoQuit /\ sh["audio"] # 0 /\ moves < MaxMoves /\ moves' = moves + 1
  /\ pc' = "audio_codec" /\ ret' = "play"
  /\ UNCHANGED <<closing, mode, initialized_flags, parts, term, files, streams, signals, fails>>

\* What is closed for another track of kind k
\* Seeded error: the decoder of the track before stays.
SwitchFlagsOut(k, off) == {Out[k]}
SwitchFlags(k, off) == IF k = "video" /\ fixed_vo /\ ~off THEN {Codec[k]} ELSE {Codec[k], Out[k]}
SwitchedTo == [audio |-> "switched_audio", video |-> "switched_video"]
\* mp_property_audio and mp_property_video, with demuxer_switch_*: track 0 turns it off
Switch(k) ==
  /\ pc = "commands" /\ NoQuit /\ moves < MaxMoves /\ moves' = moves + 1
  /\ \E track \in 0..tracks[k] :
     LET untouched == track # 0 /\ (track = ds[k].id \/ ds[k].id = 0) IN
     /\ ds' = [ds EXCEPT ![k] = [id |-> track, sh |-> track # 0]]
     /\ failed' = (failed /\ (k = "audio" \/ track = ds[k].id))
     /\ IF untouched THEN mask' = {} ELSE mask' = SwitchFlags(k, track = 0) \cap initialized_flags
     /\ pc' = "uninit" /\ ret' = "play"
     /\ then' = IF track # 0 /\ track # ds[k].id THEN SwitchedTo[k] ELSE "play"
  /\ UNCHANGED <<mode, initialized_flags, parts, term, files, tracks, sh, again, signals, fails>>
Switched(k) ==
  /\ pc = SwitchedTo[k] /\ sh' = [sh EXCEPT ![k] = ds[k].id]
  /\ pc' = IF k = "audio" THEN "audio_codec" ELSE "video_out"
  /\ UNCHANGED <<ret, closing, mode, initialized_flags, parts, term, files, tracks, ds, failed, again,
                 signals, bounds>>

\* goto_next_file
NextFile ==
  /\ pc = "next"
  /\ \/ /\ files < MaxFiles \/ player_idle_mode
        /\ Uninit(ALL \ ({"INPUT"} \cup (IF fixed_vo THEN {"VO"} ELSE {})), "file")
     \/ ~player_idle_mode /\ Exit
  /\ UNCHANGED <<ret, mode, initialized_flags, parts, term, files, streams, signals, bounds>>

-----------------------------------------------------------------------------
(* exit_sighandler.                                                        *)

Ended == pc \in {"exited", "killed", "killed_enabling"}
\* Seeded error: the handler leaves the terminal to uninit_player.
DisabledNever == UNCHANGED term
Disabled == IF getch2_status THEN raw' = FALSE /\ getch2_status' = FALSE ELSE UNCHANGED term
Killed == pc' = IF pc = "enabling" THEN "killed_enabling" ELSE "killed"
Signal ==
  /\ ~Ended /\ sig_count < MaxSignals /\ sig_count' = sig_count + 1
  /\ \/ /\ sig_count = 0 /\ async_quit_request' = TRUE /\ UNCHANGED <<pc, term>>
     \/ /\ initialized_flags = {} /\ sig_count > 0 /\ Killed /\ UNCHANGED <<term, async_quit_request>>
     \/ /\ initialized_flags # {} \/ sig_count = 0   \* a fatal signal, or a second one
        /\ Disabled /\ Killed /\ UNCHANGED async_quit_request
  /\ UNCHANGED <<ret, closing, mode, initialized_flags, parts, files, streams, bounds>>

Player == \/ UninitNext \/ UninitDone
          \/ EnableKeys \/ KeysEnabled \/ NextName \/ Idle
          \/ OpenStream \/ OpenDemuxer \/ Selected \/ Begin
          \/ AudioCodec \/ AudioOut \/ AudioFilters \/ AudioError \/ AudioGivenUp
          \/ VideoOut \/ VideoCodec \/ VideoError \/ VideoGivenUp
          \/ PlayAudio \/ PlayVideo \/ Play \/ Command \/ Refilter
          \/ (\E k \in KINDS : Switch(k) \/ Switched(k)) \/ NextFile
Next == Player \/ Signal
Spec == Init /\ [][Next]_vars
\* The player's own steps go on; nothing it waits for is beyond it.
FairSpec == Spec /\ WF_vars(Player)

-----------------------------------------------------------------------------
(* Properties.                                                             *)

Playing == pc \in {"body", "commands"}
\* In the main loop a track that has its pointer can be played: its decoder, its filters and its
\* output are open, after any switch, failure or change of format, and no other track's are.
TracksUsable ==
  Playing =>
    \A k \in KINDS :
      LET mine == IF sh[k] = 0 THEN {} ELSE {Decoder(k, sh[k]), Filters(k, sh[k])} IN
      /\ {p \in held : p.kind = k} = mine
      /\ sh[k] # 0 => Part(Out[k]) \in held

\* What stands on something else is closed before it: decoders and filters, whose tracks belong to
\* the demuxer, before the demuxer, and that before the stream.
ClosedInOrder ==
  /\ (\E p \in held : p.kind \in KINDS) => Part("DEMUXER") \in held
  /\ Part("DEMUXER") \in held => Part("STREAM") \in held

\* Nothing is opened over itself, a file starts with nothing of the one before but the display
\* that was to stay and no pointer to a track, and a player that exits has closed all.
NothingLeft ==
  /\ lost = {}
  /\ pc = "open" => held \subseteq {Part("INPUT"), Part("GETCH2")} \cup (IF fixed_vo THEN {Part("VO")} ELSE {})
  /\ pc = "exited" => held = {}
  /\ pc \in {"open", "idle"} => sh = [k \in KINDS |-> 0]

\* However the player ends, it leaves the terminal as it was; only a signal that kills between
\* the change of the terminal and the note of it finds nothing to take back.
TerminalRestored == pc \in {"exited", "killed"} => ~raw

\* The first signal asks for a quit, and the player ends.
QuitEnds == async_quit_request ~> Ended

\* What the comment in reinit_video_chain says, "ensure we do not try to play video even if we
\* failed": a track that could not be set up is not set up again unless it is selected anew.
FailedVideoStays == ~again
=============================================================================
