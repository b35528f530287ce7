------------------------------ MODULE DemuxOpen ------------------------------
(* How a film is opened (src/libmpdemux/demuxer.c, demux_lavf.c,               *)
(* demux_demuxers.c, and select_audio of src/mpcommon.c): the demuxer that is  *)
(* chosen for each of its files, the tracks found in them, which of them are   *)
(* played, the programs of a transport stream, and seeks.                      *)
(*                                                                             *)
(* A file is its tracks, by their index from 0, whether libavformat knows it   *)
(* and can open it, its programs, and the times of its key frames.  Tracks of  *)
(* a kind have numbers of their own, those of -aid and -vid.  A language is a  *)
(* sequence of letters.                                                        *)
EXTENDS SequencesExt, Integers, FiniteSetsExt, TLC

CONSTANT MaxStreams  \* MAX_A_STREAMS and the others: tracks with a higher index are not played

AUTO == -1   \* the demuxer is to select the track
OFF == -2    \* no track
NoSh == -1   \* ds->sh is NULL
Index(file) == 0..Len(file.tracks) - 1
Track(file, i) == file.tracks[i + 1]

\* ---- the tracks of a file

\* a, v and s are the numbers of the tracks there are; audio, video and sub the streams, each with
\* the track it takes its packets from; discard the tracks libavformat need not read.
new_demuxer(ids) ==
  [a |-> <<>>, v |-> <<>>, s |-> <<>>, discard |-> {}, joined |-> FALSE,
   audio |-> [id |-> ids.audio, sh |-> NoSh], video |-> [id |-> ids.video, sh |-> NoSh], sub |-> [id |-> ids.sub, sh |-> NoSh]]

\* Seeded error: the index of the track is taken for its number.
AskedByIndex(stream, i, number, wanted) == IF i = wanted THEN [id |-> i, sh |-> i] ELSE stream
\* A track with the number the user asked for is taken, else, when the demuxer is to choose, the first.
Asked(stream, i, number, wanted) == IF number = wanted THEN [id |-> i, sh |-> i] ELSE stream
First(stream, i) == IF stream.id = AUTO THEN [id |-> i, sh |-> i] ELSE stream
Chosen(stream, i, number, wanted) == First(Asked(stream, i, number, wanted), i)

Number(numbers) == Cardinality(DOMAIN numbers)
Unread(d, stream, i) == IF stream.id # i THEN d.discard \cup {i} ELSE d.discard
handle_stream(d, opt, file, i) ==
  LET kind == Track(file, i).kind IN
  CASE i >= MaxStreams \/ kind = "attachment" -> d
    [] kind = "audio" ->
         LET ds == Chosen(d.audio, i, Number(d.a), opt.audio_id) IN
         [d EXCEPT !.a = @ @@ (i :> Number(d.a)), !.audio = ds, !.discard = Unread(d, ds, i)]
    [] kind = "video" ->
         LET ds == Chosen(d.video, i, Number(d.v), opt.video_id) IN
         [d EXCEPT !.v = @ @@ (i :> Number(d.v)), !.video = ds, !.discard = Unread(d, ds, i)]
    [] kind = "sub" -> [d EXCEPT !.s = @ @@ (i :> Number(d.s)), !.sub = Asked(@, i, Number(d.s), opt.sub_id)]
    [] OTHER -> [d EXCEPT !.discard = @ \cup {i}]
\* A file without tracks to play is none; what it has no tracks of is switched off.
NULL == <<>>
demux_open_lavf(file, opt, ids) ==
  LET d == FoldLeft(LAMBDA e, i : handle_stream(e, opt, file, i - 1), new_demuxer(ids), [i \in DOMAIN file.tracks |-> i])
      off == [d EXCEPT !.audio.id = IF d.a = <<>> THEN OFF ELSE @, !.video.id = IF d.v = <<>> THEN OFF ELSE @]
  IN IF ~file.opens \/ (d.a = <<>> /\ d.v = <<>> /\ d.s = <<>>) THEN NULL ELSE <<off>>

\* ---- the demuxer of a file: libavformat's is the only one.  A name that is none is not obeyed.
LAVF == "lavf"
get_demuxer_type_from_name(name) ==
  CASE name = "" -> [type |-> "unknown", force |-> FALSE]
    [] name \in {"lavf", "+lavf"} -> [type |-> LAVF, force |-> name = "+lavf"]
    [] OTHER -> [type |-> "not there", force |-> FALSE]
demux_open_stream(file, wanted, opt, ids) ==
  IF (wanted.type = LAVF /\ wanted.force) \/ file.known THEN demux_open_lavf(file, opt, ids) ELSE NULL

\* ---- the file, a file of sound and one of subtitles, each of which may be missing
alloc_joined(vd, ad, sd) ==
  [vd EXCEPT !.joined = TRUE, !.a = ad.a, !.audio = ad.audio, !.s = sd.s, !.sub = sd.sub]
\* What demux_open leaves: the demuxer, the streams it opened and those it freed again, and the tracks
\* of streams that are left to no one
Result(d, opened, freed) == [d |-> d, opened |-> opened, freed |-> freed, unread |-> {}]
LeftOver(vd, ad, sd) ==
  (IF ad = NULL THEN {} ELSE {vd[1].audio.id, ad[1].video.id, ad[1].sub.id})
  \cup IF sd = NULL THEN {} ELSE {vd[1].sub.id, sd[1].video.id, sd[1].audio.id}
Joined(vd, ad, sd, opened) ==
  LET freed == {x \in opened : (x = "as" /\ ad = NULL) \/ (x = "ss" /\ sd = NULL)} IN
  IF vd = NULL THEN Result(NULL, opened, opened)
  ELSE IF ad = NULL /\ sd = NULL THEN Result(vd, opened, freed)
  ELSE [Result(<<alloc_joined(vd[1], IF ad = NULL THEN vd[1] ELSE ad[1], IF sd = NULL THEN vd[1] ELSE sd[1])>>, opened, freed)
        EXCEPT !.unread = LeftOver(vd, ad, sd)]
demux_open(film, opt) ==
  LET as == opt.audio_stream = "there"
      ss == opt.sub_stream = "there"
  IN IF opt.audio_stream = "missing" THEN Result(NULL, {}, {})
     ELSE IF opt.sub_stream = "missing" THEN Result(NULL, IF as THEN {"as"} ELSE {}, {})
     ELSE Joined(demux_open_stream(film.main, get_demuxer_type_from_name(opt.demuxer), opt,
                                   [audio |-> IF as THEN OFF ELSE opt.audio_id, video |-> opt.video_id, sub |-> IF ss THEN OFF ELSE opt.sub_id]),
                 IF as THEN demux_open_stream(film.sound, get_demuxer_type_from_name(""), opt, [audio |-> opt.audio_id, video |-> OFF, sub |-> OFF]) ELSE NULL,
                 IF ss THEN demux_open_stream(film.subs, get_demuxer_type_from_name(""), opt, [audio |-> OFF, video |-> OFF, sub |-> opt.sub_id]) ELSE NULL,
                 {x \in {"as", "ss"} : IF x = "as" THEN as ELSE ss})
demux_close_demuxers(r) == [r EXCEPT !.freed = @ \cup IF r.d # NULL /\ r.d[1].joined THEN r.opened \ r.freed ELSE {}]

\* ---- switching and selecting: by number, the next one for AUTO, none for OFF
Numbered(numbers) == [n \in 1..Number(numbers) |-> CHOOSE i \in DOMAIN numbers : numbers[i] = n - 1]
Switched(d, ds, numbers, id) ==
  LET pstreams == Numbered(numbers)
      nstreams == Len(pstreams)
      curridx == IF ds.id \in Range(pstreams) THEN numbers[ds.id] ELSE -1
      i == CASE id = OFF -> -1
             [] id = AUTO -> ((curridx + 2) % (nstreams + 1)) - 1
             [] id \in 0..nstreams - 1 -> id
             [] OTHER -> IF curridx >= 0 THEN curridx ELSE nstreams
      newid == IF i >= 0 /\ (id = AUTO \/ id \in 0..nstreams - 1) THEN pstreams[i + 1] ELSE OFF
      old == IF ds.id \in 0..nstreams - 1 THEN {ds.id} ELSE {}
  IN IF d.joined \/ i = curridx THEN [id |-> ds.id, discard |-> d.discard]
     ELSE [id |-> newid, discard |-> (d.discard \cup old) \ {newid}]
Headers(numbers, id) == [id |-> id, sh |-> IF id \in DOMAIN numbers THEN id ELSE NoSh]
demuxer_switch_audio(d, id) ==
  LET to == Switched(d, d.audio, d.a, id) IN [d EXCEPT !.audio = Headers(d.a, to.id), !.discard = to.discard]
demuxer_switch_video(d, id) ==
  LET to == Switched(d, d.video, d.v, id) IN [d EXCEPT !.video = Headers(d.v, to.id), !.discard = to.discard]

\* The first track in the order of the languages that begins with one, the one that is marked, the first
by_lang(file, numbers, langs) ==
  LET Of(lang) == {i \in DOMAIN numbers : Track(file, i).lang # <<>> /\ IsPrefix(lang, Track(file, i).lang)}
      spoken == SelectSeq(langs, LAMBDA lang : Of(lang) # {})
  IN IF spoken = <<>> THEN AUTO ELSE numbers[Min(Of(spoken[1]))]
default_track(file, numbers) ==
  LET marked == {i \in DOMAIN numbers : Track(file, i).def} IN
  IF numbers = <<>> THEN AUTO ELSE numbers[Min(IF marked # {} THEN marked ELSE DOMAIN numbers)]
select_audio(d, file, opt) ==
  LET spoken == IF opt.audio_id = AUTO THEN by_lang(file, d.a, opt.audio_lang) ELSE opt.audio_id
      id == IF spoken = AUTO THEN default_track(file, d.a) ELSE spoken
      e == IF id # AUTO THEN demuxer_switch_audio(d, id) ELSE d
  IN IF id = OFF THEN [e EXCEPT !.audio = [id |-> OFF, sh |-> NoSh]] ELSE e
select_video(d, file, opt) ==
  LET id == IF opt.video_id = AUTO THEN default_track(file, d.v) ELSE opt.video_id IN
  IF id # AUTO THEN demuxer_switch_video(d, id) ELSE d
Selected(film, opt, r) ==
  select_audio(select_video(r.d[1], film.main, opt), IF "as" \in r.opened \ r.freed THEN film.sound ELSE film.main, opt)

\* ---- programs: the one with an id, or the next that has something to play
Shown(file, d, program) ==
  LET Of(kind) == SelectSeq(program.streams, LAMBDA i : Track(file, i).kind = kind)
      Num(kind, numbers) == IF Of(kind) # <<>> /\ Of(kind)[1] \in DOMAIN numbers THEN numbers[Of(kind)[1]] ELSE OFF
  IN [progid |-> program.id, aid |-> Num("audio", d.a), vid |-> Num("video", d.v)]
PlaysSome(shown) == shown.aid # OFF \/ shown.vid # OFF
identify_program(file, d, cur, progid) ==
  LET n == Len(file.programs)
      At(id) == {p \in 0..n - 1 : file.programs[p + 1].id = id}
      from == ((IF At(cur) = {} THEN n ELSE Min(At(cur))) + 1) % n
      Plays(p) == PlaysSome(Shown(file, d, file.programs[p + 1]))
      turn == SelectSeq([k \in 1..n |-> (from + k - 1) % n], Plays)
  IN IF n = 0 THEN NULL
     ELSE IF progid # -1 THEN IF At(progid) = {} THEN NULL ELSE <<Shown(file, d, file.programs[Min(At(progid)) + 1])>>
     ELSE IF turn = <<>> THEN NULL ELSE <<Shown(file, d, file.programs[turn[1] + 1])>>

\* ---- seeks: libavformat goes to a key frame, the last before the time or the first behind it
av_seek_frame(keys, t, back) ==
  IF back THEN {Max({k \in keys : k <= t}) : x \in {k \in keys : k = Min(keys) /\ k <= t}}
  ELSE {Min({k \in keys : k >= t}) : x \in {k \in keys : k = Max(keys) /\ k >= t}}
\* last is the time of the packet read last; the other direction is tried when there is no key frame.
\* A part of the length is in quarters.
demux_seek_lavf(file, last, amount, absolute, factor) ==
  LET back == amount <= 0
      t == (IF absolute THEN file.start ELSE last) + IF factor THEN (amount * file.duration) \div 4 ELSE amount
      there == av_seek_frame(file.keys, t, back)
      else == av_seek_frame(file.keys, t, ~back)
  IN IF factor /\ file.duration = 0 THEN last
     ELSE IF there # {} THEN Max(there) ELSE IF else # {} THEN Max(else) ELSE last
\* A file of sound is sent to where the picture is.
demux_demuxers_seek(film, last, amount, absolute, factor) ==
  LET pos == demux_seek_lavf(film.main, last, amount, absolute, factor) IN
  [video |-> pos, audio |-> demux_seek_lavf(film.sound, last, pos, TRUE, FALSE)]

\* ---- what is known of a clip: the values by their names, which are not told apart by case
demux_info_add(info, name, value) ==
  LET at == {i \in DOMAIN info : info[i][1] = name} IN
  IF at = {} THEN Append(info, <<name, value>>) ELSE [info EXCEPT ![Min(at)][2] = value]
demux_info_get(info, name) ==
  LET at == {i \in DOMAIN info : info[i][1] = name} IN IF at = {} THEN "" ELSE info[Min(at)][2]

\* ---- what is promised

Of(file, kind) == SelectSeq([i \in DOMAIN file.tracks |-> i - 1], LAMBDA i : i < MaxStreams /\ Track(file, i).kind = kind)
\* The track of a kind a user means who gave a number, or languages in the order of the list, or
\* nothing; neither languages nor marks are looked at in a film of several files.
Meant(tracks, file, id, langs, alone) ==
  LET Speak(lang) == SelectSeq(tracks, LAMBDA i : Track(file, i).lang # <<>> /\ IsPrefix(lang, Track(file, i).lang))
      spoken == SelectSeq(langs, LAMBDA lang : Speak(lang) # <<>>)
      marked == SelectSeq(tracks, LAMBDA i : Track(file, i).def)
  IN CASE tracks = <<>> \/ id = OFF -> NoSh
       [] id >= Len(tracks) -> IF id \in Range(tracks) THEN id ELSE NoSh
       [] id >= 0 -> tracks[id + 1]
       [] alone /\ spoken # <<>> -> Speak(spoken[1])[1]
       [] alone /\ marked # <<>> -> marked[1]
       [] OTHER -> tracks[1]

\* Whatever the order of the tracks of all kinds, the one played is the one that was asked for by its
\* number or language, and libavformat is told to read it.  A number that no track has gives none,
\* but for one that is the index of a track of its kind, which is played then.  When the file of
\* sound cannot be played the film's own sound is, in a film of one file.
TracksRight(film, opt, r, d) ==
  LET lost == "as" \in r.freed
      file == IF "as" \in r.opened /\ ~lost THEN film.sound ELSE film.main
      audio == Of(file, "audio")
      id == IF lost /\ ((d.joined /\ opt.audio_id = AUTO) \/ opt.audio_id >= Len(audio)) THEN OFF ELSE opt.audio_id
  IN /\ d.audio.sh = Meant(audio, file, id, opt.audio_lang, ~d.joined)
     /\ d.video.sh = Meant(Of(film.main, "video"), film.main, opt.video_id, <<>>, ~d.joined)
     /\ ~d.joined => {d.audio.sh, d.video.sh} \cap d.discard = {}
TracksAsAsked(film, opt, r) == r.d # NULL => TracksRight(film, opt, r, Selected(film, opt, r))

\* A stream of a file nobody reads has no track, or its packets would fill the queue until the film
\* is given up.  (A number is looked for in all files: with -aid the tracks of the film's own sound
\* are read as well as those of a file of sound, and nobody takes them.)
UnreadOff(opt, r) ==
  opt.audio_id < 0 /\ opt.video_id < 0 /\ opt.sub_id < 0 => \A id \in r.unread : id < 0

\* A film that was opened and is closed has freed every stream it opened, and so has one that could
\* not be opened, unless the file of subtitles is missing: that of the sound stays open then.
StreamsFreed(opt, r) ==
  demux_close_demuxers(r).freed = r.opened \/ (opt.sub_stream = "missing" /\ r.freed = {})

FilmRight(film, opt, r) == TracksAsAsked(film, opt, r) /\ UnreadOff(opt, r) /\ StreamsFreed(opt, r)
FilmAsAsked(film, opt) == FilmRight(film, opt, demux_open(film, opt))

\* Steps reach every program that has something to play, and none that has not.
Stepped(ids, to) == IF to = NULL THEN ids ELSE Append(ids, to[1].progid)
StepsReach(file, d) ==
  LET play == {p \in Range(file.programs) : PlaysSome(Shown(file, d, p))}
      seen == FoldLeft(LAMBDA ids, k : Stepped(ids, identify_program(file, d, ids[Len(ids)], -1)), <<0>>, [k \in 1..2 * Len(file.programs) |-> k])
  IN Range(Tail(seen)) = {p.id : p \in play}
ProgramsReached(file, opt) == StepsReach(file, demux_open_lavf(file, opt, [audio |-> AUTO, video |-> AUTO, sub |-> AUTO])[1])

\* A seek forward ends at or behind its time if there is a key frame, one backward at or before it,
\* else at the nearest end; with a file of sound the sound goes on at the picture, or ends.
SeekLands(film, last, amount, absolute) ==
  LET to == demux_demuxers_seek(film, last, amount, absolute, FALSE)
      keys == film.main.keys
      t == (IF absolute THEN film.main.start ELSE last) + amount
      behind == {k \in keys : k >= t}
      before == {k \in keys : k <= t}
  IN /\ amount > 0 => to.video = IF behind # {} THEN Min(behind) ELSE Max(keys)
     /\ amount <= 0 => to.video = IF before # {} THEN Max(before) ELSE Min(keys)
     /\ to.video \in film.sound.keys => to.audio = to.video

\* What is told of a clip is what was said last, once for each name.
InfoLast(adds) ==
  LET info == FoldLeft(LAMBDA i, a : demux_info_add(i, a[1], a[2]), <<>>, adds)
      At(name) == SelectLastInSeq(adds, LAMBDA a : a[1] = name)
  IN \A name \in {a[1] : a \in Range(adds)} :
       /\ demux_info_get(info, name) = adds[At(name)][2]
       /\ Cardinality({i \in DOMAIN info : info[i][1] = name}) = 1
==============================================================================
