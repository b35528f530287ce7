------------------------------ MODULE MCFormats ------------------------------
(* The play tree and its iterator (PlayTree); and what is computed and not     *)
(* done: the operators of ChannelOrder, CodecSelect, SubtitleFiles,            *)
(* CodecsConf, PlaylistParse, DemuxOpen, DeviceOpen, OptionTypes and           *)
(* Properties, for each of a set of arguments, one of which is `job`.          *)
EXTENDS PlayTree

CONSTANTS MaxFourcc, MaxOutfmt, Numbers, Formats, Names, Release
CONSTANTS MaxStreams
CONSTANTS Rooted, Backslash
CONSTANTS MaxText, FirstRoom, MoreRoom, Long, Short, MaxLine, Word, Moves
VARIABLES kind, job

Order == INSTANCE ChannelOrder
Select == INSTANCE CodecSelect
Subs == INSTANCE SubtitleFiles
Conf == INSTANCE CodecsConf
Lists == INSTANCE PlaylistParse
Film == INSTANCE DemuxOpen
Dev == INSTANCE DeviceOpen
Props == INSTANCE Properties

\* Every pair of layouts that can be changed in place, for 0 to 3 frames, and those copied
Orders == {[kind |-> "inplace", src |-> p[1], dest |-> p[2], size |-> size, frames |-> n] :
             p \in Order!InPlace, size \in Order!Sizes, n \in 0..3}
          \cup {[kind |-> "copied", src |-> p[1], dest |-> p[2], size |-> 2, frames |-> n] :
             p \in {q \in Order!Layouts \X Order!Layouts : Order!Copied(q[1], q[2])}, n \in 0..3}
\* Two codecs that fit or not, can be set up or not, and a third that is a dummy or of the file's
\* format, and lists that name the first or the third
Codecs == {[name |-> n, fam |-> fam, status |-> status, dummy |-> FALSE, fits |-> k # "unfit",
            there |-> k # "missing", ok |-> k # "bad"] :
             n \in {"c1", "c2"}, fam \in {"f", "g"}, status \in -1..2, k \in {"fine", "bad", "missing", "unfit"}}
Third == {[name |-> "c3", fam |-> "g", status |-> status, dummy |-> empty, fits |-> ~empty, there |-> TRUE, ok |-> TRUE] :
            status \in {0, 2}, empty \in BOOLEAN}
Configs == {<<c1, c2, c3>> : c1 \in {c \in Codecs : c.name = "c1"}, c2 \in {c \in Codecs : c.name = "c2"}, c3 \in Third}
Options == {<<>>, <<Select!Named("c1", FALSE), Select!AnyCodec>>, <<Select!Off("c2"), Select!AnyCodec>>,
            <<Select!AnyCodec, Select!Named("c3", FALSE)>>, <<Select!Named("c1", TRUE)>>}
\* Three subtitles in the formats that can say them, with lines between them that mean nothing
Sub(start, end, text) == [start |-> start, end |-> end, text |-> text]
SubTexts == {<<"a">>, <<"b", "c">>, <<"d", "", "e">>, <<"", "g">>}
SubTimes == {<<1, 2, 3, 5>>, <<1, 1, 2, 4>>, <<2, 4, 7, 8>>}
Says(fmt, text) ==
  CASE fmt \in {"pjs", "subviewer", "subviewer2", "mpsub", "vplayer"} -> "" \notin Range(text)
    [] fmt \in Subs!Inline \cup {"subrip09"} -> "" \notin Range(Tail(text))
    [] fmt = "aqt" -> Len(text) < 3
    [] OTHER -> TRUE
SubFormats == Subs!Inline \cup {"subrip", "subviewer", "subviewer2", "mpsub", "pjs", "aqt", "subrip09"}
ReadJobs ==
  {[kind |-> "read", fmt |-> fmt, moves |-> mv, junk |-> junk,
    subs |-> <<Sub(at[1], at[2], t1), Sub(at[3], at[4], t2), Sub(9, 11, <<"z">>)>>] :
     fmt \in SubFormats, mv \in Moves, at \in SubTimes, t1 \in SubTexts, t2 \in SubTexts,
     junk \in {<<>>, <<Subs!One(<<"junk">>)>>, <<Subs!Blank, Subs!One(<<"j", "k">>)>>}}
ReadableJobs == {j \in ReadJobs : \A n \in DOMAIN j.subs : Says(j.fmt, j.subs[n].text)}
\* Subtitles that overlap, or end before they start, by all amounts
FitJobs ==
  {[kind |-> "fit", subs |-> <<Sub(2, 2 + e1, <<"x">>), Sub(2 + g1, 2 + g1 + e2, <<"y">>),
                               Sub(2 + g1 + g2, 4 + g1 + g2, <<"z">>)>>] :
     g1 \in Short..Short + 2, g2 \in Short..Short + 2, e1 \in -1..8, e2 \in -1..8}
\* Four that overlap, of more lines than there is room for or less
Named(c, n) == [i \in 1..n |-> c \o ToString(i)]
OverlapJobs ==
  {[kind |-> "overlap", subs |-> <<Sub(1, e1, Named("a", n1)), Sub(1 + g1, 1 + g1 + e2, Named("b", n2)),
                                   Sub(1 + g1 + g2, 3 + g1 + g2, Named("c", n3)),
                                   Sub(2 + g1 + g2, 4 + g1 + g2, Named("d", 1))>>] :
     g1 \in 0..2, g2 \in 0..3, e1 \in 3..6, e2 \in 2..4, n1 \in 1..2, n2 \in 1..2, n3 \in 1..2}
\* Two texts, the second of which may say the last line of the first again
Says2(lines, e) == [lines |-> lines, endpts |-> e]
X == <<"x">>
Y == <<"<", "y">>
Z == <<"\\", "n", "{">>
TextJobs ==
  {[kind |-> "text", sent |-> <<Says2(l1, e1), Says2(<<l2>>, e2)>>, tag |-> tag, brk |-> brk] :
     l1 \in {<<X>>, <<X, Y>>, <<Z, X>>, <<Y, Z, X>>}, l2 \in {X, <<"k">>}, e1 \in 1..3, e2 \in 1..3,
     tag \in {<<>>, <<"<", "i", "\\", ">">>, <<"{", "<", "}", "a", ">">>},
     brk \in {<<"\n">>, <<"\\", "n">>, <<"\n", "\n">>}}
SubtitleJobs ==
  ReadableJobs \cup FitJobs \cup OverlapJobs \cup {j \in TextJobs : j.sent[1].lines = <<X, Y>> => j.sent[2].lines # <<X>>}
CodecJobs == [kind : {"codec"}, codecs : Configs, list : Options, fams : {<<>>, <<"g", "f">>}]

\* Two codecs of statements good and bad, and one that is right
Said(key, args) == [key |-> key, args |-> args]
Statements ==
  {Said("fourcc", <<<<"AA">>>>), Said("fourcc", <<<<"AA", "BB">>, <<"CC">>>>), Said("fourcc", <<<<"BB", "BB">>>>),
   Said("format", <<<<"5">>>>), Said("format", <<<<"5">>, <<"7">>>>), Said("format", <<<<"x">>>>),
   Said("driver", <<<<"ff">>>>), Said("info", <<<<"text">>>>), Said("comment", <<<<"note">>>>), Said("dll", <<<<"lib">>>>),
   Said("out", <<<<"YV12", "NV12">>, <<"flip", "query">>>>), Said("out", <<<<"YV99">>>>), Said("in", <<<<"YV12">>>>),
   Said("flags", <<<<"dummy">>>>), Said("flags", <<<<"what">>>>), Said("status", <<<<"working">>>>),
   Said("cpuflags", <<<<"mmx", "sse">>>>), Said("driver", <<>>)}
Block(type, name, stmts) == [type |-> type, name |-> name, stmts |-> stmts]
Drv == Said("driver", <<<<"ff">>>>)
ConfJobs ==
  {[kind |-> "conf", blocks |-> <<Block("audiocodec", "a1", <<s1, s2, s3, Drv>>)>>] :
     s1 \in Statements, s2 \in Statements, s3 \in Statements}
  \cup {[kind |-> "conf", blocks |-> <<Block("audiocodec", "a1", <<Drv, s1>>), Block(t2, n2, <<s2, Drv>>),
                                     Block("audiocodec", "a3", <<s1, Drv>>)>>] :
     t2 \in {"audiocodec", "videocodec"}, n2 \in {"a1", "a2", "a-2"}, s1 \in Statements, s2 \in Statements}
  \cup {[kind |-> "conf", blocks |-> <<>>]}
Builtin == [t \in {"audiocodec", "videocodec"} |-> <<[name |-> "built in"]>>]

\* Playlists of up to three entries, with lines between that mean nothing
Junk == {<<>>, <<Lists!EmptyLine>>, <<Lists!Line("#", 0, "note", <<>>), Lists!EmptyLine>>}
BadTag == <<Lists!Line("tags", 0, "", <<<<"media", "">>, <<"bad src", "">>, <<"media", "">>, <<"src", "lost">>>>)>>
PlayEntries == UNION {[1..n -> {Lists!Entry("x", ""), Lists!Entry("/b", "5"), Lists!Entry("y", "7")}] : n \in 0..3}
PlaylistJobs ==
  {j \in [kind : {"playlist", "nested"}, fmt : {"pls", "m3u", "ref", "smil", "packets", "nsc", "text"}, entries : PlayEntries,
          how : {"in order", "reversed", "gaps", "no numbers"}, junk : Junk \cup {BadTag}, eof : BOOLEAN, forced : BOOLEAN] :
     /\ j.fmt \in {"nsc"} => j.entries # <<>>
     /\ j.junk = BadTag => j.fmt = "smil"
     /\ j.how # "in order" => j.fmt \in {"pls", "smil"}
     /\ j.kind = "nested" => j.forced /\ j.junk = <<>>}

\* Films of up to four tracks of all kinds, with files of sound and of subtitles, and what may be asked of them
Tk(k, lang, def) == [kind |-> k, lang |-> lang, def |-> def]
En == <<"e", "n">>
Eng == <<"e", "n", "g">>
De == <<"d", "e">>
File(tracks, known, opens, programs) ==
  [tracks |-> tracks, known |-> known, opens |-> opens, programs |-> programs, start |-> 0, duration |-> 8, keys |-> {0}]
Tracks == {Tk("video", <<>>, FALSE), Tk("video", <<>>, TRUE), Tk("audio", En, FALSE), Tk("audio", Eng, TRUE), Tk("audio", De, FALSE),
           Tk("sub", En, FALSE), Tk("data", <<>>, FALSE)}
Mains == {t \in UNION {[1..n -> Tracks] : n \in {0, 1, 3}} : Len(t) = 3 => \E i \in 1..3 : t[i].kind = "audio"} \cup [1..4 -> {Tk("video", <<>>, FALSE), Tk("audio", En, FALSE), Tk("audio", De, TRUE)}]
Opt(aid, vid, alang, as, ss, name) ==
  [audio_id |-> aid, video_id |-> vid, sub_id |-> -1, audio_lang |-> alang, audio_stream |-> as, sub_stream |-> ss, demuxer |-> name]
Alone == {Opt(aid, vid, alang, "no", "no", "") : aid \in -2..3, vid \in -2..1, alang \in {<<>>, <<En>>, <<Eng, De>>}}
Several == {Opt(aid, -1, <<De>>, as, ss, name) : aid \in -2..2, as \in {"no", "missing", "there"}, ss \in {"no", "missing", "there"},
                                                  name \in {"", "nosuch"}}
Sounds == {File(<<Tk("audio", En, FALSE), Tk("audio", De, FALSE)>>, TRUE, TRUE, <<>>), File(<<Tk("video", <<>>, TRUE), Tk("audio", De, FALSE)>>, TRUE, TRUE, <<>>),
           File(<<>>, TRUE, TRUE, <<>>), File(<<Tk("audio", En, FALSE)>>, FALSE, TRUE, <<>>), File(<<Tk("audio", En, FALSE)>>, TRUE, FALSE, <<>>)}
Texts == {File(<<Tk("sub", En, FALSE)>>, TRUE, TRUE, <<>>), File(<<Tk("sub", En, FALSE)>>, FALSE, TRUE, <<>>)}
FilmJobs ==
  {[kind |-> "film", opt |-> o, film |-> [main |-> File(ts, TRUE, TRUE, <<>>), sound |-> File(<<>>, TRUE, TRUE, <<>>), subs |-> File(<<>>, TRUE, TRUE, <<>>)]] :
     ts \in Mains, o \in Alone}
  \cup {[kind |-> "film", opt |-> o, film |-> [main |-> File(ts, known, opens, <<>>), sound |-> sound, subs |-> text]] :
     ts \in {<<Tk("video", <<>>, FALSE), Tk("audio", En, FALSE), Tk("audio", De, TRUE)>>, <<Tk("audio", En, FALSE), Tk("sub", En, FALSE), Tk("video", <<>>, TRUE)>>},
     known \in BOOLEAN, opens \in BOOLEAN, o \in Several, sound \in Sounds, text \in Texts}
Program(id, streams) == [id |-> id, streams |-> streams]
ProgramJobs ==
  {[kind |-> "programs", opt |-> Opt(-1, -1, <<>>, "no", "no", ""),
    file |-> File(<<Tk("video", <<>>, FALSE), Tk("audio", En, FALSE), Tk("data", <<>>, FALSE), Tk("audio", De, FALSE)>>, TRUE, TRUE,
                  [p \in DOMAIN ps |-> Program(p + first, ps[p])])] :
     first \in {-1, 6}, ps \in UNION {[1..n -> {<<0, 1>>, <<3>>, <<2>>, <<>>, <<2, 3>>}] : n \in 1..4}}
SeekJobs ==
  {[kind |-> "seek", last |-> last, amount |-> amount, absolute |-> abs,
    film |-> [main |-> [File(<<>>, TRUE, TRUE, <<>>) EXCEPT !.keys = ks, !.start = start],
              sound |-> [File(<<>>, TRUE, TRUE, <<>>) EXCEPT !.keys = 0..8]]] :
     last \in 0..8, amount \in -8..8, abs \in BOOLEAN, start \in 0..1, ks \in {{1}, {0, 3, 6}, {1, 2, 7}, {8}}}
InfoJobs == {[kind |-> "info", adds |-> adds] : adds \in UNION {[1..n -> {"title", "artist"} \X {"x", "y", ""}] : n \in 1..4}}

\* Openings of the displays that fail at each of their steps, and once more; lists of drivers; cards
\* that take some formats; volumes; options of drivers; and pictures on a screen
Fails(driver) == {0} \cup Dev!CanFail(Dev!preinit(driver))
DisplayJobs == UNION {[kind : {"display"}, driver : {drv}, a : Fails(drv), b : Fails(drv)] : drv \in {"omap_drm", "omap_drm_egl"}}
                \cup [kind : {"alsa"}, failing : {0} \cup Dev!CanFail(Dev!AlsaInit)]
                \cup [kind : {"mixer"}, failing : 0..7, volume : BOOLEAN]
                \cup [kind : {"buffer"}, driver : {"omap_drm", "omap_drm_egl"}]
Drivers == << <<"a", "l">>, <<"n">> >>
DriverJobs == [kind : {"driver"}, exact : BOOLEAN, works : SUBSET Range(Drivers),
               list : UNION {[1..n -> {<<"a">>, <<"a", "l">>, <<"n">>, <<"x">>, <<>>}] : n \in 0..3}]
Sf(sort, bits, end) == [sort |-> sort, bits |-> bits, end |-> end]
Samples == {Sf(x, bits, end) : x \in {"s", "u"}, bits \in {16, 24, 32}, end \in {"le", "be"}} \cup {Sf("s", 8, "le"), Sf("u", 8, "le")}
           \cup {Sf(x, 32, end) : x \in {"float"}, end \in {"le", "be"}} \cup {Sf(x, 16, end) : x \in {"ac3", "iec61937"}, end \in {"le", "be"}}
           \cup {Sf("mulaw", 8, "le"), Sf("mpeg2", 0, "le")}
CardJobs == {[kind |-> "card", format |-> f, channels |-> n, most |-> most, takes |-> {Dev!S16_LE} \cup IF some THEN {Dev!alsa_format(f)} ELSE {}] :
               f \in Samples, n \in {1, 2, 6}, most \in {2, 8}, some \in BOOLEAN}
VolumeJobs == [kind : {"volume"}, pmin : 0..2, range : {1, 2, 7, 31}, percent : 0..100]
DevOpts == "block" :> "bool" @@ "device" :> "str"
DevItems == {[form |-> x, name |-> "block", value |-> <<>>] : x \in {"yes", "no"}}
            \cup {[form |-> x, name |-> "device", value |-> v] : x \in {"quoted", "counted"}, v \in {<<"hw">>, <<"hw", ":", "block">>}}
            \cup {[form |-> "plain", name |-> "device", value |-> v] : v \in {<<"hw">>, <<"hw", "=", "no">>}}
OptionJobs == [kind : {"options"}, items : UNION {[1..n -> DevItems] : n \in 0..3}]
PictureJobs == [kind : {"picture"}, W : {16, 17}, H : {9, 10}, w : 1..24, h : 1..24]
DeviceJobs == DisplayJobs \cup DriverJobs \cup CardJobs \cup VolumeJobs \cup OptionJobs \cup PictureJobs

\* Options of every type with values and texts for them, and lists of sub-options
Texts1(S, n) == UNION {[1..i -> S] : i \in 1..n}
Op(t, a, b) == [type |-> t, min |-> a, max |-> b]
Endless == 1000000
Opts == {Op("int", -2, 100), Op("int", 0, Endless), Op("float", -1, 1), Op("float", Endless, Endless), Op("position", 0, Endless),
         Op("double", 0, 5), Op("time", Endless, Endless)}
Items == {[name |-> <<"a">>, form |-> "no value", value |-> <<>>]}
         \cup {[name |-> <<"b", "c">>, form |-> f, value |-> v] : f \in {"quoted", "counted"}, v \in {<<"x">>, <<":", "=">>, <<"x", ":", "1">>}}
         \cup {[name |-> <<"b", "c">>, form |-> "plain", value |-> <<"x", "=", "q">>], [name |-> <<"b", "c">>, form |-> "counted", value |-> <<"q", "%">>]}
ValueJobs ==
  {j \in [kind : {"printed"}, opt : Opts, n : -100..100] :
     (j.opt.type \in {"position", "time", "double"} => j.n >= 0) /\ (j.opt.type = "int" => j.n >= j.opt.min)}
  \cup {j \in [kind : {"limits"}, opt : Opts, text : Texts1({"0", "1", "5", "-", ":", ",", ".", "x", "a"}, 3)] :
          j.opt.type # "time" /\ (j.opt.type = "int" => j.opt.max # Endless)}
  \cup [kind : {"comma"}, digits : {<<"0">>, <<"-", "0">>, <<"1">>, <<"-", "2">>}, parts : {<<"5">>, <<"0", "5">>, <<"2", "5">>}]
  \cup [kind : {"hours"}, h : 0..2, m : {0, 1, 59}, s : {0, 7, 10}, junk : {<<"x">>, <<":">>, <<"1", ":", "x">>}]
  \cup [kind : {"size"}, n : 0..1]
  \cup [kind : {"suboptions"}, items : Texts1(Items, 3)]
\* Players with sound, pictures, a mixer or not; what is set, and commands
Player0 == [audio |-> TRUE, video |-> TRUE, video_out |-> TRUE, filename |-> <<"f">>, length |-> 100, channels |-> 2, title |-> <<"t">>,
  val |-> [osdlevel |-> 1, loop |-> -1, speed |-> 100, audio_delay |-> 5, framedropping |-> 1, vsync |-> 0, sub_delay |-> -20,
           sub_pos |-> 99, sub_alignment |-> 2, sub_visibility |-> 1, sub_scale |-> 300],
  delay |-> 7, mixer |-> [how |-> "card", l |-> 40, r |-> 60, muted |-> 0, last_l |-> 0, last_r |-> 0], user_muted |-> 0, balance |-> 0,
  abs_seek_pos |-> "no", rel_seek_secs |-> 0, pos |-> 30, osd_function |-> "play", was_paused |-> FALSE]
Players == {Player0, [Player0 EXCEPT !.audio = FALSE, !.title = <<>>], [Player0 EXCEPT !.mixer.how = "none", !.channels = 1],
            [Player0 EXCEPT !.video = FALSE, !.mixer.l = 0, !.mixer.r = 2]}
Cmd(id, name, args) == [id |-> id, name |-> name, args |-> args, text |-> <<>>, pausing |-> 4]
Text(name, text) == [id |-> "set_property", name |-> name, args |-> <<>>, text |-> text, pausing |-> 4]
Cmds == {Cmd("bind", "volume", <<v, a>>) : v \in {-1, 1, 99}, a \in 0..1}
        \cup {Cmd("bind", n, <<v, a>>) : n \in {"audio_delay", "balance"}, v \in {-30, 40}, a \in 0..1}
        \cup {Cmd("bind", "mute", a) : a \in {<<>>, <<0>>, <<1>>, <<-1>>}} \cup {Cmd("bind", "framedropping", a) : a \in {<<>>, <<7>>, <<-1>>}}
        \cup {Cmd("step_property", n, <<v, dir>>) : n \in {"audio_delay", "volume", "mute", "sub_alignment"}, v \in {0, 9990}, dir \in {-1, 1}}
        \cup {Text("audio_delay", t) : t \in {<<"1">>, <<"-", "1", "0", "1">>, <<"x">>}}
        \cup {Cmd("osd", "", <<v>>) : v \in {-1, 2, 9}}
Seeks == {Cmd("seek", "", <<v, h>>) : v \in {10, -20, 50}, h \in 0..2} \cup {Text(n, <<"7", "0">>) : n \in {"percent_pos", "time_pos"}}
         \cup {Cmd("step_property", n, <<v, dir>>) : n \in {"percent_pos", "time_pos"}, v \in {0, 5}, dir \in {-1, 1}}
It(k, c, n, not) == [kind |-> k, c |-> c, name |-> n, not |-> not]
Pieces == {It("plain", "a", "", FALSE), It("escaped", ")", "", FALSE), It("escaped", "n", "", FALSE), It("close", "", "", FALSE)}
          \cup {It("value", "", n, FALSE) : n \in {"volume", "gamma", "filename"}} \cup {It("open", "", n, b) : n \in {"volume", "gamma"}, b \in BOOLEAN}
PropertyJobs ==
  {j \in [kind : {"set"}, p : Players, name : DOMAIN Props!mp_properties, v : {-101, -1, 0, 1, 2, 50, 101, 10001}] :
     j.v < 128 \/ Props!mp_properties[j.name].type = "float"}
  \cup [kind : {"step"}, p : Players, name : DOMAIN Props!mp_properties, v : {Props!NoArg, 1, 3}]
  \cup [kind : {"commands"}, p : Players, cmds : Texts1(Cmds, 2)]
  \cup [kind : {"seeks"}, p : {Player0}, cmds : Texts1(Seeks, 3)]
  \cup [kind : {"pauses"}, p : {Player0}, prefixes : Texts1(0..3, 5)]
  \cup [kind : {"template"}, p : {Player0, [Player0 EXCEPT !.audio = FALSE]}, items : Texts1(Pieces, 4)]
  \cup [kind : {"loop"}, n : -1..5]

NoJob == [kind |-> "none"]
\* Where the tree is not explored the player has stopped.
NoTree ==
  /\ parent = [n \in Nodes |-> None] /\ kids = [n \in Nodes |-> <<>>] /\ files = [n \in Nodes |-> 0]
  /\ loops = [n \in Nodes |-> 0] /\ rnd = {} /\ played = {} /\ own = [n \in Nodes |-> None] /\ byAlias = {}
  /\ fresh = 0 /\ config = BaseConfig /\ iter = NoIter /\ saved = NoIter
  /\ pc = "quit" /\ d = 0 /\ then = "start" /\ res = "none" /\ old = None
  /\ promised = 0 /\ plays = <<>> /\ straight = 1 /\ touched = 0 /\ moves = 0
InitFormats ==
  /\ kind \in {"tree", "order", "codec", "subtitles", "conf", "playlist", "film", "device", "option", "property"}
  /\ job = NoJob
  /\ IF kind = "tree" THEN Init ELSE NoTree
Choose ==
  /\ job = NoJob
  /\ \/ kind = "order" /\ job' \in Orders
     \/ kind = "codec" /\ job' \in CodecJobs
     \/ kind = "conf" /\ job' \in ConfJobs
     \/ kind = "film" /\ job' \in FilmJobs \cup ProgramJobs \cup SeekJobs \cup InfoJobs
     \/ kind = "device" /\ job' \in DeviceJobs
     \/ kind = "option" /\ job' \in ValueJobs
     \/ kind = "property" /\ job' \in PropertyJobs
     \/ kind = "playlist" /\ job' \in PlaylistJobs
     \/ kind = "subtitles" /\ job' \in SubtitleJobs
  /\ UNCHANGED <<kind, vars>>
TreeStep(A) == kind = "tree" /\ A /\ UNCHANGED <<kind, job>>
\* A job is done when it is chosen.
Done == job # NoJob /\ UNCHANGED <<kind, job, vars>>
NextFormats == TreeStep(Next) \/ Choose \/ Done
FormatsSpec == /\ InitFormats /\ [][NextFormats]_<<kind, job, vars>>
               /\ WF_<<kind, job, vars>>(TreeStep(Iterating \/ Player))

\* Every frame has its samples in the new order, and nothing behind the frames is touched.  In
\* place this is stated for samples of 2 to 4 bytes only: the exchange of two pairs takes samples
\* of 8 bytes for a size it does not know, and those of 1 byte in frames of 5 instead of 4.
Reordered(buf) ==
  LET n == job.frames * Order!ChNum(job.src) IN
  [c \in DOMAIN buf |-> IF c < n THEN Order!Buffer(job.dest, job.frames)[c] ELSE buf[c]]
ChannelsRight ==
  LET buf == Order!Buffer(job.src, job.frames)
      n == job.frames * Order!ChNum(job.src)
  IN /\ job.kind = "inplace" =>
          \/ job.size \notin {2, 3, 4}
          \/ Order!reorder_channel(buf, n, job.size, job.src, job.dest) = Reordered(buf)
     /\ job.kind = "copied" =>
          \A c \in 0..n - 1 : Order!reorder_channel_copy(buf, n, job.src, job.dest)[c] = Reordered(buf)[c]

\* However tags, statuses and forced names get in each other's way, the codec chosen is the first
\* in the order of the list, then of the families, the status and codecs.conf that can be set up.
\* And what codecs.conf says of codecs is what is read (see CodecsConf).
CodecsTrue ==
  /\ job.kind = "codec" /\ ~Select!DummyTagged(job.codecs, job.list) =>
       Select!init_best_codec(job.codecs, job.list, job.fams) = Select!BestOf(job.codecs, job.list, job.fams)
  /\ job.kind = "conf" => Conf!CodecsAsWritten(job.blocks, Builtin)

\* What a file of subtitles says is what is read, and each of them gets a time of its own; those that
\* overlap are all shown, on lines that do not change, and texts for their time.
SubtitlesTrue ==
  /\ job.kind = "read" => Subs!ReadAsWritten(job.fmt, job.subs, job.junk, job.moves)
  /\ job.kind = "fit" => Subs!TimesFit(job.subs)
  /\ job.kind = "overlap" => Subs!OverlapShows(job.subs)
  /\ job.kind = "text" => Subs!TextsLast(job.sent, job.tag, job.brk)
\* What a playlist names is what is in the list, and a film is opened, searched and described as
\* asked (see PlaylistParse and DemuxOpen).
EntriesOpened ==
  /\ job.kind = "playlist" => Lists!PlaylistAsWritten(job)
  /\ job.kind = "nested" => Lists!NestedAsWritten(job)
  /\ job.kind = "film" => Film!FilmAsAsked(job.film, job.opt)
  /\ job.kind = "programs" => Film!ProgramsReached(job.file, job.opt)
  /\ job.kind = "seek" => Film!SeekLands(job.film, job.last, job.amount, job.absolute)
  /\ job.kind = "info" => Film!InfoLast(job.adds)
\* See DeviceOpen.
DevicesOpened ==
  /\ job.kind = "display" => Dev!DisplayGivenBack(job.driver, job.a, job.b)
  /\ job.kind = "buffer" => Dev!BufferGivenBack(job.driver)
  /\ job.kind = "alsa" => Dev!CardGivenBack(job.failing)
  /\ job.kind = "mixer" => Dev!MixerGivenBack(job.failing, job.volume)
  /\ job.kind = "driver" => Dev!DriverNamed(Drivers, job.list, job.works, job.exact)
  /\ job.kind = "card" => Dev!CardAgrees(job.format, job.channels, job.takes, [c \in 1..8 |-> IF c > job.most THEN job.most ELSE c])
  /\ job.kind = "volume" => Dev!VolumeKept(job.pmin, job.pmin + job.range, job.percent)
  /\ job.kind = "options" => Dev!OptionsRead(DevOpts, job.items)
  /\ job.kind = "picture" => Dev!PictureFits(job.W, job.H, job.w, job.h)
\* Values of options are read within their limits, as what they were printed from, however they are
\* written (see OptionTypes).
Written(type, n) == IF type \in {"int", "position"} THEN <<n, 1>> ELSE <<n, 100>>
OptionsTrue ==
  /\ job.kind = "printed" => Props!PrintedReadBack(job.opt, Written(job.opt.type, job.n))
  /\ job.kind = "limits" => Props!NothingOutside(job.opt, job.text)
  /\ job.kind = "comma" => Props!CommaAsPoint(job.digits, job.parts)
  /\ job.kind = "hours" => Props!TimeTold(job.h, job.m, job.s, job.junk)
  /\ job.kind = "size" => Props!SizeTold(job.n)
  /\ job.kind = "suboptions" => Props!SubOptionsRead(job.items, [n \in {<<"a">>, <<"b", "c">>} |-> n # <<"a">>])
\* Settings are what they were set to, hold together whatever the commands, and commands run
\* together do what they do one by one (see Properties).
PropertiesTrue ==
  /\ job.kind = "set" => Props!SetReadBack(job.p, job.name, job.v)
  /\ job.kind = "step" => Props!StepBack(job.p, job.name, job.v)
  /\ job.kind = "commands" => Props!SettingsHold(job.p, job.cmds)
  /\ job.kind = "seeks" => Props!SeeksTogether(job.p, job.cmds)
  /\ job.kind = "pauses" => Props!PauseTogether(job.p, job.prefixes)
  /\ job.kind = "template" => Props!TemplateTrue(job.items, job.p)
  /\ job.kind = "loop" => Props!LoopPlays(job.n, 8)
==============================================================================
