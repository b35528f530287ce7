---------------------------- MODULE PlaylistParse ----------------------------
(* Reading a playlist (src/playtreeparser.c): one stream of lines that five    *)
(* formats are tried on in turn, each from the first line kept, and at last,   *)
(* when the user said that it is a playlist, as a plain list of names.         *)
(*                                                                             *)
(* A line is its kind `t`, a number `n`, a value `v`, the tags of a smil line, *)
(* and `text`, what it says when it is taken as the name of a file.            *)
EXTENDS SequencesExt, Naturals, Integers, FiniteSetsExt, TLC

CONSTANTS Rooted,    \* the names with a "/" in front or a "://" in them
          Backslash  \* the names with one "\" in front

Line(t, n, v, tags) == [t |-> t, n |-> n, v |-> v, tags |-> tags, text |-> IF t = "name" THEN v ELSE t \o "=" \o v]
Plain(name) == Line("name", 0, name, <<>>)
EmptyLine == Line("blank", 0, "", <<>>)
Header(fmt) == Line(fmt, 0, "", <<>>)
NULL == <<>>
Entry(file, length) == [file |-> file, length |-> length]

\* ---- the parser: the lines still there, the line `iter` is at, whether those read are kept, and
\* whether the stream has told that it is at its end; `line` is the line read, NULL at the end.
play_tree_parser_new(lines, eof) == [lines |-> lines, iter |-> 1, keep |-> TRUE, eof |-> eof, line |-> NULL]
\* A stream that did not tell its end with its last line gives one more line, which is empty.
play_tree_parser_get_line(p) ==
  LET there == p.iter <= Len(p.lines)
      got == [p EXCEPT !.line = IF there THEN <<p.lines[p.iter]>> ELSE IF p.eof THEN NULL ELSE <<EmptyLine>>,
                       !.eof = @ \/ ~there]
  IN IF ~there THEN got
     ELSE IF p.keep THEN [got EXCEPT !.iter = @ + 1]
     ELSE [got EXCEPT !.lines = SubSeq(@, p.iter + 1, Len(@)), !.iter = 1]
\* Seeded error: the next format starts where the last gave up.
ResetNever(p) == p
play_tree_parser_reset(p) == [p EXCEPT !.iter = 1]
play_tree_parser_stop_keeping(p) ==
  [p EXCEPT !.keep = FALSE, !.lines = SubSeq(@, p.iter, Len(@)), !.iter = 1]

\* The first line that is not blank (the line is NULL when there is none), and all that are left
RECURSIVE SkipBlank(_)
SkipBlank(p) ==
  LET q == play_tree_parser_get_line(p) IN
  IF q.line # NULL /\ q.line[1].t = "blank" THEN SkipBlank(q) ELSE q
RECURSIVE Remaining(_)
Remaining(p) ==
  LET q == play_tree_parser_get_line(p) IN
  IF q.line = NULL THEN <<>> ELSE <<q.line[1]>> \o Remaining(q)
Is(p, t) == p.line # NULL /\ p.line[1].t = t
\* A format is a list of entries and the parser left for the next: lines kept until it was known,
\* and none after that, for all are read.
Refused(p) == [list |-> <<>>, p |-> p]
ReadOut(p, list) == [list |-> list, p |-> [p EXCEPT !.lines = <<>>, !.iter = 1, !.keep = FALSE, !.eof = TRUE, !.line = NULL]]

\* ---- pls: entries by their numbers, which grow the array; a line without a number is one more
pls_read_entry(entries, n) ==
  LET num == IF n <= 0 THEN Len(entries) + 1 ELSE n
  IN
  [num |-> num, entries |-> [i \in 1..Max({num, Len(entries)}) |-> IF i \in DOMAIN entries THEN entries[i] ELSE Entry("", "")]]
PlsLine(entries, line) ==
  LET e == pls_read_entry(entries, line.n) IN
  IF line.t \notin {"File", "Title", "Length"} \/ line.v = "" THEN entries
  ELSE CASE line.t = "File" -> [e.entries EXCEPT ![e.num].file = line.v]
         [] line.t = "Length" /\ line.v \notin {"-1", "bad"} -> [e.entries EXCEPT ![e.num].length = line.v]
         [] OTHER -> e.entries
parse_pls(p) ==
  LET q == SkipBlank(p)
      lines == Remaining(play_tree_parser_stop_keeping(q))
      entries == FoldLeft(PlsLine, <<>>, lines)
  IN IF ~Is(q, "[playlist]") THEN Refused(q)
     ELSE ReadOut(q, SelectSeq(entries, LAMBDA e : e.file # ""))

\* ---- [Reference]: every Ref line with a value
parse_ref_ini(p) ==
  LET q == play_tree_parser_get_line(p)
      refs == SelectSeq(Remaining(play_tree_parser_stop_keeping(q)), LAMBDA l : l.t = "Ref" /\ l.v # "")
  IN IF ~Is(q, "[Reference]") THEN Refused(q)
     ELSE ReadOut(q, [i \in DOMAIN refs |-> Entry(refs[i].v, "")])

\* ---- #EXTM3U: every line that is neither empty nor a comment
parse_m3u(p) ==
  LET q == play_tree_parser_get_line(p)
      names == SelectSeq(Remaining(play_tree_parser_stop_keeping(q)), LAMBDA l : l.t \notin {"blank", "#", "#EXTM3U"})
  IN IF ~Is(q, "#EXTM3U") THEN Refused(q)
     ELSE ReadOut(q, [i \in DOMAIN names |-> Entry(names[i].text, "")])

\* ---- smil: a media tag waits for the next src=, on its line or a later one.  In a document sent
\* in packets a line that ends one (n = 1) is joined with the next, but for the last packet.
Tag(st, tag) ==
  CASE st.done -> st
    [] tag[1] = "media" -> [st EXCEPT !.entrymode = TRUE]
    [] tag[1] = "src" /\ st.entrymode -> [st EXCEPT !.entrymode = FALSE, !.list = Append(@, Entry(tag[2], ""))]
    [] tag[1] = "bad src" /\ st.entrymode -> [st EXCEPT !.entrymode = FALSE, !.done = TRUE]
    [] OTHER -> st
RECURSIVE SmilLines(_, _, _)
SmilLines(st, lines, packets) ==
  IF lines = <<>> THEN st.list
  ELSE LET joins == packets > 0 /\ lines[1].n = 1
           tags == lines[1].tags \o IF joins /\ Len(lines) > 1 THEN lines[2].tags ELSE <<>>
           after == FoldLeft(Tag, [st EXCEPT !.done = FALSE], tags)
       IN IF joins /\ Len(lines) = 1 THEN st.list
          ELSE SmilLines(after, SubSeq(lines, IF joins THEN 3 ELSE 2, Len(lines)), IF joins THEN packets - 1 ELSE packets)
RECURSIVE SkipXml(_)
SkipXml(p) ==
  LET q == play_tree_parser_get_line(p) IN
  IF Is(q, "blank") \/ Is(q, "<?xml") THEN SkipXml(q) ELSE q
parse_smil(p) ==
  LET q == SkipXml(p)
      packets == IF Is(q, "(smil-document") THEN q.line[1].n ELSE 0   \* those still to come
      start == [list |-> <<>>, entrymode |-> FALSE, done |-> FALSE]
  IN IF ~(Is(q, "<smil") \/ Is(q, "(smil-document")) THEN Refused(q)
     ELSE ReadOut(q, SmilLines(start, <<[q.line[1] EXCEPT !.n = 0]>> \o Remaining(play_tree_parser_stop_keeping(q)), packets))

\* ---- [Address]: the last address of each sort, "" for one that cannot be decoded
LastOf(lines, t) ==
  LET at == {i \in DOMAIN lines : lines[i].t = t} IN IF at = {} THEN "" ELSE lines[Max(at)].v
parse_nsc(p) ==
  LET q == SkipBlank(p)
      lines == Remaining(play_tree_parser_stop_keeping(q))
      unicast_url == LastOf(lines, "Unicast URL")
      addr == LastOf(lines, "IP Address")
      port == LastOf(lines, "IP Port")
  IN IF ~Is(q, "[Address]") THEN Refused(q)
     ELSE ReadOut(q, IF unicast_url # "" THEN <<Entry(unicast_url, "")>>
                     ELSE IF addr # "" /\ port \notin {"", "0"} THEN <<Entry("http://" \o addr \o ":" \o port, "")>>
                     ELSE <<>>)

\* ---- all of them; a name among `others` is of a playlist, read where it stands in a plain list
Try(fmt, p) ==
  CASE fmt = "pls" -> parse_pls(p) [] fmt = "m3u" -> parse_m3u(p) [] fmt = "ref" -> parse_ref_ini(p)
    [] fmt = "smil" -> parse_smil(p) [] OTHER -> parse_nsc(p)
Tried(st, fmt) == IF st.list # <<>> THEN st ELSE Try(fmt, play_tree_parser_reset(st.p))
RECURSIVE Parsed(_, _, _)
Parsed(p, forced, others) ==
  LET embedded_playlist_parse(name) == Parsed(play_tree_parser_new(others[name], TRUE), TRUE, others)
      TextLine(list, l) ==
        list \o IF l.t \in {"blank", "#", "#EXTM3U", "//"} THEN <<>>
                ELSE IF l.text \in DOMAIN others THEN embedded_playlist_parse(l.text)
                ELSE <<Entry(l.text, "")>>
      parse_textplain(q) == FoldLeft(TextLine, <<>>, Remaining(play_tree_parser_stop_keeping(q)))
      first == play_tree_parser_get_line(p)
      known == FoldLeft(Tried, Refused(first), <<"pls", "m3u", "ref", "smil", "nsc">>)
  IN IF first.line = NULL THEN <<>>
     ELSE IF known.list # <<>> \/ ~forced THEN known.list
     ELSE parse_textplain(play_tree_parser_reset(known.p))
play_tree_parser_get_play_tree(lines, eof, forced, others) == Parsed(play_tree_parser_new(lines, eof), forced, others)

\* The names that are not rooted are those of files beside the playlist.
play_tree_add_basepath(list, dir) ==
  [i \in DOMAIN list |->
     [list[i] EXCEPT !.file = IF @ \in Rooted \/ @ = "" THEN @ ELSE IF @ \in Backslash THEN dir.drive \o @ ELSE dir.path \o @]]
play_tree_add_bpf(list, dir) == IF dir.path = "" THEN list ELSE play_tree_add_basepath(list, dir)

\* ---- what a playlist says

\* The lines of a playlist of some entries in each format; `how` tells how its lines are laid out.
PlsOf(entries, how) ==
  LET Of(i, n) == <<Line("Title", n, "t", <<>>)>>
                  \o <<Line("File", n, entries[i].file, <<>>)>>
                  \o IF entries[i].length = "" THEN <<Line("Length", n, "-1", <<>>)>> ELSE <<Line("Length", n, entries[i].length, <<>>)>>
      ofs == [i \in DOMAIN entries |->
                IF how = "no numbers" THEN <<Line("File", 0, entries[i].file, <<>>), Line("Title", 0, "t", <<>>)>>
                ELSE IF how = "gaps" THEN Of(i, 2 * i) ELSE Of(i, i)]
  IN FlattenSeq(IF how = "reversed" THEN Reverse(ofs) ELSE ofs)
SmilOf(entries, how) ==
  FlattenSeq([i \in DOMAIN entries |->
    IF how = "reversed" THEN <<Line("tags", 0, "", <<<<"media", "">>>>), Line("tags", 0, "", <<<<"src", entries[i].file>>>>)>>
    ELSE <<Line("tags", 0, "", <<<<"src", "img">>, <<"media", "">>, <<"src", entries[i].file>>, <<"bad src", "">>>>)>>])
\* In packets: a line is cut behind the tag, the source of which is in the next
PacketsOf(entries) ==
  FlattenSeq([i \in DOMAIN entries |->
    <<Line("tags", 1, "", <<<<"media", "">>>>), Line("tags", 0, "", <<<<"src", entries[i].file>>>>)>>])
Written(fmt, entries, how, junk) ==
  CASE fmt = "pls" -> <<EmptyLine, Header("[playlist]"), Line("NumberOfEntries", 0, "1", <<>>)>> \o junk \o PlsOf(entries, how)
    [] fmt = "m3u" -> <<Header("#EXTM3U")>> \o junk \o [i \in DOMAIN entries |-> Plain(entries[i].file)]
    [] fmt = "ref" -> <<Header("[Reference]")>> \o junk \o [i \in DOMAIN entries |-> Line("Ref", i, entries[i].file, <<>>)]
    [] fmt = "smil" -> <<Header("<?xml"), EmptyLine, Header("<smil")>> \o junk \o SmilOf(entries, how)
    [] fmt = "packets" -> <<Line("(smil-document", Len(entries), "", <<>>)>> \o PacketsOf(entries)
    [] fmt = "nsc" -> <<Header("[Address]")>> \o junk \o <<Line("Unicast URL", 0, entries[1].file, <<>>)>>
    [] fmt = "text" -> junk \o [i \in DOMAIN entries |-> Plain(entries[i].file)]

Lengthless(fmt, how) == fmt # "pls" \/ how = "no numbers"
Says(fmt, entries, how) ==
  LET all == IF fmt = "nsc" THEN <<entries[1]>> ELSE entries
      known == IF Lengthless(fmt, how) THEN [i \in DOMAIN all |-> Entry(all[i].file, "")] ELSE all
  IN IF fmt = "nsc" /\ entries = <<>> THEN <<>> ELSE known

\* What is played is what a playlist says, in its order, whatever its format, the lines between that
\* mean nothing, and when the stream tells its end.  A list of a known format that has no entries has
\* none: its lines are not the names of files.  A plain list is one only when the user says so.
PlaylistAsWritten(job) ==
  LET lines == Written(job.fmt, job.entries, job.how, job.junk)
      got == play_tree_parser_get_play_tree(lines, job.eof, job.forced, <<>>)
  IN got = IF job.fmt = "text" /\ ~job.forced THEN <<>> ELSE Says(job.fmt, job.entries, job.how)

\* A playlist in a plain list is played where it stands, and names that are not rooted are looked
\* for beside the list; those with a "\" in front are taken to be on its drive, wherever it is.
NestedAsWritten(job) ==
  LET inner == Written(job.fmt, job.entries, job.how, <<>>)
      lines == <<Plain("a"), Plain("in.ram"), Plain("/b")>>
      got == play_tree_parser_get_play_tree(lines, job.eof, TRUE, "in.ram" :> inner)
      beside == play_tree_add_bpf(got, [path |-> "dir/", drive |-> "di"])
  IN beside = <<Entry("dir/a", "")>>
              \o [i \in DOMAIN Says(job.fmt, job.entries, job.how) |->
                    LET e == Says(job.fmt, job.entries, job.how)[i] IN
                    [e EXCEPT !.file = IF @ \in Rooted THEN @ ELSE IF @ \in Backslash THEN "di" \o @ ELSE "dir/" \o @]]
              \o <<Entry("/b", "")>>
==============================================================================
