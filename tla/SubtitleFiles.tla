--------------------------- MODULE SubtitleFiles ---------------------------
(***************************************************************************)
(* Files of subtitles (sub/subreader.c): the readers of their formats, the  *)
(* loop that calls them, what is done to the times of subtitles that end    *)
(* too late or overlap, and the texts that come with packets.               *)
(*                                                                         *)
(* A file is a sequence of lines.  A line is what its format's sscanf makes *)
(* of it, [t, start, end, text]: t is "time" for one with a start, and an   *)
(* end where the format has it; "blank"; "brace", the end of a subtitle of  *)
(* SubViewer 2; or "text", which is also what has no time.  text is the     *)
(* text on the line, as the pieces between its bars; "" is an empty one.    *)
(* Times are those the reader has multiplied.  All of it is operators.      *)
(***************************************************************************)
EXTENDS Integers, Sequences, SequencesExt, FiniteSetsExt

CONSTANTS
    MaxText,       \* SUB_MAX_TEXT
    FirstRoom,     \* subtitles there is room for before the array has to grow,
    MoreRoom,      \* and for how many more it then grows
    Long, Short,   \* 6 and 0.2 seconds
    MaxLine,       \* MAX_SUBLINE
    Word           \* 2 to the size of an unsigned long

-----------------------------------------------------------------------------
(* The readers.  Each starts at line i and gives the subtitle it found, the *)
(* line behind it and how that went: "sub", "eof" or "error".  carried is   *)
(* what it keeps from call to call: the time of MPSub, and which subtitle   *)
(* waits for its end.                                                       *)

Inline == {"microdvd", "mpl2", "vplayer", "rt"}
Min2(a, b) == IF a < b THEN a ELSE b
\* The first line from i on that the reader does not skip, Len(f) + 1 if there is none
Found(f, i, Good(_)) == LET at == {j \in i..Len(f) : Good(f[j])} IN IF at = {} THEN Len(f) + 1 ELSE Min(at)
HasTime(line) == line.t = "time"
Ended(c) == [how |-> "eof", sub |-> <<>>, i |-> 0, carried |-> c]
Error(c) == [Ended(c) EXCEPT !.how = "error"]
Read(start, end, text, i, c) ==
    [how |-> "sub", sub |-> [start |-> start, end |-> end, text |-> text], i |-> i, carried |-> c]
\* sub_readtext, set_multiline_text: bars that follow each other are one, but for those in front
Multiline(text) ==
    LET kept == SelectSeq([j \in DOMAIN text |-> [n |-> j, p |-> text[j]]], LAMBDA x : x.n = 1 \/ x.p # "")
    IN [j \in 1..Min2(Len(kept), MaxText) |-> kept[j].p]
Whole(line) == FoldLeft(LAMBDA a, b : a \o "|" \o b, Head(line.text), Tail(line.text))
\* Lines up to one that ends the text, or as many as there is room for
Block(fmt, f, i) ==
    LET last == Found(f, i, LAMBDA line : line.t = "blank" \/ (fmt = "subviewer2" /\ line.t = "brace")) - 1
        n    == Min2(last - i + 1, MaxText)
    IN [text |-> [j \in 1..n |-> Whole(f[i + j - 1])], i |-> IF n < MaxText THEN i + n + 1 ELSE i + n]

\* A text is on the line of its times; VPlayer passes over those at 0 or that start with a bar.
ReadInline(fmt, f, i, c) ==
    LET at == Found(f, i, LAMBDA line : HasTime(line) /\ (fmt = "vplayer" =>
                                             line.start # 0 /\ (line.text[1] # "" \/ Len(line.text) = 1)))
    IN IF at > Len(f) THEN Ended(c)
       ELSE LET end == CASE fmt = "vplayer" -> 0
                         [] fmt = "rt" /\ f[at].end = 0 -> f[at].start + 10 * Short
                         [] OTHER -> f[at].end
            IN Read(f[at].start, end, Multiline(f[at].text), at + 1, c)
\* The text is on the next line.  The last piece there is room for is never stored: "null".
ReadSubrip(f, i, c) ==
    LET at == Found(f, i, HasTime)
    IN IF at >= Len(f) THEN Ended(c)
       ELSE LET text == f[at + 1].text
            IN Read(f[at].start, f[at].end,
                    IF Len(text) < MaxText THEN text
                    ELSE [j \in 1..MaxText |-> IF j < MaxText THEN text[j] ELSE "null"], at + 2, c)
\* The text is on the lines that follow, and a subtitle without any is passed over.
RECURSIVE ReadBlock(_, _, _, _)
ReadBlock(fmt, f, i, c) ==
    LET at == Found(f, i, HasTime)
        b  == Block(fmt, f, at + 1)
    IN IF at > Len(f) THEN Ended(c)
       ELSE IF b.text = <<>> THEN ReadBlock(fmt, f, b.i, c)
       ELSE Read(f[at].start, IF fmt = "subviewer2" THEN 0 ELSE f[at].end, b.text, b.i, c)
\* Times count from the end of the subtitle before; one without a text, or
\* with as many lines as there is room for, ends the file.
ReadMpsub(f, i, c) ==
    LET at == Found(f, i, HasTime)
        start == c.position + f[at].start
        end   == start + f[at].end
        b     == Block("mpsub", f, at + 1)
    IN IF at > Len(f) THEN Ended(c)
       ELSE IF Len(b.text) \in {0, MaxText} THEN Ended([c EXCEPT !.position = end])
       ELSE Read(start, end, b.text, b.i, [c EXCEPT !.position = end])
ReadPjs(f, i, c) ==
    IF i > Len(f) \/ f[i].t = "blank" THEN Ended(c)
    ELSE IF f[i].t # "time" THEN Error(c)
    ELSE Read(f[i].start, f[i].end, <<Whole(f[i])>>, i + 1, c)
\* AQTitle and SubRip 0.9 say when a subtitle ends by the start of the next, or of one without
\* a text; ends is what is to be stored in the one before.  n is the number of this one.
RECURSIVE ReadUntilNext(_, _, _, _, _)
ReadUntilNext(fmt, f, i, n, c) ==
    LET at    == Found(f, i, HasTime)
        told  == IF c.waits = 0 THEN c ELSE [c EXCEPT !.ends = @ @@ (c.waits :> f[at].start - 1)]
        waits == [told EXCEPT !.waits = n]
        two   == fmt = "aqt" /\ at + 2 <= Len(f)
        text  == IF fmt # "aqt" THEN Multiline(f[at + 1].text)
                 ELSE <<f[at + 1].text[1]>> \o
                        (IF two THEN LET more == Multiline(f[at + 2].text)
                                     IN SubSeq(more, 1, Min2(Len(more), MaxText - 1)) ELSE <<>>)
        void  == IF fmt = "aqt" THEN two /\ text[1] = "" /\ text[2] = "" ELSE text[1] = "" /\ Len(text) = 1
        next  == IF fmt = "aqt" THEN (IF two THEN at + 3 ELSE Len(f) + 1) ELSE at + 2
    IN IF at > Len(f) THEN Ended(c)
       ELSE IF at = Len(f) THEN Ended(waits)
       ELSE IF void THEN ReadUntilNext(fmt, f, next, n, [waits EXCEPT !.waits = 0])
       ELSE Read(f[at].start, IF fmt = "aqt" THEN f[at].start ELSE 0, text, next, waits)

ReadNext(fmt, f, i, n, c) ==
    CASE fmt \in Inline -> ReadInline(fmt, f, i, c)
      [] fmt = "subrip" -> ReadSubrip(f, i, c)
      [] fmt \in {"subviewer", "subviewer2"} -> ReadBlock(fmt, f, i, c)
      [] fmt = "mpsub" -> ReadMpsub(f, i, c)
      [] fmt = "pjs" -> ReadPjs(f, i, c)
      [] OTHER -> ReadUntilNext(fmt, f, i, n, c)

-----------------------------------------------------------------------------
(* sub_read_file                                                            *)

Carried == [position |-> 0, waits |-> 0, ends |-> << >>]
\* Seeded error: the reader does not come back to the subtitle before.
StoredNever(subs, ends) == subs
Stored(subs, ends) == [j \in DOMAIN subs |-> IF j \in DOMAIN ends THEN [subs[j] EXCEPT !.end = ends[j]] ELSE subs[j]]
\* When the array grows it may move; what a reader still has to store goes to where it was.
Moved(c, n, moves) ==
    IF moves /\ n > FirstRoom /\ (n - FirstRoom - 1) % MoreRoom = 0 /\ c.waits > 0 THEN [c EXCEPT !.waits = -1] ELSE c
RECURSIVE ReadAll(_, _, _, _, _, _)
ReadOn(fmt, f, subs, r, moves) ==
    CASE r.how = "sub"   -> ReadAll(fmt, f, r.i, Append(subs, r.sub), r.carried, moves)
      [] r.how = "error" -> <<>>
      [] OTHER           -> Stored(subs, r.carried.ends)
ReadAll(fmt, f, i, subs, c, moves) ==
    LET n == Len(subs) + 1 IN ReadOn(fmt, f, subs, ReadNext(fmt, f, i, n, Moved(c, n, moves)), moves)
\* The subtitles of a file; none when a line is refused: it is not left out, as sub_errs counts.
SubtitlesOf(fmt, f, moves) == ReadAll(fmt, f, 1, <<>>, Carried, moves)

Length(a, b) == (b - a) % Word
\* adjust_subs_time.  With block set a subtitle ends before the next begins, if they overlap for
\* a short time only in the middle of it.  The times of all but the last are scaled.
AdjustedPair(sub, next, block) ==
    LET delta == sub.end - next.start
        near  == block /\ delta > 0 /\ delta <= Short
        s1    == IF near THEN [sub EXCEPT !.end = @ - (delta \div 2 + 1)] ELSE sub
        n1    == IF near THEN [next EXCEPT !.start = @ + delta - delta \div 2] ELSE next
        s2    == IF block /\ s1.end >= n1.start
                 THEN LET end == (n1.start - 1) % Word
                      IN [s1 EXCEPT !.end = IF Length(sub.start, end) > Long THEN sub.start + Long ELSE end]
                 ELSE s1
    IN <<s2, n1>>
WithEnd(sub) == IF sub.end <= sub.start THEN [sub EXCEPT !.end = sub.start + Long] ELSE sub
Scaled(sub, scale) == [sub EXCEPT !.start = @ * scale, !.end = @ * scale]
adjust_subs_time(subs, block, scale) ==
    FoldLeft(LAMBDA done, j :
        LET sub == WithEnd(done[j])
        IN IF j = Len(done) THEN [done EXCEPT ![j] = sub]
           ELSE LET pair == AdjustedPair(sub, done[j + 1], block)
                IN [done EXCEPT ![j] = Scaled(pair[1], scale), ![j + 1] = pair[2]],
        subs, [j \in DOMAIN subs |-> j])

-----------------------------------------------------------------------------
(* Overlapping subtitles are cut into pieces, in each of which the texts    *)
(* have lines of their own.  A block is subtitles f to f + a that hang      *)
(* together; lines is a function from the block's lines to who has them.    *)

RECURSIVE Hanging(_, _, _, _)
\* How many subtitles behind f start before the ones from f on have ended
Hanging(subs, f, a, end) ==
    IF f + a + 1 <= Len(subs) /\ subs[f + a + 1].start < end
    THEN Hanging(subs, f, a + 1, IF subs[f + a + 1].end > end THEN subs[f + a + 1].end ELSE end)
    ELSE a
Free == 0
\* The groups of blank lines: where they begin and how many lines they are
Groups(lines) ==
    {g \in [at : DOMAIN lines, len : 1..Cardinality(DOMAIN lines)] :
       LET end == g.at + g.len - 1
       IN /\ end \in DOMAIN lines /\ \A l \in g.at..end : lines[l] = Free
          /\ (g.at - 1 \in DOMAIN lines => lines[g.at - 1] # Free)
          /\ (end + 1 \in DOMAIN lines => lines[end + 1] # Free)}
First(groups) == CHOOSE g \in groups : \A h \in groups : g.at <= h.at
Smallest(groups) == First({g \in groups : \A h \in groups : g.len <= h.len})
\* The place for n lines: a group that is as large, then the smallest; 0 when there is none
Place(lines, n) ==
    LET last   == {g \in Groups(lines) : g.at + g.len - 1 = Cardinality(DOMAIN lines)}
        inner  == Groups(lines) \ last
        exact  == {g \in inner : g.len = n}
        larger == {g \in inner : g.len > n}
    IN IF exact # {} THEN First(exact).at
       ELSE IF \E g \in last : g.len >= n /\ \A h \in larger : g.len < h.len THEN First(last).at
       ELSE IF larger # {} THEN Smallest(larger).at ELSE 0
\* Seeded error: a subtitle gets new lines in each piece.
KeepNever(prev, j) == {}
Keep(prev, j) == {l \in DOMAIN prev : prev[l] = j}
\* The lines of one piece, from those of the piece before
LinesOf(subs, f, a, prev, start, end) ==
    FoldLeft(LAMBDA r, j :
        LET kept == Keep(prev, j)
            at   == Place(r.lines, Len(subs[j].text))
        IN IF r.full \/ subs[j].start > end \/ subs[j].end <= start THEN r
           ELSE IF kept # {} THEN [r EXCEPT !.lines = [l \in DOMAIN @ |-> IF l \in kept THEN j ELSE @[l]]]
           ELSE IF at = 0 THEN [r EXCEPT !.full = TRUE]
           ELSE [r EXCEPT !.lines = [l \in DOMAIN @ |-> IF l \in at..at + Len(subs[j].text) - 1 THEN j ELSE @[l]]],
        [lines |-> [l \in DOMAIN prev |-> Free], full |-> FALSE], [n \in 1..a + 1 |-> f + n - 1])
PieceEnd(subs, f, a, start, block_end) ==
    FoldLeft(LAMBDA end, j :
        IF subs[j].start - 1 > start /\ subs[j].start - 1 < end THEN subs[j].start - 1
        ELSE IF subs[j].end > start /\ subs[j].end < end THEN subs[j].end ELSE end,
        block_end, [n \in 1..a + 1 |-> f + n - 1])
\* How far the lines reach, from what is known of the pieces before
Reach(lines, high) ==
    LET gap == {l \in DOMAIN lines : l > high + 1 /\ lines[l] = Free}
    IN IF high + 2 > Cardinality(DOMAIN lines) THEN high
       ELSE IF gap = {} THEN Cardinality(DOMAIN lines) - 1 ELSE Min(gap) - 2
RECURSIVE PieceText(_, _, _)
PieceText(subs, lines, l) ==
    IF l > Min2(Cardinality(DOMAIN lines), MaxText) THEN <<>>
    ELSE IF lines[l] = Free THEN <<" ">> \o PieceText(subs, lines, l + 1)
    ELSE subs[lines[l]].text \o PieceText(subs, lines, l + Len(subs[lines[l]].text))
\* high is higher_line, which counts from 0
Piece(subs, lines, start, end) == [start |-> start, end |-> end, text |-> PieceText(subs, lines, 1)]
CutTo(pieces, reach) == [j \in DOMAIN pieces |-> [pieces[j] EXCEPT !.text = SubSeq(@, 1, Min2(reach + 1, Len(@)))]]
RECURSIVE Pieces(_, _, _, _, _, _, _, _)
\* What follows a piece up to end, its lines being r
PiecesFrom(subs, f, a, start, end, block_end, r, high, done) ==
    LET reach == IF r.full THEN MaxText + 1 ELSE Reach(r.lines, high)
        more  == Append(done, Piece(subs, r.lines, start, end))
    IN IF reach >= MaxText
       THEN [j \in DOMAIN done |-> [done[j] EXCEPT !.text = <<>>]] \o SubSeq(subs, f, f + a)
       ELSE IF end < block_end
       THEN Pieces(subs, f, a, end + 1, block_end, r.lines, reach, more)
       ELSE CutTo(more, reach)
Pieces(subs, f, a, start, block_end, prev, high, done) ==
    LET end == PieceEnd(subs, f, a, start, block_end)
    IN PiecesFrom(subs, f, a, start, end, block_end, LinesOf(subs, f, a, prev, start, end), high, done)
RECURSIVE Overlapped(_, _)
Overlapped(subs, f) ==
    IF f > Len(subs) THEN <<>>
    ELSE LET a     == Hanging(subs, f, 0, subs[f].end)
             n     == FoldLeft(LAMBDA sum, sub : sum + Len(sub.text), 0, SubSeq(subs, f, f + a))
             begin == Min({subs[j].start : j \in f..f + a})
             end   == Max({subs[j].end : j \in f..f + a})
         IN Pieces(subs, f, a, begin, end, [l \in 1..n |-> Free], 0, <<>>) \o Overlapped(subs, f + a + 1)

-----------------------------------------------------------------------------
(* The texts that come with packets: characters, made to lines that each    *)
(* know when they end.  NoPts is a line's end when it has none.             *)

NoPts == -1
RECURSIVE AddFrom(_, _, _, _, _)
\* What stands between < and > or { and } is no text; \n and what follows MaxLine begin a line.
AddFrom(txt, i, comment, done, buf) ==
    LET c       == txt[i]
        opened  == comment \cup ({c} \cap {"<", "{"})
        closed  == opened \ (CASE c = ">" -> {"<"} [] c = "}" -> {"{"} [] OTHER -> {})
        full    == Len(buf) = MaxLine - 1
        escaped == c = "\\" /\ i < Len(txt) /\ ~full
        char    == IF escaped THEN txt[i + 1] ELSE c
        next    == IF full THEN i ELSE IF escaped THEN i + 2 ELSE i + 1
        newline == full \/ char = "\n" \/ (escaped /\ char = "n")
    IN IF i > Len(txt) THEN <<done, buf>>
       ELSE IF opened # {} THEN AddFrom(txt, i + 1, closed, done, buf)
       ELSE IF ~newline THEN AddFrom(txt, next, {}, done, Append(buf, char))
       ELSE IF buf = <<>> THEN AddFrom(txt, next, {}, done, buf)
       ELSE IF Len(done) >= MaxText - 1 THEN <<done, buf>>
       ELSE AddFrom(txt, next, {}, Append(done, buf), <<>>)
\* A line that is the same as the one before is not added, but that one may last longer.
sub_add_text(sub, txt, endpts) ==
    LET r     == AddFrom(txt, 1, {}, [j \in DOMAIN sub |-> sub[j].text], <<>>)
        texts == IF r[2] = <<>> THEN r[1] ELSE Append(r[1], r[2])
        all   == [j \in DOMAIN texts |->
                    [text |-> texts[j], endpts |-> IF j <= Len(sub) THEN sub[j].endpts ELSE endpts]]
        n     == Len(all)
    IN IF Len(sub) >= MaxText THEN sub
       ELSE IF n > 1 /\ all[n].text = all[n - 1].text
       THEN [Front(all) EXCEPT ![n - 1].endpts = Max({@, all[n].endpts})]
       ELSE all
sub_clear_text(sub, pts) ==
    SelectSeq(sub, LAMBDA line : ~(pts = NoPts \/ (line.endpts # NoPts /\ pts >= line.endpts)))

-----------------------------------------------------------------------------
(* Properties.  The times and texts of the subtitles given to them are in   *)
(* `subs`.                                                                  *)

Line(t, start, end, text) == [t |-> t, start |-> start, end |-> end, text |-> text]
Blank == Line("blank", 0, 0, <<"">>)
One(text) == Line("text", 0, 0, text)
\* Subtitle j of subs as a program that knows the format writes it
WrittenSub(fmt, subs, j) ==
    LET sub  == subs[j]
        line == Line("time", sub.start, sub.end, sub.text)
        body == [n \in DOMAIN sub.text |-> One(<<sub.text[n]>>)]
        void == j = Len(subs) \/ subs[j + 1].start > sub.end + 1
        from == IF j = 1 THEN 0 ELSE subs[j - 1].end
        at(t) == Line("time", t, 0, <<"time">>)
    IN CASE fmt \in Inline -> <<line>>
         [] fmt = "pjs" -> <<[line EXCEPT !.text = <<Head(@)>>]>>
         [] fmt = "subrip" -> <<line, One(sub.text)>>
         [] fmt = "subviewer" -> <<line>> \o body \o <<Blank>>
         [] fmt = "subviewer2" -> <<line>> \o body \o <<Line("brace", 0, 0, <<"}">>)>>
         [] fmt = "mpsub" -> <<Line("time", sub.start - from, sub.end - sub.start, <<"time">>)>> \o body \o <<Blank>>
         [] fmt = "aqt" -> <<at(sub.start), One(<<Head(sub.text)>>),
                             One(IF Len(sub.text) = 1 THEN <<"">> ELSE Tail(sub.text))>>
                           \o (IF void THEN <<at(sub.end + 1), Blank, Blank>> ELSE <<>>)
         [] OTHER -> <<at(sub.start), One(sub.text)>> \o (IF void THEN <<at(sub.end + 1), Blank>> ELSE <<>>)
\* Between the subtitles there are lines that mean nothing, which only PJS does not allow.
Written(fmt, subs, junk) ==
    FlattenSeq([j \in DOMAIN subs |-> (IF fmt = "pjs" THEN <<>> ELSE junk) \o WrittenSub(fmt, subs, j)])
\* What there is to say of a subtitle in the format
Told(fmt, sub) ==
    CASE fmt \in {"vplayer", "subviewer2"} -> [sub EXCEPT !.end = 0]
      [] fmt = "rt" /\ sub.end = 0 -> [sub EXCEPT !.end = sub.start + 10 * Short]
      [] fmt = "pjs" -> [sub EXCEPT !.text = <<Head(@)>>]
      [] fmt = "aqt" /\ Len(sub.text) = 1 -> [sub EXCEPT !.text = @ \o <<"">>]
      [] OTHER -> sub
\* However times and texts are spread over the lines, whatever stands between them and however
\* one subtitle's end is the start of the next, reading a file gives what was written to it.
ReadAsWritten(fmt, subs, junk, moves) ==
    SubtitlesOf(fmt, Written(fmt, subs, junk), moves) = [j \in DOMAIN subs |-> Told(fmt, subs[j])]

\* Where subtitles begin in order and not too close to each other, and each is on the screen
\* alone, they end before the next begins and not before they began.
TimesFit(subs) ==
    LET a == adjust_subs_time(subs, TRUE, 1) IN
    /\ Len(a) = Len(subs)
    /\ \A j \in DOMAIN a : a[j].start <= a[j].end /\ (j > 1 => a[j - 1].end < a[j].start)

\* The first line of text in the piece, 0 when it does not have it
LineOf(piece, text) ==
    LET at == {n \in DOMAIN piece.text : SubSeq(piece.text, n, Min2(n + Len(text) - 1, Len(piece.text))) = text}
    IN IF at = {} THEN 0 ELSE Min(at)
\* At each time a subtitle lasts its text is in the piece shown, and on the same lines as in
\* the piece before.
Steady(subs, pieces) ==
    \A sub \in ToSet(subs) :
         /\ \A t \in sub.start..sub.end - 1 :
              \E p \in ToSet(pieces) : t \in p.start..p.end /\ LineOf(p, sub.text) > 0
         /\ \A n \in 2..Len(pieces) :
              LET l == LineOf(pieces[n], sub.text) before == LineOf(pieces[n - 1], sub.text)
              IN l > 0 /\ before > 0 => l = before
OverlapShows(subs) == LET a == adjust_subs_time(subs, FALSE, 1) IN Steady(a, Overlapped(a, 1))

\* Lines as they are sent: what would mean something else is escaped, with `tag` before each of
\* them and `brk` behind
Sent(lines, tag, brk) ==
    FlattenSeq([n \in DOMAIN lines |->
        tag \o FlattenSeq([k \in DOMAIN lines[n] |->
                  IF lines[n][k] \in {"<", "{", "\\"} THEN <<"\\", lines[n][k]>> ELSE <<lines[n][k]>>]) \o brk])
\* However a text is marked up, its lines are shown, each as long as it is told to be and no
\* longer, and a line that is sent again instead of ending stays for the longer time.
TextsLast(sent, tag, brk) ==
    LET Sum(sub, m) == sub_add_text(sub, Sent(m.lines, tag, brk), m.endpts)
        ends(line)  == {m.endpts : m \in {x \in ToSet(sent) : line \in ToSet(x.lines)}}
        all         == FlattenSeq([n \in DOMAIN sent |-> sent[n].lines])
        again       == {n \in 2..Len(all) : all[n] = all[n - 1]}
    IN \A t \in 0..4 :
         LET left == [n \in DOMAIN all |-> [line |-> all[n], on |-> n \notin again /\ Max(ends(all[n])) > t]]
             kept == SelectSeq(left, LAMBDA x : x.on)
             sub  == sub_clear_text(FoldLeft(Sum, <<>>, sent), t)
         IN [n \in DOMAIN sub |-> sub[n].text] = [n \in DOMAIN kept |-> kept[n].line]
=============================================================================
