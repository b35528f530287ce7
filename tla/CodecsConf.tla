----------------------------- MODULE CodecsConf -----------------------------
(***************************************************************************)
(* The reading of codecs.conf (codec-cfg.c) and the files it is looked for  *)
(* in (mpcommon.c).                                                        *)
(*                                                                         *)
(* A file is a sequence of lines, a line the sequence of its words without  *)
(* what is behind a ; or #, and a word the sequence of what stands between  *)
(* its commas.  Every line has its newline and fits the buffer.             *)
(***************************************************************************)
EXTENDS Integers, Sequences, SequencesExt, FiniteSetsExt

CONSTANTS
    MaxFourcc, MaxOutfmt,   \* CODECS_MAX_FOURCC, CODECS_MAX_OUTFMT, which is taken for `in` as well
    Numbers,                \* the words that are numbers
    Formats,                \* the names in fmt_table
    Names,                  \* what consists of letters and digits only
    Release                 \* a release number that is not outdated

Types == {"audiocodec", "videocodec"}
OutFlags == {"flip", "noflip", "yuvhack", "query", "static"}
CpuFlags == {"mmx", "sse", "3dnow"}
Flags == {"seekable", "align16", "dummy"}
Statuses == {"crashing", "buggy", "working", "untested"}
Blank == [name |-> "", info |-> "", drv |-> "", dll |-> "", fourcc |-> <<>>, out |-> <<>>, in |-> <<>>,
          flags |-> {}, cpuflags |-> {}, status |-> "buggy", comment |-> <<>>]

-----------------------------------------------------------------------------
(* get_token                                                                *)

\* The place in the file: the line, the words of it that were read, and whether the next is due
Start == [l |-> 0, k |-> 0, next |-> TRUE]
get_token(f, at, min, max) ==
    LET l    == IF at.next THEN at.l + 1 ELSE at.l
        k    == IF at.next THEN 0 ELSE at.k
        left == IF l > Len(f) THEN 0 ELSE Len(f[l]) - k
        n    == IF left < max THEN left ELSE max
    IN IF l > Len(f) THEN [how |-> "eof", words |-> <<>>, at |-> at]
       ELSE [how |-> IF n >= min THEN "ok" ELSE "eol",
             words |-> SubSeq(f[l], k + 1, k + n),
             at |-> [l |-> l, k |-> k + n, next |-> n < max]]
RECURSIVE Keyword(_, _)
\* The next word, whatever the line
Keyword(f, at) == LET t == get_token(f, at, 1, 1) IN IF t.how = "eol" THEN Keyword(f, t.at) ELSE t

-----------------------------------------------------------------------------
(* What a statement makes of the codec it is in; "bad" when it is refused.  *)
(* word is its first argument, alias the second, <<>> when there is none.   *)

Bad == [ok |-> FALSE, codec |-> Blank]
Good(codec) == [ok |-> TRUE, codec |-> codec]
Codes(list) == {list[j].code : j \in DOMAIN list}
Entries(items, map) ==
    [j \in DOMAIN items |-> [code |-> items[j], map |-> IF map = <<>> THEN items[j] ELSE map[1]]]
\* Seeded error: only the codes of the statements before are compared.
add_to_fourcc_before(codec, word, alias) ==
    IF Len(codec.fourcc) + Len(word) > MaxFourcc \/ ToSet(word) \cap Codes(codec.fourcc) # {} THEN Bad
    ELSE Good([codec EXCEPT !.fourcc = @ \o Entries(word, alias)])
add_to_fourcc(codec, word, alias) ==
    IF \/ Len(codec.fourcc) + Len(word) > MaxFourcc
       \/ ToSet(word) \cap Codes(codec.fourcc) # {} \/ ~IsInjective(word) THEN Bad
    ELSE Good([codec EXCEPT !.fourcc = @ \o Entries(word, alias)])
add_to_format(codec, word, alias) ==
    IF \/ Len(codec.fourcc) = MaxFourcc \/ Len(word) # 1 \/ word[1] \notin Numbers
       \/ alias # <<>> /\ (Len(alias) # 1 \/ alias[1] \notin Numbers)
       \/ word[1] \in Codes(codec.fourcc) THEN Bad
    ELSE Good([codec EXCEPT !.fourcc = @ \o Entries(word, alias)])
AddedInout(list, word, flags) ==
    list \o [j \in DOMAIN word |-> [fmt |-> word[j], flags |-> ToSet(flags)]]
add_to_inout(list, word, flags) ==
    Len(list) + Len(word) <= MaxOutfmt /\ ToSet(flags) \subseteq OutFlags /\ ToSet(word) \subseteq Formats
IsNumber(word) == word[1] \in Numbers /\ (Len(word) = 1 \/ (Len(word) = 2 /\ word[2] = ""))

Statement(codec, key, args) ==
    LET word  == args[1]
        alias == IF Len(args) > 1 THEN args[2] ELSE <<>>
    IN CASE key = "info" -> IF codec.info # "" THEN Bad ELSE Good([codec EXCEPT !.info = word[1]])
         [] key = "comment" -> Good(codec)
         [] key = "fourcc" -> add_to_fourcc(codec, word, alias)
         [] key = "format" -> add_to_format(codec, word, alias)
         [] key = "driver" -> Good([codec EXCEPT !.drv = word[1]])
         [] key = "dll" -> Good([codec EXCEPT !.dll = word[1]])
         [] key = "guid" -> IF \A j \in DOMAIN args : IsNumber(args[j]) THEN Good(codec) ELSE Bad
         [] key = "out" -> IF add_to_inout(codec.out, word, alias)
                           THEN Good([codec EXCEPT !.out = AddedInout(@, word, alias)]) ELSE Bad
         [] key = "in" -> IF add_to_inout(codec.in, word, alias)
                          THEN Good([codec EXCEPT !.in = AddedInout(@, word, alias)]) ELSE Bad
         [] key = "flags" -> IF word[1] \in Flags THEN Good([codec EXCEPT !.flags = @ \cup {word[1]}]) ELSE Bad
         [] key = "status" -> IF word[1] \in Statuses THEN Good([codec EXCEPT !.status = word[1]]) ELSE Bad
         [] key = "cpuflags" -> IF ToSet(word) \subseteq CpuFlags THEN Good([codec EXCEPT !.cpuflags = ToSet(word)]) ELSE Bad
         [] OTHER -> Bad
MinMax(key) == CASE key \in {"fourcc", "format", "out", "in"} -> <<1, 2>>
                 [] key = "guid" -> <<11, 11>>
                 [] OTHER -> <<1, 1>>

validate_codec(codec) ==
    [ok |-> codec.name \in Names /\ codec.drv # "",
     codec |-> IF codec.info = "" THEN [codec EXCEPT !.info = codec.name] ELSE codec]

-----------------------------------------------------------------------------
(* parse_codec_cfg                                                          *)

NoCodecs == [type \in Types |-> <<>>]
Refused == [ok |-> FALSE, codecs |-> NoCodecs]
\* The comments are given to a codec when the next one begins: the last codec has none.
Closed(codec, comment) == validate_codec([codec EXCEPT !.comment = comment])
RECURSIVE Codecs(_, _, _, _, _)
\* Reads on at `at`, in the last codec of done[type]; type is "" before the first.
Codecs(f, at, done, type, comment) ==
    LET t     == Keyword(f, at)
        key   == t.words[1][1]
        args  == get_token(f, t.at, MinMax(key)[1], MinMax(key)[2])
        codec == Last(done[type])
        close == Closed(codec, comment)
        kept  == IF type = "" THEN done ELSE [done EXCEPT ![type] = Front(@) \o <<close.codec>>]
        last  == validate_codec(codec)
        new   == Statement(codec, key, args.words)
    IN IF t.how = "eof"
       THEN IF last.ok THEN [ok |-> TRUE, codecs |-> [done EXCEPT ![type] = Front(@) \o <<last.codec>>]] ELSE Refused
       ELSE IF key \in Types
       THEN IF \/ type # "" /\ ~close.ok
               \/ args.how # "ok"
               \/ \E j \in DOMAIN kept[key] : kept[key][j].name = args.words[1][1] THEN Refused
            ELSE Codecs(f, args.at, [kept EXCEPT ![key] = Append(@, [Blank EXCEPT !.name = args.words[1][1]])], key, <<>>)
       ELSE IF args.how # "ok" \/ ~new.ok THEN Refused
       ELSE Codecs(f, args.at, [done EXCEPT ![type] = Front(@) \o <<new.codec>>], type,
                   IF key = "comment" THEN Append(comment, args.words[1][1]) ELSE comment)

parse_codec_cfg(f) ==
    LET t   == Keyword(f, Start)
        num == get_token(f, t.at, 1, 2)
        t2  == Keyword(f, num.at)
    IN IF t.how = "eof" THEN [ok |-> TRUE, codecs |-> NoCodecs]
       ELSE IF t.words[1][1] # "release" \/ num.how # "ok" \/ num.words[1][1] # Release THEN Refused
       ELSE IF t2.how = "eof" THEN [ok |-> TRUE, codecs |-> NoCodecs]
       ELSE IF t2.words[1][1] \notin Types THEN Refused
       ELSE Codecs(f, num.at, NoCodecs, "", <<>>)

\* common_init: the first of the files that is there and is not refused, or what is built in
ReadCodecs(files, builtin) ==
    LET read == {n \in DOMAIN files : files[n].there /\ parse_codec_cfg(files[n].lines).ok}
    IN IF read = {} THEN builtin ELSE parse_codec_cfg(files[Min(read)].lines).codecs

-----------------------------------------------------------------------------
(* Properties.  A block is a codec as it should be written: its type, its   *)
(* name and its statements, [key, args], each on a line of its own.         *)

Stmts(b, keys) == SelectSeq(b.stmts, LAMBDA s : s.key \in keys)
LastOf(stmts, default) == IF stmts = <<>> THEN default ELSE Last(stmts).args[1][1]
Alias(s) == IF Len(s.args) > 1 THEN s.args[2] ELSE <<>>
Listed(b, key) == FlattenSeq([j \in DOMAIN Stmts(b, {key}) |->
                     AddedInout(<<>>, Stmts(b, {key})[j].args[1], Alias(Stmts(b, {key})[j]))])
\* What a block says, and whether it says it well
Meaning(b, isLast) ==
    [name     |-> b.name,
     info     |-> LastOf(Stmts(b, {"info"}), b.name),
     drv      |-> LastOf(Stmts(b, {"driver"}), ""),
     dll      |-> LastOf(Stmts(b, {"dll"}), ""),
     fourcc   |-> FlattenSeq([j \in DOMAIN Stmts(b, {"fourcc", "format"}) |->
                     Entries(Stmts(b, {"fourcc", "format"})[j].args[1], Alias(Stmts(b, {"fourcc", "format"})[j]))]),
     out      |-> Listed(b, "out"), in |-> Listed(b, "in"),
     flags    |-> {Stmts(b, {"flags"})[j].args[1][1] : j \in DOMAIN Stmts(b, {"flags"})},
     cpuflags |-> IF Stmts(b, {"cpuflags"}) = <<>> THEN {} ELSE ToSet(Last(Stmts(b, {"cpuflags"})).args[1]),
     status   |-> LastOf(Stmts(b, {"status"}), "buggy"),
     comment  |-> IF isLast THEN <<>> ELSE [j \in DOMAIN Stmts(b, {"comment"}) |-> Stmts(b, {"comment"})[j].args[1][1]]]
WellFormed(s) ==
    /\ s.key \in {"info", "comment", "fourcc", "format", "driver", "dll", "out", "in", "flags", "status", "cpuflags"}
    /\ Len(s.args) \in {MinMax(s.key)[1], MinMax(s.key)[2]}
    /\ s.key = "format" => \A a \in ToSet(s.args) : Len(a) = 1 /\ a[1] \in Numbers
WellSaid(b) ==
    /\ \A j \in DOMAIN b.stmts : WellFormed(b.stmts[j])
    /\ LET m == Meaning(b, TRUE) IN
       /\ b.name \in Names /\ m.drv # "" /\ Len(Stmts(b, {"info"})) <= 1
       /\ IsInjective([j \in DOMAIN m.fourcc |-> m.fourcc[j].code]) /\ Len(m.fourcc) <= MaxFourcc
       /\ \A l \in {m.out, m.in} : Len(l) <= MaxOutfmt /\ \A j \in DOMAIN l : l[j].fmt \in Formats /\ l[j].flags \subseteq OutFlags
       /\ m.flags \subseteq Flags /\ m.status \in Statuses /\ m.cpuflags \subseteq CpuFlags
Line(s) == <<<<s.key>>>> \o s.args
File(blocks) == <<<<>>, <<<<"release">>, <<Release>>>>>> \o
    FlattenSeq([n \in DOMAIN blocks |->
        <<<<<<blocks[n].type>>, <<blocks[n].name>>>>, <<>>>> \o [j \in DOMAIN blocks[n].stmts |-> Line(blocks[n].stmts[j])]])
OfType(blocks, type) == SelectSeq([n \in DOMAIN blocks |-> [b |-> blocks[n], last |-> n = Len(blocks)]], LAMBDA x : x.b.type = type)
\* Of a file that says each codec well, and none twice, all codecs are known as they are written,
\* in their order and apart from each other, but for the comments of the last one; of any other
\* none is, and the next file is read.
CodecsAsWritten(blocks, builtin) ==
    LET good == /\ blocks # <<>> /\ \A n \in DOMAIN blocks : WellSaid(blocks[n])
                /\ \A n, k \in DOMAIN blocks : blocks[n].type = blocks[k].type /\ blocks[n].name = blocks[k].name => n = k
        told == [type \in Types |-> LET bs == OfType(blocks, type)
                                    IN [n \in DOMAIN bs |-> Meaning(bs[n].b, bs[n].last)]]
    IN ReadCodecs(<<[there |-> FALSE, lines |-> <<>>], [there |-> TRUE, lines |-> File(blocks)]>>, builtin)
         = IF blocks = <<>> THEN NoCodecs ELSE IF good THEN told ELSE builtin
=============================================================================
