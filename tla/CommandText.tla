---------------------------- MODULE CommandText ----------------------------
(***************************************************************************)
(* The texts of input.c.  "commands": lines of commands that come in       *)
(* pieces through a descriptor (mp_input_read_cmd, read_events).           *)
(* "config": a file of key bindings read through a small buffer            *)
(* (mp_input_parse_config), and the global one after it when it is bad.    *)
(* "args": the arguments of one command (mp_input_parse_cmd).              *)
(*                                                                         *)
(* A text is a sequence of characters: letters, a blank, "n" and "r" that  *)
(* end a line, "#", a quote and a backslash.  Keys have names of one       *)
(* letter, every longer name is unknown.                                   *)
(***************************************************************************)
EXTENDS Integers, Sequences, SequencesExt, FiniteSetsExt

CONSTANTS
    CmdSize,      \* MP_CMD_MAX_SIZE
    BsMax,        \* BS_MAX
    Letters, MaxText, MaxValue
VARIABLES
    kind,         \* what is read
    text,         \* what was there in the beginning
    fpos,         \* how much of it was read
    buffer, eof,
    got_cmd, drop, commands,          \* mp_input_fd_t, and the lines handed on
    comments, keys, binds, file, res  \* mp_input_parse_config and its two files
textVars == <<kind, text, fpos, buffer, eof, got_cmd, drop, commands, comments, keys, binds, file, res>>

Global == <<"a", "_", "a", "n">>            \* the global file: key a is bound to a
Blank == {"_", "n", "r"}                    \* SPACE_CHAR
First(s, chars) == Min({i \in DOMAIN s : s[i] \in chars} \cup {Len(s) + 1})
After(s, i) == SubSeq(s, i + 1, Len(s))
Skip(s, chars) == After(s, Min({i \in DOMAIN s : s[i] \notin chars} \cup {Len(s) + 1}) - 1)
Ends(s) == LET E == {i \in DOMAIN s : s[i] \in {"n", "r"}}
           IN [n \in 1..Cardinality(E) |-> CHOOSE i \in E : Cardinality({j \in E : j <= i}) = n]
\* The lines that end in s, and what follows the last of them
Lines(s) == LET e == Ends(s)
            IN [i \in DOMAIN e |-> SubSeq(s, (IF i = 1 THEN 0 ELSE e[i - 1]) + 1, e[i] - 1)]
LastLine(s) == IF Ends(s) = <<>> THEN s ELSE After(s, Last(Ends(s)))

-----------------------------------------------------------------------------
(* Commands through a descriptor                                            *)

\* Seeded error: that there is one more line is not noted.
OneMoreNever(lines, skip) == FALSE
OneMore(lines, skip) == Len(lines) > skip + 1
\* mp_input_read_cmd once data has come: the first line is handed on, or dropped
\* with the rest of a line that did not fit; got_cmd tells of a second one.
Parsed(data) ==
    LET lines == Lines(data)
        skip  == IF drop /\ lines # <<>> THEN 1 ELSE 0
        full  == lines = <<>> /\ CmdSize - Len(data) <= 1
    IN IF Len(lines) > skip
       THEN /\ commands' = Append(commands, lines[skip + 1])
            /\ buffer' = After(data, Ends(data)[skip + 1])
            /\ got_cmd' = OneMore(lines, skip) /\ drop' = FALSE
       ELSE /\ UNCHANGED commands /\ got_cmd' = FALSE
            /\ buffer' = (IF full THEN <<>> ELSE LastLine(data))
            /\ drop' = ((drop /\ lines = <<>>) \/ full)
unchangedConfig == UNCHANGED <<kind, text, comments, keys, binds, file, res>>
\* read_events when select found the descriptor readable: some of what is there, or its end
ReadMore ==
    /\ kind = "commands" /\ ~got_cmd /\ ~eof
    /\ \E n \in 0..Min({Len(text) - fpos, CmdSize - 1 - Len(buffer)}) :
         /\ n = 0 => fpos = Len(text)
         /\ fpos' = fpos + n /\ eof' = (n = 0)
         /\ Parsed(buffer \o SubSeq(text, fpos + 1, fpos + n))
    /\ unchangedConfig
\* read_events when a line was left by the last call: nothing is read
ReadLeft ==
    /\ kind = "commands" /\ got_cmd
    /\ Parsed(buffer)
    /\ UNCHANGED <<fpos, eof>> /\ unchangedConfig

-----------------------------------------------------------------------------
(* A file of bindings                                                       *)

Content == IF file = "user" THEN text ELSE Global
\* What the buffer holds once it was filled
Filled == IF eof THEN buffer
          ELSE buffer \o SubSeq(Content, fpos + 1, Min({Len(Content), fpos + BsMax - 1 - Len(buffer)}))
IsKey(name) == Len(name) = 1
BsFull(b) == Len(b) >= BsMax - 1
unchangedCommands == UNCHANGED <<kind, text, got_cmd, drop, commands>>
\* One turn of the loop starts by filling the buffer
Turn ==
    /\ kind = "config" /\ res = -1
    /\ fpos' = fpos + Len(Filled) - Len(buffer)
    /\ eof' = (eof \/ (~BsFull(buffer) /\ Len(Filled) = Len(buffer)))
    /\ unchangedCommands
\* Both ways to leave the loop; a file that failed is followed by the global one
Stop(good) ==
    IF ~good /\ file = "user"
    THEN /\ file' = "global" /\ fpos' = 0 /\ eof' = FALSE /\ buffer' = <<>> /\ keys' = <<>>
         /\ comments' = FALSE /\ UNCHANGED <<res, binds>>
    ELSE /\ res' = (IF good THEN 1 ELSE 0)
         /\ fpos' = fpos + Len(Filled) - Len(buffer) /\ eof' = eof
         /\ buffer' = Filled /\ UNCHANGED <<comments, keys, binds, file>>
EndOfConfig ==
    /\ kind = "config" /\ res = -1 /\ Filled = <<>> /\ Stop(TRUE) /\ unchangedCommands
SkipComment ==
    /\ Turn /\ comments /\ Filled # <<>>
    /\ buffer' = After(Filled, First(Filled, {"n"}))
    /\ comments' = ("n" \notin Range(Filled))
    /\ UNCHANGED <<keys, binds, file, res>>

Word(s) == SubSeq(s, 1, First(s, Blank) - 1)
FindKey ==
    /\ Turn /\ ~comments /\ keys = <<>> /\ Filled # <<>>
    /\ LET iter == Skip(Filled, Blank)
       IN \/ iter = <<>> /\ buffer' = <<>> /\ UNCHANGED <<comments, keys>>
          \/ iter # <<>> /\ iter[1] = "#" /\ comments' = TRUE /\ buffer' = Filled /\ UNCHANGED keys
          \/ /\ iter # <<>> /\ iter[1] # "#" /\ Word(iter) = iter /\ iter # Filled
             /\ buffer' = iter /\ UNCHANGED <<comments, keys>>
          \/ /\ iter # <<>> /\ iter[1] # "#" /\ Word(iter) # iter /\ IsKey(Word(iter))
             /\ keys' = Word(iter) /\ buffer' = After(iter, Len(Word(iter)) + 1) /\ UNCHANGED comments
    /\ UNCHANGED <<binds, file, res>>
\* The buffer is too small for the name, or no key has it
BadKey ==
    /\ kind = "config" /\ res = -1 /\ ~comments /\ keys = <<>> /\ Filled # <<>>
    /\ LET iter == Skip(Filled, Blank)
       IN /\ iter # <<>> /\ iter[1] # "#"
          /\ IF Word(iter) = iter THEN iter = Filled ELSE ~IsKey(Word(iter))
    /\ Stop(FALSE) /\ unchangedCommands

EndOfLine(s) == First(s, {"n", "r"})
\* Seeded error: the first binding of a key stays.
bind_keys_once(k, cmd) == IF binds[k] = <<>> THEN [binds EXCEPT ![k] = cmd] ELSE binds
\* mp_input_bind_keys: another binding of the same keys replaces the first
bind_keys(k, cmd) == [binds EXCEPT ![k] = cmd]
FindCommand ==
    /\ Turn /\ ~comments /\ keys # <<>> /\ Filled # <<>>
    /\ LET iter == Skip(Filled, {"_"})
       IN \/ /\ EndOfLine(iter) = 1 /\ iter # <<>>           \* no command for the key
             /\ keys' = <<>> /\ buffer' = After(iter, 1) /\ UNCHANGED binds
          \/ /\ EndOfLine(iter) > Len(iter) /\ iter # Filled
             /\ buffer' = iter /\ UNCHANGED <<keys, binds>>
          \/ /\ EndOfLine(iter) \in 2..Len(iter)
             /\ binds' = bind_keys(keys[1], SubSeq(iter, 1, EndOfLine(iter) - 1))
             /\ keys' = <<>> /\ buffer' = After(iter, EndOfLine(iter))
    /\ UNCHANGED <<comments, file, res>>
BadCommand ==
    /\ kind = "config" /\ res = -1 /\ ~comments /\ keys # <<>> /\ Filled # <<>>
    /\ LET iter == Skip(Filled, {"_"}) IN EndOfLine(iter) > Len(iter) /\ iter = Filled
    /\ Stop(FALSE) /\ unchangedCommands

-----------------------------------------------------------------------------
(* The arguments of a command, all of them strings: [s, p, args], p being   *)
(* where the last one starts or, in quotes, where it ended, 0 for NULL      *)

\* Where the next argument starts, 0 when there is none
NextArg(s, p) ==
    LET blank == p - 1 + First(After(s, p - 1), {"_"})
        rest  == Skip(After(s, blank), {"_"})
    IN IF rest = <<>> \/ rest[1] = "#" THEN 0 ELSE Len(s) - Len(rest) + 1
\* Backslashes are taken out; what follows one stays
Unescaped(s) ==
    FoldLeft(LAMBDA st, c : IF c = "b" /\ ~st.esc THEN [st EXCEPT !.esc = TRUE]
                            ELSE [out |-> Append(st.out, c), esc |-> FALSE],
             [out |-> <<>>, esc |-> FALSE], s).out
\* Seeded error: a quote ends the argument, escaped or not.
ClosesAlways(s, start, i) == TRUE
Closes(s, start, i) == i = start \/ s[i - 1] # "b"
StringArg(st, p) ==
    LET quoted == st.s[p] = "q"
        start  == IF quoted THEN p + 1 ELSE p
        ends   == {i \in start..Len(st.s) :
                     st.s[i] = (IF quoted THEN "q" ELSE "_") /\ Closes(st.s, start, i)}
        e      == Min(ends \cup {Len(st.s) + 1})
        value  == Unescaped(SubSeq(st.s, start, e - 1))
    IN IF quoted /\ ends = {} THEN [st EXCEPT !.p = 0, !.args = Append(@, "NULL")]
       ELSE [s |-> SubSeq(st.s, 1, start - 1) \o value \o After(st.s, e - 1),
             p |-> IF quoted THEN start + Len(value) + 1 ELSE p,
             args |-> Append(st.args, value)]
parse_cmd(s, nargs) ==
    FoldLeft(LAMBDA st, i : LET p == IF st.p = 0 THEN 0 ELSE NextArg(st.s, st.p)
                            IN IF p = 0 THEN [st EXCEPT !.p = 0] ELSE StringArg(st, p),
             [s |-> s, p |-> 1, args |-> <<>>], [i \in 1..nargs |-> i]).args

-----------------------------------------------------------------------------
\* An argument as it is to be written: in quotes with backslashes, or as it is
Quote(v) == <<"q">> \o FoldLeft(LAMBDA s, c : IF c \in {"q", "b"} THEN s \o <<"b", c>> ELSE Append(s, c),
                              <<>>, v) \o <<"q">>
Written(v) == {Quote(v)} \cup (IF v # <<>> /\ Range(v) \cap {"_", "b"} = {} /\ v[1] \notin {"q", "#"}
                              THEN {v} ELSE {})
\* No argument ends with a backslash: its quote would pass for an escaped one.
Values == {v \in SeqOf({"a", "_", "q", "b", "#"}, MaxValue) : v = <<>> \/ Last(v) # "b"}

Init ==
    /\ \/ kind = "commands" /\ text \in SeqOf({"a", "n", "r"}, MaxText) /\ commands = <<>>
       \/ kind = "config" /\ text \in SeqOf(Letters \cup {"_", "n", "#"}, MaxText) /\ commands = <<>>
       \/ /\ kind = "args"
          /\ \E v, w \in Values : \E s \in Written(v), t \in Written(w) :
               commands = <<v, w>> /\ text = <<"a", "_">> \o s \o <<"_">> \o t
    /\ fpos = 0 /\ buffer = <<>> /\ eof = FALSE /\ got_cmd = FALSE /\ drop = FALSE
    /\ comments = FALSE /\ keys = <<>> /\ file = "user" /\ res = -1
    /\ binds = [k \in Letters |-> <<>>]
Next == \/ ReadMore \/ ReadLeft
        \/ EndOfConfig \/ SkipComment \/ FindKey \/ BadKey \/ FindCommand \/ BadCommand
Spec == Init /\ [][Next]_textVars

-----------------------------------------------------------------------------
(* Properties                                                               *)

\* What a file of bindings says, line by line: those of its lines up to the first bad
\* one.  Lines of a key alone are left out: the code takes their command from the next.
Parts(line) == LET l == Skip(line, {"_"}) IN [key |-> Word(l), cmd |-> Skip(After(l, Len(Word(l))), {"_"})]
Nothing(line) == LET l == Skip(line, {"_"}) IN l = <<>> \/ l[1] = "#"
Bad(line) == ~Nothing(line) /\ (~IsKey(Parts(line).key) \/ Len(Parts(line).cmd) >= BsMax - 1)
KeyAlone(line) == ~Nothing(line) /\ Parts(line).key = Skip(line, {"_"})
Said(s, from) ==
    FoldLeft(LAMBDA st, line :
               IF st.bad \/ Bad(line) THEN [st EXCEPT !.bad = TRUE]
               ELSE IF Nothing(line) \/ Parts(line).cmd = <<>> THEN st
               ELSE [st EXCEPT !.binds[Parts(line).key[1]] = Parts(line).cmd],
             [binds |-> from, bad |-> FALSE], Lines(s))
\* The last line counts only if nothing is missing in it
Incomplete(s) == LET l == LastLine(s) IN ~Nothing(l) /\ (Parts(l).cmd # <<>> \/ KeyAlone(l) \/ ~IsKey(Parts(l).key))

\* The lines that came through a descriptor are handed on in their order, and all but
\* those too long for the buffer; none waits in the buffer for more data to come.
LinesInOrder ==
    kind = "commands" =>
      LET short(l) == Len(l) < CmdSize - 1
          left == IF drop /\ Lines(buffer) # <<>> THEN Tail(Lines(buffer)) ELSE Lines(buffer)
      IN /\ commands \o left = SelectSeq(Lines(SubSeq(text, 1, fpos)), short)
         /\ ~got_cmd => Lines(buffer) = <<>>
\* However the buffer falls on the file, its bindings are in the end those of its lines,
\* and the global file is read over them exactly when it has a bad or incomplete one.
BindingsAsWritten ==
    kind = "config" /\ res # -1 /\ (\A i \in DOMAIN Lines(text) : ~KeyAlone(Lines(text)[i])) =>
      LET said == Said(text, [k \in Letters |-> <<>>])
      IN IF said.bad \/ Incomplete(text)
         THEN file = "global" /\ binds = Said(Global, said.binds).binds
         ELSE file = "user" /\ binds = said.binds
\* Arguments written in quotes and with backslashes reach the command as they are.
ArgumentsKept == kind = "args" => parse_cmd(text, 2) = commands

\* Lines, bindings and arguments are what was written.
TextsTrue == LinesInOrder /\ BindingsAsWritten /\ ArgumentsKept
=============================================================================
