----------------------------- MODULE Properties -----------------------------
(***************************************************************************)
(* The properties of the player (m_property.c, command.c), the commands     *)
(* that set them, the texts they are put into, and the mixer (mixer.c).     *)
(*                                                                         *)
(* What the player is, p, is a record of the settings that have a variable  *)
(* of their own (val, in hundredths for numbers with a fraction), the mixer *)
(* and what is asked of the main loop: a seek and a pause.  Volumes, times  *)
(* and percentages are integers.  Handlers give back [r, out, p].           *)
(***************************************************************************)
EXTENDS OptionTypes

OK == 1
ERROR == 0
UNAVAILABLE == -1
NOT_IMPLEMENTED == -2
UNKNOWN == -3
NullRead == -100      \* not a result: the handler writes through the pointer it was not given
NoArg == -1000000     \* no pointer to a value
Given == 1000001      \* a pointer to somewhere
NoText == <<>>        \* a handler that does not print
VolStep == 3
Ret(r, out, p) == [r |-> r, out |-> out, p |-> p]
Leaving(p, got) == Ret(got.r, got.out, p)

\* The properties; those of tracks and subtitles are in other modules
Prop(how, type, lo, hi) == [how |-> how, type |-> type, min |-> lo, max |-> hi]
mp_properties ==
    "osdlevel" :> Prop("choice", "int", 0, 3) @@ "loop" :> Prop("loop", "int", -1, Unlimited) @@
    "speed" :> Prop("float", "float", 1, 10000) @@ "filename" :> Prop("string", "string", Unlimited, Unlimited) @@
    "stream_start" :> Prop("offset", "position", 0, Unlimited) @@ "length" :> Prop("time_ro", "time", 0, Unlimited) @@
    "percent_pos" :> Prop("percent", "int", 0, 100) @@ "time_pos" :> Prop("time", "time", 0, Unlimited) @@
    "title" :> Prop("metadata", "string", Unlimited, Unlimited) @@ "pause" :> Prop("pause", "flag", 0, 1) @@
    "volume" :> Prop("volume", "float", 0, 100) @@ "mute" :> Prop("mute", "flag", 0, 1) @@
    "audio_delay" :> Prop("audio_delay", "float", -10000, 10000) @@ "channels" :> Prop("channels", "int", Unlimited, Unlimited) @@
    "balance" :> Prop("balance", "float", -100, 100) @@ "fullscreen" :> Prop("vo_flag", "flag", 0, 1) @@
    "framedropping" :> Prop("choice", "int", 0, 2) @@ "gamma" :> Prop("none", "int", -100, 100) @@
    "vsync" :> Prop("flag", "flag", 0, 1) @@ "sub_delay" :> Prop("delay", "float", Unlimited, Unlimited) @@
    "sub_pos" :> Prop("int", "int", 0, 100) @@ "sub_alignment" :> Prop("choice", "int", 0, 2) @@
    "sub_visibility" :> Prop("flag", "flag", 0, 1) @@ "sub_scale" :> Prop("float", "float", 0, 10000)
WithVideo == {"framedropping", "gamma", "sub_delay", "sub_visibility", "sub_alignment"}
WithAudio == {"volume", "mute", "channels", "balance"}
Available(p, name) ==
    /\ name \in WithVideo => p.video
    /\ name \in WithAudio => p.audio
    /\ name = "balance" => p.channels >= 2
    /\ name = "audio_delay" => p.audio /\ p.video
    /\ name = "time_pos" => p.audio \/ p.video
    /\ name = "fullscreen" => p.video_out
    /\ name = "filename" => p.filename # <<>>
    /\ name = "length" => p.length > 0
Hundredths(prop) == IF prop.type = "float" /\ prop.how # "volume" THEN 100 ELSE 1
\* m_option's view: limits and values in whole numbers
InWholes(prop) == [prop EXCEPT !.min = IF @ = Unlimited THEN @ ELSE @ \div Hundredths(prop),
                            !.max = IF @ = Unlimited THEN @ ELSE @ \div Hundredths(prop)]

-----------------------------------------------------------------------------
(* The generic properties: [r, out, v], v being the variable afterwards.    *)

Res(r, out, v) == [r |-> r, out |-> out, v |-> v]
Now(v) == Res(OK, v, v)
Clamp(prop, v) ==
    IF prop.min # Unlimited /\ v < prop.min THEN prop.min
    ELSE IF prop.max # Unlimited /\ v > prop.max THEN prop.max ELSE v
Step(prop, v, action, amount) == Clamp(prop, IF action = "step_down" THEN v - amount ELSE v + amount)
ReadOnly(action, arg, v, print) ==
    IF action = "print" /\ print # NoText THEN Res(OK, print, v)
    ELSE IF action # "get" THEN Res(NOT_IMPLEMENTED, v, v)
    ELSE IF arg = NoArg THEN Res(ERROR, v, v) ELSE Res(OK, v, v)
\* m_property_int_range and m_property_float_range, with what a step is unless it is told
Ranged(prop, action, arg, v, one, print) ==
    IF action = "set" /\ arg = NoArg THEN Res(ERROR, v, v)
    ELSE IF action = "set" THEN Now(Clamp(prop, arg))
    ELSE IF action \in {"step_up", "step_down"} THEN Now(Step(prop, v, action, IF arg = NoArg THEN one ELSE arg))
    ELSE ReadOnly(action, arg, v, print)
\* The next and the one before, round about
m_property_choice(prop, action, arg, v, print) ==
    CASE action = "step_up" -> Now((v + 1) % (prop.max + 1))
      [] action = "step_down" -> Now((v + prop.max) % (prop.max + 1))
      [] OTHER -> Ranged(prop, action, arg, v, 1, print)
OnOff(prop, v) == IF v > prop.min THEN <<"enabled">> ELSE <<"disabled">>
m_property_flag(prop, action, arg, v) ==
    IF action \in {"step_up", "step_down"} THEN Now(IF v = prop.min THEN prop.max ELSE prop.min)
    ELSE Ranged(prop, action, arg, v, 1, OnOff(prop, v))
PrintDelay(v) == print_int(10 * v) \o <<" ms">>
TwoDigits(n) == IF n < 10 THEN <<"0">> \o Digits(n) ELSE Digits(n)
PrintTime(s) ==
    LET h == s \div 3600
        m == (s - 3600 * h) \div 60
        rest == s - 3600 * h - 60 * m
    IN IF h > 0 THEN Digits(h) \o <<":">> \o TwoDigits(m) \o <<":">> \o TwoDigits(rest)
       ELSE IF m > 0 THEN Digits(m) \o <<":">> \o TwoDigits(rest) ELSE Digits(rest)

-----------------------------------------------------------------------------
(* The mixer.  how is "card" when the card has a volume, "filter" when the  *)
(* volume filter is used in its place, "none" when that cannot be had.      *)

mixer_setvolume(m, l, r) ==
    IF m.how = "none" THEN [m EXCEPT !.muted = 0] ELSE [m EXCEPT !.l = l, !.r = r, !.muted = 0]
Up(v) == IF v + VolStep > 100 THEN 100 ELSE v + VolStep
Down(v) == IF v - VolStep < 0 THEN 0 ELSE v - VolStep
mixer_incvolume(m) == mixer_setvolume(m, Up(m.l), Up(m.r))
mixer_decvolume(m) == mixer_setvolume(m, Down(m.l), Down(m.r))
Both(m) == (m.l + m.r) \div 2
\* Unmuting to 0 makes no sense
Audible(v) == IF v = 0 THEN 100 ELSE v
mixer_mute(m) ==
    IF m.muted = 1
    THEN mixer_setvolume([m EXCEPT !.last_l = Audible(@), !.last_r = Audible(@)], Audible(m.last_l), Audible(m.last_r))
    ELSE [mixer_setvolume([m EXCEPT !.last_l = m.l, !.last_r = m.r], 0, 0) EXCEPT !.muted = 1]

mp_property_volume(prop, action, arg, p) ==
    LET told == [p EXCEPT !.user_muted = 0]
        up == (action = "step_up") = (arg = NoArg \/ arg > 0)
    IN CASE action = "get" -> IF arg = NoArg THEN Ret(ERROR, NoArg, p) ELSE Ret(OK, Both(p.mixer), p)
         [] action = "print" -> Ret(OK, print_double(<<Both(p.mixer), 1>>), p)
         [] action = "set" -> IF arg = NoArg THEN Ret(ERROR, NoArg, told)
                              ELSE Ret(OK, NoArg, [told EXCEPT !.mixer = mixer_setvolume(@, Clamp(prop, arg), Clamp(prop, arg))])
         [] action \in {"step_up", "step_down"} ->
              Ret(OK, NoArg, [told EXCEPT !.mixer = IF up THEN mixer_incvolume(@) ELSE mixer_decvolume(@)])
         [] OTHER -> Ret(NOT_IMPLEMENTED, NoArg, p)
Muted(p, m) == Ret(OK, m.muted, [p EXCEPT !.mixer = m, !.user_muted = m.muted])
mp_property_mute(prop, action, arg, p) ==
    CASE action = "set" /\ arg = NoArg -> Ret(ERROR, NoArg, p)
      [] action = "set" -> Muted(p, IF (arg # 0) = (p.mixer.muted = 1) THEN p.mixer ELSE mixer_mute(p.mixer))
      [] action \in {"step_up", "step_down"} -> Muted(p, mixer_mute(p.mixer))
      [] OTHER -> Leaving(p, m_property_flag(prop, action, arg, p.mixer.muted))
PrintBalance(v) ==
    CASE v = 0 -> <<"center">>
      [] v = -100 -> <<"left only">>
      [] v = 100 -> <<"right only">>
      [] OTHER -> LET right == (v + 100) \div 2
                  IN <<"left ">> \o Digits(100 - right) \o <<"%, right ">> \o Digits(right) \o <<"%">>

-----------------------------------------------------------------------------
(* Seeks asked for: the time, part of the whole in percent, or seconds to   *)
(* go.  They are carried out by the main loop (AfterCommands).              *)

percent(p) == IF p.length = 0 THEN 0 ELSE (100 * p.pos) \div p.length
SeekTo(p, how, to) == [p EXCEPT !.abs_seek_pos = how, !.rel_seek_secs = to]
\* Seconds more; what is asked for so far may be a fraction, of which 1 is the whole
Further(p, secs) == [p EXCEPT !.rel_seek_secs = @ + (IF p.abs_seek_pos = "factor" THEN 100 * secs ELSE secs)]
mp_property_percent_pos(prop, action, arg, p) ==
    CASE action = "set" /\ arg = NoArg -> Ret(ERROR, NoArg, p)
      [] action = "set" -> Ret(OK, NoArg, SeekTo(p, "factor", Clamp(prop, arg)))
      [] action \in {"step_up", "step_down"} ->
           Ret(OK, NoArg, SeekTo(p, "factor", Step(prop, percent(p), action, IF arg = NoArg THEN 10 ELSE arg)))
      [] OTHER -> Leaving(p, ReadOnly(action, arg, percent(p), NoText))
mp_property_time_pos(prop, action, arg, p) ==
    LET secs == IF arg = NoArg THEN 10 ELSE arg
    IN CASE action = "set" /\ arg = NoArg -> Ret(ERROR, NoArg, p)
         [] action = "set" -> Ret(OK, NoArg, SeekTo(p, "time", Clamp(prop, arg)))
         [] action = "step_up" -> Ret(OK, NoArg, Further(p, secs))
         [] action = "step_down" -> Ret(OK, NoArg, Further(p, -secs))
         [] OTHER -> Leaving(p, ReadOnly(action, arg, p.pos, PrintTime(p.pos)))

-----------------------------------------------------------------------------
(* All of them.                                                             *)

ChoiceNames == "framedropping" :> <<"disabled", "enabled", "hard">> @@ "sub_alignment" :> <<"top", "center", "bottom">>
\* A property that is a variable; the delay of the sound moves what is to be waited for the other way
Moved(p, name, got) ==
    Ret(got.r, got.out, [p EXCEPT !.val[name] = got.v, !.delay = IF name = "audio_delay" THEN @ - (got.v - p.val[name]) ELSE @])
OnVariable(prop, name, action, arg, v) ==
    CASE prop.how = "choice" -> m_property_choice(prop, action, arg, v,
                                  IF name \in DOMAIN ChoiceNames THEN <<ChoiceNames[name][v + 1]>> ELSE NoText)
      [] prop.how = "flag" -> m_property_flag(prop, action, arg, v)
      [] OTHER -> Ranged(prop, action, arg, v, IF prop.how \in {"int", "loop"} THEN 1 ELSE 10,
                    CASE prop.how = "int" -> NoText
                      [] prop.how = "loop" -> IF v < 0 THEN <<"off">> ELSE IF v = 0 THEN <<"inf">> ELSE NoText
                      [] prop.how \in {"delay", "audio_delay"} -> PrintDelay(v)
                      [] prop.how = "float" -> print_double(<<v, 100>>))
\* A flag of the display: it is asked to change it, which the displays here take without doing it
VoFlag(prop, action, arg, p) ==
    CASE action = "set" /\ arg = NoArg -> Ret(ERROR, NoArg, p)
      [] action \in {"set", "step_up", "step_down"} -> Ret(OK, NoArg, p)
      [] OTHER -> Leaving(p, m_property_flag(prop, action, arg, 0))
mp_property_balance(prop, action, arg, p) ==
    LET move(to) == Ret(OK, NoArg, [p EXCEPT !.balance = to])
    IN CASE action = "set" /\ arg # NoArg -> move(Clamp(prop, arg))
         [] action \in {"step_up", "step_down"} -> move(Step(prop, p.balance, action, IF arg = NoArg THEN 10 ELSE arg))
         [] action = "get" /\ arg # NoArg -> Ret(OK, p.balance, p)
         [] action = "print" -> Ret(OK, PrintBalance(p.balance), p)
         [] action \in {"set", "get"} -> Ret(ERROR, NoArg, p)
         [] OTHER -> Ret(NOT_IMPLEMENTED, NoArg, p)
\* What can only be looked at
Channels(n) == IF n = 1 THEN <<"mono">> ELSE IF n = 2 THEN <<"stereo">> ELSE Digits(n) \o <<" channels">>
Paused(p) == IF p.osd_function = "pause" THEN 1 ELSE 0
Shown(prop, action, arg, p) ==
    CASE prop.how = "string" -> ReadOnly(action, arg, p.filename, p.filename)
      [] prop.how = "time_ro" -> ReadOnly(action, arg, p.length, PrintTime(p.length))
      [] prop.how = "channels" -> ReadOnly(action, arg, p.channels, Channels(p.channels))
      [] prop.how = "pause" -> ReadOnly(action, arg, Paused(p), OnOff(prop, Paused(p)))
      [] prop.how = "offset" -> IF action = "get" /\ arg = NoArg THEN Res(NullRead, 0, 0) ELSE ReadOnly(action, arg, 0, NoText)
      [] prop.how = "none" -> Res(NOT_IMPLEMENTED, 0, 0)
\* A word of the file's own information, by its key
Metadata(action, arg, p) ==
    IF p.title = <<>> THEN Ret(UNKNOWN, NoArg, p)
    ELSE IF action = "get" THEN Ret(IF arg = NoArg THEN ERROR ELSE OK, p.title, p)
    ELSE IF action = "get_type" THEN Ret(OK, NoArg, p) ELSE Ret(NOT_IMPLEMENTED, NoArg, p)
Handled(prop, name, action, arg, p) ==
    CASE prop.how \in {"choice", "flag", "int", "loop", "delay", "audio_delay", "float"} ->
           Moved(p, name, OnVariable(prop, name, action, arg, p.val[name]))
      [] prop.how = "volume" -> mp_property_volume(prop, action, arg, p)
      [] prop.how = "mute" -> mp_property_mute(prop, action, arg, p)
      [] prop.how = "balance" -> mp_property_balance(prop, action, arg, p)
      [] prop.how = "vo_flag" -> VoFlag(prop, action, arg, p)
      [] prop.how = "percent" -> mp_property_percent_pos(prop, action, arg, p)
      [] prop.how = "time" -> mp_property_time_pos(prop, action, arg, p)
      [] prop.how = "metadata" -> Metadata(action, arg, p)
      [] OTHER -> Leaving(p, Shown(prop, action, arg, p))
do_action(name, action, arg, p) ==
    IF action = "get_type" /\ name # "title" THEN Ret(OK, NoArg, p)
    ELSE IF ~Available(p, name) THEN Ret(UNAVAILABLE, NoArg, p)
    ELSE Handled(mp_properties[name], name, action, arg, p)

\* To a text and from a text by the option of the type.  (The type is there whenever the handler is.)
Textual(prop, got) ==
    IF got.r <= 0 THEN got
    ELSE [got EXCEPT !.out = IF prop.type = "string" THEN @ ELSE m_option_print(InWholes(prop), <<@, Hundredths(prop)>>)]
Set(name, prop, read, p) ==
    IF read.r <= 0 THEN Ret(ERROR, NoArg, p)
    ELSE do_action(name, "set", (read.v[1] * Hundredths(prop)) \div read.v[2], p)
\* What the handler does not do itself: printing falls back on the text that can be read again
Otherwise(own, name, prop, action, arg, p) ==
    CASE own.r = NOT_IMPLEMENTED /\ action \in {"print", "to_string"} -> Textual(prop, do_action(name, "get", Given, p))
      [] own.r = NOT_IMPLEMENTED /\ action = "parse" -> Set(name, prop, m_option_parse(InWholes(prop), arg), p)
      [] OTHER -> own
m_property_do(name, action, arg, p) ==
    Otherwise(do_action(name, action, arg, p), name, mp_properties[name], action, arg, p)

-----------------------------------------------------------------------------
(* Texts with properties in them: ${name} is its value, ?(name:...) and     *)
(* ?(!name:...) are there or not as it is available or not.                 *)

From(t, i) == SubSeq(t, i, Len(t))
Has(t, c, i) == Len(t) >= i /\ t[i] = c
Upto(t, c) == Min({n \in 3..Len(t) + 1 : n = Len(t) + 1 \/ t[n] = c})
There(name, p) == m_property_do(name, "get", NoArg, p).r >= 0
\* A character more, freeing the value of a property that is still held
Put(st, c) == IF st.skip THEN st ELSE [st EXCEPT !.out = Append(@, c), !.freed = @ \/ st.held, !.held = FALSE]
\* A character by its number: of two digits the second is left and read again
ByNumber(st) ==
    LET t == st.rest
        digits == Span(SubSeq(t, 1, Min({4, Len(t)})), 3, DOMAIN Hex)
    IN IF Len(t) = 2 THEN [st EXCEPT !.rest = <<>>]
       ELSE Put([st EXCEPT !.rest = From(t, 2 + Len(digits))], "chr" \o ToString(Value(digits, 16)))
Escaped(st) ==
    LET t == st.rest
    IN IF Len(t) = 1 THEN [st EXCEPT !.beyond = TRUE, !.rest = <<>>]
       ELSE IF t[2] = "x" THEN ByNumber(st)
       ELSE Put([st EXCEPT !.rest = From(t, 3)],
                IF t[2] \in {"e", "n", "r", "t"} THEN "\\" \o t[2] ELSE t[2])
\* Seeded error: the end of any part ends what is left out.
ClosedAll(st) == [st EXCEPT !.skip = FALSE, !.lvl = @ - 1, !.rest = Tail(@)]
Closed(st) ==
    [st EXCEPT !.skip = @ /\ st.lvl > st.skip_lvl, !.lvl = @ - 1, !.rest = Tail(@)]
\* The value is in hand until it has been put; what is skipped leaves it there
Inserted(st, e, got) ==
    LET new == [st EXCEPT !.rest = From(@, e + 1)]
    IN IF got.r < 0 THEN new
       ELSE IF st.skip THEN [new EXCEPT !.held = TRUE]
       ELSE [new EXCEPT !.out = @ \o got.out, !.held = FALSE]
Opened(st, e, p) ==
    LET not  == st.rest[3] = "!"
        name == st.rest[IF not THEN 4 ELSE 3]
        new  == [st EXCEPT !.lvl = @ + 1, !.rest = From(@, e + 1)]
    IN IF st.skip \/ There(name, p) # not THEN new
       ELSE [new EXCEPT !.skip = TRUE, !.skip_lvl = new.lvl]
ExpandStep(st, p) ==
    LET t == st.rest
    IN IF t[1] = "\\" THEN Escaped(st)
       ELSE IF st.lvl > 0 /\ t[1] = ")" THEN Closed(st)
       ELSE IF t[1] = "$" /\ Has(t, "{", 2) /\ Upto(t, "}") <= Len(t) THEN Inserted(st, Upto(t, "}"), m_property_do(t[3], "print", Given, p))
       ELSE IF t[1] = "?" /\ Has(t, "(", 2) /\ Upto(t, ":") <= Len(t) THEN Opened(st, Upto(t, ":"), p)
       ELSE Put([st EXCEPT !.rest = Tail(@)], t[1])
m_properties_expand_string(text, p) ==
    FoldLeft(LAMBDA st, c : IF st.rest = <<>> THEN st ELSE ExpandStep(st, p),
             [rest |-> text, out |-> <<>>, skip |-> FALSE, lvl |-> 0, skip_lvl |-> 0,
              held |-> FALSE, freed |-> FALSE, beyond |-> FALSE], text)


-----------------------------------------------------------------------------
(* The commands.  A command is [id, name, args, text, pausing].             *)

Toggled == {"mute", "fullscreen", "framedropping", "vsync", "sub_alignment", "sub_visibility"}
\* What a command asks of the property: a toggle steps, or sets what is not below the least value;
\* others set when told so and step otherwise
Asked(action, arg) == [action |-> action, arg |-> arg]
set_property_command(name, args) ==
    IF name \notin Toggled THEN Asked(IF args[2] # 0 THEN "set" ELSE "step_up", args[1])
    ELSE IF args = <<>> THEN Asked("step_up", NoArg)
    ELSE IF args[1] >= mp_properties[name].min THEN Asked("set", args[1]) ELSE Asked("step_down", NoArg)
step_property(args) ==
    Asked(IF args[2] < 0 THEN "step_down" ELSE "step_up", IF args[1] = 0 THEN NoArg ELSE args[1])
OnProperty(cmd) ==
    CASE cmd.id = "bind" -> set_property_command(cmd.name, cmd.args)
      [] cmd.id = "set_property" -> Asked("parse", cmd.text)
      [] cmd.id = "step_property" -> step_property(cmd.args)
DoAsked(name, asked, p) == m_property_do(name, asked.action, asked.arg, p).p
command_seek(args, p) ==
    CASE args[2] = 2 -> [SeekTo(p, "time", args[1]) EXCEPT !.osd_function = IF ~p.video THEN @ ELSE IF args[1] > p.pos THEN "ffw" ELSE "rew"]
      [] args[2] = 1 -> [SeekTo(p, "factor", args[1]) EXCEPT !.osd_function = IF p.video THEN "ffw" ELSE @]
      [] OTHER -> [Further(p, args[1]) EXCEPT !.osd_function = IF args[1] > 0 THEN "ffw" ELSE "rew"]
command_osd(args, p) ==
    LET v == p.val["osdlevel"]
    IN [p EXCEPT !.val["osdlevel"] = IF args[1] < 0 THEN (v + 1) % 4 ELSE Min({args[1], 3})]
\* What the prefix of a command makes of it: 1 pauses, 3 changes over, 2 keeps
Pausing(pausing, p) ==
    CASE pausing = 1 -> [p EXCEPT !.osd_function = "pause"]
      [] pausing = 3 -> [p EXCEPT !.was_paused = ~@,
                          !.osd_function = IF ~p.was_paused THEN "pause" ELSE IF @ = "pause" THEN "play" ELSE @]
      [] pausing = 2 /\ p.was_paused -> [p EXCEPT !.osd_function = "pause"]
      [] OTHER -> p
run_command(cmd, p) ==
    Pausing(IF cmd.id = "pause" THEN 1 ELSE cmd.pausing,
            CASE cmd.id \in {"bind", "set_property", "step_property"} -> DoAsked(cmd.name, OnProperty(cmd), p)
              [] cmd.id = "seek" -> command_seek(cmd.args, p)
              [] cmd.id = "osd" -> command_osd(cmd.args, p)
              [] OTHER -> p)
\* One turn of the main loop: commands up to one that ends the round, then the seek that is asked for
Breaks(cmd) == cmd.id \in {"seek", "pause"}
seek(p) ==
    CASE p.abs_seek_pos = "time" -> p.rel_seek_secs
      [] p.abs_seek_pos = "factor" -> (p.rel_seek_secs * p.length) \div 100
      [] OTHER -> p.pos + p.rel_seek_secs
AfterCommands(p) == [p EXCEPT !.was_paused = FALSE, !.pos = seek(p), !.abs_seek_pos = "no", !.rel_seek_secs = 0]
Commands(cmds, p) == FoldLeft(LAMBDA q, cmd : run_command(cmd, q), p, cmds)
Turn(cmds, p) ==
    LET upto == {n \in DOMAIN cmds : \A k \in 1..n - 1 : ~Breaks(cmds[k])}
    IN AfterCommands(Commands(SubSeq(cmds, 1, Cardinality(upto)), p))
\* While paused, commands that keep it so are run, without a turn, until one that does not is there
pause_loop(cmds, p) == [Commands(cmds, [p EXCEPT !.was_paused = TRUE]) EXCEPT !.osd_function = "play"]
\* Times the film is to be played, one of them less when it begins and every time it ends
Less(loop_times) == IF loop_times > 1 THEN loop_times - 1 ELSE IF loop_times = 1 THEN -1 ELSE loop_times
\* How often it has been played when it is not begun again, of most times looked at
Plays(loop_times, most) ==
    FoldLeft(LAMBDA st, n : IF st.left < 0 THEN st ELSE [left |-> Less(st.left), plays |-> st.plays + 1],
             [left |-> Less(loop_times), plays |-> 1], [n \in 1..most |-> n]).plays

-----------------------------------------------------------------------------
(* What the code promises.                                                  *)

\* What is set is what is got, brought within the limits; and what can be put as a text is the same
\* again when the text is read.  (A display takes its flags without doing anything about them, and a
\* mixer without a volume remembers none.)
Settable(p, name) == mp_properties[name].how \in {"choice", "flag", "int", "loop", "delay", "audio_delay", "float", "balance", "volume", "mute"}
                     /\ Available(p, name) /\ (p.mixer.how = "none" => name \notin {"volume", "mute"})
As(prop, v) == IF prop.how = "mute" THEN IF v = 0 THEN 0 ELSE 1 ELSE Clamp(prop, v)
\* What comes of one action after the other, the last answer being the argument where that is asked for
Answers(p, name, asked) ==
    FoldLeft(LAMBDA st, ask : Append(st, m_property_do(name, ask.action, IF ask.arg = <<>> THEN st[Len(st)].out ELSE ask.arg[1], st[Len(st)].p)),
             <<Ret(OK, NoArg, p)>>, asked)
With(action, v) == [action |-> action, arg |-> <<v>>]
AsSet(answers, as) ==
    /\ answers[2].r = OK /\ answers[3].out = as
    /\ answers[4].r = OK /\ answers[5].p = answers[2].p
SetReadBack(p, name, v) ==
    Settable(p, name) =>
        AsSet(Answers(p, name, <<With("set", v), With("get", Given), With("to_string", Given), [action |-> "parse", arg |-> <<>>]>>),
              As(mp_properties[name], v))
\* A step there and one back change nothing, unless the first one ended at a limit.
AtLimit(prop, v) == prop.how \notin {"choice", "flag", "mute"} /\ v \in {prop.min, prop.max}
ThereAndBack(answers, prop) == AtLimit(prop, answers[4].out) \/ answers[6].out = answers[2].out
StepBack(p, name, amount) ==
    Settable(p, name) =>
        ThereAndBack(Answers(p, name, <<With("get", Given), With("step_up", amount), With("get", Given),
                                        With("step_down", amount), With("get", Given)>>), mp_properties[name])

\* Whatever is asked for, one after the other: every setting stays within its limits; moving the sound
\* moves what is to be waited for by as much; and what was muted by hand is muted, and comes back as
\* loud as it was (or as loud as can be, if that was not at all).
MuteTo(on, p) == mp_property_mute(mp_properties["mute"], "set", on, p).p
AsLoud(q, back) ==
    back.user_muted = 0 /\ back.mixer.l = Audible(q.mixer.l) /\ back.mixer.r = Audible(q.mixer.r)
Hold(p, q) ==
    /\ \A name \in DOMAIN q.val : Clamp(mp_properties[name], q.val[name]) = q.val[name]
    /\ q.balance \in -100..100 /\ q.mixer.l \in 0..100 /\ q.mixer.r \in 0..100
    /\ q.delay + q.val["audio_delay"] = p.delay + p.val["audio_delay"]
    /\ q.mixer.how # "none" =>
         /\ q.user_muted = 1 => q.mixer.muted = 1
         /\ q.mixer.muted = 1 => q.mixer.l = 0 /\ q.mixer.r = 0
         /\ q.mixer.muted = 0 => AsLoud(q, MuteTo(0, MuteTo(1, q)))
SettingsHold(p, cmds) == Hold(p, Commands(cmds, p))

\* While the film is paused seeks are only noted.  What they come to is where they would have led one
\* by one, as long as nothing relative follows a percentage, and a step of the percentage comes first.
Relative(cmd) == cmd.id = "step_property" \/ (cmd.id = "seek" /\ cmd.args[2] = 0)
Percentage(cmd) == cmd.name = "percent_pos" \/ (cmd.id = "seek" /\ cmd.args[2] = 1)
SeeksTogether(p, cmds) ==
    (\A i, k \in DOMAIN cmds : i < k /\ Relative(cmds[k]) => ~Percentage(cmds[i]) /\ ~Percentage(cmds[k])) =>
        Turn(<<>>, pause_loop(cmds, p)).pos = FoldLeft(LAMBDA q, cmd : Turn(<<cmd>>, q), p, cmds).pos

\* Commands that say what is to become of a pause say it one after the other also when they are run
\* in one turn: those that keep or change it over in any order, and plain ones or pausing ones alone.
Says(pausing, paused) == CASE pausing = 0 -> FALSE [] pausing = 1 -> TRUE [] pausing = 2 -> paused [] pausing = 3 -> ~paused
PauseTogether(p, prefixes) ==
    (Range(prefixes) \subseteq {2, 3} \/ Cardinality(Range(prefixes)) = 1) =>
        \A paused \in BOOLEAN :
            (Turn([n \in DOMAIN prefixes |-> [id |-> "plain", name |-> "", args |-> <<>>, text |-> <<>>, pausing |-> prefixes[n]]],
                  [p EXCEPT !.was_paused = paused, !.osd_function = "play"]).osd_function = "pause")
            = FoldLeft(LAMBDA is, x : Says(x, is), paused, prefixes)

\* A text with values and conditions in it becomes what they mean, whatever is put into what.  (A
\* value within a part that is left out stays in hand until the next character: see Put.)
Part(item) ==
    CASE item.kind = "plain" -> <<item.c>>
      [] item.kind = "escaped" -> <<"\\", item.c>>
      [] item.kind = "value" -> <<"$", "{", item.name, "}">>
      [] item.kind = "open" -> IF item.not THEN <<"?", "(", "!", item.name, ":">> ELSE <<"?", "(", item.name, ":">>
      [] item.kind = "close" -> <<")">>
Count(items, kind, from, to) == Cardinality({n \in from..to : items[n].kind = kind})
\* The conditions that item n is under
Around(items, n) ==
    {m \in 1..n - 1 : /\ items[m].kind = "open"
                      /\ \A k \in m + 1..n - 1 : Count(items, "close", m + 1, k) <= Count(items, "open", m + 1, k)}
In(items, n, p) == \A m \in Around(items, n) : There(items[m].name, p) # items[m].not
Worth(got) == IF got.r < 0 THEN <<>> ELSE got.out
Meant(items, n, p) ==
    CASE items[n].kind = "plain" -> <<items[n].c>>
      [] items[n].kind = "escaped" -> <<IF items[n].c \in {"e", "n", "r", "t"} THEN "\\" \o items[n].c ELSE items[n].c>>
      [] items[n].kind = "value" -> Worth(m_property_do(items[n].name, "print", Given, p))
      [] items[n].kind = "close" -> IF Around(items, n) = {} THEN <<")">> ELSE <<>>
      [] items[n].kind = "open" -> <<>>
AsMeant(got, items, p) ==
    /\ got.out = FoldLeft(LAMBDA t, n : IF In(items, n, p) THEN t \o Meant(items, n, p) ELSE t, <<>>, [n \in DOMAIN items |-> n])
    /\ (\A n \in DOMAIN items : items[n].kind = "value" => In(items, n, p)) => ~got.freed
    /\ ~got.beyond
TemplateTrue(items, p) ==
    AsMeant(m_properties_expand_string(FoldLeft(LAMBDA t, item : t \o Part(item), <<>>, items), p), items, p)

\* -loop n plays n times; 0 times is without an end, and less is once.
LoopPlays(n, most) == Plays(n, most) = IF n = 0 THEN most + 1 ELSE IF n < 0 THEN 1 ELSE n
=============================================================================
