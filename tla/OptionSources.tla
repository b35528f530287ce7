--------------------------- MODULE OptionSources ---------------------------
(***************************************************************************)
(* Where options come from: the command line, read twice, and between that *)
(* the file of settings with its includes and profiles (parser-cfg.c,       *)
(* parser-mpcmd.c, m_config.c).                                            *)
(*                                                                         *)
(* There are an option with a number, "opt", a flag, "fs", a flag that is   *)
(* set before the files are read, "really_quiet", and the two options that  *)
(* lead to more of them, "include" and "profile".  A line that cannot be    *)
(* understood is "bad", one whose option does not exist "unknown"; "extra"  *)
(* says that there is more on the line than an option and its value.        *)
(***************************************************************************)
EXTENDS Integers, Sequences, SequencesExt, FiniteSetsExt

CONSTANTS
    Names,              \* of the files there are; the first to be read is "conf"
    MaxDepth,           \* MAX_RECURSION_DEPTH
    MaxProfileDepth,    \* MAX_PROFILE_DEPTH
    MaxErrors,          \* errors after which a file is left
    Unparsed             \* a value that "opt" cannot have
VARIABLES
    texts,              \* the files, sequences of lines
    argv,               \* the command line: options and "entry"
    config_mode,        \* m_config_t.mode
    stack,              \* calls, the innermost last
    result,             \* what the last call returned: "none" while none has
    values,             \* of the options
    set_flag,           \* M_CFG_OPT_SET of really_quiet
    profiles,           \* what each profile consists of
    params,             \* options kept for an entry
    phase               \* of main
sourceVars == <<texts, argv, config_mode, stack, result, values, set_flag, profiles, params, phase>>

Top == Last(stack)
Depth == Cardinality({i \in DOMAIN stack : stack[i].call = "file"})
ProfileDepth == Cardinality({i \in DOMAIN stack : stack[i].call = "profile"})
FileCall(name) == [call |-> "file", name |-> name, at |-> 1, profile |-> "default", errors |-> 0,
                   ret |-> "good", mode |-> config_mode]
ProfileCall(name) == [call |-> "profile", name |-> name, at |-> 1]
ArgsCall == [call |-> "args", at |-> 1]
Lines(call) == CASE call.call = "file" -> texts[call.name]
                 [] call.call = "profile" -> profiles[call.name]
                 [] OTHER -> argv
Line == Lines(Top)[Top.at]
Done == Top.at > Len(Lines(Top)) \/ (Top.call = "file" /\ Top.errors >= MaxErrors)
Running == stack # <<>> /\ ~Done /\ result = "none"

-----------------------------------------------------------------------------
(* m_config_parse_option                                                    *)

\* The first reading of the command line sets what is to be set early, and that is set once
\* by the rest.
MaySet(mode, o, set) == IF mode = "pre_parse" THEN o = "really_quiet" ELSE o # "really_quiet" \/ ~set
\* A flag has a value in a file only.
Parsed(mode, line) == IF line.o # "opt" /\ mode # "file" THEN "yes" ELSE line.v
Invalid(mode, line, known) ==
    \/ line.k \in {"bad", "unknown"}
    \/ line.k = "set" /\ line.o = "opt" /\ line.v = Unparsed
    \/ line.k = "set" /\ line.o # "opt" /\ mode = "file" /\ line.v \notin {"yes", "no"}
    \/ line.k = "profile" /\ line.v \notin known
InProfile == Top.call = "file" /\ Top.profile # "default"
ForEntry == Top.call = "args" /\ phase = "entries" /\ ~(Line.k = "set" /\ Line.o = "really_quiet")
OnlyChecked == InProfile \/ ForEntry

\* A file only warns of an option that does not exist, and takes an include that failed for one:
\* the -1 of m_config_parse_config_file is M_OPT_UNKNOWN.
OnlyWarned(line) == line.k \in {"unknown", "include"}

\* What comes after the line.  In a file an error is counted, and anything odd remembered; on the
\* command line an error is the end of the program, but not when it is read for the first time.
Beyond(good) ==
    LET call == [Top EXCEPT !.at = @ + 1]
        odd  == Line.k = "set" /\ Line.extra
    IN CASE Top.call = "file" ->
              /\ stack' = Append(Front(stack),
                   IF good \/ OnlyWarned(Line) THEN [call EXCEPT !.ret = IF odd THEN "error" ELSE @]
                   ELSE [call EXCEPT !.ret = "error", !.errors = @ + 1])
              /\ UNCHANGED phase
         [] Top.call = "args" /\ ~good /\ phase # "first" -> stack' = <<>> /\ phase' = "failed"
         [] OTHER -> stack' = Append(Front(stack), call) /\ UNCHANGED phase
\* m_config_set_profile_option, play_tree_set_param
Remembered ==
    /\ profiles' = IF InProfile THEN [profiles EXCEPT ![Top.profile] = Append(@, Line)] ELSE profiles
    /\ params' = IF ForEntry THEN Append(params, Line) ELSE params

Setting ==
    /\ Running /\ Line.k = "set" /\ ~Invalid(config_mode, Line, {})
    /\ LET set == ~OnlyChecked /\ MaySet(config_mode, Line.o, set_flag)
       IN /\ values' = IF set THEN [values EXCEPT ![Line.o] = Parsed(config_mode, Line)] ELSE values
          /\ set_flag' = (set_flag \/ (set /\ Line.o = "really_quiet"))
    /\ Remembered /\ Beyond(TRUE)
    /\ UNCHANGED <<texts, argv, config_mode, result>>
Failing ==
    /\ Running /\ Invalid(config_mode, Line, DOMAIN profiles) /\ Beyond(FALSE)
    /\ UNCHANGED <<texts, argv, config_mode, result, values, set_flag, profiles, params>>
\* m_config_add_profile
Section ==
    /\ Running /\ Line.k = "section"
    /\ stack' = Append(Front(stack), [Top EXCEPT !.at = @ + 1, !.profile = Line.v])
    /\ profiles' = IF Line.v \in DOMAIN profiles \cup {"default"} THEN profiles
                   ELSE [p \in DOMAIN profiles \cup {Line.v} |-> IF p = Line.v THEN <<>> ELSE profiles[p]]
    /\ UNCHANGED <<texts, argv, config_mode, result, values, set_flag, params, phase>>
Entry ==
    /\ Running /\ Line.k = "entry"
    /\ stack' = Append(Front(stack), [Top EXCEPT !.at = @ + 1])
    /\ phase' = IF phase = "first" THEN phase ELSE "entries"
    /\ UNCHANGED <<texts, argv, config_mode, result, values, set_flag, profiles, params>>

-----------------------------------------------------------------------------
(* Lines that lead to more of them                                          *)

\* cfg_include, called by the parser of its option, be that to be set or only checked
Include ==
    /\ Running /\ Line.k = "include"
    /\ IF Depth >= MaxDepth \/ Line.v \notin Names
       THEN result' = "error" /\ UNCHANGED <<stack, config_mode>>
       ELSE stack' = Append(stack, FileCall(Line.v)) /\ config_mode' = "file" /\ UNCHANGED result
    /\ UNCHANGED <<texts, argv, values, set_flag, profiles, params, phase>>
\* Seeded error: the mode is that of a file from now on.
KeptMode == config_mode
RestoredMode == Top.mode
\* m_config_parse_config_file returns; that the first file had an error is the end.
FileEnds ==
    /\ stack # <<>> /\ Top.call = "file" /\ result = "none" /\ Done
    /\ stack' = Front(stack) /\ config_mode' = RestoredMode
    /\ IF Len(stack) > 1 THEN result' = Top.ret /\ UNCHANGED phase
       ELSE phase' = (IF Top.ret = "error" THEN "failed" ELSE phase) /\ UNCHANGED result
    /\ UNCHANGED <<texts, argv, values, set_flag, profiles, params>>
\* parse_profile; set_profile and m_config_set_profile when it is to be set
ApplyProfile ==
    /\ Running /\ Line.k = "profile" /\ ~Invalid(config_mode, Line, DOMAIN profiles)
    /\ IF OnlyChecked \/ config_mode = "pre_parse"
       THEN Remembered /\ Beyond(TRUE) /\ UNCHANGED result
       ELSE /\ IF ProfileDepth > MaxProfileDepth THEN result' = "good" /\ UNCHANGED stack
               ELSE stack' = Append(stack, ProfileCall(Line.v)) /\ UNCHANGED result
            /\ UNCHANGED <<params, profiles, phase>>
    /\ UNCHANGED <<texts, argv, config_mode, values, set_flag>>
ProfileEnds ==
    /\ stack # <<>> /\ Top.call = "profile" /\ Done /\ result = "none"
    /\ stack' = Front(stack) /\ result' = "good"
    /\ UNCHANGED <<texts, argv, config_mode, values, set_flag, profiles, params, phase>>
\* The line that called goes on.
Returned ==
    /\ result # "none" /\ result' = "none"
    /\ IF result = "good" THEN Remembered ELSE UNCHANGED <<params, profiles>>
    /\ Beyond(result = "good")
    /\ UNCHANGED <<texts, argv, config_mode, values, set_flag>>

-----------------------------------------------------------------------------
(* main: m_config_preparse_command_line, parse_cfgfiles,                     *)
(* m_config_parse_mp_command_line                                           *)

ReadFiles ==
    /\ phase = "first" /\ Top.call = "args" /\ Done /\ result = "none"
    /\ phase' = "files" /\ stack' = <<FileCall("conf")>> /\ config_mode' = "file"
    /\ UNCHANGED <<texts, argv, result, values, set_flag, profiles, params>>
ReadAgain ==
    /\ phase = "files" /\ stack = <<>>
    /\ phase' = "global" /\ stack' = <<ArgsCall>> /\ config_mode' = "command_line"
    /\ UNCHANGED <<texts, argv, result, values, set_flag, profiles, params>>
Play ==
    /\ phase \in {"global", "entries"} /\ Top.call = "args" /\ Done /\ result = "none"
    /\ phase' = "play" /\ stack' = <<>>
    /\ UNCHANGED <<texts, argv, config_mode, result, values, set_flag, profiles, params>>

Unset == [opt |-> "0", fs |-> "no", really_quiet |-> "no"]
\* texts and argv are chosen by who instantiates this.
Init ==
    /\ config_mode = "pre_parse" /\ stack = <<ArgsCall>> /\ result = "none"
    /\ values = Unset /\ set_flag = FALSE
    /\ profiles = [p \in {} |-> <<>>] /\ params = <<>> /\ phase = "first"
Next == \/ Setting \/ Failing \/ Section \/ Entry \/ Include \/ FileEnds
        \/ ApplyProfile \/ ProfileEnds \/ Returned \/ ReadFiles \/ ReadAgain \/ Play
Spec == Init /\ [][Next]_sourceVars

-----------------------------------------------------------------------------
(* Properties                                                               *)

\* What the texts mean, read as nested texts: a state s of the options and profiles is carried
\* through the lines of a text.  c says where the text stands: its mode, how many files and
\* profiles are around it, and what kind of text it is.
RECURSIVE Meaning(_, _, _)
Meaning(s, lines, c) ==
    LET OneLine(t, line) ==
          LET checked == t.section # "default" \/ (t.entries /\ ~(line.k = "set" /\ line.o = "really_quiet"))
              inner ==
                CASE line.k = "include" ->
                       IF c.files >= MaxDepth \/ line.v \notin Names THEN [t EXCEPT !.good = FALSE]
                       ELSE Meaning(t, texts[line.v], [c EXCEPT !.mode = "file", !.files = @ + 1, !.kind = "file"])
                  [] line.k = "profile" /\ line.v \in DOMAIN t.profiles ->
                       IF checked \/ c.mode = "pre_parse" \/ c.profiles > MaxProfileDepth
                       THEN [t EXCEPT !.good = TRUE]
                       ELSE [Meaning(t, t.profiles[line.v],
                                     [c EXCEPT !.profiles = @ + 1, !.kind = "profile"]) EXCEPT !.good = TRUE]
                  [] line.k = "set" /\ ~Invalid(c.mode, line, {}) ->
                       IF checked \/ ~MaySet(c.mode, line.o, t.set) THEN [t EXCEPT !.good = TRUE]
                       ELSE [t EXCEPT !.values[line.o] = Parsed(c.mode, line), !.good = TRUE,
                                      !.set = @ \/ line.o = "really_quiet"]
                  [] OTHER -> [t EXCEPT !.good = line.k \in {"section", "entry"}]
              kept == IF inner.good /\ t.section # "default" /\ line.k # "section"
                      THEN [inner.profiles EXCEPT ![t.section] = Append(@, line)] ELSE inner.profiles
              named == IF line.k # "section" \/ line.v \in DOMAIN kept \cup {"default"} THEN kept
                       ELSE [p \in DOMAIN kept \cup {line.v} |-> IF p = line.v THEN <<>> ELSE kept[p]]
          IN IF t.over THEN t
             ELSE [inner EXCEPT
               !.profiles = named,
               !.section = IF line.k = "section" THEN line.v ELSE t.section,
               !.entries = t.entries \/ (c.kind = "args" /\ c.mode = "command_line" /\ line.k = "entry"),
               !.errors = t.errors + (IF inner.good \/ (c.kind = "file" /\ OnlyWarned(line)) THEN 0 ELSE 1),
               !.odd = t.odd \/ (line.k = "set" /\ line.extra),
               !.over = IF c.kind = "args" THEN c.mode = "command_line" /\ ~inner.good
                        ELSE c.kind = "file" /\ ~inner.good /\ ~OnlyWarned(line) /\ t.errors + 1 >= MaxErrors]
        end == FoldLeft(OneLine, [s EXCEPT !.section = "default", !.entries = FALSE,
                                                  !.errors = 0, !.odd = FALSE, !.over = FALSE], lines)
    IN [end EXCEPT !.good = end.errors = 0 /\ ~end.odd]
Nothing == [values |-> Unset, set |-> FALSE, profiles |-> [p \in {} |-> <<>>], section |-> "default",
            entries |-> FALSE, errors |-> 0, odd |-> FALSE, over |-> FALSE, good |-> TRUE]
Around == [mode |-> "pre_parse", files |-> 0, profiles |-> 0, kind |-> "args"]
Early == Meaning(Nothing, argv, Around)
FromFiles == Meaning(Early, texts["conf"], [Around EXCEPT !.mode = "file", !.files = 1, !.kind = "file"])
FromAll == Meaning(FromFiles, argv, [Around EXCEPT !.mode = "command_line"])

\* Whatever includes and applies what, with errors at any place, when the player starts the
\* options have the values the texts give them when they are read as nested texts, and it
\* starts unless the first file or the command line has an error.  An include that fails inside of
\* a file is none, whatever was wrong in it: what it set before stays, and the file goes on.
SettingsAsWritten ==
    /\ phase = "play" => FromFiles.good /\ ~FromAll.over /\ values = FromAll.values
                         /\ profiles = FromAll.profiles
    /\ phase = "failed" => ~FromFiles.good \/ FromAll.over
\* What a profile predefines "can then be applied later on" (m_config.h, on profiles): a flag
\* that is told "yes" nowhere is not set when the player starts.
ProfileApplies ==
    phase = "play" /\ (\A t \in {argv} \cup Range(texts) : \A i \in DOMAIN t :
                         t[i].k = "set" /\ t[i].o = "fs" => t[i].v = "no")
        => values.fs = "no"
=============================================================================
