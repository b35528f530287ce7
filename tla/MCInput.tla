------------------------------ MODULE MCInput ------------------------------
(* What reaches the player from outside, side by side: the terminal's fifo of *)
(* KeyInput, the remote's thread of PS3Remote, and the ring of commands of    *)
(* InputQueue; the texts of CommandText; and the options of OptionSources and *)
(* their lists, OptionLists.  They share nothing but the player that reads    *)
(* them in turn.                                                              *)
EXTENDS KeyInput, InputQueue, PS3Remote

CONSTANTS CmdSize, BsMax, Letters, MaxText, MaxValue,
          MaxOps, MaxLevels, MaxDepth, MaxProfileDepth, MaxErrors, Unparsed, MaxLines

ASSUME RemoteAssumption ==
    PipeSize \in Nat \ {0} /\ MaxEvents \in Nat /\ MaxPlugs \in Nat

VARIABLES
    source,     \* which of them is explored
    kind, text, fpos, buffer, eof, got_cmd, drop, commands, comments, keys, binds, file, res,
    type, var, slots, live, bad_free, told, spoilt, ops,
    texts, argv, config_mode, stack, result, values, set_flag, profiles, params, phase

textVars == <<kind, text, fpos, buffer, eof, got_cmd, drop, commands, comments, keys, binds, file, res>>
listVars == <<type, var, slots, live, bad_free, told, spoilt, ops>>
sourceVars == <<texts, argv, config_mode, stack, result, values, set_flag, profiles, params, phase>>

\* Lists as they are written, and indices of what is deleted from them
Params == {<<"a">>, <<"a", ",", "c">>, <<"a", "b", ",">>, <<"c", ",">>, <<"c", ",", "x">>}
Indices == {<<0>>, <<1, 0>>, <<0, 0>>, <<-1>>, <<5, 1000, 0>>, <<0, 1, 1000>>}

Text   == INSTANCE CommandText
Lists  == INSTANCE OptionLists
Options == INSTANCE OptionSources WITH Names <- {"conf", "inc"}

ASSUME QueueAssumption ==
    /\ QueueSize \in Nat \ {0} /\ Kinds \subseteq AllKinds
    /\ MaxCommands \in Nat /\ MaxQueued \in Nat
ASSUME TextAssumption ==
    /\ CmdSize \in Nat \ {0, 1} /\ BsMax \in Nat \ {0, 1, 2}
    /\ MaxText \in Nat /\ MaxValue \in Nat
ASSUME OptionAssumption ==
    /\ MaxOps \in Nat /\ MaxLevels \in Nat \ {0, 1} /\ MaxDepth \in Nat \ {0}
    /\ MaxProfileDepth \in Nat /\ MaxErrors \in Nat \ {0} /\ MaxLines \in Nat
    /\ 1000 = Lists!NoNumber

\* Lines of settings, texts of the file that is included, and command lines
SetTo(o, v) == [k |-> "set", o |-> o, v |-> v, extra |-> FALSE]
Is(k, v) == [k |-> k, v |-> v]
ConfLines == {SetTo("opt", "1"), SetTo("opt", Unparsed), SetTo("fs", "no"), SetTo("really_quiet", "no"),
              [SetTo("opt", "2") EXCEPT !.extra = TRUE], Is("include", "inc"), Is("profile", "p"),
              Is("section", "p"), Is("section", "default"), Is("unknown", "none")}
IncTexts == {<<SetTo("opt", "3")>>, <<Is("section", "p"), SetTo("fs", "yes"), Is("profile", "p")>>,
             <<Is("profile", "p"), SetTo("opt", Unparsed), SetTo("opt", "4")>>,
             <<SetTo("really_quiet", "yes"), Is("include", "inc")>>}
ArgLists == {<<>>, <<Is("profile", "p")>>, <<SetTo("opt", "5"), Is("entry", "none"), SetTo("opt", "6"), SetTo("fs", "yes")>>,
             <<Is("include", "inc"), SetTo("fs", "yes"), Is("entry", "none")>>,
             <<Is("entry", "none"), Is("include", "inc"), SetTo("really_quiet", "yes")>>,
             <<SetTo("opt", "5"), Is("profile", "p"), Is("include", "inc")>>,
             <<SetTo("opt", Unparsed), SetTo("really_quiet", "yes")>>}
\* A profile that includes a file which adds lines to it may never be applied to its end.
Grows(conf, inc) ==
    /\ \E i \in DOMAIN inc : inc[i].k = "section"
    /\ \E i, j \in DOMAIN conf : i < j /\ conf[i].k = "section" /\ conf[j].k = "include"
SomeTexts ==
    /\ argv \in ArgLists
    /\ \E n \in 0..MaxLines : \E conf \in [1..n -> ConfLines] : \E inc \in IncTexts :
         ~Grows(conf, inc) /\ texts = [name \in {"conf", "inc"} |-> IF name = "conf" THEN conf ELSE inc]
Blank ==
    /\ source # "texts" =>
         /\ kind = "none" /\ text = <<>> /\ fpos = 0 /\ buffer = <<>> /\ eof = FALSE /\ got_cmd = FALSE
         /\ drop = FALSE /\ commands = <<>> /\ comments = FALSE /\ keys = <<>> /\ binds = <<>>
         /\ file = "user" /\ res = 0
    /\ source # "lists" =>
         /\ type = "strings" /\ var = <<>> /\ slots = <<>> /\ live = {} /\ bad_free = FALSE
         /\ told = <<>> /\ spoilt = "marked" /\ ops = 0
    /\ source # "options" =>
         /\ texts = <<>> /\ argv = <<>> /\ config_mode = "file" /\ stack = <<>> /\ result = "none"
         /\ values = <<>> /\ set_flag = FALSE /\ profiles = <<>> /\ params = <<>> /\ phase = "none"

InitInput ==
    /\ Init /\ RemoteInit /\ QueueInit
    /\ source \in {"terminal", "remote", "commands", "texts", "lists", "options"}
    /\ Blank
    /\ source = "texts" => Text!Init
    /\ source = "lists" => Lists!Init
    /\ source = "options" => SomeTexts /\ Options!Init
    /\ source # "remote" => plugged = 0

allVars == <<source, vars, remoteVars, inputVars, textVars, listVars, sourceVars>>
TerminalStep(A) == /\ source = "terminal" /\ A
                   /\ UNCHANGED <<source, remoteVars, inputVars, textVars, listVars, sourceVars>>
RemoteStep(A) == /\ source = "remote" /\ A
                 /\ UNCHANGED <<source, vars, inputVars, textVars, listVars, sourceVars>>
QueueStep(A) == /\ source = "commands" /\ A
                /\ UNCHANGED <<source, vars, remoteVars, textVars, listVars, sourceVars>>
TextStep(A) == /\ source = "texts" /\ A
               /\ UNCHANGED <<source, vars, remoteVars, inputVars, listVars, sourceVars>>
ListStep(A) == /\ source = "lists" /\ A
               /\ UNCHANGED <<source, vars, remoteVars, inputVars, textVars, sourceVars>>
OptionStep(A) == /\ source = "options" /\ A
                 /\ UNCHANGED <<source, vars, remoteVars, inputVars, textVars, listVars>>

\* The player may always stop, except for what keeps it running.
Rest == source # "commands" /\ UNCHANGED allVars
NextInput == TerminalStep(Next) \/ RemoteStep(RemoteNext) \/ QueueStep(QueueNext)
             \/ TextStep(Text!Next) \/ ListStep(Lists!Next) \/ OptionStep(Options!Next) \/ Rest

InputSpec == /\ InitInput /\ [][NextInput]_allVars
             /\ WF_allVars(RemoteStep(Thread)) /\ WF_allVars(RemoteStep(FinishClose))
             /\ WF_allVars(QueueStep(Player))
             /\ SF_allVars(QueueStep(MainLoop \/ Pause))

\* One profile that says no to a flag, applied by the command line: what ProfileFlags.cfg explores
InitProfile ==
    /\ InitInput /\ source = "options" /\ argv = <<Is("profile", "p")>>
    /\ texts = [name \in {"conf", "inc"} |->
                  IF name = "conf" THEN <<Is("section", "p"), SetTo("fs", "no")>> ELSE <<SetTo("opt", "3")>>]
ProfileSpec == InitProfile /\ [][NextInput]_allVars

\* See CommandText, OptionLists and OptionSources.
TextsTrue == Text!TextsTrue /\ Lists!ListsTrue
SettingsAsWritten == Options!SettingsAsWritten
ProfileApplies == Options!ProfileApplies
=============================================================================
