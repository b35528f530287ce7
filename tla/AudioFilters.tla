---------------------------- MODULE AudioFilters ----------------------------
(***************************************************************************)
(* The chain of audio filters (libaf/af.c) between the decoder and the     *)
(* audio output: how it is built, how conversion filters are inserted and  *)
(* redundant ones removed, and what the commands of command.c, the mixer   *)
(* and a change of the decoder's format do to it while it plays.           *)
(*                                                                         *)
(* A filter is a record: the parameters of its outgoing data (nch, fmt,    *)
(* rate), its own setting (arg), the factor by which it changes the length *)
(* of the data (mul, a fraction) and, for pan, the channels it lets        *)
(* through (open).  What it does to the samples is not modelled.           *)
(***************************************************************************)
EXTENDS Integers, Sequences, FiniteSets, SequencesExt, FiniteSetsExt

CONSTANTS
  Inputs,        \* what decoders produce: records [nch, fmt, rate]
  Devices,       \* what audio outputs settle for: records [nch, fmt, rate]
  Lists,         \* values of the option -af: sequences of commands <<name, arg>>
  Commands,      \* the filters af_add, af_del and af_switch are given
  CmdLines,      \* the settings af_cmdline is given
  Forces,        \* values of the option -af-adv force
  Speeds,        \* playback speeds, in halves
  MinRate, MaxRate, \* the rates a speed may ask of the filters
  MaxChain       \* bound: no filter is added to a chain of this length

Bps == [none |-> 0, u8 |-> 1, s16 |-> 2, s16be |-> 2, float |-> 4, ac3 |-> 2]
AF_NCH == 8
Unasked == [nch |-> 0, fmt |-> "none", rate |-> 0]
NotReentrant == {"volume", "surround", "sub", "volnorm"}
Known == NotReentrant \cup {"dummy", "channels", "format", "pan", "lavcresample"}

VARIABLES
  dec,           \* the decoder's channels, sample_format and samplerate
  chain,         \* afs->first .. afs->last
  input, output, \* afs->input, afs->output
  ao,            \* ao_data: what the device was opened with, Unasked when it is not
  list, force,   \* af_cfg
  speed,         \* playback_speed
  soft_vol,      \* the mixer controls the volume with a filter
  phase,         \* "closed", "preinit" (the device is to be opened), "playing", "nosound",
                 \* "exited"; "crashed" and "hung" when a call does not return
  fit            \* how much of the chain is known to fit: "whole"; once af_cmdline changed it
                 \* "inside", that is all but its end, or "none" if not even that succeeded
vars == <<dec, chain, input, output, ao, list, force, speed, soft_vol, phase, fit>>

-----------------------------------------------------------------------------
(* The filters: what REINIT does to a filter f that is fed data like in.   *)

Said(rv, f, in) == [rv |-> rv, f |-> f, in |-> in]
Out(f) == [nch |-> f.nch, fmt |-> f.fmt, rate |-> f.rate]
With(f, nch, fmt, rate) == [f EXCEPT !.nch = nch, !.fmt = fmt, !.rate = rate]
Scaled(f, num, den) == [f EXCEPT !.mul = <<num, den>>]
\* af_test_output
TestOutput(f, in) ==
  IF Out(f) = in THEN Said("ok", f, in) ELSE Said("false", f, Out(f))
\* pan and surround only ask for another format
AskFloat(f, in) ==
  IF in.fmt = "float" THEN Said("ok", f, in)
  ELSE Said("false", f, [in EXCEPT !.fmt = "float"])

\* Seeded error: the factor by which the length changes is left at one.
channels_reinitUnscaled(f, in) ==
  IF f.nch = in.nch THEN Said("detach", f, in)
  ELSE Said(IF f.nch \in 1..AF_NCH THEN "ok" ELSE "error", With(f, f.nch, in.fmt, in.rate), in)
channels_reinit(f, in) ==
  IF f.nch = in.nch THEN Said("detach", f, in)
  ELSE Said(IF f.nch \in 1..AF_NCH THEN "ok" ELSE "error", \* check_routes of the default routes
            Scaled(With(f, f.nch, in.fmt, in.rate), f.nch, in.nch), in)
Convertible(f, in) ==
  \/ f.fmt = "ac3" /\ in.fmt = "ac3"
  \/ \A x \in {f.fmt, in.fmt} : x # "ac3" /\ Bps[x] \in 1..4
format_reinit(f, in) ==
  IF f.fmt = in.fmt THEN Said("detach", f, in)
  ELSE IF ~Convertible(f, in) THEN Said("error", f, in)
  ELSE Said("ok", Scaled(With(f, in.nch, f.fmt, in.rate), Bps[f.fmt], Bps[in.fmt]), in)
lavcresample_reinit(f, in) ==
  IF f.rate \in {in.rate, 0} THEN Said("detach", f, in)
  ELSE LET g == Scaled(With(f, in.nch, IF in.fmt = "float" THEN "float" ELSE "s16", f.rate),
                       f.rate, in.rate)
           t == TestOutput([g EXCEPT !.rate = in.rate], in)
       IN Said(t.rv, g, t.in)
pan_reinit(f, in) ==
  LET n == IF f.arg = 0 THEN in.nch ELSE f.arg
  IN AskFloat(Scaled(With(f, n, "float", in.rate), n, in.nch), in)
volume_reinit(f, in) ==
  TestOutput(With(f, in.nch, IF f.arg = 1 /\ in.fmt # "float" THEN "s16" ELSE "float", in.rate), in)
surround_reinit(f, in) ==
  LET g == With(f, 2 * in.nch, "float", in.rate)
  IN IF g.nch # 4 THEN Said("detach", g, in) ELSE AskFloat(g, in)
sub_reinit(f, in) ==
  TestOutput(With(f, IF f.arg + 1 > in.nch THEN f.arg + 1 ELSE in.nch, "float", in.rate), in)
volnorm_reinit(f, in) ==
  TestOutput(With(f, in.nch, IF in.fmt = "s16" THEN "s16" ELSE "float", in.rate), in)
dummy_reinit(f, in) == Said("ok", With(f, in.nch, in.fmt, in.rate), in)

control_reinit(f, in) ==
  CASE f.name = "channels" -> channels_reinit(f, in)
    [] f.name = "format" -> format_reinit(f, in)
    [] f.name = "lavcresample" -> lavcresample_reinit(f, in)
    [] f.name = "pan" -> pan_reinit(f, in)
    [] f.name = "volume" -> volume_reinit(f, in)
    [] f.name = "surround" -> surround_reinit(f, in)
    [] f.name = "sub" -> sub_reinit(f, in)
    [] f.name = "volnorm" -> volnorm_reinit(f, in)
    [] f.name = "dummy" -> dummy_reinit(f, in)

\* AF_CONTROL_COMMAND_LINE: the filter with the setting, none when it is refused; what is
\* left out of a setting (routing pairs, levels, frequencies) keeps its default
channels_set(f, arg) == {[f EXCEPT !.nch = n] : n \in {arg} \cap 1..AF_NCH}
format_set(f, arg) == {[f EXCEPT !.fmt = x] : x \in {arg} \cap {"u8", "s16", "s16be", "float", "ac3"}}
lavcresample_set(f, arg) == {[f EXCEPT !.rate = arg]}
pan_set(f, arg) == {[f EXCEPT !.arg = n] : n \in {arg} \cap 1..AF_NCH}
sub_set(f, arg) == {[f EXCEPT !.arg = n] : n \in {arg} \cap 0..AF_NCH - 1}
volnorm_set(f, arg) == {[f EXCEPT !.arg = n] : n \in {arg} \cap {1, 2}}
control_set(f, arg) ==
  CASE f.name = "channels" -> channels_set(f, arg)
    [] f.name = "format" -> format_set(f, arg)
    [] f.name = "lavcresample" -> lavcresample_set(f, arg)
    [] f.name = "pan" -> pan_set(f, arg)
    [] f.name = "sub" -> sub_set(f, arg)
    [] f.name = "volnorm" -> volnorm_set(f, arg)
    [] OTHER -> {}                  \* no setting that matters here

\* af_open of the filters, with AF_CONTROL_POST_CREATE for volume
Opened(name) ==
  [name |-> name, nch |-> 0, fmt |-> "none", rate |-> 0, fresh |-> FALSE, open |-> {},
   mul |-> IF name = "surround" THEN <<2, 1>> ELSE <<1, 1>>,
   arg |-> IF name = "volume" THEN IF force < 4 THEN 1 ELSE 0
           ELSE IF name = "sub" THEN 5 ELSE 0]

-----------------------------------------------------------------------------
(* The chain: results carry how the call ended and the chain it left.  A   *)
(* call may also loop for ever ("hung") or follow a null pointer           *)
(* ("crashed").                                                            *)

Ended(st, ch) == [st |-> st, ch |-> ch]
Of(e, Op(_)) == CHOOSE y \in {Op(x) : x \in {e}} : TRUE   \* Op(e), with e computed once
OnOk(e, Op(_)) == Of(e, LAMBDA r : IF r.st = "ok" THEN Op(r.ch) ELSE r)
Forcing == force % 4 = 3            \* AF_INIT_FORCE: nothing is inserted or removed
Names(ch) == {ch[i].name : i \in DOMAIN ch}
Before(src, ch, i) == IF i = 1 THEN src ELSE Out(ch[i - 1])
\* af_create: <<>> when the filter is not known, not to be had twice, or refuses its setting
af_create(ch, cmd) ==
  LET new == IF cmd[1] \notin Known \/ (cmd[1] \in NotReentrant /\ cmd[1] \in Names(ch)) THEN {}
             ELSE IF Len(cmd) = 2 THEN control_set(Opened(cmd[1]), cmd[2]) ELSE {Opened(cmd[1])}
  IN SetToSeq(new)
\* af_prepend and af_append: put the filter cmd at place i, nothing when it is not created
Inserted(ch, i, cmd) == SubSeq(ch, 1, i - 1) \o af_create(ch, cmd) \o SubSeq(ch, i, Len(ch))
LastPlace(ch) == IF Last(ch).name = "format" THEN Len(ch) ELSE Len(ch) + 1

RECURSIVE Reinit(_, _, _)
\* The filter wants its input to be like in: convert the channels or else the format
\* (after channels the loop asks again, and then finds the format)
Convert(src, ch, i, in) ==
  LET at == Before(src, ch, i)
      cmd == IF at.nch # in.nch THEN <<"channels", in.nch>> ELSE <<"format", in.fmt>>
      new == Inserted(ch, i, cmd)
      r == control_reinit(new[i], at)
  IN IF Forcing \/ at = in \/ Len(new) = Len(ch) THEN Ended("error", ch)
     ELSE IF r.rv # "ok" THEN Ended("error", new)
     ELSE Reinit(src, [new EXCEPT ![i] = r.f], i + 1)
\* The loop of af_reinit at the i-th filter
Reinit(src, ch, i) ==
  IF i > Len(ch) THEN Ended("ok", ch)
  ELSE LET r == control_reinit(ch[i], Before(src, ch, i)) IN
    CASE r.rv = "ok" -> Reinit(src, [ch EXCEPT ![i] = r.f], i + 1)
      [] r.rv = "false" -> Convert(src, [ch EXCEPT ![i] = r.f], i, r.in)
      [] r.rv = "detach" -> IF Forcing THEN Ended("hung", ch) ELSE Reinit(src, RemoveAt(ch, i), i)
      [] r.rv = "error" -> Ended("error", [ch EXCEPT ![i] = r.f])
af_reinit(src, ch, i) ==
  IF ch = <<>> THEN Ended("error", Inserted(ch, 1, <<"dummy">>)) ELSE Reinit(src, ch, i)

\* fixup_output_format: the channels, the format, everything once more, and then the test
FixedChannels(src, ch, out) ==
  IF ch = <<>> THEN Ended("crashed", ch)
  ELSE IF out.nch \in {0, Last(ch).nch} THEN Ended("ok", ch)
  ELSE LET i == LastPlace(ch) IN af_reinit(src, Inserted(ch, i, <<"channels", out.nch>>), i)
FixedFormat(src, ch, out) ==
  IF ch = <<>> THEN Ended("crashed", ch)
  ELSE IF out.fmt \in {"none", Last(ch).fmt} THEN Ended("ok", ch)
  ELSE IF Last(ch).name = "format" THEN af_reinit(src, [ch EXCEPT ![Len(ch)].fmt = out.fmt], Len(ch))
  ELSE af_reinit(src, Inserted(ch, Len(ch) + 1, <<"format", out.fmt>>), Len(ch) + 1)
Filled(ch, out) == LET l == Out(Last(ch)) IN
  [x \in DOMAIN out |-> IF out[x] = Unasked[x] THEN l[x] ELSE out[x]]
Tested(ch, out) ==
  IF ch = <<>> THEN Ended("crashed", ch)
  ELSE IF Filled(ch, out) = Out(Last(ch)) THEN Ended("ok", ch) ELSE Ended("error", ch)
fixup_output_format(src, ch, out) ==
  OnOk(OnOk(OnOk(FixedChannels(src, ch, out), LAMBDA c : FixedFormat(src, c, out)),
            LAMBDA c : af_reinit(src, c, 1)),
       LAMBDA c : Tested(c, out))

\* af_downmix at the head of a new chain, for an output of two channels
Downmix(src) == IF src.nch \in 3..AF_NCH
           THEN << [Opened("pan") EXCEPT !.arg = 2, !.open = {0, 1}] >> ELSE <<>>
\* The filters of af_init's first call: the downmix, the list, at least a dummy
FirstFilters(src) ==
  LET add(r, cmd) == LET new == Inserted(r.ch, Len(r.ch) + 1, cmd)
                     IN IF r.st # "ok" \/ new = r.ch THEN Ended("error", r.ch) ELSE Ended("ok", new)
  IN OnOk(FoldLeft(add, Ended("ok", Downmix(src)), list),
          LAMBDA c : Ended("ok", IF c = <<>> THEN Inserted(c, 1, <<"dummy">>) ELSE c))
\* af_init resamples: the last filter that can is told the rate, or else one is put near
\* the head; there is no other resampler than lavcresample, which only AF_INIT_SLOW takes
FixedRate(src, ch, out) ==
  LET can == {i \in DOMAIN ch : ch[i].name = "lavcresample"}
      i == IF can # {} THEN Max(can) ELSE IF ch[1].name = "format" THEN 2 ELSE 1
  IN IF out.rate \in {0, Last(ch).rate} THEN Ended("ok", ch)
     ELSE IF can # {} THEN af_reinit(src, [ch EXCEPT ![i].rate = out.rate], i)
     ELSE IF force % 4 = 2 THEN Ended("error", ch)
     ELSE af_reinit(src, Inserted(ch, i, <<"lavcresample", out.rate>>), i)
Dummied(src, ch) ==
  IF ch = <<>> THEN af_reinit(src, Inserted(<<>>, 1, <<"dummy">>), 1) ELSE Ended("ok", ch)
Unmade(e) == Of(e, LAMBDA r : IF r.st = "error" THEN Ended("error", <<>>) ELSE r) \* af_uninit
Resampled(src, ch, out) ==
  IF Forcing THEN Ended("ok", ch)
  ELSE OnOk(FixedRate(src, ch, out), LAMBDA c : Unmade(fixup_output_format(src, c, out)))
af_init(src, ch, out) ==
  OnOk(OnOk(OnOk(IF ch = <<>> THEN FirstFilters(src) ELSE Ended("ok", ch),
                 LAMBDA c : af_reinit(src, c, 1)),
            LAMBDA c : Dummied(src, c)),
       LAMBDA c : Resampled(src, c, out))

\* af_add: when the chain does not fit with the new filter, it and what was inserted before it go
Without(ch, i) ==
  LET new == {j \in DOMAIN ch : ch[j].fresh}
      from == IF i = 2 THEN 2 ELSE 1
  IN IF new = {} \/ Max(new) < from THEN Ended("crashed", ch)
     ELSE Ended("ok", SubSeq(ch, 1, from - 1) \o SubSeq(ch, Max(new) + 1, Len(ch)))
Aged(r) == Ended(r.st, [i \in DOMAIN r.ch |-> [r.ch[i] EXCEPT !.fresh = FALSE]])
Refitted(src, r, out) ==
  IF r.st = "hung" THEN r
  ELSE Of(fixup_output_format(src, r.ch, out),
          LAMBDA x : IF x.st = "error" THEN Ended("ok", x.ch) ELSE x)
KeptOrNot(src, r, i, out) ==
  IF r.st # "error" THEN Aged(r)
  ELSE OnOk(Without(r.ch, i),
            LAMBDA c : Of(af_reinit(src, c, 1), LAMBDA x : Refitted(src, x, out)))
Tried(src, new, i, out) ==
  Of(OnOk(af_reinit(src, [new EXCEPT ![i].fresh = TRUE], 1),
          LAMBDA c : fixup_output_format(src, c, out)),
     LAMBDA r : KeptOrNot(src, r, i, out))
af_add(src, ch, cmd, out) ==
  LET i == IF ch[1].name = "format" THEN 2 ELSE 1
      new == Inserted(ch, i, cmd)
  IN IF ch = <<>> \/ Len(new) = Len(ch) THEN Ended("ok", ch) ELSE Tried(src, new, i, out)
-----------------------------------------------------------------------------
(* The player.                                                             *)

Init == /\ dec \in Inputs /\ chain = <<>> /\ input = dec /\ output = Unasked /\ ao = Unasked
        /\ list \in Lists /\ force \in Forces /\ speed = 2 /\ soft_vol = FALSE /\ phase = "closed"
        /\ fit = "whole"

Doing(p) == phase = p /\ UNCHANGED <<list, force>>
Then(e, Op(_)) == Of(e, LAMBDA r : IF r.st \in {"ok", "error"} THEN Op(r.ch) ELSE r)
\* How a call of af_init for the parameters out leaves the player; failed is where it then goes
Settle(result, out, good, failed) == \E r \in {result} :
  /\ phase' = CASE r.st = "ok" -> good [] r.st = "error" -> failed [] OTHER -> r.st
  /\ chain' = IF r.st = "ok" THEN r.ch ELSE <<>>
  /\ output' = IF r.st = "ok" /\ ~Forcing THEN Filled(r.ch, out) ELSE out
  /\ ao' = IF r.st = "error" THEN Unasked ELSE output'
  /\ fit' = "whole"
\* build_afilter_chain on the filters ch: a speed the filters cannot make is corrected
Asked(s) == LET r == (dec.rate * s) \div 2
            IN IF r = ao.rate THEN r ELSE Max({MinRate, Min({r, MaxRate})})
build_afilter_chain(r, s) ==
  LET src == [dec EXCEPT !.rate = Asked(s)] IN
  /\ input' = src
  /\ speed' = (2 * Asked(s)) \div dec.rate
  /\ Settle(Then(r, LAMBDA c : af_init(src, c, ao)), ao, "playing", "nosound")

\* reinit_audio_chain with no device open: the chain is built to see what it gives ...
Preinit == /\ Doing("closed")
           /\ input' = dec
           /\ Settle(af_init(dec, chain, Unasked), Unasked, "preinit", "exited")
           /\ UNCHANGED <<dec, speed, soft_vol>>
\* ... the device is opened, and takes that or decides on something else ...
Device(d) == /\ Doing("preinit") /\ (d \in Devices \/ (d = ao /\ ~Forcing))
             /\ ao' = d /\ phase' = "device"
             /\ UNCHANGED <<dec, chain, input, output, speed, soft_vol, fit>>
NoDevice == /\ Doing("preinit")
            /\ ao' = Unasked /\ chain' = <<>> /\ phase' = "nosound"
            /\ UNCHANGED <<dec, input, output, speed, soft_vol, fit>>
\* ... and the chain is made to fit
Build == /\ Doing("device")
         /\ build_afilter_chain(Ended("ok", chain), speed)
         /\ UNCHANGED <<dec, soft_vol>>
\* The decoder's format changes (fill_audio_out_buffers), or another track or file is opened
NewFormat(d) == /\ phase \in {"playing", "nosound"} /\ Doing(phase)
                /\ dec' = d /\ chain' = <<>> /\ ao' = Unasked /\ phase' = "closed"
                /\ fit' = "whole" /\ UNCHANGED <<input, output, speed, soft_vol>>
SetSpeed(s) == /\ Doing("playing")
               /\ build_afilter_chain(Ended("ok", chain), s)
               /\ UNCHANGED <<dec, soft_vol>>

\* The commands: what they do to the filters, and then reinit_audio_chain
\* Seeded error: the chain is not set up again after a command changed it.
CommandUnfitted(result) == \E r \in {result} :
  /\ chain' = r.ch /\ UNCHANGED <<input, speed, phase, output, ao, dec, soft_vol, fit>>
Command(r) == /\ build_afilter_chain(r, speed)
              /\ UNCHANGED <<dec, soft_vol>>
AfAdd(cmd) == /\ Doing("playing") /\ Len(chain) < MaxChain
              /\ Command(af_add(input, chain, cmd, output))
AfDel(name) == /\ Doing("playing") /\ name \in Names(chain)
               /\ LET i == Min({j \in DOMAIN chain : chain[j].name = name})
                  IN Command(Ended("ok", RemoveAt(chain, i)))
AfClr == /\ Doing("playing")
         /\ Command(af_init(input, <<>>, output))
AfSwitch(cmd) == /\ Doing("playing")
                 /\ Command(Then(af_init(input, <<>>, output), LAMBDA c : af_add(input, c, cmd, output)))
\* af_cmdline: the filter is set and the chain run through from there, whatever comes of it;
\* its end is not made to fit the device again
AfCmdline(cmd) ==
  /\ Doing("playing") /\ cmd[1] \in Names(chain)
  /\ input' = input
  /\ LET i == Min({j \in DOMAIN chain : chain[j].name = cmd[1]})
         set == control_set(chain[i], cmd[2])
     IN \E r \in {af_reinit(input, [chain EXCEPT ![i] =
                               IF set = {} THEN @ ELSE CHOOSE f \in set : TRUE], i)} :
        /\ chain' = r.ch
        /\ phase' = IF r.st \in {"ok", "error"} THEN phase ELSE r.st
        /\ fit' = IF r.st = "ok" /\ fit # "none" THEN "inside" ELSE "none"
  /\ UNCHANGED <<dec, output, ao, speed, soft_vol>>
\* Without a filter, which af_cmdline may do to the chain, nothing can be played (af_play)
PlayEmpty == /\ Doing("playing") /\ chain = <<>>
             /\ phase' = "crashed"
             /\ UNCHANGED <<dec, chain, input, output, ao, speed, soft_vol, fit>>

\* mixer_setvolume: with the device, or with a filter that is added when there is none
SetVolume(device) ==
  /\ Doing("playing")
  /\ input' = input
  /\ LET byDevice == device /\ ~soft_vol
         add == ~byDevice /\ "volume" \notin Names(chain) /\ Len(chain) < MaxChain
     IN \E r \in {IF add THEN af_add(input, chain, <<"volume">>, output) ELSE Ended("ok", chain)} :
        /\ chain' = r.ch
        /\ soft_vol' = (soft_vol \/ (add /\ "volume" \in Names(r.ch)))
        /\ phase' = IF r.st = "ok" THEN phase ELSE r.st
  /\ UNCHANGED <<dec, output, ao, speed, fit>>
\* mixer_setbalance: the last pan without a number of outputs of its own, or a new one
Balanced(ch, i, others) ==
  [ch EXCEPT ![i].open = (IF ch[i].nch >= 2 THEN @ \cup {0, 1} ELSE @) \cup others]
SetBalance ==
  /\ Doing("playing") /\ Len(chain) < MaxChain
  /\ input' = input
  /\ LET pans(ch) == {i \in DOMAIN ch : ch[i].name = "pan" /\ ch[i].arg = 0}
     IN IF pans(chain) # {}
        THEN chain' = Balanced(chain, Max(pans(chain)), {}) /\ UNCHANGED phase
        ELSE \* the chain is set up again, whatever comes of adding pan
             \E r \in {Then(af_add(input, chain, <<"pan">>, output),
                            LAMBDA c : af_init(input, c, output))} :
             /\ chain' = IF pans(r.ch) = {} THEN r.ch
                         ELSE Balanced(r.ch, Max(pans(r.ch)), 2..AF_NCH - 1)
             /\ phase' = IF r.st \in {"ok", "error"} THEN phase ELSE r.st
  /\ UNCHANGED <<dec, output, ao, speed, soft_vol, fit>>

Next ==
  \/ Preinit \/ (\E d \in Devices \cup {ao} : Device(d)) \/ NoDevice \/ Build
  \/ (\E d \in Inputs : NewFormat(d)) \/ (\E s \in Speeds : SetSpeed(s))
  \/ (\E cmd \in Commands : AfAdd(cmd) \/ AfDel(cmd[1]) \/ AfSwitch(cmd)) \/ AfClr
  \/ (\E cmd \in CmdLines : AfCmdline(cmd)) \/ PlayEmpty
  \/ (\E device \in BOOLEAN : SetVolume(device)) \/ SetBalance
Spec == Init /\ [][Next]_vars

-----------------------------------------------------------------------------
\* While it plays every filter is set for what the one before it delivers, the last delivers
\* what the device was opened with, and none is redundant (af_reinit, fixup_output_format).
\* After af_cmdline (command.c:2418-2428), until the chain is set up again, the filters still
\* fit each other, if it could be run through, but their end need not fit the device.
FiltersFit == \A i \in DOMAIN chain :
  LET at == Before(input, chain, i) IN control_reinit(chain[i], at) = Said("ok", chain[i], at)
ChainFits ==
  phase = "playing" /\ ~Forcing =>
    /\ fit # "none" => FiltersFit
    /\ fit = "whole" => chain # <<>> /\ Out(Last(chain)) = ao

\* The factors the filters report, by which the player computes how much to decode and how
\* much time is buffered (af_calc_filter_multiplier), make up the whole change of length.
Product(ch, k) == FoldLeft(LAMBDA x, f : x * f.mul[k], 1, ch)
Size(d) == d.nch * Bps[d.fmt] * d.rate
MultiplierTrue ==
  phase = "playing" /\ ~Forcing /\ fit # "none" /\ chain # <<>> =>
    Product(chain, 1) * Size(input) = Product(chain, 2) * Size(Out(Last(chain)))

\* Adding a filter, at a user's or the mixer's wish, never costs the sound, and drops no
\* other filter than surround, which only takes stereo, and the converters (af_add).
Chosen(ch) == SelectSeq(ch, LAMBDA f : f.name \in {"pan", "volume", "sub", "volnorm"})
Kept(old, new) == \E S \in SUBSET DOMAIN new :
  [i \in DOMAIN old |-> old[i].name] = [i \in 1..Cardinality(S) |-> new[SetToSortSeq(S, <)[i]].name]
AddsOnly ==
  [][~Forcing /\ ((\E cmd \in Commands : AfAdd(cmd)) \/ SetVolume(FALSE))
       => phase' = "playing" /\ Kept(Chosen(chain), Chosen(chain'))]_vars

\* A balance is set by a pan that lets every channel of its output through (mixer_setbalance).
BalanceHeard ==
  [][SetBalance => \A i \in DOMAIN chain' :
       chain'[i].name = "pan" /\ chain'[i].arg = 0 => 0..chain'[i].nch - 1 \subseteq chain'[i].open]_vars

\* Every call that sets up the filters returns: "The return value is 0 if success and -1 if
\* failure" (af_init).
CallsEnd == phase \notin {"crashed", "hung"}
=============================================================================
