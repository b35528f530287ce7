------------------------------ MODULE DeviceOpen ------------------------------
(* How the devices are opened: the two display drivers (preinit, uninit and    *)
(* the buffers of src/libvo/vo_omap_drm.c and vo_omap_drm_egl.c), the sound    *)
(* card (init and the mixer of src/libao2/ao_alsa.c), and the search for a     *)
(* driver that can be opened (video_out.c, audio_out.c).                       *)
(*                                                                             *)
(* An opening is a list of steps; each takes what the variables of its name    *)
(* hold, or fails.  A step that fails leads to the code that gives back what   *)
(* was taken ("fail"), or out of the function as it is ("return"); one that is *)
(* not tested for failure goes on.  There is a card with a primary node, which *)
(* may be one that cannot be opened as a display.                              *)
EXTENDS SequencesExt, Integers, FiniteSetsExt, TLC

Abs(n) == IF n < 0 THEN -n ELSE n

\* ---- what an opening takes and gives back

Step(takes, out) == [takes |-> takes, stores |-> TRUE, frees |-> {}, out |-> out]
Take(x, out) == Step({x}, out)
\* The variable of a call that failed is left as it was, where the call does not return its value.
TakeInto(x, out) == [Step({x}, out) EXCEPT !.stores = FALSE]
Test(out) == Step({}, out)
Free(x) == [Step({}, "none") EXCEPT !.frees = {x}]

\* ptr has, for each variable, which of the things taken it holds, 0 for NULL; held is what is taken,
\* twice what was given back although it was not taken any more; n counts.
Closed(vars) == [ptr |-> [x \in vars |-> 0], held |-> {}, twice |-> {}, n |-> 0]
Given(s, x, clears) ==
  IF s.ptr[x] = 0 THEN s
  ELSE [s EXCEPT !.held = @ \ {<<x, s.ptr[x]>>}, !.twice = @ \cup ({<<x, s.ptr[x]>>} \ s.held),
                 !.ptr[x] = IF clears THEN 0 ELSE @]
Frees(s, xs) == FoldSet(LAMBDA x, t : Given(t, x, TRUE), s, xs)
Taken(s, step) ==
  Frees([s EXCEPT !.n = @ + 1, !.ptr = [x \in DOMAIN @ |-> IF x \in step.takes THEN s.n + 1 ELSE @[x]],
                  !.held = @ \cup {<<x, s.n + 1>> : x \in step.takes}], step.frees)
Failed(s, step) ==
  Frees([s EXCEPT !.ptr = [x \in DOMAIN @ |-> IF x \in step.takes /\ step.stores THEN 0 ELSE @[x]]], step.frees)
\* The steps of a list that say how what was taken is given back
Back(x) == [var |-> x, clears |-> TRUE]
BackKept(x) == [var |-> x, clears |-> FALSE]
Undone(s, list) == FoldLeft(LAMBDA t, b : Given(t, b.var, b.clears), s, list)
\* One opening whose step number failing does not succeed; 0 is none.
Opened(s, steps, undo, failing) ==
  LET before == IF failing = 0 THEN steps ELSE SubSeq(steps, 1, failing - 1)
      done == FoldLeft(Taken, s, before)
  IN IF failing = 0 THEN done
     ELSE IF steps[failing].out = "return" THEN Failed(done, steps[failing])
     ELSE Undone(Failed(done, steps[failing]), undo)

\* ---- the steps of the display drivers

\* The card, its connector and mode; a plane or two, and their order; the primary buffer and the mode
Card == << Take("devices", "none"), Step({"fd", "resources"}, "fail"), Take("planes", "none"), Take("connector", "fail"),
           [Test("return") EXCEPT !.frees = {"connector"}], Take("planes", "return") >>
Ordered == << Take("properties", "return"), Test("return"), Free("properties") >>
Planes == << Test("return"), Test("return") >> \o Ordered \o Ordered
Primary == << TakeInto("primary handle", "fail"), TakeInto("primary fb", "fail"), Test("fail"), Take("primary map", "fail"),
              Take("old crtc", "none"), Test("fail") >>
Osd(i) == << TakeInto("osd handle" \o i, "fail"), TakeInto("osd fb" \o i, "fail"), Take("osd map" \o i, "fail") >>
EglCard == Card \o << Test("return") >> \o Ordered
Surface == << Take("gbm device", "fail"), Take("gbm surface", "fail"), Take("display", "fail"), Test("fail"), Take("context", "fail"),
              Take("surface", "fail"), Test("fail") >>
Shaders == << Take("vertex shader", "none"), Test("fail"), Take("fragment shader", "none"), Test("fail"), Take("program", "none"), Test("fail") >>
EglPrimary == Primary
preinit(driver) ==
  IF driver = "omap_drm" THEN Card \o Planes \o Primary \o Osd("1") \o Osd("2")
  ELSE EglCard \o Surface \o Shaders \o EglPrimary

Backs(xs) == [i \in DOMAIN xs |-> Back(xs[i])]
OsdBack == Backs(<<"osd fb1", "osd map1", "osd handle1", "osd fb2", "osd map2", "osd handle2">>)
\* The label fail of preinit.  (omap_drm never sets _primarySize: its primary map stays mapped.)
OmapFail == OsdBack \o <<Back("primary fb"), BackKept("primary handle")>> \o Backs(<<"planes", "resources", "fd">>)
EglFail ==
  Backs(<<"vertex shader", "fragment shader", "program", "surface", "context", "display", "gbm surface", "gbm device", "primary fb">>)
  \o <<BackKept("primary map"), BackKept("primary handle")>> \o Backs(<<"planes", "resources", "fd">>)
fail(driver) == IF driver = "omap_drm" THEN OmapFail ELSE EglFail
Kept == <<BackKept("primary handle"), BackKept("planes"), BackKept("resources"), BackKept("fd")>>
\* Seeded error: the old mode of the screen is forgotten.
OmapUninitKeepingMode == OsdBack \o <<Back("primary fb")>> \o Kept
OmapUninit == OsdBack \o Backs(<<"old crtc", "primary fb">>) \o Kept
EglUninit ==
  Backs(<<"vertex shader", "fragment shader", "program">>) \o <<BackKept("context"), BackKept("surface")>>
  \o Backs(<<"display", "gbm surface", "gbm device", "old crtc", "primary fb">>) \o <<BackKept("primary map")>> \o Kept
uninit(driver) == IF driver = "omap_drm" THEN OmapUninit ELSE EglUninit

\* A buffer for frames, and how it is given back
OmapBuffer ==
  << Take("buffer", "none"), TakeInto("handle", "return"), Test("return"), Take("map", "return"), TakeInto("dma", "return"), TakeInto("fb", "return") >>
EglBuffer ==
  << Take("buffer", "none"), Test("return"), TakeInto("handle", "return"), Test("return"), Take("map", "return"),
     Step({"dma", "dma, first"}, "return"), Take("image", "fail"), Take("texture", "fail"), Test("fail") >>
getDisplayVideoBuffer(driver) == IF driver = "omap_drm" THEN OmapBuffer ELSE EglBuffer
releaseVideoBuffer == Backs(<<"fb", "map", "dma", "handle", "buffer">>)
releaseRenderTexture == Backs(<<"image", "texture", "dma", "handle", "buffer">>)
releaseDisplayVideoBuffer(driver) == IF driver = "omap_drm" THEN releaseVideoBuffer ELSE releaseRenderTexture

Vars(steps) == UNION {step.takes : step \in Range(steps)}
CanFail(steps) == {i \in DOMAIN steps : steps[i].out # "none"}

\* ---- the first driver of a list that can be opened; an empty name at the end stands for all others
\* works has the drivers that can be opened; a name of an audio driver is one its own begins with.
Matches(exact, name, driver) == IF exact THEN name = driver ELSE IsPrefix(name, driver)
Named(drivers, name, exact) == SelectSeq(drivers, LAMBDA d : Matches(exact, name, d))
FirstOf(drivers, works) == LET open == SelectSeq(drivers, LAMBDA d : d \in works) IN IF open = <<>> THEN <<>> ELSE <<open[1]>>
init_best(drivers, list, works, exact) ==
  LET rest == SelectInSeq(list, LAMBDA name : name = <<>>)
      named == IF rest = 0 THEN list ELSE SubSeq(list, 1, rest - 1)
      Tried(name) == LET d == Named(drivers, name, exact) IN IF exact \/ d = <<>> THEN d ELSE <<d[1]>>
      chosen == FirstOf(FlattenSeq([i \in DOMAIN named |-> Tried(named[i])]), works)
  IN IF chosen # <<>> THEN chosen ELSE IF list = <<>> \/ rest # 0 THEN FirstOf(drivers, works) ELSE <<>>

\* ---- the sound card: which device is opened, and the format that is agreed on

\* Samples are of a sort, a width and an order of bytes; compressed sound has 16 bits.
Special(format) == format.sort \in {"ac3", "iec61937"}
S16_LE == [sort |-> "s", bits |-> 16, end |-> "le"]
alsa_format(format) ==
  CASE Special(format) -> [S16_LE EXCEPT !.end = format.end]
    [] format.bits = 8 \/ format.sort \in {"mulaw", "alaw"} -> [format EXCEPT !.end = "le"]
    [] format.sort \in {"mpeg2", "adpcm"} -> [sort |-> "mpeg", bits |-> 0, end |-> "le"]
    [] OTHER -> format
device(channels, format) ==
  IF Special(format) THEN "iec958"
  ELSE IF channels \notin {4, 6, 8} THEN "default"
  ELSE (IF alsa_format(format) = [sort |-> "float", bits |-> 32, end |-> "le"] THEN "plug:surround" ELSE "surround") \o
       (CASE channels = 4 -> "40" [] channels = 6 -> "51" [] channels = 8 -> "71")
\* What the card is set to and what ao_data tells the filters, when the card takes the given formats and
\* numbers of channels; near is the number of channels next to the one asked for.
SetUp(format, channels, takes, near) ==
  LET known == alsa_format(format) \in takes IN
  [alsa |-> IF known THEN alsa_format(format) ELSE S16_LE,
   ao |-> IF known THEN format ELSE IF Special(format) THEN [format EXCEPT !.bits = 16, !.end = "le"] ELSE S16_LE,
   channels |-> near[channels]]
bytes_per_sample(set) == (set.ao.bits \div 8) * set.channels

\* The options, the opening, and the parameters of the card and of the library
AlsaInit == << Test("return"), Take("card", "return"), Test("none") >> \o [i \in 1..16 |-> Test("return")]

\* The mixer: its opening, the element, and the two channels, or the switch of one without a volume
Mixer == << Take("mixer", "return") >> \o [i \in 1..6 |-> Test("fail")]
MixerBack(volume) == IF volume THEN << Back("mixer") >> ELSE <<>>

\* ---- the volume of the card: a part of its range, n of d, rounded; a conversion cuts towards zero
Cut(n, d) == IF n >= 0 THEN n \div d ELSE -((-n) \div d)
SetVolume(pmin, pmax, part) == Cut((2 * part[1] * (pmax - pmin)) + (2 * part[2] * pmin) + part[2], 2 * part[2])
GetVolume(pmin, pmax, value) == <<value - pmin, pmax - pmin>>
\* A channel at 0 is switched off as well, where the card has switches; one for both when both are 0.
Switches(left, right, joined) == IF joined THEN <<left # 0 \/ right # 0>> ELSE <<left # 0, right # 0>>

\* ---- the options behind the name of a driver: a sequence of words and signs
Digit(t) == CASE t = "1" -> 1 [] t = "2" -> 2 [] t = "3" -> 3
\* A value, and what is behind it: quoted, with its length before it, or up to the next option
parse_str(str) ==
  LET None == [value |-> <<>>, rest |-> str]
      Of(first, len) == [value |-> SubSeq(str, first, first + len - 1), rest |-> SubSeq(str, first + len, Len(str))]
      end == SelectInSeq(str, LAMBDA t : t = ":")
      quote == IF str = <<>> THEN 0 ELSE SelectInSeq(Tail(str), LAMBDA t : t = "\"")
  IN CASE str = <<>> -> None
       [] str[1] = "%" -> IF Len(str) >= 3 /\ str[2] \in {"1", "2", "3"} /\ str[3] = "%" /\ Len(str) - 3 >= Digit(str[2]) THEN Of(4, Digit(str[2])) ELSE None
       [] str[1] = "\"" -> IF quote = 0 THEN None ELSE [Of(2, quote - 1) EXCEPT !.rest = Tail(@)]
       [] OTHER -> Of(1, IF end = 0 THEN Len(str) ELSE end - 1)
RECURSIVE subopt_parse(_, _, _)
\* set has what the options are set to; -1 is returned for a word that is none
subopt_parse(opts, str, set) ==
  LET cut == SelectInSeq(str, LAMBDA t : t \in {":", "="})
      name == IF cut = 0 THEN str ELSE SubSeq(str, 1, cut - 1)
      rest == SubSeq(str, Len(name) + 1, Len(str))
      Next(r, to) == IF r = <<>> THEN [ret |-> 0, set |-> to]
                     ELSE IF r[1] = ":" THEN subopt_parse(opts, Tail(r), to) ELSE [ret |-> -1, set |-> to]
      Bool(o) == o \in DOMAIN opts /\ opts[o] = "bool"
  IN CASE str = <<>> -> [ret |-> 0, set |-> set]
       [] Len(name) = 1 /\ Bool(name[1]) -> Next(rest, [set EXCEPT ![name[1]] = <<"yes">>])
       [] Len(name) = 2 /\ name[1] = "no" /\ Bool(name[2]) -> Next(rest, [set EXCEPT ![name[2]] = <<"no">>])
       [] Len(name) = 1 /\ name[1] \in DOMAIN opts /\ ~Bool(name[1]) ->
            LET to == IF rest # <<>> /\ rest[1] = "=" THEN parse_str(Tail(rest)) ELSE [value |-> <<>>, rest |-> rest]
            IN IF to.value = <<>> THEN [ret |-> -1, set |-> set] ELSE Next(to.rest, [set EXCEPT ![name[1]] = to.value])
       [] OTHER -> Next(str, set)

\* ---- where the picture is put by both: x, y, width and height on a screen of W by H
Placed(W, H, w, h) ==
  IF w * H >= h * W THEN [x |-> 0, y |-> (H - (h * W) \div w) \div 2, w |-> W, h |-> (h * W) \div w]
  ELSE [x |-> (W - (w * H) \div h) \div 2, y |-> 0, w |-> (w * H) \div h, h |-> H]

\* ---- what is promised

Left(s) == {h[1] : h \in s.held}
\* Twice opened: the first one fails at a, the second at b; what was opened is closed.
Tried(driver, s, at) ==
  LET t == Opened(s, preinit(driver), fail(driver), at) IN IF at = 0 THEN Undone(t, uninit(driver)) ELSE t
Forgotten(driver) == {"devices", "planes"} \cup (IF driver = "omap_drm" THEN {"primary map"} ELSE {})
\* Wherever the opening of a display fails, what it took is given back, and nothing twice; and so does
\* closing it, which also sets the old mode again.  What is lost each time: the list of cards, a first
\* list of planes, the map of omap_drm's primary buffer; and the old mode when the last steps fail.
\* (Steps that fail between the choice of the mode and the order of the planes leave all as it is.)
FirstGivenBack(driver, at, s) ==
  at = 0 \/ preinit(driver)[at].out = "fail" =>
    s.twice = {} /\ Left(s) \subseteq Forgotten(driver) \cup (IF at = 0 THEN {} ELSE {"old crtc"})
\* What is given back again after a second failure is what the first time left in its variables: the
\* handle and the map of the primary buffer, EGL's context and surface, and the list of planes of a
\* display that was closed when its card is gone.  When it succeeds nothing is.
SecondGivenBack(driver, a, b, s) ==
  {h[1] : h \in s.twice} \subseteq
    IF b = 0 THEN {} ELSE {"primary handle", "primary map", "context", "surface"} \cup (IF a = 0 /\ b = 2 THEN {"planes"} ELSE {})
DisplayGivenBack(driver, a, b) ==
  LET Second(one) == FirstGivenBack(driver, a, one) /\ SecondGivenBack(driver, a, b, Tried(driver, one, b))
  IN Second(Tried(driver, Closed(Vars(preinit(driver))), a))

\* A buffer that is given back is given back as a whole, but for what EGL's never is: its map, and the
\* first of its two descriptors.
BufferGivenBack(driver) ==
  LET steps == getDisplayVideoBuffer(driver)
      s == Undone(Opened(Closed(Vars(steps)), steps, <<>>, 0), releaseDisplayVideoBuffer(driver))
  IN s.twice = {} /\ Left(s) = IF driver = "omap_drm" THEN {} ELSE {"map", "dma, first"}

\* A sound card that cannot be opened leaves nothing behind; one that cannot be set up stays open, and
\* is closed by nobody.  The mixer is closed but for an element without a volume.
CardGivenBack(failing) ==
  Left(Opened(Closed({"card"}), AlsaInit, <<>>, failing)) = IF failing \in {1, 2} THEN {} ELSE {"card"}
MixerGivenBack(failing, volume) ==
  LET s == Opened(Closed({"mixer"}), Mixer, << Back("mixer") >>, failing)
      t == IF failing = 0 THEN Undone(s, MixerBack(volume)) ELSE s
  IN Left(t) = IF failing = 0 /\ ~volume THEN {"mixer"} ELSE {}

\* The driver that is used is the first one named that can be opened; those not named are tried only
\* when the list ends with an empty name, or is empty.
Uses(drivers, list, works, exact, used) ==
  LET Reached(d, i) == d \in works /\ list[i] # <<>> /\ Matches(exact, list[i], d) /\ \A k \in 1..i : list[k] # <<>>
                       /\ (exact \/ \A e \in DOMAIN drivers : Matches(exact, list[i], drivers[e]) => \E f \in 1..e : drivers[f] = d)
      open == list = <<>> \/ <<>> \in Range(list)
      named == {i \in DOMAIN list : \E d \in Range(drivers) : Reached(d, i)}
  IN CASE named # {} -> used # <<>> /\ Reached(used[1], Min(named))
       [] named = {} /\ open /\ works # {} -> used # <<>> /\ used[1] \in works
       [] OTHER -> used = <<>>
DriverNamed(drivers, list, works, exact) == Uses(drivers, list, works, exact, init_best(drivers, list, works, exact))

\* The filters are told the format the card was set to, whatever it takes; the device has as many
\* channels as there are, where there is one for them.
CardAgrees(format, channels, takes, near) ==
  LET set == SetUp(format, channels, takes, near) IN
  /\ set.alsa \in takes /\ alsa_format(set.ao) = set.alsa
  /\ set.ao.bits > 0 => bytes_per_sample(set) * 8 = set.alsa.bits * near[channels]
\* The volume that was set is the one that is read, to half a step of the card, and what is read may be
\* set again; silence is its lowest value and 100 % its highest.  (Of a card whose values are positive:
\* the others are cut towards zero.)
VolumeKept(pmin, pmax, percent) ==
  LET value == SetVolume(pmin, pmax, <<percent, 100>>)
      part == GetVolume(pmin, pmax, value)
  IN /\ value \in pmin..pmax
     /\ 2 * Abs((part[1] * 100) - (percent * part[2])) <= 100
     /\ SetVolume(pmin, pmax, part) = value
     /\ percent = 0 => value = pmin
     /\ percent = 100 => value = pmax
\* Options are read as they are written, the last of each counting.
Written(item) ==
  CASE item.form = "yes" -> <<item.name>> [] item.form = "no" -> <<"no", item.name>>
    [] item.form = "plain" -> <<item.name, "=">> \o item.value
    [] item.form = "quoted" -> <<item.name, "=", "\"">> \o item.value \o <<"\"">>
    [] item.form = "counted" -> <<item.name, "=", "%", ToString(Len(item.value)), "%">> \o item.value
OptionsRead(opts, items) ==
  LET str == FlattenSeq([i \in DOMAIN items |-> IF i = 1 THEN Written(items[i]) ELSE <<":">> \o Written(items[i])])
      unset == [o \in DOMAIN opts |-> <<>>]
      Final(o) == SelectLastInSeq(items, LAMBDA i : i.name = o)
      Meant(o) == IF Final(o) = 0 THEN <<>> ELSE IF opts[o] = "bool" THEN <<items[Final(o)].form>> ELSE items[Final(o)].value
  IN subopt_parse(opts, str, unset) = [ret |-> 0, set |-> [o \in DOMAIN opts |-> Meant(o)]]
\* The picture is on the screen, as large as there is room, in the middle, and keeps its shape.
PictureFits(W, H, w, h) ==
  LET p == Placed(W, H, w, h) IN
  /\ (p.w = W /\ p.h <= H) \/ (p.h = H /\ p.w <= W)
  /\ Abs(W - p.w - (2 * p.x)) <= 1 /\ Abs(H - p.h - (2 * p.y)) <= 1 /\ p.x >= 0 /\ p.y >= 0
  /\ Abs((p.w * h) - (p.h * w)) < Max({w, h})
==============================================================================
