---------------------------- MODULE VideoDecode ----------------------------
(***************************************************************************)
(* Pictures of libavcodec (vd_ffmpeg.c), the display configured for them   *)
(* (vd.c) and the images they are decoded into (vf_get_image).             *)
(*                                                                         *)
(* A codec that can draw into memory it is given ("direct rendering")      *)
(* gets one of two images in turn for a picture others refer to, and a     *)
(* third for one nobody refers to.  Which image is free is not looked up:  *)
(* two counters say how many are out, and direct rendering is given up     *)
(* when there are too many.  Otherwise the codec has buffers of its own,   *)
(* and an image without memory is pointed at them.                         *)
(*                                                                         *)
(* Simplifications: one thread, no palettes, no hardware formats of        *)
(* libavcodec (the display has none), so get_format only chooses what the  *)
(* codec would; slices are refused by the display.  The codec, external    *)
(* here, gives the pictures others refer to back oldest first.             *)
(***************************************************************************)
EXTENDS Integers, Sequences, FiniteSets, FiniteSetsExt, SequencesExt

CONSTANTS
  Films,    \* sequences of pictures in the order of decoding: size, fmt, sar (sample aspect) and
            \* ref, whether later ones refer to it
  Codecs,   \* entries of codecs.conf: outfmt, the formats listed, and of the decoder: direct, if
            \* set_dr_slice_settings would let it draw directly; refs, pictures it refers to;
            \* early, if the oldest goes before it asks for memory; delay, pictures it lags behind
  Aspects,  \* aspect ratios told by the container: width and height, <<0, 1>> for none
  Sizings,  \* values of -x, -y and -xy
  MaxFlushes, MaxDrops  \* bounds

Sizes == [w : Nat \ {0}, h : Nat \ {0}]
ASSUME DecodeAssumption ==
  /\ \A f \in Films : f # <<>> /\ f \in Seq([size : Sizes, fmt : STRING, sar : Nat, ref : BOOLEAN])
  /\ Codecs \subseteq [outfmt : Seq(STRING), direct : BOOLEAN, refs : Nat, early : BOOLEAN, delay : 0..1]
  /\ Aspects \subseteq Nat \X (Nat \ {0}) /\ Sizings \subseteq [x : Nat, y : Nat, xy : Nat]

Display == {"YV12", "NV12"}            \* query_format, all taken in hardware
Images == {"static0", "static1", "temp"}   \* and one to export, which has no memory
NoSize == [w |-> 0, h |-> 0]
NoPic == [n |-> 0, img |-> "own", ref |-> FALSE, size |-> NoSize]
UnsetSar == -1

VARIABLES
  step, film, codec, sizing, packet,
  container,   \* the aspect the container told
  sh_video,          \* size (disp_w, disp_h), original and aspect of sh_video
  ctx,         \* dr1 (with get_buffer2 the player's), ip, b, vo, fmt, csp, sar
  chain,       \* size and out of the last config, and the screen size asked for
  static_idx,
  mem,         \* the picture in the memory of an image
  avctx,       \* size, fmt, sar
  references, late, pic,  \* pictures referred to, those not put out, and refcount_frame
  mpi, hurried,   \* the image of this turn, with the size it was given; the player is late
  refused,     \* pictures refused in a row since their size changed, and that size
  flushes, drops
player == <<film, codec, sizing, container>>
decodeBounds == <<flushes, drops>>
decodeVars == <<step, player, packet, sh_video, ctx, chain, static_idx, mem, avctx, references, late,
                pic, mpi, hurried, refused, decodeBounds>>

NoMpi == [size |-> NoSize, n |-> 0]
NoRefusal == [size |-> NoSize, times |-> 0]
Used == (Range(references) \cup late \cup {pic}) \ {NoPic}

\* init: what set_dr_slice_settings says of the codec
DecodeInit ==
  /\ film \in Films /\ codec \in Codecs /\ container \in Aspects /\ sizing \in Sizings
  /\ step = "decode" /\ packet = 1
  /\ sh_video = [size |-> film[1].size, original |-> container, aspect |-> <<0, 1>>]
  /\ ctx = [dr1 |-> codec.direct, ip |-> 0, b |-> 0, vo |-> FALSE,
            fmt |-> "none", csp |-> "none", sar |-> UnsetSar]
  /\ chain = [size |-> NoSize, out |-> "none", screen |-> NoSize]
  /\ static_idx = 0 /\ mem = [i \in Images |-> 0]
  /\ avctx = [size |-> film[1].size, fmt |-> "none", sar |-> 0]
  /\ references = <<>> /\ late = {} /\ pic = NoPic /\ mpi = NoMpi /\ hurried = FALSE
  /\ refused = NoRefusal /\ flushes = 0 /\ drops = 0

-----------------------------------------------------------------------------
(* Configuring the display.  d: sh, ctx and chain, with res, how it went.  *)

Even(n) == n + (n % 2)
\* mpcodecs_config_vo from "calculate prescale" on; aspect <<a, b>> is a / b
ScreenSize(size, aspect) ==
  LET wished(wish, n) == IF wish = 0 THEN n ELSE IF wish <= 8 THEN wish * n ELSE wish
      scale == sizing.xy
      start == IF scale = 0 THEN size
               ELSE IF scale <= 8 THEN [w |-> size.w * scale, h |-> size.h * scale]
               ELSE [w |-> scale, h |-> (scale * size.h) \div size.w]
      wide == Even((start.h * aspect[1]) \div aspect[2])
      fitted == IF aspect[1] = 0 THEN start
                ELSE IF wide < start.w \/ scale > 8
                THEN [start EXCEPT !.h = Even((start.w * aspect[2]) \div aspect[1])]
                ELSE [start EXCEPT !.w = wide] IN
  IF sizing.x # 0 \/ sizing.y # 0
  THEN [w |-> wished(sizing.x, size.w), h |-> wished(sizing.y, size.h)]
  ELSE [w |-> Max({fitted.w, 2}), h |-> Max({fitted.h, 2})]

\* control, VDCTRL_QUERY_FORMAT
Gives(c, fmt) ==
  \/ fmt = c.csp
  \/ fmt \in {"YV12", "I420", "IYUV"} /\ (c.csp = "YV12" \/ (c.csp = "422P" /\ ~c.dr1))
OutFormat(c) ==
  LET common == {i \in DOMAIN codec.outfmt : Gives(c, codec.outfmt[i]) /\ codec.outfmt[i] \in Display}
  IN IF c.csp \in Range(codec.outfmt) \cap Display THEN c.csp
     ELSE IF common = {} THEN "none" ELSE codec.outfmt[Min(common)]

\* Without a common format filters are tried that are not there, and the chain is empty then.
ConfigVo(d, out) ==
  IF out = "none" THEN [d EXCEPT !.res = "crash"]
  ELSE [d EXCEPT !.sh.aspect = d.sh.original,
                 !.chain = [size |-> d.sh.size, out |-> out,
                            screen |-> ScreenSize(d.sh.size, d.sh.original)],
                 !.ctx.vo = TRUE]

\* update_configuration, set_format_params and set_dr_slice_settings with it
AspectOf(d, av, ignore) ==
  IF ~ignore /\ (d.sh.original[1] = 0 \/ (av.sar # d.ctx.sar /\ d.ctx.sar # UnsetSar))
  THEN <<av.sar * av.size.w, av.size.h>> ELSE d.sh.original
Update(d, av, ignore) ==
  IF (~ignore /\ av.sar # d.ctx.sar) \/ av.fmt # d.ctx.fmt \/ ~d.ctx.vo
  THEN [d EXCEPT !.sh.original = AspectOf(d, av, ignore),
                 !.ctx = [d.ctx EXCEPT !.vo = FALSE, !.dr1 = codec.direct,
                                       !.sar = IF ignore THEN @ ELSE av.sar,
                                       !.fmt = av.fmt, !.csp = av.fmt]]
  ELSE d
Configure(d, av) ==
  IF d.ctx.vo THEN d ELSE ConfigVo([d EXCEPT !.sh.size = av.size], OutFormat(d.ctx))
InitVo(d, av, ignore) ==
  IF av.fmt \notin Range(codec.outfmt) THEN [d EXCEPT !.res = "fail"]
  ELSE Configure(Update([d EXCEPT !.ctx.vo = @ /\ av.size = d.sh.size], av, ignore), av)
Now == [sh |-> sh_video, ctx |-> ctx, chain |-> chain, res |-> "ok"]
Configured(d) == sh_video' = d.sh /\ chain' = d.chain

\* release_buffer of pictures that nobody has any more
Released(c, gone) ==
  LET drawn == {p \in gone : p.img # "own"} IN
  [c EXCEPT !.ip = @ - Cardinality({p \in drawn : p.ref}),
            !.b = @ - Cardinality({p \in drawn : ~p.ref})]

-----------------------------------------------------------------------------
(* decode, up to what the codec does.                                      *)

More == packet <= Len(film)
\* The picture of the last call is let go; without direct rendering an image is fetched already.
BeginDecode(hurry) ==
  /\ pic' = NoPic /\ ctx' = Released(ctx, {pic} \ (Range(references) \cup late)) /\ hurried' = hurry
  /\ mpi' = IF ctx.vo /\ ~hurry /\ ~ctx.dr1 THEN [size |-> chain.size, n |-> 0] ELSE NoMpi
\* With no packet left the codec is asked for what it lags behind.
Start ==
  /\ step = "decode" /\ (More \/ late # {})
  /\ \/ BeginDecode(FALSE) /\ drops' = drops
     \/ BeginDecode(TRUE) /\ More /\ drops < MaxDrops /\ drops' = drops + 1
  /\ step' = IF More THEN "get" ELSE "drain"
  /\ UNCHANGED <<player, packet, sh_video, chain, static_idx, mem, avctx, references, late, refused,
                 flushes>>
Drain ==
  /\ step = "drain" /\ pic' \in late /\ late' = {} /\ step' = "out"
  /\ UNCHANGED <<player, packet, sh_video, ctx, chain, static_idx, mem, avctx, references, mpi, hurried,
                 refused, decodeBounds>>

\* AVDISCARD_NONREF: the codec leaves a picture out when the player is late
Skip ==
  /\ step = "get" /\ hurried /\ ~film[packet].ref
  /\ packet' = packet + 1 /\ step' = "decode"
  /\ UNCHANGED <<player, sh_video, ctx, chain, static_idx, mem, avctx, references, late, pic, mpi,
                 hurried, refused, decodeBounds>>

\* A header with another size or format, or the first: the codec gives back what it has and calls
\* get_format.  The sample aspect may not be known yet.
Renewed == avctx.fmt # film[packet].fmt \/ avctx.size # film[packet].size
Format(c, av) ==
  IF c.vo /\ c.fmt = av.fmt THEN [Now EXCEPT !.ctx = c] ELSE Update([Now EXCEPT !.ctx = c], av, TRUE)
Header ==
  /\ step = "get" /\ Renewed /\ ~(hurried /\ ~film[packet].ref)
  /\ \E sar \in {avctx.sar, film[packet].sar} :
       avctx' = [size |-> film[packet].size, fmt |-> film[packet].fmt, sar |-> sar]
  /\ references' = <<>> /\ late' = {}
  /\ LET d == Format(Released(ctx, Used), avctx') IN ctx' = d.ctx /\ sh_video' = d.sh
  /\ refused' = IF film[packet].size = avctx.size THEN refused ELSE NoRefusal
  /\ UNCHANGED <<step, player, packet, chain, static_idx, mem, pic, mpi, hurried, decodeBounds>>

\* The codec drops its oldest picture before it asks for memory, or after it decoded.
RefsKept(frames) == IF Len(frames) > codec.refs THEN Tail(frames) ELSE frames
Trimmed == IF codec.early /\ film[packet].ref /\ Len(references) >= codec.refs /\ references # <<>>
           THEN Tail(references) ELSE references
Asking ==
  LET gone == Range(references) \ (Range(Trimmed) \cup late)
      c == Released(ctx, gone) IN
  IF ~c.dr1 THEN c
  ELSE IF film[packet].ref THEN [c EXCEPT !.ip = @ + 1] ELSE [c EXCEPT !.b = @ + 1]

TooMany(c) == c.b > 1 \/ c.ip > 2
\* "disable_dr1": the counters stay as they are
WithoutDr1(c) == [c EXCEPT !.dr1 = FALSE]

\* vf_get_image for IP and IPB, which are the same here; that the memory is made larger, or anew
\* for another format, makes no difference to a picture that is written as a whole.
ImageFor == IF ~film[packet].ref THEN "temp" ELSE IF static_idx = 0 THEN "static0" ELSE "static1"

\* get_buffer2 and get_buffer, and the picture decoded into what they gave
Decoded(img) ==
  LET new == [n |-> packet, img |-> img, ref |-> film[packet].ref, size |-> avctx.size]
      refs == IF new.ref THEN RefsKept(Append(Trimmed, new)) ELSE Trimmed
      lagging == new.ref /\ codec.delay = 1 IN
  /\ references' = refs
  /\ late' = IF lagging THEN {new} ELSE late
  /\ pic' = IF ~lagging THEN new ELSE IF late = {} THEN NoPic ELSE CHOOSE p \in late : TRUE
  /\ avctx' = [avctx EXCEPT !.sar = film[packet].sar]
  /\ step' = IF pic' = NoPic THEN "decode" ELSE "out"
  /\ packet' = packet + 1
Left(c) == Released(c, Range(Trimmed) \ (Range(references') \cup late' \cup {pic'}))
\* Seeded error: the other image is not next.
NextStaticSame(refers) == static_idx
NextStatic(refers) == IF refers THEN 1 - static_idx ELSE static_idx
GetOwn ==
  /\ step = "get" /\ ~Renewed /\ ~(hurried /\ ~film[packet].ref)
  /\ ~ctx.dr1 /\ Decoded("own") /\ ctx' = Left(Asking)
  /\ UNCHANGED <<player, sh_video, chain, static_idx, mem, mpi, hurried, refused, decodeBounds>>
GetImage ==
  /\ step = "get" /\ ~Renewed /\ ~(hurried /\ ~film[packet].ref) /\ ctx.dr1
  /\ LET d == InitVo([Now EXCEPT !.ctx = Asking], avctx, TRUE) IN
     \/ /\ d.res = "crash" /\ step' = "crashed"
        /\ UNCHANGED <<packet, sh_video, ctx, chain, static_idx, mem, avctx, references, late, pic>>
     \/ /\ d.res = "fail" \/ (d.res = "ok" /\ TooMany(d.ctx))
        /\ Configured(d) /\ Decoded("own") /\ ctx' = Left(WithoutDr1(d.ctx))
        /\ UNCHANGED <<static_idx, mem>>
     \/ /\ d.res = "ok" /\ ~TooMany(d.ctx)
        /\ Configured(d) /\ Decoded(ImageFor) /\ ctx' = Left(d.ctx)
        /\ mem' = [mem EXCEPT ![ImageFor] = packet]
        /\ static_idx' = NextStatic(film[packet].ref)
  /\ UNCHANGED <<player, mpi, hurried, refused, decodeBounds>>

-----------------------------------------------------------------------------
(* decode, from the picture on, and filter_video.                          *)

SizeFits(m) == m = avctx.size /\ pic.size.w >= m.w /\ pic.size.h >= m.h
Refuse(size) ==
  refused' = [size |-> size, times |-> IF refused.size = size THEN refused.times + 1 ELSE 1]
\* The size of the image: of a picture drawn into it when it was asked for, and else fetched
\* before the codec was called, or now
OutPicture ==
  /\ step = "out"
  /\ LET d == InitVo(Now, avctx, FALSE)
         size == IF ctx.dr1 /\ pic.img # "own" THEN pic.size
                 ELSE IF mpi # NoMpi THEN mpi.size ELSE d.chain.size IN
     \/ d.res = "crash" /\ step' = "crashed" /\ UNCHANGED <<sh_video, ctx, chain, mpi, refused>>
     \/ d.res = "fail" /\ step' = "decode" /\ UNCHANGED <<sh_video, ctx, chain, mpi, refused>>
     \/ /\ d.res = "ok" /\ Configured(d) /\ ctx' = d.ctx
        /\ IF SizeFits(size)
           THEN /\ mpi' = [size |-> size, n |-> IF pic.img = "own" THEN pic.n ELSE mem[pic.img]]
                /\ step' = (IF hurried THEN "decode" ELSE "put") /\ refused' = NoRefusal
           ELSE Refuse(avctx.size) /\ mpi' = mpi /\ step' = "decode"
  /\ UNCHANGED <<player, packet, static_idx, mem, avctx, references, late, pic, hurried, decodeBounds>>
\* put_image: the display copies the picture
PutImage ==
  /\ step = "put" /\ step' = "decode"
  /\ UNCHANGED <<player, packet, sh_video, ctx, chain, static_idx, mem, avctx, references, late, pic,
                 mpi, hurried, refused, decodeBounds>>

\* VDCTRL_RESYNC_STREAM after a seek to the start: refcount_frame is let go with the next call.
Flush ==
  /\ step = "decode" /\ flushes < MaxFlushes /\ flushes' = flushes + 1
  /\ references' = <<>> /\ late' = {} /\ packet' = 1
  /\ ctx' = Released(ctx, (Range(references) \cup late) \ {pic})
  /\ UNCHANGED <<step, player, sh_video, chain, static_idx, mem, avctx, pic, mpi, hurried, refused,
                 drops>>

DecodeNext == Start \/ Drain \/ Skip \/ Header \/ GetOwn \/ GetImage \/ OutPicture \/ PutImage \/ Flush
DecodeSpec == DecodeInit /\ [][DecodeNext]_decodeVars

-----------------------------------------------------------------------------
(* Properties.                                                             *)

\* Nothing is decoded into the memory of a picture that others still refer to or that was not
\* put out yet: two images in turn are enough, because a third one is never let out and the
\* counters are never behind what the codec has.
PicturesKept ==
  /\ \A p \in Used : p.img # "own" => mem[p.img] = p.n
  /\ ctx.ip >= Cardinality({p \in Used : p.img # "own" /\ p.ref})
  /\ ctx.b >= Cardinality({p \in Used : p.img # "own" /\ ~p.ref})

\* What the display copies is the picture that was put out, it has the size the display was
\* configured for, in a format of the list that the display takes; for a change of size one
\* picture is lost, never two.
PutRight ==
  /\ step = "put" => /\ mpi.n = pic.n /\ mpi.size = pic.size /\ chain.size = pic.size
                     /\ chain.out \in Range(codec.outfmt) \cap Display
  /\ refused.times <= 1

\* "Do not overwrite sh->original_aspect on the first call, if a container aspect is available":
\* what the container said holds as long as the sample aspect stays what it was, whatever the
\* codec said before it had decoded anything.
OneSar == \A i, j \in DOMAIN film : film[i].sar = film[j].sar
AspectKept == step = "put" /\ container[1] # 0 /\ OneSar => sh_video.aspect = container

\* "we don't like horizontal downscale": without -x and -y the picture keeps its aspect on the
\* screen, but for rounding, and unless a width was forced its width is not reduced.
Abs(n) == Max({n, -n})
ShapeKept ==
  step = "put" /\ sizing.x = 0 /\ sizing.y = 0 =>
    LET a == sh_video.aspect IN
    /\ a[1] # 0 => Abs(chain.screen.w * a[2] - chain.screen.h * a[1]) <= Max({a[1], a[2]})
    /\ sizing.xy <= 8 => chain.screen.w >= chain.size.w

DecodeTrue == PicturesKept /\ PutRight /\ AspectKept /\ ShapeKept

\* "sws failed": a picture in a format the display does not take, with no filter to convert it,
\* makes the display refuse the codec, and no more.
FormatFails == step # "crashed"

\* "But set it even if the sample aspect did not change, since a resolution change can cause an
\* aspect change even if the _sample_ aspect is unchanged": without a container's aspect the
\* display has that of the picture.
AspectFollowed ==
  step = "put" /\ container[1] = 0 /\ film[pic.n].sar = avctx.sar =>
    sh_video.aspect = <<avctx.sar * pic.size.w, pic.size.h>>
=============================================================================
