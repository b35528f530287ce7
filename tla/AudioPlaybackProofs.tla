------------------------ MODULE AudioPlaybackProofs ------------------------
(***************************************************************************)
(* Proof that samples keep their order and their time between the decoder  *)
(* and the sound card, that filters get those of their format only, that   *)
(* no buffer overflows, and that an audio file does not end before the     *)
(* device was given all of it: for files, buffers, devices and pauses of   *)
(* every number and size.                                                  *)
(***************************************************************************)
EXTENDS AudioPlayback, FiniteSetTheorems, SequenceTheorems, TLAPS

SoundShapes ==
  /\ track \in Files /\ at \in 1..Len(track) + 1 /\ sh \in STRING \ {"bad"}
  /\ (ending \/ drained) /\ ~video => at = Len(track) + 1
  /\ ending \in BOOLEAN /\ drained \in BOOLEAN /\ change \in BOOLEAN /\ huge \in BOOLEAN
  /\ final \in BOOLEAN /\ audio_eof \in BOOLEAN /\ video \in BOOLEAN
  /\ abuf \in Seq(Nat) /\ out \in Seq(Nat) /\ held \in Seq(Nat) /\ dev \in Seq(Nat)
  /\ pts \in Nat /\ missed \in Nat /\ toWrite \in Nat /\ playsize \in Nat /\ declen \in Nat /\ faults \in Nat
  /\ space \in 0..DevSize /\ res \in {0, -1, -2}

\* What a call works on, and that nothing is left to be filtered where it stopped.
InCall == pc \in {"decode", "feed", "piece", "play"}
CallShape ==
  /\ pc = "loop" \/ InCall => Len(dev) + toWrite + (IF InCall THEN playsize ELSE 0) <= DevSize
  /\ InCall => playsize <= MaxBurst
  /\ pc = "play" => playsize \in 1..Len(out)
  /\ pc = "feed" => Len(out) < playsize /\ declen <= MaxDecode /\ (res # 0 => declen = Len(abuf))
  /\ pc \in {"decode", "feed"} => ~change
  /\ change \/ (pc \in {"decode", "piece", "finished"} /\ res # 0) => abuf = <<>>
  /\ pc = "finished" \/ (pc = "ended" /\ ~video) => /\ abuf = <<>> /\ out = <<>>
                                                    /\ ending /\ ~change

\* What the buffers hold at most.
SoundRoom == /\ Len(dev) <= DevSize /\ Len(abuf) <= ABufSize /\ Len(held) <= MaxHeld
             /\ Len(out) <= MaxBurst + MaxDecode + MaxHeld

\* The decoder is ahead of the filters by a format only while a change is under way.
FormatKnown == sh = af \/ change \/ (pc \in {"decode", "feed"} /\ res = -2)

Silent(s) == \A i \in DOMAIN s : s[i] = 0
AllSilent == Silent(out) /\ Silent(held) /\ Silent(abuf)
\* What waits is of packets the decoder had.
Behind == \A u \in Range(out) \cup Range(held) \cup Range(abuf) : u <= FrameLen * (at - 1)

\* Samples numbered up to last, with silence between them, as far as they come after what was
\* lost at the decoder.
Ends(s, last) == \A i \in DOMAIN s : s[i] # 0 /\ s[i] > missed => s[i] = last - Len(s) + i
\* What waits ends at the decoder's position, in each buffer; once the device was opened
\* anew for another format only silence waits.
Timed ==
  ~change =>
    IF res = -2 THEN pc \in {"decode", "feed"} \/ AllSilent
    ELSE Ends(abuf, pts) /\ Ends(held, pts - Len(abuf)) /\ Ends(out, pts - Len(abuf) - Len(held))

\* The device's buffer is filled in one piece, and has two periods.
OneBurst == DevSize <= MaxBurst /\ 2 * Outburst <= DevSize
\* Without a fault the device is never found suspended.
DeviceState ==
  /\ devst = "prepared" => Len(dev) < Outburst
  /\ devst = "setup" => pc = "paused" /\ ~canPause
  /\ canPause \in BOOLEAN
  /\ faults = 0 => devst \in IF pc = "paused" THEN {"prepared", "running", "paused", "setup"}
                             ELSE {"prepared", "running"}
\* Nothing goes wrong in a file without pictures.
Smooth == OneBurst /\ faults = 0 /\ ~video
\* A piece is a whole period: so a chunk that is not final is either written or tried again,
\* and nothing that the device could take is given up.
Pieces ==
  Smooth =>
    /\ InCall => toWrite = 0
    /\ pc = "loop" => toWrite = 0 \/ toWrite >= Outburst
    /\ pc \in {"decode", "feed", "piece"} => playsize >= Outburst
    /\ pc = "play" => final \/ playsize >= Outburst \/ (~change /\ ~audio_eof)
\* Every sample that decodes is on its way, was written, or was lost at a change of format.
Somewhere == written \cup skipped \cup Range(out) \cup Range(held) \cup Range(abuf)
Covered ==
  Smooth => \A u \in 1..FrameLen * (at - 1) : FormatOf(u) # "bad" => u \in Somewhere

SoundInv == /\ SoundShapes /\ CallShape /\ SoundRoom /\ FormatKnown /\ Behind /\ Timed /\ RightFormat
            /\ DeviceState /\ Pieces /\ Covered

-----------------------------------------------------------------------------
(* Packets and their samples. *)

LEMMA LeastNat ==
  ASSUME NEW T, T \subseteq Nat, T # {}
  PROVE  Min(T) \in T /\ \A y \in T : Min(T) <= y
<1> DEFINE R == OpToRel(<, Nat)
<1>1. PICK x \in T : \A y \in T : ~ (<<y, x>> \in R)
  <2>1. IsWellFoundedOn(R, Nat)
    BY NatLessThanWellFounded
  <2> HIDE DEF R
  <2> QED
    BY <2>1, WFMin
<1>2. \A y \in T : ~ (y < x)
  BY <1>1 DEF OpToRel
<1>3. \A y \in T : x <= y
  BY <1>2
<1> QED
  BY <1>3 DEF Min

LEMMA FileShape ==
  ASSUME NEW f \in Files
  PROVE  f \in Seq(STRING) /\ Len(f) \in Nat \ {0} /\ DOMAIN f = 1..Len(f) /\ f[1] # "bad"
<1>1. f \in Seq(STRING) /\ f # <<>> /\ f[1] # "bad"
  BY SoundAssumption
<1> QED
  BY <1>1, EmptySeq, LenProperties

\* The packets of the decoder's format that come next.
LEMMA GoodRun ==
  ASSUME SoundShapes
  PROVE  /\ Good \in Nat /\ at + Good <= Len(track) + 1
         /\ \A n \in 0..Good - 1 : at + n <= Len(track) /\ track[at + n] = sh
         /\ at + Good > Len(track) \/ track[at + Good] # sh
<1> DEFINE T == {n \in 0..Len(track) : at + n > Len(track) \/ track[at + n] # sh}
<1>1. Len(track) \in Nat \ {0} /\ at \in 1..Len(track) + 1
  BY FileShape DEF SoundShapes
<1>2. Len(track) + 1 - at \in T /\ T \subseteq Nat
  BY <1>1
<1>3. Good \in T /\ \A n \in T : Good <= n
  <2>1. Good = Min(T)
    BY DEF Good
  <2> HIDE DEF T
  <2> QED
    BY <1>2, <2>1, LeastNat
<1>4. Good <= Len(track) + 1 - at
  BY <1>2, <1>3
<1>5. ASSUME NEW n \in 0..Good - 1 PROVE at + n <= Len(track) /\ track[at + n] = sh
  <2>1. n \in 0..Len(track) /\ n < Good
    BY <1>1, <1>2, <1>3, <1>4
  <2>2. n \notin T
    <3> HIDE DEF T
    <3> QED
      BY <1>2, <1>3, <2>1
  <2> QED
    BY <1>1, <2>1, <2>2
<1> QED
  BY <1>1, <1>3, <1>4, <1>5

LEMMA Product ==
  ASSUME NEW a \in Nat, NEW b \in Nat, NEW k \in Nat
  PROVE  /\ k * a \in Nat /\ k * (a + b) = k * a + k * b
         /\ a <= b => k * a <= k * b
  OBVIOUS

LEMMA Quotient ==
  ASSUME NEW k \in Nat \ {0}, NEW q \in Nat, NEW x \in Nat, q * k <= x, x < (q + 1) * k
  PROVE  x \div k = q
<1> DEFINE d == x \div k
<1>1. d \in Nat /\ d * k <= x /\ x < (d + 1) * k
  OBVIOUS
<1> HIDE DEF d
<1>2. ASSUME d < q PROVE FALSE
  <2>1. (d + 1) * k <= q * k
    BY <1>1, <1>2
  <2>2. (d + 1) * k \in Nat /\ q * k \in Nat
    BY <1>1
  <2> QED
    BY <1>1, <2>1, <2>2
<1>3. ASSUME q < d PROVE FALSE
  <2>1. (q + 1) * k <= d * k
    BY <1>1, <1>3
  <2>2. (q + 1) * k \in Nat /\ d * k \in Nat
    BY <1>1
  <2> QED
    BY <1>1, <2>1, <2>2
<1>4. d = q
  BY <1>1, <1>2, <1>3
<1> QED
  BY <1>4 DEF d

\* A sample is of the packet it is in.
LEMMA FormatInPacket ==
  ASSUME NEW f \in Nat \ {0}, NEW u \in Nat, FrameLen * (f - 1) < u, u <= FrameLen * (f - 1) + FrameLen
  PROVE  FormatOf(u) = track[f]
<1>1. FrameLen \in Nat \ {0}
  BY SoundAssumption
<1> DEFINE q == f - 1
<1>2. q \in Nat /\ q + 1 = f
  OBVIOUS
<1>3. FrameLen * q = q * FrameLen /\ q * FrameLen \in Nat
  BY <1>1, <1>2
<1>4. (q + 1) * FrameLen = q * FrameLen + FrameLen
  BY <1>1, <1>2
<1> HIDE DEF q
<1>5. u - 1 \in Nat /\ q * FrameLen <= u - 1 /\ u - 1 < (q + 1) * FrameLen
  <2>1. FrameLen * q < u /\ u <= FrameLen * q + FrameLen
    BY DEF q
  <2> QED
    BY <1>1, <1>3, <1>4, <2>1
<1>6. (u - 1) \div FrameLen = q
  BY <1>1, <1>2, <1>5, Quotient
<1> QED
  BY <1>2, <1>6 DEF FormatOf

LEMMA SamplesShape ==
  ASSUME NEW f \in Nat \ {0}, NEW n \in Nat
  PROVE  /\ Samples(f, n) \in Seq(Nat) /\ n * FrameLen \in Nat
         /\ Len(Samples(f, n)) = n * FrameLen
         /\ FrameLen * (f - 1) \in Nat
         /\ \A i \in 1..n * FrameLen : Samples(f, n)[i] = FrameLen * (f - 1) + i
         /\ \A i \in 1..n * FrameLen : Samples(f, n)[i] \in Nat
<1>1. FrameLen \in Nat /\ f - 1 \in Nat
  BY SoundAssumption
<1>2. n * FrameLen \in Nat /\ FrameLen * (f - 1) \in Nat
  BY <1>1
<1>3. \A i \in 1..n * FrameLen : FrameLen * (f - 1) + i \in Nat
  BY <1>2
<1>4. Samples(f, n) \in [1..n * FrameLen -> Nat]
  BY <1>3 DEF Samples
<1>5. Samples(f, n) \in Seq(Nat)
  BY <1>2, <1>4, SeqDef
<1>6. Len(Samples(f, n)) = n * FrameLen
  BY <1>2, <1>4, <1>5, LenProperties
<1> QED
  BY <1>2, <1>3, <1>5, <1>6 DEF Samples

LEMMA SamplesFormat ==
  ASSUME SoundShapes, NEW n \in 0..Good, NEW i \in 1..n * FrameLen
  PROVE  FormatOf(FrameLen * (at - 1) + i) = sh
<1> DEFINE k == (i - 1) \div FrameLen
<1>1. FrameLen \in Nat \ {0} /\ Good \in Nat /\ n \in Nat /\ n * FrameLen \in Nat /\ at \in Nat \ {0}
  BY GoodRun, SoundAssumption DEF SoundShapes
<1>2. k \in Nat /\ k * FrameLen <= i - 1 /\ i - 1 < (k + 1) * FrameLen
  <2>1. i - 1 \in Nat
    BY <1>1
  <2> QED
    BY <1>1, <2>1
<1> HIDE DEF k
<1>3. k < n
  <2>1. SUFFICES ASSUME n <= k PROVE FALSE
    BY <1>1, <1>2
  <2>2. n * FrameLen <= k * FrameLen
    BY <1>1, <1>2, <2>1
  <2>3. k * FrameLen \in Nat
    BY <1>1, <1>2
  <2> QED
    BY <1>1, <1>2, <2>2, <2>3
<1>4. track[at + k] = sh
  <2>1. k \in 0..Good - 1
    BY <1>1, <1>2, <1>3
  <2> QED
    BY <2>1, GoodRun
<1> DEFINE u == FrameLen * (at - 1) + i
           b == FrameLen * (at - 1)
           l == k * FrameLen
<1>5. b \in Nat /\ l \in Nat /\ (k + 1) * FrameLen = l + FrameLen
  BY <1>1, <1>2
<1>6. FrameLen * ((at + k) - 1) = b + l
  <2>1. (at + k) - 1 = (at - 1) + k /\ at - 1 \in Nat
    BY <1>1, <1>2
  <2>2. FrameLen * ((at - 1) + k) = FrameLen * (at - 1) + k * FrameLen
    BY <1>1, <1>2, <2>1
  <2> QED
    BY <2>1, <2>2
<1>7. i \in Nat /\ l <= i - 1 /\ i - 1 < l + FrameLen
  BY <1>1, <1>2, <1>5
<1> HIDE DEF l
<1>8. u \in Nat /\ b + l < u /\ u <= b + l + FrameLen
  <2>1. u = b + i
    OBVIOUS
  <2> HIDE DEF u, b
  <2> QED
    BY <1>1, <1>5, <1>7, <2>1
<1> HIDE DEF u, b
<1>9. at + k \in Nat \ {0}
  BY <1>1, <1>2
<1>10. FormatOf(u) = track[at + k]
  BY <1>6, <1>8, <1>9, FormatInPacket
<1> QED
  BY <1>4, <1>10 DEF u

-----------------------------------------------------------------------------
(* Steps that leave the samples where they are. *)

LEMMA SameTrack ==
  ASSUME track' = track
  PROVE  \A u : FormatOf(u)' = FormatOf(u)
BY DEF FormatOf

LEMMA DataKept ==
  ASSUME SoundInv, UNCHANGED <<decoder, abuf, out, held, af, written, skipped, video>>, faults' \in Nat, faults <= faults'
  PROVE  Behind' /\ RightFormat' /\ Covered' /\ (Smooth' => Smooth)
<1>1. /\ track' = track /\ at' = at /\ pts' = pts /\ sh' = sh
      /\ abuf' = abuf /\ out' = out /\ held' = held /\ af' = af
      /\ written' = written /\ skipped' = skipped /\ video' = video
  BY DEF decoder
<1>2. \A u : FormatOf(u)' = FormatOf(u)
  BY <1>1, SameTrack
<1>3. Behind'
  BY <1>1 DEF SoundInv, Behind
<1>4. RightFormat'
  BY <1>1, <1>2 DEF SoundInv, RightFormat
<1>5. Smooth' => Smooth
  BY <1>1 DEF Smooth, SoundInv, SoundShapes
<1>6. Covered'
  BY <1>1, <1>2, <1>5 DEF SoundInv, Covered, Somewhere
<1> QED
  BY <1>3, <1>4, <1>5, <1>6

LEMMA TimedKept ==
  ASSUME SoundInv, UNCHANGED <<pts, missed, abuf, out, held>>, change' => change \/ res = -2,
         ~change' => ~change /\ (res' = res \/ (res' = 0 /\ pc \notin {"decode", "feed"})),
         ~change' /\ res' = -2 => (pc' \in {"decode", "feed"} <=> pc \in {"decode", "feed"})
  PROVE  Timed'
<1>1. SUFFICES ASSUME ~change' PROVE
        IF res' = -2 THEN pc' \in {"decode", "feed"} \/ AllSilent'
        ELSE Ends(abuf, pts)' /\ Ends(held, pts - Len(abuf))' /\ Ends(out, pts - Len(abuf) - Len(held))'
  BY DEF Timed
<1>2. /\ AllSilent' = AllSilent
      /\ Ends(abuf, pts)' = Ends(abuf, pts) /\ Ends(held, pts - Len(abuf))' = Ends(held, pts - Len(abuf))
      /\ Ends(out, pts - Len(abuf) - Len(held))' = Ends(out, pts - Len(abuf) - Len(held))
  BY DEF AllSilent, Silent, Ends
<1>3. AllSilent => Ends(abuf, pts) /\ Ends(held, pts - Len(abuf)) /\ Ends(out, pts - Len(abuf) - Len(held))
  BY DEF AllSilent, Silent, Ends
<1>4. Timed
  BY DEF SoundInv
<1> QED
  BY <1>1, <1>2, <1>3, <1>4 DEF Timed

LEMMA ConstantsShape ==
  /\ FrameLen \in Nat \ {0} /\ MaxBurst \in Nat \ {0} /\ Outburst \in Nat \ {0}
  /\ Extra \in Nat /\ Chunk \in Nat /\ MaxHeld \in Nat /\ DevSize \in Nat
  /\ MaxPauses \in Nat /\ MaxFaults \in Nat
  /\ ABufSize = FrameLen + MaxBurst /\ MaxDecode = MaxBurst
  BY SoundAssumption DEF ABufSize, MaxDecode

LEMMA Lengths ==
  ASSUME SoundShapes
  PROVE  Len(abuf) \in Nat /\ Len(out) \in Nat /\ Len(held) \in Nat /\ Len(dev) \in Nat
  BY LenProperties DEF SoundShapes

LEMMA StepGetSpace == SoundInv /\ GetSpace => SoundInv'
<1> SUFFICES ASSUME SoundInv, GetSpace PROVE SoundInv'
  OBVIOUS
<1> USE ConstantsShape
<1>1. /\ UNCHANGED <<decoder, abuf, out, held, af, change, written, skipped, video, canPause, faults, dev, devst, space,
                     huge, playsize, declen, res>>
      /\ pc = "main" /\ pc' = "loop" /\ toWrite' = Space /\ audio_eof' = FALSE /\ final' = FALSE
      /\ video \/ Space >= Outburst \/ devst # "running"
  BY DEF GetSpace, buffers, device, fixed
<1>2. Len(dev) \in Nat /\ Len(dev) <= DevSize /\ Space = DevSize - Len(dev)
  BY Lengths DEF SoundInv, SoundRoom, Space
<1>3. faults' \in Nat /\ faults <= faults'
  BY <1>1 DEF SoundInv, SoundShapes
<1>4. Behind' /\ RightFormat' /\ Covered' /\ (Smooth' => Smooth)
  BY <1>1, <1>3, DataKept
<1>5. Timed'
  BY <1>1, TimedKept DEF decoder
<1>6. SoundShapes'
  <2>1. toWrite' \in Nat
    BY <1>1, <1>2
  <2> QED
    BY <1>1, <2>1 DEF decoder, SoundInv, SoundShapes
<1>7. CallShape'
  BY <1>1, <1>2 DEF decoder, SoundInv, CallShape, InCall
<1>8. SoundRoom' /\ FormatKnown' /\ DeviceState'
  BY <1>1 DEF decoder, SoundInv, SoundRoom, FormatKnown, DeviceState
<1>9. Pieces'
  <2>1. ASSUME Smooth PROVE Space >= Outburst
    BY <1>1, <1>2, <2>1 DEF Smooth, OneBurst, SoundInv, DeviceState
  <2> QED
    BY <1>1, <1>4, <2>1 DEF Pieces, InCall
<1> QED
  BY <1>4, <1>5, <1>6, <1>7, <1>8, <1>9 DEF SoundInv

LEMMA StepPiece == SoundInv /\ Piece => SoundInv'
<1> SUFFICES ASSUME SoundInv, Piece PROVE SoundInv'
  OBVIOUS
<1> USE ConstantsShape
<1>1. /\ UNCHANGED <<decoder, abuf, out, held, af, change, written, skipped, video, canPause, faults, dev, devst, space,
                     declen, final, audio_eof>>
      /\ pc = "loop" /\ toWrite > 0 /\ res' = 0 /\ huge' = FALSE
      /\ playsize' = (IF toWrite < MaxBurst THEN toWrite ELSE MaxBurst) /\ toWrite' = toWrite - playsize'
      /\ pc' = IF change THEN "piece" ELSE "decode"
  BY DEF Piece, buffers, device, fixed, Least
<1>2. toWrite \in Nat /\ playsize' \in Nat /\ playsize' >= 1 /\ toWrite' \in Nat /\ playsize' <= MaxBurst
  BY <1>1 DEF SoundInv, SoundShapes
<1>3. faults' \in Nat /\ faults <= faults'
  BY <1>1 DEF SoundInv, SoundShapes
<1>4. Behind' /\ RightFormat' /\ Covered' /\ (Smooth' => Smooth)
  BY <1>1, <1>3, DataKept
<1>5. Timed'
  BY <1>1, TimedKept DEF decoder
<1>6. SoundShapes'
  BY <1>1, <1>2 DEF decoder, SoundInv, SoundShapes
<1>7. CallShape'
  <2>1. Len(dev) + toWrite <= DevSize /\ Len(dev) \in Nat
    BY <1>1, <1>2, Lengths DEF SoundInv, CallShape, InCall
  <2>2. change => abuf = <<>>
    BY DEF SoundInv, CallShape
  <2> QED
    BY <1>1, <1>2, <2>1, <2>2 DEF CallShape, InCall
<1>8. SoundRoom' /\ FormatKnown' /\ DeviceState'
  BY <1>1 DEF decoder, SoundInv, SoundRoom, FormatKnown, DeviceState
<1>9. Pieces'
  <2>1. ASSUME Smooth PROVE toWrite >= Outburst /\ toWrite <= MaxBurst
    <3>1. Len(dev) + toWrite <= DevSize /\ Len(dev) \in Nat
      BY <1>1, <1>2, Lengths DEF SoundInv, CallShape, InCall
    <3> QED
      BY <1>1, <1>2, <2>1, <3>1 DEF Smooth, OneBurst, SoundInv, Pieces
  <2> QED
    BY <1>1, <1>2, <1>4, <2>1 DEF Pieces, InCall
<1> QED
  BY <1>4, <1>5, <1>6, <1>7, <1>8, <1>9 DEF SoundInv

LEMMA StepEnough == SoundInv /\ Enough => SoundInv'
<1> SUFFICES ASSUME SoundInv, Enough PROVE SoundInv'
  OBVIOUS
<1> USE ConstantsShape
<1>1. /\ UNCHANGED <<decoder, abuf, out, held, af, written, skipped, video, canPause, faults, dev, devst, space,
                     declen, final, audio_eof, toWrite, playsize, huge, res>>
      /\ pc = "decode" /\ pc' = "piece" /\ change' = (res = -2)
  BY DEF Enough, locals, device, fixed
<1>2. ~change
  BY <1>1 DEF SoundInv, CallShape
<1>3. faults' \in Nat /\ faults <= faults'
  BY <1>1 DEF SoundInv, SoundShapes
<1>4. Behind' /\ RightFormat' /\ Covered' /\ (Smooth' => Smooth)
  BY <1>1, <1>3, DataKept
<1>5. Timed'
  BY <1>1, <1>2, TimedKept DEF decoder
<1>6. SoundShapes'
  BY <1>1 DEF decoder, SoundInv, SoundShapes
<1>7. CallShape'
  <2>1. change' => res # 0
    <3>1. change' => res = -2
      BY <1>1
    <3> QED
      BY <3>1
  <2>2. res # 0 => abuf = <<>>
    BY <1>1 DEF SoundInv, CallShape
  <2>3. abuf' = abuf /\ (change' \/ res' # 0 => abuf' = <<>>)
    BY <1>1, <2>1, <2>2
  <2> QED
    BY <1>1, <2>3 DEF SoundInv, CallShape, InCall
<1>8. SoundRoom' /\ FormatKnown' /\ DeviceState'
  BY <1>1, <1>2 DEF decoder, SoundInv, SoundRoom, FormatKnown, DeviceState
<1>9. Pieces'
  BY <1>1, <1>4 DEF Pieces, InCall, SoundInv
<1> QED
  BY <1>4, <1>5, <1>6, <1>7, <1>8, <1>9 DEF SoundInv

-----------------------------------------------------------------------------
(* Decoding. *)

LEMMA StepDecodeMore == SoundInv /\ DecodeMore => SoundInv'
<1> SUFFICES ASSUME SoundInv, DecodeMore PROVE SoundInv'
  OBVIOUS
<1> USE ConstantsShape
<1> DEFINE want == IF huge THEN Chunk ELSE playsize - Len(out) + Extra
<1>1. /\ UNCHANGED <<decoder, abuf, out, held, af, change, written, skipped, video, canPause, faults, dev, devst, space,
                     final, audio_eof, toWrite, playsize, res>>
      /\ pc = "decode" /\ pc' = "feed" /\ res >= 0 /\ Len(out) < playsize
      /\ declen' = (IF want < MaxDecode THEN want ELSE MaxDecode)
      /\ huge' = (huge \/ want <= MaxDecode)
  BY DEF DecodeMore, buffers, device, fixed, Least
<1>2. declen' \in Nat /\ declen' <= MaxDecode
  <2>1. playsize \in Nat /\ Len(out) \in Nat
    BY Lengths DEF SoundInv, SoundShapes
  <2>2. want \in Nat
    BY <1>1, <2>1
  <2> HIDE DEF want
  <2> QED
    BY <1>1, <2>2
<1>3. faults' \in Nat /\ faults <= faults'
  BY <1>1 DEF SoundInv, SoundShapes
<1>4. Behind' /\ RightFormat' /\ Covered' /\ (Smooth' => Smooth)
  BY <1>1, <1>3, DataKept
<1>5. Timed'
  BY <1>1, TimedKept DEF decoder
<1>6. SoundShapes'
  <2>1. huge' \in BOOLEAN
    BY <1>1 DEF SoundInv, SoundShapes
  <2> QED
    BY <1>1, <1>2, <2>1 DEF decoder, SoundInv, SoundShapes
<1>7. CallShape'
  <2>1. res = 0
    BY <1>1 DEF SoundInv, SoundShapes
  <2> QED
    BY <1>1, <1>2, <2>1 DEF SoundInv, CallShape, InCall
<1>8. SoundRoom' /\ FormatKnown' /\ DeviceState'
  BY <1>1 DEF decoder, SoundInv, SoundRoom, FormatKnown, DeviceState
<1>9. Pieces'
  BY <1>1, <1>4 DEF Pieces, InCall, SoundInv
<1> QED
  BY <1>4, <1>5, <1>6, <1>7, <1>8, <1>9 DEF SoundInv

LEMMA SamplesRange ==
  ASSUME NEW f \in Nat \ {0}, NEW n \in Nat
  PROVE  Range(Samples(f, n)) = FrameLen * (f - 1) + 1..FrameLen * (f - 1) + n * FrameLen
<1> DEFINE s == Samples(f, n)
           b == FrameLen * (f - 1)
           l == n * FrameLen
<1>1. s \in Seq(Nat) /\ Len(s) = l /\ l \in Nat /\ b \in Nat /\ \A i \in 1..l : s[i] = b + i
  BY SamplesShape
<1>2. Range(s) = {s[i] : i \in 1..l}
  BY <1>1, RangeEquality
<1> HIDE DEF s, b, l
<1>3. Range(s) = {b + i : i \in 1..l}
  BY <1>1, <1>2
<1>4. ASSUME NEW u \in b + 1..b + l PROVE u \in {b + i : i \in 1..l}
  <2>1. u - b \in 1..l /\ u = b + (u - b)
    BY <1>1
  <2> QED
    BY <2>1
<1>5. {b + i : i \in 1..l} \subseteq b + 1..b + l
  BY <1>1
<1>6. Range(s) = b + 1..b + l
  BY <1>3, <1>4, <1>5
<1> QED
  BY <1>6 DEF s, b, l

LEMMA RangeInNat ==
  ASSUME NEW s \in Seq(Nat)
  PROVE  Range(s) \subseteq Nat
<1>1. Range(s) = {s[i] : i \in 1..Len(s)}
  BY RangeEquality
<1>2. \A i \in 1..Len(s) : s[i] \in Nat
  BY ElementOfSeq
<1> QED
  BY <1>1, <1>2

LEMMA PacketsBound ==
  ASSUME NEW n \in Nat
  PROVE  /\ Packets(n) \in Nat /\ Packets(n) * FrameLen \in Nat /\ Packets(n) * FrameLen <= n + FrameLen - 1
         /\ n # 0 => Packets(n) # 0
<1>1. FrameLen \in Nat \ {0} /\ n + FrameLen - 1 \in Nat
  BY ConstantsShape
<1> DEFINE m == n + FrameLen - 1
<1>2. m \in Nat /\ Packets(n) = m \div FrameLen
  BY <1>1 DEF Packets
<1> HIDE DEF m
<1>3. m \div FrameLen \in Nat /\ (m \div FrameLen) * FrameLen <= m /\ m < (m \div FrameLen + 1) * FrameLen
  BY <1>1, <1>2
<1>4. n # 0 => m \div FrameLen # 0
  <2>1. SUFFICES ASSUME n # 0, m \div FrameLen = 0 PROVE FALSE
    OBVIOUS
  <2>2. m < (0 + 1) * FrameLen
    BY <1>3, <2>1
  <2>3. m >= FrameLen
    BY <1>1, <2>1 DEF m
  <2> QED
    BY <1>1, <1>2, <2>2, <2>3
<1> QED
  BY <1>1, <1>2, <1>3, <1>4 DEF m

\* What decoding n good packets does to the samples; what else was taken does not decode.
LEMMA DecodeRun ==
  ASSUME SoundInv, pc = "feed", res = 0, NEW n \in 0..Good, Len(abuf) + n * FrameLen <= ABufSize,
         Decoded(n), Stamped(n) \/ (n = 0 /\ pts' = pts /\ missed' = missed),
         at' \in at + n..Len(track) + 1, UNCHANGED <<track, out, held, af, written, video>>,
         Smooth' => /\ Smooth
                    /\ \A u \in FrameLen * (at - 1 + n) + 1..FrameLen * (at' - 1) : FormatOf(u) = "bad"
  PROVE  /\ abuf' \in Seq(Nat) /\ Len(abuf') = Len(abuf) + n * FrameLen /\ n * FrameLen \in Nat
         /\ pts' \in Nat /\ missed' \in Nat
         /\ Behind' /\ RightFormat' /\ Covered' /\ sh = af
         /\ Ends(abuf, pts)' /\ Ends(held, pts - Len(abuf))' /\ Ends(out, pts - Len(abuf) - Len(held))'
<1> DEFINE s == Samples(at, n)
           b == FrameLen * (at - 1)
           l == n * FrameLen
           e == FrameLen * (at' - 1)
<1>1. at \in Nat \ {0} /\ n \in Nat /\ Good \in Nat /\ at' \in Nat \ {0} /\ Len(track) \in Nat
  BY GoodRun, FileShape DEF SoundInv, SoundShapes
<1>2. /\ s \in Seq(Nat) /\ Len(s) = l /\ l \in Nat /\ b \in Nat
      /\ \A i \in 1..l : s[i] = b + i
      /\ Range(s) = b + 1..b + l
  BY <1>1, SamplesShape, SamplesRange
<1>3. abuf' = abuf \o s /\ sh' = sh /\ skipped' = skipped
  BY DEF Decoded
<1>4. /\ abuf \in Seq(Nat) /\ held \in Seq(Nat) /\ out \in Seq(Nat)
      /\ Len(abuf) \in Nat /\ Len(out) \in Nat /\ Len(held) \in Nat /\ pts \in Nat /\ missed \in Nat
  BY Lengths DEF SoundInv, SoundShapes
<1>5. n = 0 => l = 0
  BY ConstantsShape
<1>6. FrameLen * (at - 1 + n) = b + l
  <2>1. FrameLen \in Nat /\ at - 1 \in Nat
    BY <1>1, ConstantsShape
  <2> QED
    BY <1>1, <2>1
<1>7. e \in Nat /\ b + l <= e
  <2>1. FrameLen \in Nat /\ at' - 1 \in Nat /\ at - 1 + n \in Nat /\ at - 1 + n <= at' - 1
    <3>1. PICK z \in at + n..Len(track) + 1 : z = at'
      OBVIOUS
    <3>2. at - 1 + n \in Nat /\ z - 1 \in Nat /\ at - 1 + n <= z - 1
      BY <1>1
    <3> QED
      BY <3>1, <3>2, ConstantsShape
  <2>2. FrameLen * (at - 1 + n) <= FrameLen * (at' - 1) /\ FrameLen * (at' - 1) \in Nat
    BY <2>1, Product
  <2> QED
    BY <1>6, <2>2
<1>8. \/ pts' = b + l /\ pts = b /\ missed' = missed
      \/ pts' = b + l /\ missed' = b
      \/ n = 0 /\ pts' = pts /\ missed' = missed
  BY <1>6 DEF Stamped
<1>9. Smooth' => Smooth /\ \A u \in b + l + 1..e : FormatOf(u) = "bad"
  BY <1>6
<1>10. \A u \in Range(out) \cup Range(held) \cup Range(abuf) : u <= b
  BY DEF SoundInv, Behind
<1>11. Covered' <=> (Smooth' => \A u \in 1..e : FormatOf(u) # "bad" => u \in Somewhere')
  BY SameTrack DEF Covered
<1> HIDE DEF s, b, l, e
<1>12. /\ abuf' \in Seq(Nat) /\ Len(abuf') = Len(abuf) + l
       /\ \A i \in 1..Len(abuf) + l : abuf'[i] = IF i <= Len(abuf) THEN abuf[i] ELSE s[i - Len(abuf)]
       /\ Range(abuf') = Range(abuf) \cup Range(s)
  BY <1>2, <1>3, <1>4, ConcatProperties, RangeConcatenation
<1>13. pts' \in Nat /\ missed' \in Nat
  BY <1>2, <1>4, <1>8
<1>14. ~change /\ sh = af
  BY DEF SoundInv, CallShape, FormatKnown
<1>15. Ends(abuf, pts) /\ Ends(held, pts - Len(abuf)) /\ Ends(out, pts - Len(abuf) - Len(held))
  BY <1>14 DEF SoundInv, Timed
<1>16. n = 0 => abuf' = abuf
  BY <1>2, <1>3, <1>4, <1>5, ConcatEmptySeq, EmptySeq
<1>17. Behind'
  <2>1. SUFFICES ASSUME NEW u \in Range(out') \cup Range(held') \cup Range(abuf') PROVE u <= e
    BY DEF Behind, e
  <2>2. u <= b + l /\ u \in Nat
    <3>1. CASE u \in Range(s)
      BY <1>2, <3>1
    <3>2. CASE u \in Range(out) \cup Range(held) \cup Range(abuf)
      <4>1. u \in Nat
        BY <1>4, <3>2, RangeInNat
      <4> QED
        BY <1>2, <1>10, <3>2, <4>1
    <3> QED
      BY <1>12, <2>1, <3>1, <3>2
  <2> QED
    BY <1>2, <1>7, <2>2
<1>18. RightFormat'
  <2>1. ASSUME NEW u \in Range(s) PROVE FormatOf(u) = sh
    <3>1. u - b \in 1..l /\ u = b + (u - b)
      BY <1>2
    <3>2. FormatOf(b + (u - b)) = sh
      BY <3>1, SamplesFormat DEF SoundInv, b, l
    <3> QED
      BY <3>1, <3>2
  <2> QED
    BY <1>12, <1>14, <2>1, SameTrack DEF SoundInv, RightFormat
<1>19. Covered'
  <2>1. SUFFICES ASSUME Smooth', NEW u \in 1..e, FormatOf(u) # "bad" PROVE u \in Somewhere'
    BY <1>11
  <2>2. Somewhere' = Somewhere \cup Range(s)
    BY <1>3, <1>12 DEF Somewhere
  <2>3. CASE u \in 1..b
    BY <1>9, <2>1, <2>2, <2>3 DEF SoundInv, Covered, b
  <2>4. CASE u \in b + 1..b + l
    BY <1>2, <2>2, <2>4
  <2>5. ~(u \in b + l + 1..e)
    BY <1>9, <2>1
  <2> QED
    BY <1>2, <1>7, <2>1, <2>3, <2>4, <2>5
<1>20. Ends(held, pts - Len(abuf))' /\ Ends(out, pts - Len(abuf) - Len(held))'
  <2>1. CASE n = 0 /\ pts' = pts /\ missed' = missed
    BY <1>15, <1>16, <2>1 DEF Ends
  <2>2. CASE pts' = b + l /\ pts = b /\ missed' = missed
    <3>1. pts' - Len(abuf') = pts - Len(abuf) /\ pts' - Len(abuf') - Len(held) = pts - Len(abuf) - Len(held)
      BY <1>2, <1>4, <1>12, <2>2
    <3> QED
      BY <1>15, <2>2, <3>1 DEF Ends
  <2>3. CASE missed' = b
    <3>1. \A i \in DOMAIN held : held[i] \in Nat /\ held[i] <= b
      BY <1>4, <1>10, RangeEquality, LenProperties, ElementOfSeq
    <3>2. \A i \in DOMAIN out : out[i] \in Nat /\ out[i] <= b
      BY <1>4, <1>10, RangeEquality, LenProperties, ElementOfSeq
    <3>3. (\A i \in DOMAIN held : ~(held[i] > missed')) /\ (\A i \in DOMAIN out : ~(out[i] > missed'))
      BY <1>2, <2>3, <3>1, <3>2
    <3> QED
      BY <3>3 DEF Ends
  <2> QED
    BY <1>8, <2>1, <2>2, <2>3
<1>21. Ends(abuf, pts)'
  <2>1. CASE n = 0 /\ pts' = pts /\ missed' = missed
    BY <1>15, <1>16, <2>1 DEF Ends
  <2>2. CASE pts' = b + l
    <3>1. SUFFICES ASSUME NEW i \in DOMAIN abuf', abuf'[i] # 0, abuf'[i] > missed'
                   PROVE  abuf'[i] = pts' - Len(abuf') + i
      BY DEF Ends
    <3>2. i \in 1..Len(abuf) + l
      BY <1>12, LenProperties
    <3>3. CASE i <= Len(abuf)
      <4>1. abuf'[i] = abuf[i] /\ i \in DOMAIN abuf
        BY <1>4, <1>12, <3>2, <3>3, LenProperties
      <4>2. abuf[i] \in Nat /\ abuf[i] <= b
        BY <1>4, <1>10, <4>1, RangeEquality, LenProperties, ElementOfSeq
      <4>3. missed' # b
        BY <1>2, <3>1, <4>1, <4>2
      <4>4. pts = b /\ missed' = missed
        <5>1. CASE n = 0 /\ pts' = pts /\ missed' = missed
          BY <1>2, <1>5, <2>2, <5>1
        <5> QED
          BY <1>8, <4>3, <5>1
      <4>5. abuf[i] = pts - Len(abuf) + i
        BY <1>15, <3>1, <4>1, <4>4 DEF Ends
      <4> QED
        BY <1>2, <1>4, <1>12, <2>2, <3>2, <4>1, <4>4, <4>5
    <3>4. CASE ~(i <= Len(abuf))
      <4>1. i - Len(abuf) \in 1..l /\ abuf'[i] = s[i - Len(abuf)]
        BY <1>2, <1>4, <1>12, <3>2, <3>4
      <4>2. abuf'[i] = b + (i - Len(abuf))
        BY <1>2, <4>1
      <4> QED
        BY <1>2, <1>4, <1>12, <2>2, <3>2, <4>2
    <3> QED
      BY <3>3, <3>4
  <2> QED
    BY <1>8, <2>1, <2>2
<1> QED
  BY <1>2, <1>12, <1>13, <1>14, <1>17, <1>18, <1>19, <1>20, <1>21 DEF l

\* What no step of the decoder touches.
LEMMA DecodeFrame ==
  ASSUME SoundInv, decode_audio
  PROVE  /\ UNCHANGED <<track, out, held, af, change, pc, toWrite, playsize, final, audio_eof, huge, dev, devst,
                        space, video, canPause, written>>
         /\ pc = "feed" /\ Len(abuf) < declen /\ res = 0 /\ ~change /\ sh = af
         /\ Good \in Nat /\ at + Good <= Len(track) + 1 /\ Len(track) \in Nat \ {0} /\ at \in Nat \ {0}
         /\ Ready \in 0..Good /\ (drained => Ready = 0) /\ (~drained => Ready = Good)
         /\ Len(abuf) \in Nat /\ declen \in Nat /\ declen <= MaxDecode
         /\ Missing \in Nat \ {0} /\ Missing * FrameLen \in Nat
         /\ Len(abuf) + Missing * FrameLen <= ABufSize - 1
         /\ faults' \in Nat /\ faults <= faults' /\ (Smooth' => Smooth)
<1> USE ConstantsShape
<1>1. /\ UNCHANGED <<track, out, held, af, change, pc, toWrite, playsize, final, audio_eof, huge, dev, devst,
                     space, video, canPause, written>>
      /\ pc = "feed" /\ Len(abuf) < declen
  BY DEF decode_audio, device, fixed
<1>2. Len(abuf) \in Nat /\ declen \in Nat /\ declen <= MaxDecode
  BY <1>1, Lengths DEF SoundInv, SoundShapes, CallShape
<1>3. res = 0
  BY <1>1, <1>2 DEF SoundInv, CallShape
<1>4. ~change /\ sh = af
  BY <1>1, <1>3 DEF SoundInv, CallShape, FormatKnown
<1>5. declen - Len(abuf) \in Nat \ {0}
  BY <1>1, <1>2
<1>6. /\ Missing \in Nat \ {0} /\ Missing * FrameLen \in Nat
      /\ Missing * FrameLen <= (declen - Len(abuf)) + FrameLen - 1
  BY <1>5, PacketsBound DEF Missing
<1>7. Len(abuf) + Missing * FrameLen <= ABufSize - 1
  BY <1>2, <1>6
<1>8. Len(track) \in Nat \ {0} /\ at \in Nat \ {0}
  BY FileShape DEF SoundInv, SoundShapes
<1>9. Good \in Nat /\ at + Good <= Len(track) + 1
  BY GoodRun DEF SoundInv
<1>10. Ready \in 0..Good /\ (drained => Ready = 0) /\ (~drained => Ready = Good)
  BY <1>9 DEF Ready
<1>11. faults \in Nat /\ (faults' = faults \/ faults' = faults + 1)
  <2>1. faults' = faults \/ faults' = faults + 1
    BY DEF decode_audio, AsMany, NoPacket, NotTaken, OtherFormat
  <2> QED
    BY <2>1 DEF SoundInv, SoundShapes
<1>12. faults' \in Nat /\ faults <= faults' /\ (Smooth' => Smooth)
  BY <1>1, <1>11 DEF Smooth, OneBurst
<1> QED
  BY <1>1, <1>2, <1>3, <1>4, <1>6, <1>7, <1>8, <1>9, <1>10, <1>12

\* The rest of the invariant after packets of the decoder's format.
LEMMA DecodeRest ==
  ASSUME SoundInv, decode_audio, sh' = sh, ending' \in BOOLEAN, drained' \in BOOLEAN,
         (ending' \/ drained') /\ ~video => at' = Len(track) + 1,
         at' \in 1..Len(track) + 1, abuf' \in Seq(Nat), Len(abuf') <= ABufSize, pts' \in Nat, missed' \in Nat,
         (res' = 0 /\ declen' = declen) \/ (res' = -1 /\ declen' = Len(abuf') /\ Len(abuf') < declen)
  PROVE  SoundShapes' /\ CallShape' /\ SoundRoom' /\ FormatKnown' /\ DeviceState' /\ Pieces'
<1> USE ConstantsShape
<1>1. /\ UNCHANGED <<track, out, held, af, change, pc, toWrite, playsize, final, audio_eof, huge, dev, devst,
                     space, video, canPause, written>>
      /\ pc = "feed" /\ res = 0 /\ ~change /\ sh = af /\ declen \in Nat /\ declen <= MaxDecode
      /\ faults \in Nat /\ faults' \in Nat /\ faults <= faults' /\ (Smooth' => Smooth)
  BY DecodeFrame DEF SoundInv, SoundShapes
<1>2. declen' \in Nat /\ res' \in {0, -1}
  BY <1>1, LenProperties
<1>3. res' # 0 => declen' = Len(abuf')
  OBVIOUS
<1>4. declen' <= MaxDecode
  BY <1>1, <1>2
<1>5. SoundShapes'
  BY <1>1, <1>2 DEF SoundInv, SoundShapes
<1>6. SoundRoom' /\ FormatKnown'
  BY <1>1 DEF SoundInv, SoundRoom, FormatKnown
<1>7. DeviceState'
  <2>1. faults' = 0 => faults = 0
    BY <1>1
  <2> QED
    BY <1>1, <2>1 DEF SoundInv, DeviceState
<1>8. Pieces'
  BY <1>1 DEF SoundInv, Pieces, InCall
<1> QED
  BY <1>1, <1>2, <1>3, <1>4, <1>5, <1>6, <1>7, <1>8 DEF SoundInv, CallShape, InCall

\* A call that counts, for the n packets that it decoded.
LEMMA DecodeCounts ==
  ASSUME SoundInv, decode_audio, NEW n \in 0..Ready, n <= Missing, Decoded(n),
         Stamped(n) \/ (n = 0 /\ pts' = pts /\ missed' = missed),
         at' \in at + n..Len(track) + 1, ending' \in BOOLEAN, drained' \in BOOLEAN,
         (ending' \/ drained') /\ ~video => at' = Len(track) + 1,
         Smooth => \A u \in FrameLen * (at - 1 + n) + 1..FrameLen * (at' - 1) : FormatOf(u) = "bad"
  PROVE  SoundInv'
<1> USE ConstantsShape
<1>1. /\ UNCHANGED <<track, out, held, af, change, pc, written, video>>
      /\ pc = "feed" /\ Len(abuf) < declen /\ res = 0
      /\ Good \in Nat /\ Len(track) \in Nat \ {0} /\ at \in Nat \ {0}
      /\ Ready \in 0..Good /\ Len(abuf) \in Nat /\ Missing \in Nat /\ Missing * FrameLen \in Nat
      /\ Len(abuf) + Missing * FrameLen <= ABufSize - 1 /\ (Smooth' => Smooth)
  BY DecodeFrame
<1>2. n * FrameLen \in Nat /\ n * FrameLen <= Missing * FrameLen /\ n \in 0..Good
  BY <1>1
<1>3. Len(abuf) + n * FrameLen <= ABufSize
  BY <1>1, <1>2
<1>4. /\ abuf' \in Seq(Nat) /\ Len(abuf') = Len(abuf) + n * FrameLen /\ pts' \in Nat /\ missed' \in Nat
      /\ Behind' /\ RightFormat' /\ Covered'
      /\ Ends(abuf, pts)' /\ Ends(held, pts - Len(abuf))' /\ Ends(out, pts - Len(abuf) - Len(held))'
  BY <1>1, <1>2, <1>3, DecodeRun
<1>5. sh' = sh /\ (IF n = 0 THEN res' = -1 /\ declen' = Len(abuf) ELSE res' = res /\ declen' = declen)
  BY DEF Decoded
<1>6. n = 0 => Len(abuf') = Len(abuf)
  BY <1>1, <1>4
<1>7. (res' = 0 /\ declen' = declen) \/ (res' = -1 /\ declen' = Len(abuf') /\ Len(abuf') < declen)
  BY <1>1, <1>5, <1>6
<1>8. at' \in 1..Len(track) + 1
  BY <1>1, <1>2
<1>9. SoundShapes' /\ CallShape' /\ SoundRoom' /\ FormatKnown' /\ DeviceState' /\ Pieces'
  BY <1>3, <1>4, <1>5, <1>7, <1>8, DecodeRest
<1>10. Timed'
  BY <1>4, <1>7 DEF Timed
<1> QED
  BY <1>4, <1>9, <1>10 DEF SoundInv

LEMMA StepDecode == SoundInv /\ decode_audio => SoundInv'
<1> SUFFICES ASSUME SoundInv, decode_audio PROVE SoundInv'
  OBVIOUS
<1> USE ConstantsShape
<1>1. /\ UNCHANGED <<track, out, held, af, change, pc, toWrite, playsize, final, audio_eof, huge, dev, devst,
                     space, video, canPause, written>>
      /\ pc = "feed" /\ Len(abuf) < declen /\ res = 0 /\ ~change /\ sh = af
      /\ Good \in Nat /\ at + Good <= Len(track) + 1 /\ Len(track) \in Nat \ {0} /\ at \in Nat \ {0}
      /\ Ready \in 0..Good /\ (drained => Ready = 0) /\ (~drained => Ready = Good)
      /\ Len(abuf) \in Nat /\ declen \in Nat /\ declen <= MaxDecode
      /\ Missing \in Nat \ {0}
      /\ faults' \in Nat /\ faults <= faults' /\ (Smooth' => Smooth)
  BY DecodeFrame
<1>2. /\ ending \in BOOLEAN /\ drained \in BOOLEAN /\ ((ending \/ drained) /\ ~video => at = Len(track) + 1)
      /\ at \in 1..Len(track) + 1 /\ sh # "bad" /\ missed \in Nat
  BY DEF SoundInv, SoundShapes
<1>3. ASSUME NEW k \in Int PROVE FrameLen * (k - 1) + 1..FrameLen * (k - 1) = {}
  <2>1. FrameLen * (k - 1) \in Int
    BY <1>3
  <2> QED
    BY <2>1
<1>4. CASE AsMany
  <2>1. /\ Missing <= Ready /\ Decoded(Missing) /\ Stamped(Missing) /\ at' = at + Missing
        /\ ending' = FALSE /\ drained' = drained
    BY <1>4 DEF AsMany
  <2>2. ~drained /\ Missing \in 0..Ready /\ at' \in at + Missing..Len(track) + 1
    BY <1>1, <1>2, <2>1
  <2>3. at' \in Int /\ at - 1 + Missing = at' - 1
    BY <1>1, <2>1
  <2>4. \A u \in FrameLen * (at - 1 + Missing) + 1..FrameLen * (at' - 1) : FormatOf(u) = "bad"
    BY <1>3, <2>3
  <2>5. (ending' \/ drained') /\ ~video => at' = Len(track) + 1
    BY <2>1, <2>2
  <2>6. Missing <= Missing
    BY <1>1
  <2> QED
    BY <1>2, <2>1, <2>2, <2>4, <2>5, <2>6, DecodeCounts
<1>5. CASE \E n \in 0..Len(track) : NoPacket(n)
  <2>1. PICK n \in 0..Len(track) : NoPacket(n)
    BY <1>5
  <2>2. /\ n <= Ready /\ n < Missing /\ Decoded(n) /\ at' = at + n /\ ending' = TRUE /\ drained' = TRUE
        /\ Stamped(n) \/ (n = 0 /\ pts' = pts /\ missed' = missed)
        /\ at + n > Len(track) \/ video
    BY <2>1 DEF NoPacket
  <2>3. n \in 0..Ready /\ n <= Missing /\ at' \in at + n..Len(track) + 1
    BY <1>1, <2>2
  <2>4. at' \in Int /\ at - 1 + n = at' - 1
    BY <1>1, <2>2
  <2>5. \A u \in FrameLen * (at - 1 + n) + 1..FrameLen * (at' - 1) : FormatOf(u) = "bad"
    BY <1>3, <2>4
  <2>6. (ending' \/ drained') /\ ~video => at' = Len(track) + 1
    BY <1>1, <2>2, <2>3
  <2> QED
    BY <2>2, <2>3, <2>5, <2>6, DecodeCounts
<1>6. CASE NotTaken
  <2>1. /\ Ready < Missing /\ at + Ready <= Len(track) /\ (drained \/ track[at + Ready] = "bad")
        /\ Decoded(Ready) /\ Stamped(Ready) /\ at' = at + Ready + 1 /\ ending' = FALSE /\ drained' = drained
    BY <1>6 DEF NotTaken
  <2>2. Ready \in 0..Ready /\ Ready <= Missing /\ at' \in at + Ready..Len(track) + 1
    BY <1>1, <2>1
  <2>3. drained => video
    BY <1>1, <1>2, <2>1
  <2>4. (ending' \/ drained') /\ ~video => at' = Len(track) + 1
    BY <2>1, <2>3
  <2>5. ASSUME Smooth, NEW u \in FrameLen * (at - 1 + Ready) + 1..FrameLen * (at' - 1) PROVE FormatOf(u) = "bad"
    <3> DEFINE f == at + Ready
    <3>1. f \in Nat \ {0} /\ at - 1 + Ready = f - 1 /\ at' - 1 = f
      BY <1>1, <2>1
    <3>2. track[f] = "bad"
      BY <2>1, <2>3, <2>5 DEF Smooth
    <3> HIDE DEF f
    <3>3. FrameLen * f = FrameLen * (f - 1) + FrameLen /\ FrameLen * (f - 1) \in Nat
      <4> DEFINE g == f - 1
      <4>1. g \in Nat /\ f = g + 1
        BY <3>1
      <4> HIDE DEF g
      <4>2. FrameLen * (g + 1) = FrameLen * g + FrameLen /\ FrameLen * g \in Nat
        BY <4>1
      <4> QED
        BY <4>1, <4>2 DEF g
    <3>4. u \in FrameLen * (f - 1) + 1..FrameLen * f
      BY <2>5, <3>1
    <3>5. u \in Nat /\ FrameLen * (f - 1) < u /\ u <= FrameLen * (f - 1) + FrameLen
      BY <3>3, <3>4
    <3>6. FormatOf(u) = track[f]
      BY <3>1, <3>5, FormatInPacket
    <3> QED
      BY <3>2, <3>6
  <2> QED
    BY <1>2, <2>1, <2>2, <2>4, <2>5, DecodeCounts
<1>7. CASE OtherFormat
  <2> DEFINE n == Good + 1
             b == FrameLen * (at - 1)
             l == n * FrameLen
  <2>1. ~drained /\ Ready = Good /\ Ready < Missing /\ at + Ready <= Len(track) /\ track[at + Ready] # "bad"
    BY <1>1, <1>7 DEF OtherFormat
  <2>2. /\ sh' = track[at + Good] /\ at' = at + n /\ Stamped(n)
        /\ skipped' = skipped \cup Range(Samples(at, n))
        /\ res' = -2 /\ declen' = Len(abuf) /\ abuf' = abuf /\ ending' = FALSE /\ drained' = drained
    BY <1>1, <1>7, <2>1 DEF OtherFormat
  <2>3. n \in Nat /\ at' \in 1..Len(track) + 1 /\ at + Good \in 1..Len(track)
    BY <1>1, <2>1, <2>2
  <2>4. track \in Seq(STRING)
    BY FileShape DEF SoundInv, SoundShapes
  <2>5. sh' \in STRING \ {"bad"}
    BY <1>1, <2>1, <2>2, <2>3, <2>4, ElementOfSeq
  <2>6. l \in Nat /\ b \in Nat /\ Range(Samples(at, n)) = b + 1..b + l
    BY <1>1, <2>3, SamplesShape, SamplesRange
  <2>7. FrameLen * (at - 1 + n) = b + l
    <3>1. at - 1 \in Nat
      BY <1>1
    <3> QED
      BY <2>3, <3>1
  <2>8. FrameLen * (at' - 1) = b + l
    <3>1. at' - 1 = at - 1 + n
      BY <1>1, <2>2, <2>3
    <3> QED
      BY <2>7, <3>1
  <2>9. pts' \in Nat /\ missed' \in Nat
    <3>1. pts' = b + l /\ missed' \in {missed, b}
      BY <2>2, <2>7 DEF Stamped
    <3> HIDE DEF n, b, l
    <3> QED
      BY <1>2, <2>6, <3>1
  <2>10. \A u : FormatOf(u)' = FormatOf(u)
    BY <1>1, SameTrack
  <2>11. Behind' <=> \A u \in Range(out) \cup Range(held) \cup Range(abuf) : u <= b + l
    BY <1>1, <2>2, <2>8 DEF Behind
  <2>12. Behind => \A u \in Range(out) \cup Range(held) \cup Range(abuf) : u <= b
    BY DEF Behind
  <2>13. Covered' <=> (Smooth' => \A u \in 1..b + l : FormatOf(u) # "bad" => u \in Somewhere')
    BY <2>8, <2>10 DEF Covered
  <2>14. Covered <=> (Smooth => \A u \in 1..b : FormatOf(u) # "bad" => u \in Somewhere)
    BY DEF Covered
  <2> HIDE DEF n, b, l
  <2>15. SoundShapes'
    BY <1>1, <1>2, <2>1, <2>2, <2>3, <2>5, <2>9 DEF SoundInv, SoundShapes
  <2>16. CallShape'
    BY <1>1, <2>2 DEF SoundInv, CallShape, InCall
  <2>17. SoundRoom' /\ FormatKnown'
    BY <1>1, <2>2 DEF SoundInv, SoundRoom, FormatKnown
  <2>18. DeviceState'
    <3>1. faults' = 0 => faults = 0
      BY <1>1 DEF SoundInv, SoundShapes
    <3> QED
      BY <1>1, <3>1 DEF SoundInv, DeviceState
  <2>19. Timed'
    BY <1>1, <2>2 DEF Timed
  <2>20. Behind'
    <3>1. SUFFICES ASSUME NEW u \in Range(out) \cup Range(held) \cup Range(abuf) PROVE u <= b + l
      BY <2>11
    <3>2. u <= b
      BY <2>12, <3>1 DEF SoundInv
    <3>3. u \in Nat
      <4>1. abuf \in Seq(Nat) /\ held \in Seq(Nat) /\ out \in Seq(Nat)
        BY DEF SoundInv, SoundShapes
      <4> QED
        BY <3>1, <4>1, RangeInNat
    <3> QED
      BY <2>6, <3>2, <3>3
  <2>21. RightFormat'
    BY <1>1, <2>2, <2>10 DEF SoundInv, RightFormat
  <2>22. Pieces'
    BY <1>1 DEF SoundInv, Pieces, InCall
  <2>23. Covered'
    <3>1. SUFFICES ASSUME Smooth', NEW u \in 1..b + l, FormatOf(u) # "bad" PROVE u \in Somewhere'
      BY <2>13
    <3>2. Somewhere' = Somewhere \cup Range(Samples(at, n))
      BY <1>1, <2>2 DEF Somewhere
    <3>3. CASE u \in 1..b
      BY <1>1, <2>14, <3>1, <3>2, <3>3 DEF SoundInv
    <3>4. CASE u \in b + 1..b + l
      BY <2>6, <3>2, <3>4
    <3> QED
      BY <2>6, <3>1, <3>3, <3>4
  <2> QED
    BY <2>15, <2>16, <2>17, <2>18, <2>19, <2>20, <2>21, <2>22, <2>23 DEF SoundInv
<1> QED
  BY <1>4, <1>5, <1>6, <1>7 DEF decode_audio

-----------------------------------------------------------------------------
(* Filtering and playing. *)

\* A sequence cut in two.
LEMMA CutInTwo ==
  ASSUME NEW s \in Seq(Nat), NEW n \in 0..Len(s)
  PROVE  /\ SubSeq(s, 1, n) \in Seq(Nat) /\ Len(SubSeq(s, 1, n)) = n
         /\ \A i \in 1..n : SubSeq(s, 1, n)[i] = s[i]
         /\ SubSeq(s, n + 1, Len(s)) \in Seq(Nat) /\ Len(SubSeq(s, n + 1, Len(s))) = Len(s) - n
         /\ \A i \in 1..Len(s) - n : SubSeq(s, n + 1, Len(s))[i] = s[n + i]
         /\ Range(s) = Range(SubSeq(s, 1, n)) \cup Range(SubSeq(s, n + 1, Len(s)))
<1> DEFINE a == SubSeq(s, 1, n)
           b == SubSeq(s, n + 1, Len(s))
<1>1. Len(s) \in Nat /\ n \in Nat /\ \A i \in 1..Len(s) : s[i] \in Nat
  BY LenProperties, ElementOfSeq
<1>2. a \in Seq(Nat) /\ Len(a) = n /\ \A i \in 1..n : a[i] = s[i]
  <2>1. \A i \in 1..n : s[i] \in Nat
    BY <1>1
  <2>2. /\ a \in Seq(Nat) /\ Len(a) = IF 1 <= n THEN n - 1 + 1 ELSE 0
        /\ \A i \in 1..n - 1 + 1 : a[i] = s[1 + i - 1]
    BY <1>1, <2>1, SubSeqProperties
  <2> HIDE DEF a
  <2> QED
    BY <1>1, <2>2
<1>3. b \in Seq(Nat) /\ Len(b) = Len(s) - n /\ \A i \in 1..Len(s) - n : b[i] = s[n + i]
  <2>1. \A i \in n + 1..Len(s) : s[i] \in Nat
    BY <1>1
  <2>2. n + 1 \in Int /\ Len(s) \in Int
    BY <1>1
  <2>3. /\ b \in Seq(Nat) /\ Len(b) = IF n + 1 <= Len(s) THEN Len(s) - (n + 1) + 1 ELSE 0
        /\ \A i \in 1..Len(s) - (n + 1) + 1 : b[i] = s[n + 1 + i - 1]
    BY <2>1, <2>2, SubSeqProperties
  <2> HIDE DEF b
  <2>4. \A i \in 1..Len(s) - n : i \in 1..Len(s) - (n + 1) + 1 /\ n + 1 + i - 1 = n + i
    BY <1>1
  <2> QED
    BY <1>1, <2>3, <2>4
<1> HIDE DEF a, b
<1>4. /\ Range(s) = {s[i] : i \in 1..Len(s)} /\ Range(a) = {a[i] : i \in 1..n}
      /\ Range(b) = {b[i] : i \in 1..Len(s) - n}
  <2>1. Range(s) = {s[i] : i \in 1..Len(s)}
    BY RangeEquality
  <2>2. Range(a) = {a[i] : i \in 1..Len(a)}
    BY <1>2, RangeEquality
  <2>3. Range(b) = {b[i] : i \in 1..Len(b)}
    BY <1>3, RangeEquality
  <2> QED
    BY <1>2, <1>3, <2>1, <2>2, <2>3
<1>5. ASSUME NEW i \in 1..Len(s) PROVE s[i] \in Range(a) \cup Range(b)
  <2>1. CASE i <= n
    BY <1>1, <1>2, <1>4, <2>1
  <2>2. CASE i > n
    <3>1. i - n \in 1..Len(s) - n /\ n + (i - n) = i
      BY <1>1, <2>2
    <3> QED
      BY <1>3, <1>4, <3>1
  <2> QED
    BY <1>1, <2>1, <2>2
<1>6. ASSUME NEW u \in Range(a) \cup Range(b) PROVE u \in Range(s)
  <2>1. CASE u \in Range(a)
    <3>1. PICK i \in 1..n : u = a[i]
      BY <1>4, <2>1
    <3>2. i \in 1..Len(s)
      BY <1>1
    <3> QED
      BY <1>2, <1>4, <3>1, <3>2
  <2>2. CASE u \in Range(b)
    <3>1. PICK i \in 1..Len(s) - n : u = b[i]
      BY <1>4, <2>2
    <3>2. n + i \in 1..Len(s)
      BY <1>1
    <3> QED
      BY <1>3, <1>4, <3>1, <3>2
  <2> QED
    BY <1>6, <2>1, <2>2
<1>7. Range(s) = Range(a) \cup Range(b)
  BY <1>4, <1>5, <1>6
<1> QED
  BY <1>2, <1>3, <1>7 DEF a, b

\* The numbers in the two parts.
LEMMA CutEnds ==
  ASSUME NEW s \in Seq(Nat), NEW n \in 0..Len(s), NEW last \in Int, Ends(s, last)
  PROVE  Ends(SubSeq(s, 1, n), last - (Len(s) - n)) /\ Ends(SubSeq(s, n + 1, Len(s)), last)
<1> DEFINE a == SubSeq(s, 1, n)
           b == SubSeq(s, n + 1, Len(s))
<1>1. /\ a \in Seq(Nat) /\ Len(a) = n /\ \A i \in 1..n : a[i] = s[i]
      /\ b \in Seq(Nat) /\ Len(b) = Len(s) - n /\ \A i \in 1..Len(s) - n : b[i] = s[n + i]
      /\ Len(s) \in Nat
  BY CutInTwo, LenProperties
<1>2. DOMAIN a = 1..n /\ DOMAIN b = 1..Len(s) - n /\ DOMAIN s = 1..Len(s)
  BY <1>1, LenProperties
<1> HIDE DEF a, b
<1>3. ASSUME NEW i \in 1..n, a[i] # 0, a[i] > missed PROVE a[i] = last - (Len(s) - n) - Len(a) + i
  <2>1. i \in 1..Len(s)
    BY <1>1
  <2>2. s[i] = last - Len(s) + i
    BY <1>1, <1>2, <1>3, <2>1 DEF Ends
  <2> QED
    BY <1>1, <2>2
<1>4. ASSUME NEW i \in 1..Len(s) - n, b[i] # 0, b[i] > missed PROVE b[i] = last - Len(b) + i
  <2>1. n + i \in 1..Len(s)
    BY <1>1
  <2>2. s[n + i] = last - Len(s) + (n + i)
    BY <1>1, <1>2, <1>4, <2>1 DEF Ends
  <2> QED
    BY <1>1, <2>2
<1> QED
  BY <1>2, <1>3, <1>4 DEF Ends, a, b

\* Two sequences whose numbers follow each other.
LEMMA JoinEnds ==
  ASSUME NEW s \in Seq(Nat), NEW t \in Seq(Nat), NEW last \in Int, Ends(t, last), Ends(s, last - Len(t))
  PROVE  Ends(s \o t, last)
<1> DEFINE j == s \o t
<1>1. /\ j \in Seq(Nat) /\ Len(j) = Len(s) + Len(t) /\ Len(s) \in Nat /\ Len(t) \in Nat
      /\ \A i \in 1..Len(s) + Len(t) : j[i] = IF i <= Len(s) THEN s[i] ELSE t[i - Len(s)]
  BY ConcatProperties, LenProperties
<1>2. DOMAIN j = 1..Len(s) + Len(t) /\ DOMAIN s = 1..Len(s) /\ DOMAIN t = 1..Len(t)
  BY <1>1, LenProperties
<1> HIDE DEF j
<1>3. ASSUME NEW i \in 1..Len(s) + Len(t), j[i] # 0, j[i] > missed PROVE j[i] = last - Len(j) + i
  <2>1. CASE i <= Len(s)
    <3>1. i \in 1..Len(s) /\ j[i] = s[i]
      BY <1>1, <2>1
    <3>2. s[i] = last - Len(t) - Len(s) + i
      BY <1>2, <1>3, <3>1 DEF Ends
    <3> QED
      BY <1>1, <3>1, <3>2
  <2>2. CASE i > Len(s)
    <3>1. i - Len(s) \in 1..Len(t) /\ j[i] = t[i - Len(s)]
      BY <1>1, <2>2
    <3>2. t[i - Len(s)] = last - Len(t) + (i - Len(s))
      BY <1>2, <1>3, <3>1 DEF Ends
    <3> QED
      BY <1>1, <3>1, <3>2
  <2> QED
    BY <1>1, <2>1, <2>2
<1> QED
  BY <1>1, <1>2, <1>3 DEF Ends, j

\* Where the samples are after a call of the filters: none is lost, and none comes back.
LEMMA Filtered ==
  ASSUME SoundInv, pc = "feed", NEW n \in 0..MaxHeld, Filter(n)
  PROVE  \E pre \in Seq(Nat), m \in Nat :
           /\ pre = SubSeq(abuf, 1, declen) /\ Len(pre) = declen /\ declen \in 0..Len(abuf)
           /\ m \in 0..Len(held) + declen /\ Len(held) + declen - m <= MaxHeld
           /\ held \o pre \in Seq(Nat) /\ Len(held \o pre) = Len(held) + declen
           /\ abuf' = SubSeq(abuf, declen + 1, Len(abuf)) /\ abuf' \in Seq(Nat) /\ Len(abuf') = Len(abuf) - declen
           /\ held' = SubSeq(held \o pre, m + 1, Len(held \o pre)) /\ held' \in Seq(Nat)
           /\ Len(held') = Len(held) + declen - m
           /\ SubSeq(held \o pre, 1, m) \in Seq(Nat) /\ Len(SubSeq(held \o pre, 1, m)) = m
           /\ out' = out \o SubSeq(held \o pre, 1, m) /\ out' \in Seq(Nat) /\ Len(out') = Len(out) + m
           /\ Range(held') \cup Range(abuf') \subseteq Range(held) \cup Range(abuf)
           /\ Range(out') \cup Range(held') \cup Range(abuf') = Range(out) \cup Range(held) \cup Range(abuf)
<1> DEFINE pre == SubSeq(abuf, 1, declen)
           all == held \o pre
           keep == Least(n, Len(all))
           m == Len(all) - keep
           rest == SubSeq(abuf, declen + 1, Len(abuf))
           first == SubSeq(all, 1, m)
           last == SubSeq(all, m + 1, Len(all))
<1>1. /\ abuf \in Seq(Nat) /\ held \in Seq(Nat) /\ out \in Seq(Nat)
      /\ Len(abuf) \in Nat /\ Len(held) \in Nat /\ Len(out) \in Nat
      /\ declen \in 0..Len(abuf) /\ n \in Nat /\ n <= MaxHeld /\ MaxHeld \in Nat
  BY Lengths, ConstantsShape DEF SoundInv, SoundShapes, Filter
<1>2. /\ out' = out \o SubSeq(all, 1, Len(all) - keep) /\ held' = SubSeq(all, Len(all) - keep + 1, Len(all))
      /\ abuf' = SubSeq(abuf, declen + 1, Len(abuf))
  BY DEF Filter
<1>3. /\ pre \in Seq(Nat) /\ Len(pre) = declen /\ rest \in Seq(Nat) /\ Len(rest) = Len(abuf) - declen
      /\ Range(abuf) = Range(pre) \cup Range(rest)
  BY <1>1, CutInTwo
<1> HIDE DEF pre, rest
<1>4. all \in Seq(Nat) /\ Len(all) = Len(held) + declen /\ Range(all) = Range(held) \cup Range(pre)
  <2>1. /\ held \o pre \in Seq(Nat)
        /\ Len(held \o pre) = Len(held) + Len(pre)
    BY <1>1, <1>3, ConcatProperties
  <2>2. Range(held \o pre) = Range(held) \cup Range(pre)
    BY <1>1, <1>3, RangeConcatenation
  <2> QED
    BY <1>3, <2>1, <2>2
<1> HIDE DEF all
<1>5. keep \in 0..Len(all) /\ keep <= n
  BY <1>1, <1>4 DEF Least
<1> HIDE DEF keep
<1>6. m \in 0..Len(all) /\ Len(all) - m = keep
  BY <1>1, <1>4, <1>5
<1> HIDE DEF m
<1>7. /\ first \in Seq(Nat) /\ Len(first) = m /\ last \in Seq(Nat) /\ Len(last) = Len(all) - m
      /\ Range(all) = Range(first) \cup Range(last)
  BY <1>4, <1>6, CutInTwo
<1>8. out' = out \o first /\ held' = last /\ abuf' = rest
  BY <1>2 DEF m, rest
<1> HIDE DEF first, last
<1>9. out' \in Seq(Nat) /\ Len(out') = Len(out) + m /\ Range(out') = Range(out) \cup Range(first)
  <2>1. out \o first \in Seq(Nat) /\ Len(out \o first) = Len(out) + Len(first)
    BY <1>1, <1>7, ConcatProperties
  <2>2. Range(out \o first) = Range(out) \cup Range(first)
    BY <1>1, <1>7, RangeConcatenation
  <2> QED
    BY <1>7, <1>8, <2>1, <2>2
<1>10. Range(held') \cup Range(abuf') \subseteq Range(held) \cup Range(abuf)
  BY <1>3, <1>4, <1>7, <1>8
<1>11. Range(out') \cup Range(held') \cup Range(abuf') = Range(out) \cup Range(held) \cup Range(abuf)
  BY <1>3, <1>4, <1>7, <1>8, <1>9
<1>12. m \in Nat /\ m \in 0..Len(held) + declen /\ Len(held) + declen - m <= MaxHeld
  BY <1>1, <1>4, <1>5, <1>6
<1>13. /\ pre = SubSeq(abuf, 1, declen) /\ all = held \o pre /\ rest = SubSeq(abuf, declen + 1, Len(abuf))
       /\ first = SubSeq(all, 1, m) /\ last = SubSeq(all, m + 1, Len(all))
  BY DEF pre, all, rest, first, last
<1>14. /\ held \o pre \in Seq(Nat) /\ Len(held \o pre) = Len(held) + declen
       /\ held' = SubSeq(held \o pre, m + 1, Len(held \o pre))
       /\ SubSeq(held \o pre, 1, m) \in Seq(Nat) /\ Len(SubSeq(held \o pre, 1, m)) = m
       /\ out' = out \o SubSeq(held \o pre, 1, m)
  BY <1>4, <1>7, <1>8, <1>13
<1>15. /\ abuf' = SubSeq(abuf, declen + 1, Len(abuf)) /\ abuf' \in Seq(Nat) /\ Len(abuf') = Len(abuf) - declen
       /\ held' \in Seq(Nat) /\ Len(held') = Len(held) + declen - m
  <2>1. abuf' = rest /\ held' = last
    BY <1>8
  <2>2. abuf' = SubSeq(abuf, declen + 1, Len(abuf)) /\ abuf' \in Seq(Nat) /\ Len(abuf') = Len(abuf) - declen
    BY <1>3, <1>13, <2>1
  <2>3. held' \in Seq(Nat) /\ Len(held') = Len(all) - m
    BY <1>7, <2>1
  <2>4. Len(all) = Len(held) + declen
    BY <1>4
  <2>5. Len(held') = Len(held) + declen - m
    BY <1>1, <1>6, <2>3, <2>4
  <2> QED
    BY <2>2, <2>3, <2>5
<1> WITNESS pre \in Seq(Nat), m \in Nat
<1> QED
  BY <1>1, <1>3, <1>9, <1>10, <1>11, <1>12, <1>13, <1>14, <1>15

LEMMA StepFilter == \A n \in 0..MaxHeld : SoundInv /\ Filter(n) => SoundInv'
<1> SUFFICES ASSUME NEW n \in 0..MaxHeld, SoundInv, Filter(n) PROVE SoundInv'
  OBVIOUS
<1> USE ConstantsShape
<1>1. /\ UNCHANGED <<decoder, af, change, written, skipped, video, canPause, faults, dev, devst, space,
                     final, audio_eof, toWrite, playsize, declen, huge, res>>
      /\ pc = "feed" /\ pc' = "decode"
  BY DEF Filter, locals, device, fixed
<1>2. /\ track' = track /\ at' = at /\ ending' = ending /\ drained' = drained /\ pts' = pts /\ missed' = missed /\ sh' = sh
      /\ \A u : FormatOf(u)' = FormatOf(u)
  <2>1. track' = track /\ at' = at /\ ending' = ending /\ drained' = drained /\ pts' = pts /\ missed' = missed /\ sh' = sh
    BY <1>1 DEF decoder
  <2>2. \A u : FormatOf(u)' = FormatOf(u)
    BY <2>1, SameTrack
  <2> QED
    BY <2>1, <2>2
<1>3. PICK pre \in Seq(Nat), m \in Nat :
        /\ pre = SubSeq(abuf, 1, declen) /\ Len(pre) = declen /\ declen \in 0..Len(abuf)
        /\ m \in 0..Len(held) + declen /\ Len(held) + declen - m <= MaxHeld
        /\ held \o pre \in Seq(Nat) /\ Len(held \o pre) = Len(held) + declen
        /\ abuf' = SubSeq(abuf, declen + 1, Len(abuf)) /\ abuf' \in Seq(Nat) /\ Len(abuf') = Len(abuf) - declen
        /\ held' = SubSeq(held \o pre, m + 1, Len(held \o pre)) /\ held' \in Seq(Nat)
        /\ Len(held') = Len(held) + declen - m
        /\ SubSeq(held \o pre, 1, m) \in Seq(Nat) /\ Len(SubSeq(held \o pre, 1, m)) = m
        /\ out' = out \o SubSeq(held \o pre, 1, m) /\ out' \in Seq(Nat) /\ Len(out') = Len(out) + m
        /\ Range(held') \cup Range(abuf') \subseteq Range(held) \cup Range(abuf)
        /\ Range(out') \cup Range(held') \cup Range(abuf') = Range(out) \cup Range(held) \cup Range(abuf)
  BY <1>1, Filtered
<1>4. /\ abuf \in Seq(Nat) /\ held \in Seq(Nat) /\ out \in Seq(Nat) /\ pts \in Nat /\ declen \in Nat
      /\ Len(abuf) \in Nat /\ Len(held) \in Nat /\ Len(out) \in Nat
  BY Lengths DEF SoundInv, SoundShapes
<1>5. SoundShapes'
  BY <1>1, <1>2, <1>3 DEF SoundInv, SoundShapes
<1>6. CallShape'
  <2>1. ~change /\ (res # 0 => declen = Len(abuf))
    BY <1>1 DEF SoundInv, CallShape
  <2>2. res # 0 => abuf' = <<>>
    BY <1>3, <1>4, <2>1, EmptySeq
  <2> QED
    BY <1>1, <2>1, <2>2 DEF SoundInv, CallShape, InCall
<1>7. SoundRoom'
  <2>1. Len(out) < playsize /\ playsize <= MaxBurst /\ declen <= MaxDecode /\ playsize \in Nat
    BY <1>1 DEF SoundInv, CallShape, InCall, SoundShapes
  <2>2. Len(dev) <= DevSize /\ Len(abuf) <= ABufSize /\ Len(held) <= MaxHeld
    BY DEF SoundInv, SoundRoom
  <2>3. Len(out') <= MaxBurst + MaxDecode + MaxHeld
    BY <1>3, <1>4, <2>1, <2>2
  <2>4. Len(abuf') <= ABufSize
    BY <1>3, <1>4, <2>2
  <2> QED
    BY <1>1, <1>3, <2>2, <2>3, <2>4 DEF SoundRoom
<1>8. FormatKnown' /\ DeviceState'
  BY <1>1, <1>2 DEF SoundInv, FormatKnown, DeviceState
<1>9. Behind'
  BY <1>2, <1>3 DEF SoundInv, Behind
<1>10. Timed'
  <2>8. Len(pre) = declen /\ Len(abuf') = Len(abuf) - declen /\ Len(held') = Len(held) + declen - m /\ m \in Nat
    BY <1>3
  <2> DEFINE all == held \o pre
             first == SubSeq(all, 1, m)
  <2>1. SUFFICES ASSUME ~change', res' # -2
                 PROVE  Ends(abuf', pts) /\ Ends(held', pts - Len(abuf')) /\ Ends(out', pts - Len(abuf') - Len(held'))
    BY <1>1, <1>2 DEF Timed, Ends
  <2>2. Ends(abuf, pts) /\ Ends(held, pts - Len(abuf)) /\ Ends(out, pts - Len(abuf) - Len(held))
    BY <1>1, <2>1 DEF SoundInv, Timed
  <2>3. Ends(pre, pts - (Len(abuf) - declen)) /\ Ends(abuf', pts)
    BY <1>3, <1>4, <2>2, CutEnds
  <2>4. /\ all \in Seq(Nat) /\ Len(all) = Len(held) + declen /\ m \in 0..Len(all)
        /\ first \in Seq(Nat) /\ Len(first) = m
        /\ held' = SubSeq(all, m + 1, Len(all)) /\ out' = out \o first
    BY <1>3
  <2>5. Ends(all, pts - Len(abuf'))
    <3> DEFINE last == pts - (Len(abuf) - declen)
    <3>1. last \in Int /\ last - Len(pre) = pts - Len(abuf) /\ last = pts - Len(abuf')
      BY <1>4, <2>8
    <3> HIDE DEF last
    <3>2. Ends(pre, last) /\ Ends(held, last - Len(pre))
      BY <2>2, <2>3, <3>1 DEF last
    <3>3. Ends(held \o pre, last)
      BY <1>4, <3>1, <3>2, JoinEnds
    <3> QED
      BY <3>1, <3>3
  <2> HIDE DEF all
  <2>6. Ends(first, pts - Len(abuf') - (Len(all) - m)) /\ Ends(held', pts - Len(abuf'))
    <3>1. pts - Len(abuf') \in Int
      BY <1>3, <1>4
    <3> QED
      BY <2>4, <2>5, <3>1, CutEnds
  <2> HIDE DEF first
  <2>7. Ends(out', pts - Len(abuf') - Len(held'))
    <3> DEFINE last == pts - Len(abuf') - Len(held')
    <3>1. last \in Int /\ last - Len(first) = pts - Len(abuf) - Len(held) /\ last = pts - Len(abuf') - (Len(all) - m)
      <4>1. Len(all) = Len(held) + declen /\ Len(first) = m
        BY <2>4
      <4> HIDE DEF all, first
      <4> QED
        BY <1>4, <2>8, <4>1
    <3> HIDE DEF last
    <3>2. Ends(first, last) /\ Ends(out, last - Len(first))
      BY <2>2, <2>6, <3>1
    <3>3. Ends(out \o first, last)
      BY <1>4, <2>4, <3>1, <3>2, JoinEnds
    <3> QED
      BY <2>4, <3>3 DEF last
  <2> QED
    BY <2>3, <2>6, <2>7
<1>11. RightFormat'
  BY <1>1, <1>2, <1>3 DEF SoundInv, RightFormat
<1>12. Pieces'
  BY <1>1 DEF SoundInv, Pieces, Smooth, InCall
<1>13. Covered'
  <2>1. Smooth' => Smooth
    BY <1>1 DEF Smooth
  <2> QED
    BY <1>1, <1>2, <1>3, <2>1 DEF SoundInv, Covered, Somewhere
<1> QED
  BY <1>5, <1>6, <1>7, <1>8, <1>9, <1>10, <1>11, <1>12, <1>13 DEF SoundInv

LEMMA StepToPlay == SoundInv /\ ToPlay => SoundInv'
<1> SUFFICES ASSUME SoundInv, ToPlay PROVE SoundInv'
  OBVIOUS
<1> USE ConstantsShape
<1>1. /\ UNCHANGED <<decoder, abuf, out, held, af, change, written, skipped, video, canPause, faults, dev, devst, space,
                     toWrite, declen, huge, res>>
      /\ pc = "piece" /\ pc' \in {"finished", "filled", "play"}
      /\ audio_eof' = (audio_eof \/ AtEnd)
      /\ playsize' = (IF playsize < Len(out) THEN playsize ELSE Len(out))
      /\ final' = (final \/ (playsize > Len(out) /\ (audio_eof' \/ change)))
      /\ pc' = "finished" => AtEnd /\ out = <<>>
      /\ pc' = "play" => playsize' # 0
  BY DEF ToPlay, buffers, device, fixed, Least
<1>2. Len(out) \in Nat /\ playsize \in Nat /\ playsize' \in Nat /\ playsize' <= playsize /\ playsize' <= Len(out)
  BY <1>1, Lengths DEF SoundInv, SoundShapes
<1>3. faults' \in Nat /\ faults <= faults'
  BY <1>1 DEF SoundInv, SoundShapes
<1>4. Behind' /\ RightFormat' /\ Covered' /\ (Smooth' => Smooth)
  BY <1>1, <1>3, DataKept
<1>5. Timed'
  BY <1>1, TimedKept DEF decoder
<1>6. SoundShapes'
  <2>1. audio_eof' \in BOOLEAN /\ final' \in BOOLEAN
    BY <1>1 DEF SoundInv, SoundShapes
  <2> QED
    BY <1>1, <1>2, <2>1 DEF decoder, SoundInv, SoundShapes
<1>7. CallShape'
  <2>1. Len(dev) + toWrite + playsize <= DevSize /\ playsize <= MaxBurst /\ Len(dev) \in Nat /\ toWrite \in Nat
    BY <1>1, Lengths DEF SoundInv, SoundShapes, CallShape, InCall
  <2>2. Len(dev) + toWrite + playsize' <= DevSize /\ playsize' <= MaxBurst
    BY <1>2, <2>1
  <2>3. change \/ res # 0 => abuf = <<>>
    BY <1>1 DEF SoundInv, CallShape
  <2>4. pc' = "finished" => ~change /\ res # 0 /\ ending /\ out = <<>>
    BY <1>1 DEF AtEnd, SoundInv, SoundShapes
  <2> QED
    BY <1>1, <1>2, <2>2, <2>3, <2>4 DEF CallShape, InCall, decoder
<1>8. SoundRoom' /\ FormatKnown' /\ DeviceState'
  BY <1>1 DEF decoder, SoundInv, SoundRoom, FormatKnown, DeviceState
<1>9. Pieces'
  <2>1. SUFFICES ASSUME Smooth', pc' = "play"
                 PROVE  toWrite' = 0 /\ (final' \/ playsize' >= Outburst \/ (~change' /\ ~audio_eof'))
    BY <1>1 DEF Pieces, InCall
  <2>2. toWrite = 0 /\ playsize >= Outburst
    BY <1>1, <1>4, <2>1 DEF SoundInv, Pieces, InCall
  <2>3. CASE playsize <= Len(out)
    BY <1>1, <1>2, <2>2, <2>3
  <2>4. CASE playsize > Len(out)
    BY <1>1, <2>2, <2>4
  <2> QED
    BY <1>2, <2>3, <2>4
<1> QED
  BY <1>4, <1>5, <1>6, <1>7, <1>8, <1>9 DEF SoundInv

LEMMA RoundedDown ==
  ASSUME NEW n \in Nat, NEW k \in Nat \ {0}
  PROVE  /\ (n \div k) * k \in Nat /\ (n \div k) * k <= n
         /\ n >= k => (n \div k) * k >= k
<1>1. n \div k \in Nat /\ n >= k => n \div k >= 1
  OBVIOUS
<1>2. (n \div k) * k <= n
  OBVIOUS
<1> DEFINE q == n \div k
<1>3. q \in Nat /\ (n >= k => q >= 1)
  BY <1>1
<1> HIDE DEF q
<1>4. q * k \in Nat /\ (n >= k => q * k >= k)
  BY <1>3
<1> QED
  BY <1>2, <1>4 DEF q

LEMMA NothingSilent == Silent(<<>>) /\ Range(<<>>) = {} /\ <<>> \in Seq(Nat) /\ Len(<<>>) = 0
<1>1. DOMAIN <<>> = {}
  OBVIOUS
<1> QED
  BY <1>1, EmptySeq DEF Silent, Range

\* What play does not take stays, but for the case that it is given up.
LEMMA StepRefused ==
  ASSUME SoundInv, pc = "play", pc' = "loop", Refused, faults' \in Nat, faults <= faults',
         UNCHANGED <<decoder, abuf, held, af, change, locals, space, fixed, skipped>>,
         Smooth' => out' = out
  PROVE  SoundInv'
<1> USE ConstantsShape
<1>1. /\ track' = track /\ at' = at /\ ending' = ending /\ drained' = drained /\ pts' = pts /\ missed' = missed /\ sh' = sh
      /\ UNCHANGED <<abuf, held, af, change, skipped, space, video, canPause, dev, devst, written,
                     toWrite, playsize, final, audio_eof, declen, huge, res>>
      /\ out' \in {out, <<>>}
  BY DEF decoder, locals, fixed, Refused
<1>2. \A u : FormatOf(u)' = FormatOf(u)
  BY <1>1, SameTrack
<1>3. out' \in Seq(Nat) /\ Len(out') <= Len(out) /\ Len(out') \in Nat
  <2>1. out \in Seq(Nat) /\ Len(out) \in Nat
    BY Lengths DEF SoundInv, SoundShapes
  <2>2. <<>> \in Seq(Nat) /\ Len(<<>>) = 0
    BY EmptySeq
  <2>3. CASE out' = out
    BY <2>1, <2>3
  <2>4. CASE out' = <<>>
    BY <2>1, <2>2, <2>4
  <2> QED
    BY <1>1, <2>3, <2>4
<1>4. SoundShapes'
  BY <1>1, <1>3 DEF SoundInv, SoundShapes
<1>5. CallShape'
  <2>1. Len(dev) + toWrite <= DevSize /\ Len(dev) \in Nat /\ toWrite \in Nat
    BY Lengths DEF SoundInv, SoundShapes, CallShape, InCall
  <2> QED
    BY <1>1, <2>1 DEF SoundInv, CallShape, InCall
<1>6. SoundRoom' /\ FormatKnown' /\ DeviceState'
  <2>1. SoundRoom'
    <3>1. Len(out') <= MaxBurst + MaxDecode + MaxHeld
      BY <1>3, Lengths DEF SoundInv, SoundRoom
    <3> QED
      BY <1>1, <3>1 DEF SoundInv, SoundRoom
  <2>2. faults' = 0 => faults = 0
    BY DEF SoundInv, SoundShapes
  <2> QED
    BY <1>1, <2>1, <2>2 DEF SoundInv, FormatKnown, DeviceState
<1>7. AllSilent => AllSilent'
  BY <1>1 DEF AllSilent, Silent
<1>8. Behind'
  <2>1. Range(out') \subseteq Range(out)
    BY <1>1, NothingSilent
  <2> QED
    BY <1>1, <2>1 DEF SoundInv, Behind
<1>9. Timed'
  BY <1>1, <1>7 DEF SoundInv, Timed, Ends
<1>10. RightFormat'
  BY <1>1, <1>2 DEF SoundInv, RightFormat
<1>11. Smooth' => Smooth
  BY <1>1 DEF Smooth, SoundInv, SoundShapes
<1>12. Pieces'
  BY <1>1, <1>11 DEF SoundInv, Pieces, InCall
<1>13. Covered'
  BY <1>1, <1>2, <1>11 DEF SoundInv, Covered, Somewhere
<1> QED
  BY <1>4, <1>5, <1>6, <1>8, <1>9, <1>10, <1>12, <1>13 DEF SoundInv

\* In a smooth run what is not taken is not given up: there was a whole period to write, or the
\* end has not come.
LEMMA NotGivenUp ==
  ASSUME SoundInv, pc = "play", Frames = 0, Smooth
  PROVE  ~change /\ ~audio_eof
<1>1. /\ final \/ playsize >= Outburst \/ (~change /\ ~audio_eof)
      /\ playsize \in Nat /\ playsize >= 1 /\ Outburst \in Nat \ {0}
  BY ConstantsShape DEF SoundInv, SoundShapes, CallShape, Pieces
<1>2. ~final
  BY <1>1 DEF Frames
<1>3. ~(playsize >= Outburst)
  BY <1>1, <1>2, RoundedDown DEF Frames
<1> QED
  BY <1>1, <1>2, <1>3

\* n samples are written.
LEMMA StepTaken ==
  ASSUME SoundInv, pc = "play", pc' = "loop", NEW n \in 1..Frames, NEW lost \in BOOLEAN,
         faults' \in Nat, faults <= faults', lost => devst = "suspended",
         dev' = (IF lost THEN <<>> ELSE dev) \o SubSeq(out, 1, n),
         devst' = Started(dev', IF lost THEN "prepared" ELSE devst), Accepted(n),
         UNCHANGED <<decoder, abuf, held, af, change, locals, space, fixed, skipped>>
  PROVE  SoundInv'
<1> USE ConstantsShape
<1>1. /\ track' = track /\ at' = at /\ ending' = ending /\ drained' = drained /\ pts' = pts /\ missed' = missed /\ sh' = sh
      /\ UNCHANGED <<abuf, held, af, change, skipped, space, video, canPause,
                     toWrite, playsize, final, audio_eof, declen, huge, res>>
      /\ out' = SubSeq(out, n + 1, Len(out)) /\ written' = written \cup Range(SubSeq(out, 1, n))
  BY DEF decoder, locals, fixed, Accepted
<1>2. \A u : FormatOf(u)' = FormatOf(u)
  BY <1>1, SameTrack
<1>3. /\ out \in Seq(Nat) /\ Len(out) \in Nat /\ dev \in Seq(Nat) /\ Len(dev) \in Nat
      /\ toWrite \in Nat /\ playsize \in 1..Len(out) /\ Len(abuf) \in Nat /\ Len(held) \in Nat /\ pts \in Nat
      /\ Len(dev) + toWrite + playsize <= DevSize
  BY Lengths DEF SoundInv, SoundShapes, CallShape, InCall
<1>4. Frames \in Nat /\ Frames <= playsize
  <2>1. playsize \in Nat
    BY <1>3
  <2> QED
    BY <2>1, RoundedDown DEF Frames
<1>5. n \in 0..Len(out) /\ n <= playsize
  BY <1>3, <1>4
<1> DEFINE piece == SubSeq(out, 1, n)
<1>6. /\ piece \in Seq(Nat) /\ Len(piece) = n /\ out' \in Seq(Nat) /\ Len(out') = Len(out) - n
      /\ Range(out) = Range(piece) \cup Range(out')
  BY <1>1, <1>3, <1>5, CutInTwo
<1> HIDE DEF piece
<1>7. dev' \in Seq(Nat) /\ Len(dev') \in Nat /\ Len(dev') <= Len(dev) + n
  <2> DEFINE d == IF lost THEN <<>> ELSE dev
  <2>1. d \in Seq(Nat) /\ Len(d) <= Len(dev) /\ Len(d) \in Nat
    <3>1. <<>> \in Seq(Nat) /\ Len(<<>>) = 0
      BY EmptySeq
    <3>2. CASE lost
      BY <1>3, <3>1, <3>2
    <3>3. CASE ~lost
      BY <1>3, <3>3
    <3> QED
      BY <3>2, <3>3
  <2>2. dev' = d \o piece
    BY DEF piece
  <2> HIDE DEF d
  <2>3. d \o piece \in Seq(Nat) /\ Len(d \o piece) = Len(d) + Len(piece)
    BY <1>6, <2>1, ConcatProperties
  <2>4. Len(piece) = n /\ n \in Nat /\ Len(dev) \in Nat
    BY <1>3, <1>5, <1>6
  <2>5. Len(d \o piece) \in Nat /\ Len(d \o piece) <= Len(dev) + n
    BY <2>1, <2>3, <2>4
  <2> QED
    BY <2>2, <2>3, <2>5
<1>8. SoundShapes'
  BY <1>1, <1>6, <1>7 DEF SoundInv, SoundShapes
<1>9. Len(dev') + toWrite <= DevSize
  BY <1>3, <1>5, <1>7
<1>10. CallShape'
  BY <1>1, <1>3, <1>7, <1>9 DEF SoundInv, CallShape, InCall
<1>11. SoundRoom'
  <2>1. Len(out') <= MaxBurst + MaxDecode + MaxHeld /\ Len(dev') <= DevSize
    <3>1. Len(out) <= MaxBurst + MaxDecode + MaxHeld
      BY DEF SoundInv, SoundRoom
    <3>2. n \in Nat /\ Len(out) \in Nat /\ Len(out') = Len(out) - n
      BY <1>3, <1>5, <1>6
    <3>3. Len(out') <= MaxBurst + MaxDecode + MaxHeld
      BY <3>1, <3>2
    <3>4. Len(dev') \in Nat /\ toWrite \in Nat
      BY <1>3, <1>7
    <3> QED
      BY <1>9, <3>3, <3>4
  <2> QED
    BY <1>1, <2>1 DEF SoundInv, SoundRoom
<1>12. FormatKnown'
  BY <1>1 DEF SoundInv, FormatKnown
<1>13. DeviceState'
  <2>1. faults' = 0 => faults = 0
    BY DEF SoundInv, SoundShapes
  <2>2. devst' \in {"running", "prepared"} \/ (devst' = devst /\ ~lost /\ Len(dev') < Outburst /\ devst = "prepared")
    BY DEF Started
  <2>3. devst' = "prepared" => Len(dev') < Outburst
    BY DEF Started
  <2>4. devst' \in {"running", "prepared"}
    BY <2>2
  <2> QED
    BY <1>1, <2>1, <2>3, <2>4 DEF SoundInv, DeviceState
<1>14. AllSilent => AllSilent'
  BY <1>1, <1>6 DEF AllSilent, Silent, Range
<1>15. Behind'
  BY <1>1, <1>6 DEF SoundInv, Behind
<1>16. Timed'
  <2>1. CASE res = -2
    BY <1>1, <1>14, <2>1 DEF SoundInv, Timed
  <2>2. CASE res # -2 /\ ~change
    <3> DEFINE last == pts - Len(abuf) - Len(held)
    <3>1. last \in Int
      BY <1>3
    <3>2. Ends(out, last) /\ Ends(abuf, pts) /\ Ends(held, pts - Len(abuf))
      BY <2>2 DEF SoundInv, Timed
    <3> HIDE DEF last
    <3>3. Ends(out', last)
      BY <1>1, <1>3, <1>5, <3>1, <3>2, CutEnds
    <3> QED
      BY <1>1, <2>2, <3>2, <3>3 DEF Timed, Ends, last
  <2>3. CASE change
    BY <1>1, <2>3 DEF Timed
  <2> QED
    BY <2>1, <2>2, <2>3
<1>17. RightFormat'
  BY <1>1, <1>2 DEF SoundInv, RightFormat
<1>18. Smooth' => Smooth
  BY <1>1 DEF Smooth, SoundInv, SoundShapes
<1>19. Pieces'
  BY <1>1, <1>18 DEF SoundInv, Pieces, InCall
<1>20. Covered'
  <2>1. written' = written \cup Range(piece)
    BY <1>1 DEF piece
  <2>2. Somewhere' = Somewhere
    BY <1>1, <1>6, <2>1 DEF Somewhere
  <2> QED
    BY <1>1, <1>2, <1>18, <2>2 DEF SoundInv, Covered
<1> QED
  BY <1>8, <1>10, <1>11, <1>12, <1>13, <1>15, <1>16, <1>17, <1>19, <1>20 DEF SoundInv

LEMMA StepPlay == SoundInv /\ Play => SoundInv'
<1> SUFFICES ASSUME SoundInv, Play PROVE SoundInv'
  OBVIOUS
<1>1. /\ pc = "play" /\ pc' = "loop"
      /\ UNCHANGED <<decoder, abuf, held, af, change, locals, space, fixed, skipped>>
      /\ faults \in Nat
  BY DEF Play, SoundInv, SoundShapes
<1>2. CASE Frames = 0 /\ Refused /\ faults' = faults
  <2>1. Smooth' => Smooth
    BY <1>1, <1>2 DEF Smooth, fixed
  <2>2. Smooth' => out' = out
    BY <1>1, <1>2, <2>1, NotGivenUp DEF Refused
  <2> QED
    BY <1>1, <1>2, <2>2, StepRefused
<1>3. ASSUME NEW n \in 1..Frames, NEW lost \in BOOLEAN,
             faults' = faults + (IF n < Frames THEN 1 ELSE 0), lost => devst = "suspended",
             dev' = (IF lost THEN <<>> ELSE dev) \o SubSeq(out, 1, n),
             devst' = Started(dev', IF lost THEN "prepared" ELSE devst), Accepted(n)
      PROVE  SoundInv'
  <2>1. faults' \in Nat /\ faults <= faults'
    BY <1>1, <1>3
  <2> QED
    BY <1>1, <1>3, <2>1, StepTaken
<1>4. CASE faults' = faults + 1 /\ Refused
  <2>1. faults' \in Nat /\ faults <= faults' /\ faults' # 0
    BY <1>1, <1>4
  <2>2. Smooth' => out' = out
    BY <2>1 DEF Smooth
  <2> QED
    BY <1>1, <1>4, <2>1, <2>2, StepRefused
<1> QED
  BY <1>2, <1>3, <1>4 DEF Play

LEMMA StepReopened ==
  ASSUME SoundInv, pc \in {"filled", "loop"}, pc' = "main", change, out = <<>>, Reopened, faults' = faults,
         UNCHANGED <<decoder, abuf, out, locals, space, fixed, written>>
  PROVE  SoundInv'
<1> USE ConstantsShape, NothingSilent
<1>1. /\ track' = track /\ at' = at /\ ending' = ending /\ drained' = drained /\ pts' = pts /\ missed' = missed /\ sh' = sh
      /\ UNCHANGED <<out, abuf, written, space, video, canPause, toWrite, playsize, final, audio_eof, declen, huge, res>>
      /\ dev' = <<>> /\ devst' = "prepared" /\ held' = <<>> /\ af' = sh /\ change' = FALSE
      /\ skipped' = skipped \cup Range(held)
  BY DEF decoder, locals, fixed, Reopened
<1>2. \A u : FormatOf(u)' = FormatOf(u)
  BY <1>1, SameTrack
<1>3. abuf = <<>>
  BY DEF SoundInv, CallShape
<1>4. SoundShapes'
  BY <1>1 DEF SoundInv, SoundShapes
<1>5. CallShape' /\ FormatKnown' /\ Pieces'
  BY <1>1, <1>3 DEF CallShape, InCall, FormatKnown, Pieces
<1>6. SoundRoom'
  BY <1>1 DEF SoundInv, SoundRoom
<1>7. DeviceState'
  BY <1>1 DEF SoundInv, DeviceState
<1>8. AllSilent'
  BY <1>1, <1>3 DEF AllSilent
<1>9. Behind' /\ Timed'
  <2>1. Behind'
    BY <1>1, <1>3 DEF Behind
  <2>2. Timed'
    BY <1>8 DEF Timed, AllSilent, Silent, Ends
  <2> QED
    BY <2>1, <2>2
<1>10. RightFormat'
  BY <1>1, <1>3 DEF RightFormat
<1>11. Covered'
  <2>1. Smooth' => Smooth
    BY <1>1 DEF Smooth
  <2>2. Somewhere' = Somewhere
    BY <1>1 DEF Somewhere
  <2> QED
    BY <1>1, <1>2, <2>1, <2>2 DEF SoundInv, Covered
<1> QED
  BY <1>4, <1>5, <1>6, <1>7, <1>9, <1>10, <1>11 DEF SoundInv

\* Steps that only move on.
LEMMA StepMoveOn ==
  ASSUME SoundInv, pc \notin {"decode", "feed", "piece", "play"}, pc' \notin {"decode", "feed", "piece", "play", "loop"},
         faults' \in Nat, faults <= faults',
         UNCHANGED <<decoder, buffers, locals, device, fixed, written, skipped>>,
         pc # "paused", devst # "setup",
         pc' = "finished" \/ (pc' = "ended" /\ ~video) => pc = "finished"
  PROVE  SoundInv'
<1> USE ConstantsShape
<1>1. UNCHANGED <<decoder, abuf, out, held, af, change, written, skipped, video, canPause, dev, devst, space,
                  toWrite, playsize, final, audio_eof, declen, huge, res>>
  BY DEF buffers, locals, device, fixed
<1>2. Behind' /\ RightFormat' /\ Covered' /\ (Smooth' => Smooth)
  BY <1>1, DataKept
<1>3. Timed'
  BY <1>1, TimedKept DEF decoder
<1>4. SoundShapes'
  BY <1>1 DEF decoder, SoundInv, SoundShapes
<1>5. CallShape'
  BY <1>1 DEF decoder, SoundInv, CallShape, InCall
<1>6. SoundRoom' /\ FormatKnown'
  BY <1>1 DEF decoder, SoundInv, SoundRoom, FormatKnown
<1>7. DeviceState'
  BY <1>1 DEF SoundInv, SoundShapes, DeviceState
<1>8. Pieces'
  BY DEF Pieces, InCall
<1> QED
  BY <1>2, <1>3, <1>4, <1>5, <1>6, <1>7, <1>8 DEF SoundInv

LEMMA StepOutFilled == SoundInv /\ OutFilled => SoundInv'
<1> SUFFICES ASSUME SoundInv, OutFilled PROVE SoundInv'
  OBVIOUS
<1>1. /\ pc \in {"filled", "loop"} /\ pc' = "main" /\ faults' = faults /\ faults \in Nat
      /\ UNCHANGED <<decoder, abuf, out, locals, space, fixed, written>>
  BY DEF OutFilled, SoundInv, SoundShapes
<1>2. CASE change /\ out = <<>>
  BY <1>1, <1>2, StepReopened DEF OutFilled
<1>3. CASE ~(change /\ out = <<>>)
  <2>1. UNCHANGED <<decoder, buffers, locals, device, fixed, written, skipped>>
    BY <1>1, <1>3 DEF OutFilled, buffers, device
  <2>2. devst # "setup"
    BY <1>1 DEF SoundInv, DeviceState
  <2> QED
    BY <1>1, <2>1, <2>2, StepMoveOn
<1> QED
  BY <1>2, <1>3

\* The end of a call, and of playing.
LEMMA StepStops == SoundInv /\ (NoSoundDevice \/ Finished \/ VideoEnds) => SoundInv'
<1> SUFFICES ASSUME SoundInv, NoSoundDevice \/ Finished \/ VideoEnds PROVE SoundInv'
  OBVIOUS
<1>1. /\ UNCHANGED <<decoder, buffers, locals, device, fixed, written, skipped>>
      /\ faults' \in Nat /\ faults <= faults'
      /\ pc \in {"filled", "loop", "finished", "main"} /\ pc' \in {"nosound", "main", "ended"}
      /\ pc' = "ended" /\ ~video => pc = "finished"
  BY DEF NoSoundDevice, Finished, VideoEnds, SoundInv, SoundShapes
<1>2. devst # "setup"
  BY <1>1 DEF SoundInv, DeviceState
<1> QED
  BY <1>1, <1>2, StepMoveOn

-----------------------------------------------------------------------------
(* Seeking, pausing and the device. *)

LEMMA StepSeek == \A t \in DOMAIN track : SoundInv /\ Seek(t) => SoundInv'
<1> SUFFICES ASSUME NEW t \in DOMAIN track, SoundInv, Seek(t) PROVE SoundInv'
  OBVIOUS
<1> USE ConstantsShape, NothingSilent
<1>1. /\ pc = "main" /\ track' = track /\ at' = t /\ ending' = FALSE /\ drained' = FALSE
      /\ out' = <<>> /\ abuf' = <<>> /\ held' = [i \in DOMAIN held |-> 0]
      /\ dev' = <<>> /\ devst' = "prepared"
      /\ written' = 1..FrameLen * (t - 1) /\ skipped' = {}
      /\ UNCHANGED <<sh, pts, missed, af, change, pc, space, video, canPause, faults,
                     toWrite, playsize, final, audio_eof, declen, huge, res>>
  BY DEF Seek, Resync, locals, fixed
<1>2. /\ t \in 1..Len(track) /\ Len(track) \in Nat /\ t \in Nat \ {0}
      /\ FrameLen * (t - 1) \in Nat
  <2>1. t \in 1..Len(track) /\ Len(track) \in Nat
    BY FileShape DEF SoundInv, SoundShapes
  <2>2. t \in Nat \ {0} /\ t - 1 \in Nat
    BY <2>1
  <2> QED
    BY <2>1, <2>2, Product
<1>3. held' \in Seq(Nat) /\ Len(held') = Len(held) /\ Silent(held') /\ Range(held') \subseteq {0}
  <2>1. held \in Seq(Nat) /\ Len(held) \in Nat /\ DOMAIN held = 1..Len(held)
    BY Lengths, LenProperties DEF SoundInv, SoundShapes
  <2>2. held' \in [1..Len(held) -> Nat]
    BY <1>1, <2>1
  <2>3. held' \in Seq(Nat)
    BY <2>1, <2>2, SeqDef
  <2>4. Len(held') = Len(held)
    BY <2>1, <2>2, <2>3, LenProperties
  <2> QED
    BY <1>1, <2>3, <2>4 DEF Silent, Range
<1>4. SoundShapes'
  <2>1. /\ at' \in 1..Len(track) + 1 /\ dev' \in Seq(Nat) /\ out' \in Seq(Nat) /\ abuf' \in Seq(Nat)
        /\ ending' = FALSE /\ drained' = FALSE
    BY <1>1, <1>2
  <2>2. UNCHANGED <<track, sh, pts, missed, change, space, video, faults, toWrite, playsize, final, audio_eof, declen, huge, res>>
    BY <1>1
  <2> QED
    BY <1>3, <2>1, <2>2 DEF SoundInv, SoundShapes
<1>5. CallShape' /\ FormatKnown' /\ Pieces'
  BY <1>1 DEF SoundInv, CallShape, InCall, FormatKnown, Pieces
<1>6. SoundRoom'
  BY <1>1, <1>3 DEF SoundInv, SoundRoom
<1>7. DeviceState'
  BY <1>1 DEF SoundInv, DeviceState
<1>8. AllSilent'
  BY <1>1, <1>3 DEF AllSilent
<1>9. Behind' /\ Timed'
  <2>1. Behind' <=> \A u \in Range(out') \cup Range(held') \cup Range(abuf') : u <= FrameLen * (t - 1)
    BY <1>1 DEF Behind
  <2>2. Range(out') \cup Range(held') \cup Range(abuf') \subseteq {0}
    BY <1>1, <1>3
  <2>3. Timed'
    BY <1>8 DEF Timed, AllSilent, Silent, Ends
  <2> QED
    BY <1>2, <2>1, <2>2, <2>3
<1>10. RightFormat'
  BY <1>1, <1>3 DEF RightFormat
<1>11. Covered'
  <2>1. 1..FrameLen * (at' - 1) = written'
    BY <1>1
  <2>2. written' \subseteq Somewhere'
    BY DEF Somewhere
  <2> QED
    BY <2>1, <2>2 DEF Covered
<1> QED
  BY <1>4, <1>5, <1>6, <1>7, <1>9, <1>10, <1>11 DEF SoundInv

\* Steps that change the device only.
LEMMA StepDevice ==
  ASSUME SoundInv, DeviceState', dev' \in Seq(Nat), space' \in 0..DevSize,
         Len(dev') <= Len(dev) \/ (pc = "paused" /\ Len(dev') <= DevSize), Len(dev') \in Nat,
         pc' = pc \/ (pc \in {"main", "paused"} /\ pc' \in {"main", "paused"}),
         faults' \in Nat, faults <= faults',
         UNCHANGED <<decoder, buffers, locals, fixed, written, skipped>>
  PROVE  SoundInv'
<1> USE ConstantsShape
<1>1. UNCHANGED <<decoder, abuf, out, held, af, change, written, skipped, video, canPause,
                  toWrite, playsize, final, audio_eof, declen, huge, res>>
  BY DEF buffers, locals, fixed
<1>2. Behind' /\ RightFormat' /\ Covered' /\ (Smooth' => Smooth)
  BY <1>1, DataKept
<1>3. Timed'
  BY <1>1, TimedKept DEF decoder
<1>4. SoundShapes'
  BY <1>1 DEF decoder, SoundInv, SoundShapes
<1>5. CallShape'
  <2>1. Len(dev) \in Nat /\ toWrite \in Nat /\ playsize \in Nat
    BY Lengths DEF SoundInv, SoundShapes
  <2>2. CASE pc' = pc /\ Len(dev') <= Len(dev)
    <3>1. pc = "loop" \/ InCall => Len(dev') + toWrite + (IF InCall THEN playsize ELSE 0) <= DevSize
      BY <2>1, <2>2 DEF SoundInv, CallShape
    <3> QED
      BY <1>1, <2>2, <3>1 DEF decoder, SoundInv, CallShape, InCall
  <2>3. CASE pc' \in {"main", "paused"} /\ pc \in {"main", "paused"}
    BY <1>1, <2>3 DEF decoder, SoundInv, CallShape, InCall
  <2> QED
    BY <2>2, <2>3
<1>6. SoundRoom'
  <2>1. Len(dev') <= DevSize
    BY Lengths DEF SoundInv, SoundRoom
  <2> QED
    BY <1>1, <2>1 DEF SoundInv, SoundRoom
<1>7. FormatKnown'
  BY <1>1 DEF decoder, SoundInv, FormatKnown
<1>8. Pieces'
  BY <1>1, <1>2 DEF SoundInv, Pieces, InCall
<1> QED
  BY <1>2, <1>3, <1>4, <1>5, <1>6, <1>7, <1>8 DEF SoundInv

LEMMA StepPause == SoundInv /\ Pause => SoundInv'
<1> SUFFICES ASSUME SoundInv, Pause PROVE SoundInv'
  OBVIOUS
<1> USE ConstantsShape
<1>1. /\ pc = "main" /\ pc' = "paused" /\ faults' = faults
      /\ UNCHANGED <<decoder, buffers, locals, fixed, written, skipped>> /\ canPause' = canPause
      /\ IF canPause THEN devst' = (IF devst = "running" THEN "paused" ELSE devst) /\ dev' = dev /\ space' = space
         ELSE space' = Space /\ dev' = <<>> /\ devst' = "setup"
  BY DEF Pause, fixed
<1>2. /\ dev \in Seq(Nat) /\ Len(dev) \in Nat /\ Len(dev) <= DevSize /\ space \in 0..DevSize
      /\ faults \in Nat /\ canPause \in BOOLEAN
  BY Lengths DEF SoundInv, SoundShapes, SoundRoom, DeviceState
<1>3. DeviceState'
  BY <1>1 DEF SoundInv, DeviceState
<1>4. dev' \in Seq(Nat) /\ space' \in 0..DevSize /\ Len(dev') <= Len(dev) /\ Len(dev') \in Nat
  <2>1. CASE canPause
    BY <1>1, <1>2, <2>1
  <2>2. CASE ~canPause
    <3>1. dev' = <<>> /\ space' = DevSize - Len(dev)
      BY <1>1, <2>2 DEF Space
    <3>2. space' \in 0..DevSize
      BY <1>2, <3>1, ConstantsShape
    <3> QED
      BY <1>2, <3>1, <3>2, NothingSilent
  <2> QED
    BY <2>1, <2>2
<1> QED
  BY <1>1, <1>2, <1>3, <1>4, StepDevice

LEMMA RefillShape ==
  ASSUME SoundInv
  PROVE  Refill \in Seq(Nat) /\ Len(Refill) \in Nat /\ Len(Refill) <= DevSize
<1> DEFINE n == ((DevSize - space) \div Outburst) * Outburst
<1>1. n \in Nat /\ n <= DevSize
  <2>1. DevSize - space \in Nat /\ DevSize - space <= DevSize
    BY ConstantsShape DEF SoundInv, SoundShapes
  <2>2. n \in Nat /\ n <= DevSize - space
    BY <2>1, ConstantsShape, RoundedDown
  <2> QED
    BY <2>1, <2>2, ConstantsShape
<1>2. Refill = [i \in 1..n |-> 0]
  BY DEF Refill
<1> HIDE DEF n
<1>3. Refill \in [1..n -> Nat]
  BY <1>2
<1>4. Refill \in Seq(Nat)
  BY <1>1, <1>3, SeqDef
<1>5. Len(Refill) = n
  BY <1>1, <1>3, <1>4, LenProperties
<1> QED
  BY <1>1, <1>4, <1>5

LEMMA StepResume == SoundInv /\ Resume => SoundInv'
<1> SUFFICES ASSUME SoundInv, Resume PROVE SoundInv'
  OBVIOUS
<1>1. /\ pc = "paused" /\ pc' = "main" /\ faults' = faults
      /\ UNCHANGED <<decoder, buffers, locals, fixed, written, skipped>> /\ canPause' = canPause /\ space' = space
      /\ IF canPause THEN /\ devst' \in (IF devst \in {"paused", "suspended"} THEN {"running"} ELSE {devst})
                                        \cup ({devst} \cap {"suspended"})
                          /\ dev' = dev
         ELSE dev' = Refill /\ devst' = Started(Refill, "prepared")
  BY DEF Resume, fixed
<1>2. /\ dev \in Seq(Nat) /\ Len(dev) \in Nat /\ Len(dev) <= DevSize /\ space \in 0..DevSize
      /\ faults \in Nat /\ canPause \in BOOLEAN
  BY Lengths DEF SoundInv, SoundShapes, SoundRoom, DeviceState
<1>3. DeviceState'
  <2>1. CASE canPause
    BY <1>1, <2>1 DEF SoundInv, DeviceState
  <2>2. CASE ~canPause
    BY <1>1, <1>2, <2>2 DEF Started, DeviceState
  <2> QED
    BY <2>1, <2>2
<1>4. dev' \in Seq(Nat) /\ Len(dev') <= DevSize /\ Len(dev') \in Nat
  BY <1>1, <1>2, RefillShape
<1>5. faults' \in Nat /\ faults <= faults' /\ space' \in 0..DevSize
  BY <1>1, <1>2
<1> QED
  BY <1>1, <1>3, <1>4, <1>5, StepDevice

LEMMA StepCard == SoundInv /\ (Tick \/ Suspend) => SoundInv'
<1> SUFFICES ASSUME SoundInv, Tick \/ Suspend PROVE SoundInv'
  OBVIOUS
<1>1. /\ dev \in Seq(Nat) /\ Len(dev) \in Nat /\ space \in 0..DevSize /\ faults \in Nat
      /\ DeviceState
  BY Lengths DEF SoundInv, SoundShapes
<1>2. CASE Tick
  <2>1. /\ devst = "running" /\ dev # <<>> /\ dev' = Tail(dev) /\ pc' = pc /\ devst' = devst /\ faults' = faults
        /\ UNCHANGED <<decoder, buffers, locals, fixed, written, skipped, space>> /\ canPause' = canPause
    BY <1>2 DEF Tick, fixed
  <2>2. dev' \in Seq(Nat) /\ Len(dev') = Len(dev) - 1 /\ Len(dev) # 0
    BY <1>1, <2>1, HeadTailProperties, EmptySeq
  <2>3. DeviceState'
    BY <1>1, <2>1 DEF DeviceState
  <2>4. Len(dev') \in Nat /\ Len(dev') <= Len(dev) /\ faults' \in Nat /\ faults <= faults' /\ space' \in 0..DevSize
    BY <1>1, <2>1, <2>2
  <2> QED
    BY <2>1, <2>2, <2>3, <2>4, StepDevice
<1>3. CASE Suspend
  <2>1. /\ devst' = "suspended" /\ dev' = dev /\ pc' = pc /\ faults' = faults + 1
        /\ UNCHANGED <<decoder, buffers, locals, fixed, written, skipped, space>> /\ canPause' = canPause
    BY <1>3 DEF Suspend, fixed
  <2>2. DeviceState'
    BY <1>1, <2>1 DEF DeviceState
  <2>3. faults' \in Nat /\ faults <= faults' /\ space' \in 0..DevSize
    BY <1>1, <2>1
  <2> QED
    BY <1>1, <2>1, <2>2, <2>3, StepDevice
<1> QED
  BY <1>2, <1>3

-----------------------------------------------------------------------------

LEMMA SoundInvInit == SoundInit => SoundInv
<1> SUFFICES ASSUME SoundInit PROVE SoundInv
  OBVIOUS
<1> USE ConstantsShape, NothingSilent
<1>1. /\ track \in Files /\ at = 2 /\ ending = FALSE /\ drained = FALSE /\ sh = track[1]
      /\ abuf = Samples(1, 1) /\ pts = FrameLen /\ missed = 0 /\ out = <<>> /\ held = <<>> /\ af = sh /\ change = FALSE
      /\ pc = "main" /\ toWrite = 0 /\ playsize = 0 /\ final = FALSE /\ audio_eof = FALSE
      /\ declen = 0 /\ huge = FALSE /\ res = 0
      /\ dev = <<>> /\ devst = "prepared" /\ space = 0
      /\ video \in BOOLEAN /\ canPause \in BOOLEAN /\ faults = 0
  BY DEF SoundInit
<1>2. /\ track \in Seq(STRING) /\ Len(track) \in Nat \ {0} /\ DOMAIN track = 1..Len(track) /\ track[1] # "bad"
      /\ 1 \in 1..Len(track) /\ track[1] \in STRING
  <2>1. track \in Seq(STRING) /\ Len(track) \in Nat \ {0} /\ DOMAIN track = 1..Len(track) /\ track[1] # "bad"
    BY <1>1, FileShape
  <2>2. 1 \in 1..Len(track)
    BY <2>1
  <2> QED
    BY <2>1, <2>2, ElementOfSeq
<1>3. FrameLen * (1 - 1) = 0 /\ 1 * FrameLen = FrameLen /\ FrameLen * (2 - 1) = FrameLen /\ 1 \in Nat \ {0}
  OBVIOUS
<1>4. /\ abuf \in Seq(Nat) /\ Len(abuf) = FrameLen /\ Range(abuf) = 1..FrameLen
      /\ \A i \in 1..FrameLen : abuf[i] = i
  <2>1. /\ Samples(1, 1) \in Seq(Nat) /\ Len(Samples(1, 1)) = 1 * FrameLen
        /\ \A i \in 1..1 * FrameLen : Samples(1, 1)[i] = FrameLen * (1 - 1) + i
    BY <1>3, SamplesShape
  <2>2. Range(Samples(1, 1)) = FrameLen * (1 - 1) + 1..FrameLen * (1 - 1) + 1 * FrameLen
    BY <1>3, SamplesRange
  <2> QED
    BY <1>1, <1>3, <2>1, <2>2
<1>5. SoundShapes
  <2>1. at \in 1..Len(track) + 1 /\ sh \in STRING \ {"bad"} /\ pts \in Nat /\ 0 \in 0..DevSize
    BY <1>1, <1>2
  <2> QED
    BY <1>1, <1>4, <2>1 DEF SoundShapes
<1>6. CallShape /\ FormatKnown /\ Pieces /\ DeviceState
  BY <1>1 DEF CallShape, InCall, FormatKnown, Pieces, DeviceState
<1>7. SoundRoom
  BY <1>1, <1>4 DEF SoundRoom
<1>8. FrameLen * (at - 1) = FrameLen
  BY <1>1, <1>3
<1>9. Behind
  <2>1. Range(out) \cup Range(held) \cup Range(abuf) = 1..FrameLen
    BY <1>1, <1>4
  <2> QED
    BY <1>8, <2>1 DEF Behind
<1>10. Timed
  <2>1. DOMAIN abuf = 1..FrameLen
    BY <1>4, LenProperties
  <2>2. Ends(abuf, pts)
    BY <1>1, <1>4, <2>1 DEF Ends
  <2>3. Ends(held, pts - Len(abuf)) /\ Ends(out, pts - Len(abuf) - Len(held))
    BY <1>1 DEF Ends
  <2> QED
    BY <1>1, <2>2, <2>3 DEF Timed
<1>11. RightFormat
  <2>1. ASSUME NEW u \in 1..FrameLen PROVE FormatOf(u) = track[1]
    <3>1. FrameLen * (1 - 1) < u /\ u <= FrameLen * (1 - 1) + FrameLen /\ u \in Nat
      BY <1>3
    <3> QED
      BY <1>3, <3>1, FormatInPacket
  <2> QED
    BY <1>1, <1>4, <2>1 DEF RightFormat
<1>12. Covered
  BY <1>4, <1>8 DEF Covered, Somewhere
<1> QED
  BY <1>5, <1>6, <1>7, <1>9, <1>10, <1>11, <1>12 DEF SoundInv

LEMMA SoundInvStep == SoundInv /\ [SoundNext]_soundVars => SoundInv'
<1> SUFFICES ASSUME SoundInv, [SoundNext]_soundVars PROVE SoundInv'
  OBVIOUS
<1>1. CASE SoundNext
  BY <1>1, StepGetSpace, StepPiece, StepEnough, StepDecodeMore, StepDecode, StepFilter, StepToPlay, StepPlay,
     StepOutFilled, StepStops, StepSeek, StepPause, StepResume, StepCard DEF SoundNext, FillOut
<1>2. CASE UNCHANGED soundVars
  <2>1. /\ UNCHANGED <<track, at, ending, drained, sh, pts, missed, abuf, out, held, af, change, pc, toWrite, playsize, final, audio_eof,
                       declen, huge, res, dev, devst, space, video, canPause, written, skipped, faults>>
    BY <1>2 DEF soundVars, decoder, buffers, locals, device, fixed
  <2>2. \A u : FormatOf(u)' = FormatOf(u)
    BY <2>1, SameTrack
  <2>3. SoundShapes' /\ CallShape' /\ SoundRoom' /\ FormatKnown' /\ DeviceState' /\ Pieces'
    BY <2>1 DEF SoundInv, SoundShapes, CallShape, InCall, SoundRoom, FormatKnown, DeviceState, Pieces, Smooth
  <2>4. Behind' /\ Timed'
    BY <2>1, <2>2 DEF SoundInv, Behind, Timed, AllSilent, Silent, Ends
  <2>5. RightFormat' /\ Covered'
    BY <2>1, <2>2 DEF SoundInv, RightFormat, Covered, Somewhere, Smooth
  <2> QED
    BY <2>3, <2>4, <2>5 DEF SoundInv
<1> QED
  BY <1>1, <1>2

\* What the invariant says of the buffers, of time, and of the end of an audio file.
LEMMA SoundInvMeans == SoundInv => RightFormat /\ TimeTrue /\ BufferFits /\ (OneBurst => AllWritten)
<1> SUFFICES ASSUME SoundInv PROVE RightFormat /\ TimeTrue /\ BufferFits /\ (OneBurst => AllWritten)
  OBVIOUS
<1> USE ConstantsShape, NothingSilent
<1>1. /\ abuf \in Seq(Nat) /\ held \in Seq(Nat) /\ out \in Seq(Nat) /\ pts \in Nat /\ declen \in Nat
      /\ Len(abuf) \in Nat /\ Len(held) \in Nat /\ Len(out) \in Nat
  BY Lengths DEF SoundInv, SoundShapes
<1>2. RightFormat
  BY DEF SoundInv
<1>3. BufferFits
  BY <1>1 DEF SoundInv, SoundRoom, CallShape, BufferFits
<1>4. TimeTrue
  <2> DEFINE q == out \o held \o abuf
  <2>1. SUFFICES ASSUME ~change, pc # "feed", res # -2 PROVE q \in Seq(Nat) /\ Ends(q, pts)
    <3>1. missed \in Nat
      BY DEF SoundInv, SoundShapes
    <3>2. ASSUME Ends(q, pts), NEW i \in DOMAIN q, q[i] > missed, q[i] \in Nat PROVE q[i] = pts - Len(q) + i
      BY <3>1, <3>2 DEF Ends
    <3>3. q \in Seq(Nat) => \A i \in DOMAIN q : q[i] \in Nat
      BY ElementOfSeq, LenProperties
    <3> HIDE DEF q
    <3>4. SUFFICES ASSUME q \in Seq(Nat), Ends(q, pts), NEW i \in DOMAIN q, q[i] > missed
                   PROVE  q[i] = pts - Len(q) + i
      BY DEF TimeTrue, q
    <3> QED
      BY <3>2, <3>3, <3>4
  <2>2. Ends(abuf, pts) /\ Ends(held, pts - Len(abuf)) /\ Ends(out, pts - Len(abuf) - Len(held))
    BY <2>1 DEF SoundInv, Timed
  <2>3. Ends(out \o held, pts - Len(abuf)) /\ out \o held \in Seq(Nat)
    <3>1. pts - Len(abuf) \in Int
      BY <1>1
    <3> QED
      BY <1>1, <2>2, <3>1, JoinEnds, ConcatProperties
  <2>4. Ends((out \o held) \o abuf, pts)
    <3>1. pts \in Int
      BY <1>1
    <3> QED
      BY <1>1, <2>2, <2>3, <3>1, JoinEnds
  <2>5. q \in Seq(Nat)
    BY <1>1, <2>3, ConcatProperties
  <2> QED
    BY <2>4, <2>5
<1>5. ASSUME OneBurst, pc = "ended", ~video, faults = 0
      PROVE  \A u \in 1..FrameLen * Len(track) : FormatOf(u) # "bad" => u \in written \cup skipped \cup Range(held)
  <2>1. abuf = <<>> /\ out = <<>> /\ at = Len(track) + 1
    BY <1>5 DEF SoundInv, CallShape, SoundShapes
  <2>2. Somewhere = written \cup skipped \cup Range(held)
    BY <2>1 DEF Somewhere
  <2>3. at - 1 = Len(track)
    <3>1. Len(track) \in Nat
      BY FileShape DEF SoundInv, SoundShapes
    <3> QED
      BY <2>1, <3>1
  <2> QED
    BY <1>5, <2>2, <2>3 DEF SoundInv, Covered, Smooth
<1> QED
  BY <1>2, <1>3, <1>4, <1>5 DEF AllWritten

\* Between the decoder and the sound card (dec_audio.c, ao_alsa.c, mplayer.c): filters get samples of
\* their format only, the decoder's time is that of the samples behind it, no buffer overflows,
\* and, when a device's buffer is no larger than what is written in one go, an audio file does
\* not end before the device was given all of it.
THEOREM SoundIsTrue ==
  SoundSpec => []((OneBurst => SamplesTrue) /\ RightFormat /\ TimeTrue /\ BufferFits)
<1>1. SoundInit => SoundInv
  BY SoundInvInit
<1>2. SoundInv /\ [SoundNext]_soundVars => SoundInv'
  BY SoundInvStep
<1>3. SoundInv => (OneBurst => SamplesTrue) /\ RightFormat /\ TimeTrue /\ BufferFits
  BY SoundInvMeans DEF SamplesTrue
<1> QED
  BY <1>1, <1>2, <1>3, PTL DEF SoundSpec
=============================================================================
