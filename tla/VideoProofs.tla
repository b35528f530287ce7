----------------------------- MODULE VideoProofs -----------------------------
(***************************************************************************)
(* Proofs about VideoBuffers and VideoDecode.                              *)
(*                                                                         *)
(* Of the buffers: nothing is drawn into one that is seen, and frames have *)
(* their own time stamps and a buffer for each, for every number of        *)
(* buffers the codec needs, every file, every order in which the codec     *)
(* puts frames out and gives buffers back, and every fault.  Of decoding:  *)
(* the right picture is put out in the right shape, for every film, codec, *)
(* aspect and size.                                                        *)
(***************************************************************************)
EXTENDS VideoBuffers, VideoDecode, FiniteSetTheorems, WellFoundedInduction, TLAPS

Prev == (cur + 2) % NUM_VIDEO_FB

\* The slots whose buffers are on the screen, were there, or are to be.
Held(s) == s # cur \/ frame # NoFrame

Shapes ==
    /\ shows \in Nat /\ cur \in Slots
    /\ ring \in [Slots -> [file : 0 .. shows, buf : Nat]]
    /\ DOMAIN content = Buffers

\* A frame waits from the call that puts it to the one that flips it.
FrameWaits ==
    /\ picture = "open" => frame = NoFrame /\ plane = 0 /\ before = 0
    /\ picture = "decode" => frame = NoFrame
    /\ picture = "flip" => frame # NoFrame
    /\ frame # NoFrame =>
         frame.buf \in Buffers /\ ring[cur] = [file |-> shows, buf |-> frame.buf]

\* The ring remembers what is on the screen and what was there before.
ScreenInRing ==
    /\ plane # 0 => plane \in Buffers /\ ring[Prev] = [file |-> shows, buf |-> plane]
    /\ before # 0 => before \in Buffers /\ ring[NextSlot] = [file |-> shows, buf |-> before]

\* Frames of the hardware decoder are in its pool, copies in the buffer of the slot.
RingOfFile ==
    \A s \in Slots : ring[s].file = shows /\ ring[s].buf # 0 =>
        IF dce THEN ring[s].buf \in Pool ELSE ring[s].buf = Own(s)

\* What is seen is marked, and no buffer is in two of those slots.
Marked ==
    /\ \A s \in Slots : Held(s) /\ Live(ring[s]) => ring[s].buf \in shown
    /\ \A s, t \in Slots :
         s # t /\ Held(s) /\ Held(t) /\ Live(ring[s]) /\ Live(ring[t]) =>
            ring[s].buf # ring[t].buf

\* A frame not put out yet has a buffer of its own, which the display has not got.
CodecHolds ==
    /\ locked \subseteq Pool /\ ref \subseteq locked
    /\ \A f \in pend : f.buf \in locked /\ f.buf \notin ref /\ f.buf \notin shown
    /\ \A f, g \in pend : f.buf = g.buf => f = g

SteadyInv ==
    /\ Shapes /\ FrameWaits /\ ScreenInRing /\ CodecHolds
    /\ picture # "open" => RingOfFile /\ Marked

Steady == \A b \in (Visible \cap Visible') \ {0} : content'[b] = content[b]

-----------------------------------------------------------------------------
LEMMA Least ==
  ASSUME NEW T, T \subseteq Nat, T # {}
  PROVE  \E x \in T : \A y \in T : x <= y
<1> DEFINE R == OpToRel(<, Nat)
<1>1. PICK x \in T : \A y \in T : ~ (<<y, x>> \in R)
  <2>1. IsWellFoundedOn(R, Nat)
    BY NatLessThanWellFounded
  <2> HIDE DEF R
  <2> QED
    BY <2>1, WFMin
<1>2. \A y \in T : ~ (y < x)
  BY <1>1 DEF OpToRel
<1> QED
  BY <1>2

\* A buffer that getBuffer returns is marked by nobody.
LEMMA GetBufferFree ==
  ASSUME Dpb \in Nat, getBuffer # 0
  PROVE  getBuffer \in Pool /\ getBuffer \notin locked /\ getBuffer \notin shown
<1>1. Free # {} /\ getBuffer = Min(Free)
  BY DEF getBuffer
<1>2. Free \subseteq Nat
  BY DEF Free, Pool, numFrameBuffers
<1>3. Min(Free) \in Free
  BY <1>1, <1>2, Least DEF Min
<1> QED
  BY <1>1, <1>3 DEF Free

LEMMA BufferNumbers ==
  ASSUME Dpb \in Nat
  PROVE  /\ Pool \subseteq Nat \ {0} /\ Buffers \subseteq Nat \ {0}
         /\ \A s \in Slots : Own(s) \in Buffers /\ Own(s) \notin Pool /\ Own(s) \in Nat \ {0}
         /\ \A s, t \in Slots : Own(s) = Own(t) => s = t
         /\ Pool \subseteq Buffers
  BY DEF Pool, Buffers, Own, numFrameBuffers, Slots, NUM_VIDEO_FB

LEMMA ThreeSlots ==
  ASSUME cur \in Slots
  PROVE  /\ Prev \in Slots /\ NextSlot \in Slots
         /\ Prev # cur /\ NextSlot # cur /\ Prev # NextSlot
         /\ \A s \in Slots : s = cur \/ s = Prev \/ s = NextSlot
         /\ (NextSlot + 2) % NUM_VIDEO_FB = cur
         /\ (NextSlot + 1) % NUM_VIDEO_FB = Prev
  BY DEF Slots, NUM_VIDEO_FB, Prev, NextSlot

\* While a packet is decoded what is seen is marked by the display, or a copy
\* that the packet is not copied over.
LEMMA SeenIsKept ==
  ASSUME Dpb \in Nat, SteadyInv, picture = "decode", NEW b \in Visible \ {0}
  PROVE  /\ b \in Buffers
         /\ dce => b \in shown
         /\ ~dce => b # Own(cur)
<1>1. b = plane \/ b = before
  BY DEF Visible, Waiting, SteadyInv, FrameWaits
<1>2. PICK s \in Slots : s # cur /\ ring[s] = [file |-> shows, buf |-> b] /\ b \in Buffers
  BY <1>1, ThreeSlots DEF SteadyInv, ScreenInRing, Shapes
<1>3. IF dce THEN b \in Pool ELSE b = Own(s)
  BY <1>2 DEF SteadyInv, RingOfFile
<1>4. CASE dce
  BY <1>2, <1>3, <1>4 DEF SteadyInv, Marked, Held, Live
<1>5. CASE ~dce
  BY <1>2, <1>3, <1>5, BufferNumbers DEF SteadyInv, Shapes
<1> QED
  BY <1>2, <1>4, <1>5

LEMMA SteadyInvInit == VideoInit => SteadyInv
  BY DEF VideoInit, SteadyInv, Shapes, FrameWaits, ScreenInRing, CodecHolds, NoBuf, NoFrame,
         Slots, NUM_VIDEO_FB

-----------------------------------------------------------------------------
(* Decoding *)

\* A packet that puts no frame out, or one that is dropped.
LEMMA NothingPut ==
  ASSUME SteadyInv, picture = "decode", picture' # "open", picture' # "flip",
         UNCHANGED <<play, ring, cur, plane, before, frame, shown>>,
         DOMAIN content' = Buffers, CodecHolds'
  PROVE  SteadyInv'
<1>1. frame' = NoFrame
  BY DEF SteadyInv, FrameWaits
<1>2. Shapes' /\ FrameWaits' /\ ScreenInRing'
  BY <1>1 DEF SteadyInv, Shapes, FrameWaits, ScreenInRing, Prev, NextSlot, play
<1>3. RingOfFile' /\ Marked'
  BY DEF SteadyInv, RingOfFile, Marked, Held, Live, play
<1> QED
  BY <1>2, <1>3 DEF SteadyInv

\* A frame that is put takes the slot the display is at, from a buffer that no
\* other slot has.
LEMMA FramePut ==
  ASSUME Dpb \in Nat, SteadyInv, picture = "decode", picture' = "flip", NEW out \in Buffers,
         IF dce THEN out \in Pool /\ out \notin shown ELSE out = Own(cur),
         frame'.buf = out,
         ring' = [ring EXCEPT ![cur] = [file |-> shows, buf |-> out]],
         shown' = IF out \in Pool THEN shown \cup {out} ELSE shown,
         UNCHANGED <<play, cur, plane, before>>,
         DOMAIN content' = Buffers, CodecHolds'
  PROVE  SteadyInv'
<1>1. /\ cur \in Slots /\ shows \in Nat /\ out \in Nat \ {0}
      /\ ring \in [Slots -> [file : 0 .. shows, buf : Nat]]
      /\ shows' = shows /\ dce' = dce
  BY BufferNumbers DEF SteadyInv, Shapes, play
<1>2. frame' # NoFrame
  BY <1>1 DEF NoFrame
<1>3. /\ ring'[cur] = [file |-> shows, buf |-> out]
      /\ \A s \in Slots : s # cur => ring'[s] = ring[s]
  BY <1>1
<1>4. Shapes'
  BY <1>1 DEF Shapes
<1>5. FrameWaits'
  BY <1>1, <1>2, <1>3 DEF FrameWaits
<1>6. ScreenInRing'
  BY <1>1, <1>3, ThreeSlots DEF SteadyInv, ScreenInRing, Prev, NextSlot
<1>7. RingOfFile'
  BY <1>1, <1>3 DEF SteadyInv, RingOfFile
<1>8. Marked'
  <2>1. /\ \A s \in Slots : s # cur /\ Live(ring[s]) => ring[s].buf \in shown
        /\ \A s, t \in Slots : s # t /\ s # cur /\ t # cur /\ Live(ring[s]) /\ Live(ring[t]) =>
             ring[s].buf # ring[t].buf
    BY DEF SteadyInv, Marked, Held
  <2>2. \A s \in Slots : s # cur => ring'[s] = ring[s] /\ (Live(ring[s])' <=> Live(ring[s]))
    BY <1>1, <1>3 DEF Live
  <2>3. Live(ring[cur])' => out \in Pool /\ out \notin shown /\ out \in shown'
    BY <1>1, <1>3, BufferNumbers DEF Live
  <2>4. \A s \in Slots : Live(ring[s])' => ring'[s].buf \in shown'
    BY <1>3, <2>1, <2>2, <2>3
  <2>5. \A s, t \in Slots : s # t /\ Live(ring[s])' /\ Live(ring[t])' =>
          ring'[s].buf # ring'[t].buf
    BY <1>3, <2>1, <2>2, <2>3
  <2> QED
    BY <2>4, <2>5 DEF Marked, Live
<1> QED
  BY <1>4, <1>5, <1>6, <1>7, <1>8 DEF SteadyInv

\* What the codec has after a packet: the frame it was decoded to is a new one
\* in a buffer of its own.
LEMMA DecodePacketCodec ==
  ASSUME Dpb \in Nat, SteadyInv, NEW g, g = getBuffer, g # 0,
         NEW stamp, NEW out, NEW freed,
         out \in {NoFrame} \cup Outputs(pend \cup {[pts |-> stamp, buf |-> g]}),
         freed \subseteq ref \cup ({out.buf} \ {0}),
         pend' = (pend \cup {[pts |-> stamp, buf |-> g]}) \ {out},
         ref' = (ref \cup ({out.buf} \ {0})) \ freed,
         locked' = (locked \cup {g}) \ freed,
         shown' \subseteq shown \cup ({out.buf} \ {0})
  PROVE  /\ CodecHolds'
         /\ out.buf # 0 => out.buf \in Pool /\ out.buf \notin shown
<1> DEFINE new == [pts |-> stamp, buf |-> g]
<1>1. /\ g \in Pool /\ g \notin locked /\ g \notin shown /\ new.buf = g
  BY GetBufferFree
<1>2. CodecHolds
  BY DEF SteadyInv
<1>3. 0 \notin Pool
  BY BufferNumbers
<1>4. out = NoFrame \/ out \in pend \cup {new}
  BY DEF Outputs
<1>5. /\ \A f \in pend \cup {new} :
            f.buf \in locked \cup {g} /\ f.buf \notin ref /\ f.buf \notin shown
      /\ \A f, h \in pend \cup {new} : f.buf = h.buf => f = h
  BY <1>1, <1>2 DEF CodecHolds
<1>6. pend' = (pend \cup {new}) \ {out}
  OBVIOUS
<1> HIDE DEF new
<1>7. out.buf # 0 => out \in pend \cup {new}
  BY <1>4 DEF NoFrame
<1>8. out.buf # 0 => out.buf \in Pool /\ out.buf \notin shown /\ out.buf \notin ref
  BY <1>1, <1>2, <1>5, <1>7 DEF CodecHolds
<1>9. locked' \subseteq Pool /\ ref' \subseteq locked'
  BY <1>1, <1>2, <1>5, <1>7 DEF CodecHolds
<1>10. \A f \in pend' : f.buf # out.buf \/ out.buf = 0
  BY <1>5, <1>6, <1>7
<1>11. \A f \in pend' : f.buf \in Pool /\ f.buf # 0
  BY <1>1, <1>2, <1>3, <1>5, <1>6 DEF CodecHolds
<1>12. \A f \in pend' : f.buf \notin freed /\ f.buf \notin ref' /\ f.buf \in locked'
  BY <1>5, <1>6, <1>10, <1>11
<1>13. \A f \in pend' : f.buf \notin shown'
  BY <1>5, <1>6, <1>10, <1>11
<1>14. \A f, h \in pend' : f.buf = h.buf => f = h
  BY <1>5, <1>6
<1> QED
  BY <1>8, <1>9, <1>12, <1>13, <1>14 DEF CodecHolds

LEMMA DecodePacketSteady ==
  ASSUME Dpb \in Nat, SteadyInv, NEW drop \in BOOLEAN, DecodePacket(drop)
  PROVE  SteadyInv' /\ Steady
<1> DEFINE g == getBuffer
<1>1. /\ picture = "decode" /\ dce /\ g # 0
      /\ content' = [content EXCEPT ![g] = file[pos]]
      /\ UNCHANGED <<play, cur, plane, before>>
  BY DEF DecodePacket
<1>2. g \in Pool /\ g \notin shown /\ g \in Buffers
  BY <1>1, GetBufferFree, BufferNumbers
<1>3. DOMAIN content' = Buffers
  BY <1>1 DEF SteadyInv, Shapes
<1>4. Steady
  BY <1>1, <1>2, SeenIsKept DEF Steady, SteadyInv, Shapes
<1>5. PICK out \in {NoFrame} \cup Outputs(pend \cup {[pts |-> file[pos], buf |-> g]}) :
        \E freed \in SUBSET (ref \cup ({out.buf} \ {0})) :
          /\ pend' = (pend \cup {[pts |-> file[pos], buf |-> g]}) \ {out}
          /\ ref' = (ref \cup ({out.buf} \ {0})) \ freed
          /\ locked' = (locked \cup {g}) \ freed
          /\ Put(Queued(file[pos], out.buf), out.buf, drop)
  BY DEF DecodePacket
<1>50. PICK freed \in SUBSET (ref \cup ({out.buf} \ {0})) :
          /\ pend' = (pend \cup {[pts |-> file[pos], buf |-> g]}) \ {out}
          /\ ref' = (ref \cup ({out.buf} \ {0})) \ freed
          /\ locked' = (locked \cup {g}) \ freed
          /\ Put(Queued(file[pos], out.buf), out.buf, drop)
  BY <1>5
<1> HIDE DEF g
<1>6. shown' \subseteq shown \cup ({out.buf} \ {0})
  BY <1>50 DEF Put
<1>7. g = getBuffer
  BY DEF g
<1>8. /\ CodecHolds'
      /\ out.buf # 0 => out.buf \in Pool /\ out.buf \notin shown
  BY <1>1, <1>50, <1>6, <1>7, DecodePacketCodec
<1>9. CASE out.buf = 0 \/ drop
  <2>1. UNCHANGED <<frame, shown, ring>> /\ picture' \in {"commands", "decode"}
    BY <1>50, <1>9 DEF Put
  <2> QED
    BY <1>1, <1>3, <1>4, <1>8, <2>1, NothingPut
<1>10. CASE out.buf # 0 /\ ~drop
  <2>1. /\ frame'.buf = out.buf /\ picture' = "flip"
        /\ ring' = [ring EXCEPT ![cur] = [file |-> shows, buf |-> out.buf]]
        /\ shown' = IF out.buf \in Pool THEN shown \cup {out.buf} ELSE shown
    BY <1>50, <1>10 DEF Put
  <2>2. out.buf \in Buffers /\ out.buf \in Pool /\ out.buf \notin shown
    BY <1>8, <1>10, BufferNumbers
  <2>3. SteadyInv'
    BY <1>1, <1>3, <1>8, <2>1, <2>2, FramePut
  <2> QED
    BY <1>4, <2>3
<1> QED
  BY <1>9, <1>10

LEMMA DecodeFailsSteady ==
  ASSUME Dpb \in Nat, SteadyInv, NEW drop \in BOOLEAN, DecodeFails(drop)
  PROVE  SteadyInv' /\ Steady
<1>1. /\ picture = "decode" /\ dce /\ getBuffer # 0 /\ pend' = pend
      /\ UNCHANGED <<play, cur, plane, before>>
  BY DEF DecodeFails
<1>2. PICK junk : content' = [content EXCEPT ![getBuffer] = junk]
  BY DEF DecodeFails
<1>3. /\ getBuffer \in Pool /\ getBuffer \notin locked /\ getBuffer \notin shown
      /\ getBuffer \in Buffers
  BY <1>1, GetBufferFree, BufferNumbers
<1>4. UNCHANGED <<frame, shown, ring>> /\ picture' \in {"commands", "decode"}
  BY DEF DecodeFails, Put
<1> HIDE DEF getBuffer
<1>5. DOMAIN content' = Buffers
  BY <1>2 DEF SteadyInv, Shapes
<1>6. Steady
  BY <1>1, <1>2, <1>3, SeenIsKept DEF Steady, SteadyInv, Shapes
<1>7. CodecHolds'
  <2>1. CASE locked' = locked /\ ref' = ref
    BY <1>1, <1>4, <2>1 DEF SteadyInv, CodecHolds
  <2>2. CASE locked' = locked \cup {getBuffer} /\ ref' = ref \cup {getBuffer}
    BY <1>1, <1>3, <1>4, <2>2 DEF SteadyInv, CodecHolds
  <2> QED
    BY <2>1, <2>2 DEF DecodeFails
<1> QED
  BY <1>1, <1>4, <1>5, <1>6, <1>7, NothingPut

LEMMA DecodeStarvedSteady ==
  ASSUME SteadyInv, NEW drop \in BOOLEAN, DecodeStarved(drop)
  PROVE  SteadyInv' /\ Steady
<1>1. /\ picture = "decode" /\ picture' \in {"commands", "decode"}
      /\ UNCHANGED <<play, ring, cur, plane, before, frame, shown, content, locked, pend, ref>>
  BY DEF DecodeStarved, Put
<1>2. CodecHolds' /\ DOMAIN content' = Buffers
  BY <1>1 DEF SteadyInv, CodecHolds, Shapes
<1> QED
  BY <1>1, <1>2, NothingPut DEF Steady

LEMMA DecodeSoftwareSteady ==
  ASSUME Dpb \in Nat, SteadyInv, NEW drop \in BOOLEAN, DecodeSoftware(drop)
  PROVE  SteadyInv' /\ Steady
<1>1. /\ picture = "decode" /\ ~dce /\ cur \in Slots
      /\ UNCHANGED <<play, cur, plane, before, locked, pend, ref>>
      /\ DOMAIN content = Buffers
  BY DEF DecodeSoftware, decoder, SteadyInv, Shapes
<1>2. Own(cur) \in Buffers /\ Own(cur) \notin Pool /\ Own(cur) # 0
  BY <1>1, BufferNumbers
<1>3. CASE UNCHANGED content /\ UNCHANGED <<frame, shown, ring>> /\ picture' \in {"commands", "crashed"}
  <2>1. CodecHolds' /\ DOMAIN content' = Buffers
    BY <1>1, <1>3 DEF SteadyInv, CodecHolds
  <2> QED
    BY <1>1, <1>3, <2>1, NothingPut DEF Steady
<1>4. CASE ~drop /\ content' = [content EXCEPT ![Own(cur)] = file[pos]]
           /\ Put(Queued(file[pos], Own(cur)), Own(cur), drop)
  <2>1. DOMAIN content' = Buffers /\ Steady
    BY <1>1, <1>2, <1>4, SeenIsKept DEF Steady
  <2>2. /\ frame'.buf = Own(cur) /\ picture' = "flip" /\ shown' = shown
        /\ ring' = [ring EXCEPT ![cur] = [file |-> shows, buf |-> Own(cur)]]
    BY <1>2, <1>4 DEF Put
  <2>3. CodecHolds'
    BY <1>1, <2>2 DEF SteadyInv, CodecHolds
  <2>4. SteadyInv'
    BY <1>1, <1>2, <2>1, <2>2, <2>3, FramePut
  <2> QED
    BY <2>1, <2>4
<1> QED
  BY <1>2, <1>3, <1>4 DEF DecodeSoftware, Put

-----------------------------------------------------------------------------
(* Flipping, commands and the ends of files *)

\* A step that only goes on to another place.
LEMMA OnlyMoves ==
  ASSUME SteadyInv, picture # "open", picture' # "open",
         picture' = "decode" => frame = NoFrame, picture' = "flip" => frame # NoFrame,
         UNCHANGED <<play, decoder, display, shown, content, frame>>
  PROVE  SteadyInv' /\ Steady
<1>1. Shapes' /\ FrameWaits' /\ ScreenInRing' /\ CodecHolds'
  BY DEF SteadyInv, Shapes, FrameWaits, ScreenInRing, CodecHolds, Prev, NextSlot, play,
         decoder, display
<1>2. RingOfFile' /\ Marked'
  BY DEF SteadyInv, RingOfFile, Marked, Held, Live, play, display
<1> QED
  BY <1>1, <1>2 DEF SteadyInv, Steady

\* A new file: what the ring has kept is of an earlier one.
LEMMA OpenSteady ==
  ASSUME SteadyInv, Open
  PROVE  SteadyInv' /\ Steady
<1>1. /\ shows' = shows + 1 /\ shows \in Nat /\ cur' = 0 /\ ring' = ring /\ picture' = "decode"
      /\ frame' = NoFrame /\ frame = NoFrame /\ UNCHANGED <<plane, before>>
      /\ plane = 0 /\ before = 0
      /\ ring \in [Slots -> [file : 0 .. shows, buf : Nat]]
  BY DEF Open, SteadyInv, Shapes, FrameWaits
<1>2. Shapes'
  <2>1. \A s \in Slots : ring[s] \in [file : 0 .. shows', buf : Nat]
    BY <1>1
  <2>2. DOMAIN content' = Buffers
    BY DEF Open
  <2> QED
    BY <1>1, <2>1, <2>2 DEF Shapes, Slots, NUM_VIDEO_FB
<1>3. FrameWaits' /\ ScreenInRing' /\ CodecHolds'
  BY <1>1 DEF Open, FrameWaits, ScreenInRing, CodecHolds
<1>4. \A s \in Slots : ring'[s].file # shows'
  BY <1>1
<1>5. RingOfFile' /\ Marked'
  BY <1>4 DEF RingOfFile, Marked, Live
<1>6. Steady
  BY <1>1 DEF Steady, Visible, Waiting
<1> QED
  BY <1>2, <1>3, <1>5, <1>6 DEF SteadyInv

LEMMA NoPacketSteady ==
  ASSUME SteadyInv, NoPacket
  PROVE  SteadyInv' /\ Steady
  BY OnlyMoves DEF NoPacket, SteadyInv, FrameWaits

LEMMA WaitSteady ==
  ASSUME SteadyInv, Wait
  PROVE  SteadyInv' /\ Steady
  BY OnlyMoves DEF Wait, SteadyInv, FrameWaits

LEMMA ContinueSteady ==
  ASSUME SteadyInv, Continue
  PROVE  SteadyInv' /\ Steady
<1>1. /\ picture = "commands" /\ picture' = IF frame = NoFrame THEN "decode" ELSE "flip"
      /\ UNCHANGED <<play, decoder, display, shown, content, frame>>
  BY DEF Continue
<1> QED
  BY <1>1, OnlyMoves

\* The slot before comes to hold what was replaced, and the slot after is given
\* up, whose buffer neither of the others has.
LEMMA FlipSteady ==
  ASSUME SteadyInv, Flip
  PROVE  SteadyInv' /\ Steady
<1>1. /\ picture = "flip" /\ cur \in Slots /\ frame # NoFrame /\ frame.buf \in Buffers
      /\ ring[cur] = [file |-> shows, buf |-> frame.buf]
  BY DEF Flip, SteadyInv, Shapes, FrameWaits
<1>2. /\ plane' = frame.buf /\ before' = plane /\ cur' = NextSlot /\ frame' = NoFrame
      /\ UNCHANGED <<play, ring, content, locked, pend, ref>>
      /\ picture' \in {"commands", "crashed"}
      /\ shown' = IF Live(ring[NextSlot]) THEN shown \ {ring[NextSlot].buf} ELSE shown
  BY <1>1 DEF Flip, NextSlot, decoder
<1>3. Prev' = cur /\ NextSlot' = Prev
  <2>1. Prev' = (NextSlot + 2) % NUM_VIDEO_FB /\ NextSlot' = (NextSlot + 1) % NUM_VIDEO_FB
    BY <1>2 DEF Prev, NextSlot
  <2> QED
    BY <1>1, <2>1, ThreeSlots
<1>4. Shapes'
  BY <1>1, <1>2, ThreeSlots DEF SteadyInv, Shapes, play
<1>5. FrameWaits'
  BY <1>2 DEF FrameWaits
<1>6. ScreenInRing'
  BY <1>1, <1>2, <1>3 DEF SteadyInv, ScreenInRing, play
<1>7. CodecHolds'
  BY <1>2 DEF SteadyInv, CodecHolds
<1>8. RingOfFile'
  BY <1>1, <1>2 DEF SteadyInv, RingOfFile, play
<1>9. Marked'
  <2>1. /\ \A s \in Slots : Live(ring[s]) => ring[s].buf \in shown
        /\ \A s, t \in Slots : s # t /\ Live(ring[s]) /\ Live(ring[t]) =>
             ring[s].buf # ring[t].buf
    BY <1>1 DEF SteadyInv, Marked, Held
  <2>2. \A s \in Slots : (Live(ring[s])' <=> Live(ring[s])) /\ ring'[s] = ring[s]
    BY <1>2 DEF Live, play
  <2>3. \A s \in Slots : Held(s)' => s # NextSlot
    BY <1>2 DEF Held
  <2>4. \A s \in Slots : s # NextSlot /\ Live(ring[s]) => ring[s].buf \in shown'
    BY <1>1, <1>2, <2>1, ThreeSlots
  <2> QED
    BY <2>1, <2>2, <2>3, <2>4 DEF Marked
<1> QED
  BY <1>1, <1>2, <1>4, <1>5, <1>6, <1>7, <1>8, <1>9 DEF SteadyInv, Steady

\* The frame that waited is forgotten, by a flip that failed or a seek.
LEMMA FrameForgotten ==
  ASSUME SteadyInv, picture # "open", picture' \in {"commands", "decode"}, frame' = NoFrame,
         UNCHANGED <<play, display, shown, content>>, CodecHolds'
  PROVE  SteadyInv' /\ Steady
<1>1. Shapes' /\ FrameWaits' /\ ScreenInRing'
  BY DEF SteadyInv, Shapes, FrameWaits, ScreenInRing, Prev, NextSlot, play, display
<1>2. RingOfFile' /\ Marked'
  BY DEF SteadyInv, RingOfFile, Marked, Held, Live, play, display
<1> QED
  BY <1>1, <1>2 DEF SteadyInv, Steady

LEMMA FlipFailsSteady ==
  ASSUME SteadyInv, FlipFails
  PROVE  SteadyInv' /\ Steady
<1>1. CodecHolds'
  BY DEF FlipFails, decoder, SteadyInv, CodecHolds
<1> QED
  BY <1>1, FrameForgotten DEF FlipFails

LEMMA SeekSteady ==
  ASSUME SteadyInv, Seek
  PROVE  SteadyInv' /\ Steady
<1>1. CodecHolds'
  BY DEF Seek, Flushed, CodecHolds
<1> QED
  BY <1>1, FrameForgotten DEF Seek

LEMMA CloseSteady ==
  ASSUME Dpb \in Nat, SteadyInv, Close
  PROVE  SteadyInv' /\ Steady
<1>1. /\ frame' = NoFrame /\ plane' = 0 /\ before' = 0 /\ shows' = shows /\ cur' = 0
      /\ locked' = {} /\ shown' = {} /\ pend' = {} /\ ref' = {}
      /\ DOMAIN content' = Buffers /\ shows \in Nat
      /\ ring \in [Slots -> [file : 0 .. shows, buf : Nat]]
  BY DEF Close, SteadyInv, Shapes
<1>2. \/ picture' = "open" /\ ring' = ring
      \/ picture' \in {"open", "crashed"} /\ ring' = [slot \in Slots |-> NoBuf]
  BY DEF Close
<1>3. Shapes'
  BY <1>1, <1>2 DEF Shapes, NoBuf, Slots, NUM_VIDEO_FB
<1>4. FrameWaits' /\ ScreenInRing' /\ CodecHolds'
  BY <1>1, <1>2 DEF FrameWaits, ScreenInRing, CodecHolds
<1>5. picture' # "open" => RingOfFile' /\ Marked'
  <2>1. SUFFICES ASSUME ring' = [slot \in Slots |-> NoBuf]
                 PROVE  RingOfFile' /\ Marked'
    BY <1>2
  <2>2. \A s \in Slots : ring'[s].buf = 0
    BY <2>1 DEF NoBuf
  <2> QED
    BY <2>2, BufferNumbers DEF RingOfFile, Marked, Live
<1>6. Steady
  BY <1>1 DEF Steady, Visible, Waiting
<1> QED
  BY <1>3, <1>4, <1>5, <1>6 DEF SteadyInv

-----------------------------------------------------------------------------
LEMMA SteadyInvNext ==
  ASSUME Dpb \in Nat, SteadyInv, [VideoNext]_videoVars
  PROVE  SteadyInv' /\ (Steady \/ UNCHANGED videoVars)
<1>1. CASE Open
  BY <1>1, OpenSteady
<1>2. ASSUME NEW drop \in BOOLEAN, Decode(drop)
      PROVE  SteadyInv' /\ Steady
  BY <1>2, DecodePacketSteady, DecodeFailsSteady, DecodeStarvedSteady, DecodeSoftwareSteady
     DEF Decode
<1>3. CASE NoPacket
  BY <1>3, NoPacketSteady
<1>4. CASE Wait
  BY <1>4, WaitSteady
<1>5. CASE Flip
  BY <1>5, FlipSteady
<1>6. CASE FlipFails
  BY <1>6, FlipFailsSteady
<1>7. CASE Continue
  BY <1>7, ContinueSteady
<1>8. CASE Seek
  BY <1>8, SeekSteady
<1>9. CASE Close
  BY <1>9, CloseSteady
<1>10. CASE UNCHANGED videoVars
  <2>1. Shapes' /\ FrameWaits' /\ ScreenInRing' /\ CodecHolds'
    BY <1>10 DEF videoVars, SteadyInv, Shapes, FrameWaits, ScreenInRing, CodecHolds, Prev,
                 NextSlot, play, decoder, display
  <2>2. picture' # "open" => RingOfFile' /\ Marked'
    BY <1>10 DEF videoVars, SteadyInv, RingOfFile, Marked, Held, Live, play, display
  <2> QED
    BY <1>10, <2>1, <2>2 DEF SteadyInv
<1> QED
  BY <1>1, <1>2, <1>3, <1>4, <1>5, <1>6, <1>7, <1>8, <1>9, <1>10 DEF VideoNext

\* Whatever the number of buffers of the codec, the files and the faults:
\* nothing is decoded or copied into a buffer that is on the screen, was there
\* until the last flip, or waits to be flipped.
THEOREM ScreenIsSteady == VideoSpec => ScreenSteady
<1>1. SteadyInv /\ [VideoNext]_videoVars => SteadyInv'
  BY VideoAssumption, SteadyInvNext
<1>2. SteadyInv /\ [VideoNext]_videoVars =>
        [\A b \in (Visible \cap Visible') \ {0} : content'[b] = content[b]]_videoVars
  BY VideoAssumption, SteadyInvNext DEF Steady
<1> QED
  BY SteadyInvInit, <1>1, <1>2, PTL DEF VideoSpec, ScreenSteady

-----------------------------------------------------------------------------
(***************************************************************************)
(* Frames keep their time stamps, and there is a buffer for each.          *)
(*                                                                         *)
(* The codec holds fewer buffers than it needs, the one it decodes into    *)
(* being one of those, and the display those of the ring, so one of the    *)
(* pool is left.  The stamps queued are those of the frames that are not   *)
(* out yet, and at most one more for each packet that gave none: so the    *)
(* least of them is the stamp of the frame that comes out, or an earlier   *)
(* one, as long as the queue has room for all.                             *)
(***************************************************************************)

CodecFinite ==
    /\ IsFiniteSet(pend) /\ IsFiniteSet(ref)
    /\ Cardinality(pend) + Cardinality(ref) < Dpb
    /\ locked = {f.buf : f \in pend} \cup ref

\* What the display has marked is in the ring, unless a frame was not flipped.
ShownInRing ==
    /\ unflipped \in Nat /\ shown \subseteq Pool
    /\ unflipped = 0 =>
         \A b \in shown : \E s \in Slots : Held(s) /\ Live(ring[s]) /\ ring[s].buf = b

ContentTrue ==
    /\ pos \in Nat \ {0} /\ missed \in Nat /\ file \in VideoFiles \cup {<<>>}
    /\ \A f \in pend : /\ content[f.buf] = f.pts
                       /\ \E i \in 1..Len(file) : i < pos /\ file[i] = f.pts
    /\ \A f, g \in pend : f.pts = g.pts => f = g
    /\ ~dce => pend = {} /\ ref = {} /\ missed = 0

\* The stamps in the queue and the frames they wait for, after m packets that gave no frame.
Queues(frames, queue, m) ==
    /\ IsFiniteSet(frames) /\ IsFiniteSet(queue) /\ queue \subseteq Nat \ {0}
    /\ {f.pts : f \in frames} \subseteq queue
    /\ Cardinality(queue) <= Cardinality(frames) + m
    /\ m = 0 => queue = {f.pts : f \in frames}

\* The queue cannot get full.
Room == Dpb + missed <= MaxBuffered

StampInv ==
    /\ CodecFinite /\ ShownInRing /\ ContentTrue /\ FreeBufferFound
    /\ Room => Queues(pend, buffered_pts, missed) /\ PtsTrue

-----------------------------------------------------------------------------
LEMMA MinIsLeast ==
  ASSUME NEW T, T \subseteq Nat, T # {}
  PROVE  Min(T) \in T /\ \A y \in T : Min(T) <= y
<1>1. \E x \in T : \A y \in T : x <= y
  BY Least
<1> QED
  BY <1>1 DEF Min

LEMMA AtMostOneMore ==
  ASSUME NEW T, NEW x, IsFiniteSet(T)
  PROVE  /\ IsFiniteSet(T \cup {x})
         /\ Cardinality(T) \in Nat /\ Cardinality(T \cup {x}) \in Nat
         /\ Cardinality(T \cup {x}) <= Cardinality(T) + 1
         /\ x \notin T => Cardinality(T \cup {x}) = Cardinality(T) + 1
<1>1. /\ IsFiniteSet(T \cup {x})
      /\ Cardinality(T \cup {x}) = IF x \in T THEN Cardinality(T) ELSE Cardinality(T) + 1
  BY FS_AddElement
<1>2. Cardinality(T) \in Nat
  BY FS_CardinalityType
<1> QED
  BY <1>1, <1>2

\* A packet's stamp is queued with its frame.
LEMMA StampQueued ==
  ASSUME NEW frames, NEW queue, NEW m \in Nat, Queues(frames, queue, m),
         NEW new, new \notin frames, new.pts \in Nat \ {0}
  PROVE  Queues(frames \cup {new}, queue \cup {new.pts}, m)
<1>0. IsFiniteSet(frames) /\ IsFiniteSet(queue)
  BY DEF Queues
<1>1. /\ IsFiniteSet(frames \cup {new}) /\ Cardinality(frames) \in Nat
      /\ Cardinality(frames \cup {new}) = Cardinality(frames) + 1
  BY <1>0, AtMostOneMore
<1>2. /\ IsFiniteSet(queue \cup {new.pts})
      /\ Cardinality(queue) \in Nat /\ Cardinality(queue \cup {new.pts}) \in Nat
      /\ Cardinality(queue \cup {new.pts}) <= Cardinality(queue) + 1
  BY <1>0, AtMostOneMore
<1>4. Cardinality(queue \cup {new.pts}) <= Cardinality(frames \cup {new}) + m
  BY <1>1, <1>2 DEF Queues
<1>5. {f.pts : f \in frames \cup {new}} = {f.pts : f \in frames} \cup {new.pts}
  OBVIOUS
<1> QED
  BY <1>1, <1>2, <1>4, <1>5 DEF Queues

\* A packet that gave no frame leaves its stamp, or none.
LEMMA StampLeft ==
  ASSUME NEW frames, NEW queue, NEW m \in Nat, Queues(frames, queue, m),
         NEW pts \in Nat \ {0}, NEW rest, rest = queue \cup {pts} \/ rest = queue
  PROVE  Queues(frames, rest, m + 1)
<1>0. IsFiniteSet(frames) /\ IsFiniteSet(queue) /\ Cardinality(frames) \in Nat
  BY FS_CardinalityType DEF Queues
<1>1. /\ IsFiniteSet(rest) /\ Cardinality(queue) \in Nat /\ Cardinality(rest) \in Nat
      /\ Cardinality(rest) <= Cardinality(queue) + 1
  <2>1. CASE rest = queue \cup {pts}
    BY <1>0, <2>1, AtMostOneMore
  <2>2. CASE rest = queue
    BY <1>0, <2>2, FS_CardinalityType
  <2> QED
    BY <2>1, <2>2
<1>2. Cardinality(rest) <= Cardinality(frames) + (m + 1)
  BY <1>0, <1>1 DEF Queues
<1>3. rest \subseteq Nat \ {0} /\ {f.pts : f \in frames} \subseteq rest
  <2>1. queue \subseteq rest /\ rest \subseteq queue \cup {pts}
    OBVIOUS
  <2> QED
    BY <2>1 DEF Queues
<1>4. m + 1 # 0
  OBVIOUS
<1> QED
  BY <1>0, <1>1, <1>2, <1>3, <1>4 DEF Queues

\* The frame that comes out is the first of them, and takes the least stamp.
LEMMA StampTaken ==
  ASSUME NEW frames, NEW queue, NEW m \in Nat, Queues(frames, queue, m),
         NEW out \in frames, \A g \in frames : out.pts <= g.pts,
         \A f, g \in frames : f.pts = g.pts => f = g
  PROVE  /\ queue # {}
         /\ Min(queue) \in Nat \ {0} /\ Min(queue) <= out.pts /\ (m = 0 => Min(queue) = out.pts)
         /\ Queues(frames \ {out}, queue \ {Min(queue)}, m)
<1> DEFINE least == Min(queue)
<1>1. out.pts \in queue /\ queue \subseteq Nat \ {0}
  BY DEF Queues
<1>2. least \in queue /\ \A y \in queue : least <= y
  BY <1>1, MinIsLeast
<1> HIDE DEF least
<1>3. least <= out.pts /\ least \in Nat \ {0} /\ out.pts \in Nat
  BY <1>1, <1>2
<1>4. m = 0 => least = out.pts
  <2>1. SUFFICES ASSUME m = 0 PROVE least = out.pts
    OBVIOUS
  <2>2. PICK f \in frames : f.pts = least
    BY <1>2, <2>1 DEF Queues
  <2>3. out.pts <= least
    BY <2>2
  <2> QED
    BY <1>3, <2>3
<1>5. \A f \in frames : f.pts = least => f = out
  <2>1. SUFFICES ASSUME NEW f \in frames, f.pts = least PROVE f.pts = out.pts
    OBVIOUS
  <2> QED
    BY <1>3, <2>1
<1>6. /\ IsFiniteSet(frames \ {out}) /\ IsFiniteSet(queue \ {least})
      /\ Cardinality(frames \ {out}) = Cardinality(frames) - 1
      /\ Cardinality(queue \ {least}) = Cardinality(queue) - 1
  BY <1>2, FS_RemoveElement DEF Queues
<1>7. Cardinality(frames) \in Nat /\ Cardinality(queue) \in Nat
  BY FS_CardinalityType DEF Queues
<1>8. Cardinality(queue \ {least}) <= Cardinality(frames \ {out}) + m
  BY <1>6, <1>7 DEF Queues
<1>9. {f.pts : f \in frames \ {out}} \subseteq queue \ {least}
  BY <1>5 DEF Queues
<1>10. m = 0 => queue \ {least} = {f.pts : f \in frames \ {out}}
  BY <1>4, <1>9 DEF Queues
<1>11. Queues(frames \ {out}, queue \ {least}, m)
  BY <1>1, <1>6, <1>8, <1>9, <1>10 DEF Queues
<1> QED
  BY <1>1, <1>3, <1>4, <1>11 DEF least

-----------------------------------------------------------------------------
(* A buffer is left *)

LEMMA CodecBuffers ==
  ASSUME NEW frames, NEW others, IsFiniteSet(frames), IsFiniteSet(others)
  PROVE  /\ IsFiniteSet({f.buf : f \in frames} \cup others)
         /\ Cardinality({f.buf : f \in frames} \cup others) \in Nat
         /\ Cardinality({f.buf : f \in frames} \cup others) <=
              Cardinality(frames) + Cardinality(others)
<1> DEFINE bufs == {f.buf : f \in frames}
           at == [f \in frames |-> f.buf]
<1>1. at \in Surjection(frames, bufs)
  BY DEF Surjection
<1> HIDE DEF at
<1>2. IsFiniteSet(bufs) /\ Cardinality(bufs) <= Cardinality(frames)
  BY <1>1, FS_Surjection
<1> HIDE DEF bufs
<1>3. /\ IsFiniteSet(bufs \cup others) /\ IsFiniteSet(bufs \cap others)
      /\ Cardinality(bufs \cup others) =
           Cardinality(bufs) + Cardinality(others) - Cardinality(bufs \cap others)
  BY <1>2, FS_Union, FS_Intersection
<1>4. /\ Cardinality(bufs) \in Nat /\ Cardinality(others) \in Nat /\ Cardinality(frames) \in Nat
      /\ Cardinality(bufs \cap others) \in Nat /\ Cardinality(bufs \cup others) \in Nat
  BY <1>2, <1>3, FS_CardinalityType
<1>5. Cardinality(bufs \cup others) <= Cardinality(frames) + Cardinality(others)
  BY <1>2, <1>3, <1>4
<1> QED
  BY <1>3, <1>4, <1>5 DEF bufs

\* The codec needs Dpb buffers, the display two, and the pool has two more than Dpb.
LEMMA BufferIsLeft ==
  ASSUME SteadyInv, StampInv, picture = "decode", unflipped = 0
  PROVE  Free # {}
<1>1. Dpb \in Nat \ {0}
  BY VideoAssumption
<1>2. /\ IsFiniteSet(locked) /\ Cardinality(locked) \in Nat /\ Cardinality(locked) < Dpb
  <2>1. /\ IsFiniteSet(pend) /\ IsFiniteSet(ref) /\ locked = {f.buf : f \in pend} \cup ref
        /\ Cardinality(pend) + Cardinality(ref) < Dpb
    BY DEF StampInv, CodecFinite
  <2>2. /\ IsFiniteSet(locked) /\ Cardinality(locked) \in Nat
        /\ Cardinality(locked) <= Cardinality(pend) + Cardinality(ref)
    BY <2>1, CodecBuffers
  <2>3. Cardinality(pend) \in Nat /\ Cardinality(ref) \in Nat
    BY <2>1, FS_CardinalityType
  <2> QED
    BY <1>1, <2>1, <2>2, <2>3
<1> DEFINE p == ring[Prev].buf
           n == ring[NextSlot].buf
<1>3. shown \subseteq {p, n}
  <2>1. frame = NoFrame /\ cur \in Slots
    BY DEF SteadyInv, FrameWaits, Shapes
  <2>2. \A b \in shown : \E s \in Slots : s # cur /\ ring[s].buf = b
    BY <2>1 DEF StampInv, ShownInRing, Held
  <2> QED
    BY <2>1, <2>2, ThreeSlots
<1> HIDE DEF p, n
<1>4. locked \cup shown \subseteq (locked \cup {p}) \cup {n}
  BY <1>3
<1>5. /\ IsFiniteSet((locked \cup {p}) \cup {n})
      /\ Cardinality((locked \cup {p}) \cup {n}) \in Nat
      /\ Cardinality((locked \cup {p}) \cup {n}) <= Cardinality(locked) + 2
  <2>1. /\ IsFiniteSet(locked \cup {p}) /\ Cardinality(locked \cup {p}) \in Nat
        /\ Cardinality(locked \cup {p}) <= Cardinality(locked) + 1
    BY <1>2, AtMostOneMore
  <2>2. /\ IsFiniteSet((locked \cup {p}) \cup {n})
        /\ Cardinality((locked \cup {p}) \cup {n}) \in Nat
        /\ Cardinality((locked \cup {p}) \cup {n}) <= Cardinality(locked \cup {p}) + 1
    BY <2>1, AtMostOneMore
  <2> QED
    BY <1>2, <2>1, <2>2
<1>6. Cardinality(Pool) = Dpb + 2
  BY <1>1, FS_Interval DEF Pool, numFrameBuffers
<1>7. ~ (Pool \subseteq (locked \cup {p}) \cup {n})
  <2>1. SUFFICES ASSUME Pool \subseteq (locked \cup {p}) \cup {n} PROVE FALSE
    OBVIOUS
  <2>2. Cardinality(Pool) <= Cardinality((locked \cup {p}) \cup {n})
    BY <1>5, <2>1, FS_Subset
  <2> QED
    BY <1>1, <1>2, <1>5, <1>6, <2>2
<1> QED
  BY <1>4, <1>7 DEF Free

LEMMA StampsOfFile ==
  ASSUME StampInv
  PROVE  /\ file \in Seq(Nat \ {0}) /\ \A i, j \in 1..Len(file) : file[i] = file[j] => i = j
         /\ \A f \in pend : f.pts \in Nat \ {0}
         /\ Dpb \in Nat \ {0} /\ MaxBuffered \in Nat /\ Dpb <= MaxBuffered
<1>1. file \in VideoFiles \/ file = <<>>
  BY DEF StampInv, ContentTrue
<1>2. /\ file \in Seq(Nat \ {0}) /\ \A i, j \in 1..Len(file) : file[i] = file[j] => i = j
      /\ Dpb \in Nat \ {0} /\ MaxBuffered \in Nat /\ Dpb <= MaxBuffered
  <2>1. CASE file \in VideoFiles
    BY <2>1, VideoAssumption
  <2>2. CASE file = <<>>
    <3>1. file \in Seq(Nat \ {0}) /\ Len(file) = 0
      BY <2>2
    <3>2. 1..Len(file) = {}
      BY <3>1
    <3> QED
      BY <3>1, <3>2, VideoAssumption
  <2> QED
    BY <1>1, <2>1, <2>2
<1>3. \A f \in pend : \E i \in 1..Len(file) : file[i] = f.pts
  BY DEF StampInv, ContentTrue
<1> QED
  BY <1>2, <1>3

LEMMA StampInvInit == VideoInit => StampInv
<1> SUFFICES ASSUME VideoInit PROVE StampInv
  OBVIOUS
<1>1. Dpb \in Nat \ {0}
  BY VideoAssumption
<1>2. IsFiniteSet({}) /\ Cardinality({}) = 0
  BY FS_EmptySet
<1>3. /\ locked = {} /\ shown = {} /\ pend = {} /\ ref = {} /\ file = <<>> /\ pos = 1
      /\ missed = 0 /\ unflipped = 0 /\ starved = FALSE /\ buffered_pts = {} /\ frame = NoFrame
  BY DEF VideoInit
<1>4. CodecFinite /\ ShownInRing /\ ContentTrue /\ FreeBufferFound
  BY <1>1, <1>2, <1>3 DEF CodecFinite, ShownInRing, ContentTrue, FreeBufferFound
<1>5. Queues(pend, buffered_pts, missed) /\ PtsTrue
  BY <1>2, <1>3 DEF Queues, PtsTrue
<1> QED
  BY <1>4, <1>5 DEF StampInv

\* A file that begins, or is at its end: the codec and the display are empty.
LEMMA NothingHeld ==
  ASSUME locked' = {}, pend' = {}, ref' = {}, shown' = {}, missed' = 0, unflipped' = 0,
         starved' = FALSE, buffered_pts' = {}, frame' = NoFrame, pos' = 1,
         file' \in VideoFiles \cup {<<>>}
  PROVE  StampInv'
<1>1. Dpb \in Nat \ {0}
  BY VideoAssumption
<1>2. IsFiniteSet({}) /\ Cardinality({}) = 0
  BY FS_EmptySet
<1>3. CodecFinite'
  BY <1>1, <1>2 DEF CodecFinite
<1>4. ShownInRing' /\ ContentTrue' /\ FreeBufferFound'
  BY DEF ShownInRing, ContentTrue, FreeBufferFound
<1>5. Queues(pend', buffered_pts', missed') /\ PtsTrue'
  BY <1>2 DEF Queues, PtsTrue
<1> QED
  BY <1>3, <1>4, <1>5 DEF StampInv, Room

LEMMA OpenStamps ==
  ASSUME StampInv, Open
  PROVE  StampInv'
  BY NothingHeld DEF Open

LEMMA CloseStamps ==
  ASSUME StampInv, Close
  PROVE  StampInv'
  BY NothingHeld DEF Close

\* A step that leaves the codec and the queue alone, and the frame that waits or forgets it.
LEMMA NothingDecoded ==
  ASSUME StampInv, UNCHANGED <<file, dce, pos, decoder, content, buffered_pts>>,
         frame' = frame \/ frame' = NoFrame, ShownInRing', unflipped' >= unflipped
  PROVE  StampInv'
<1>1. unflipped \in Nat /\ unflipped' \in Nat
  BY DEF StampInv, ShownInRing
<1>2. CodecFinite' /\ ContentTrue' /\ FreeBufferFound'
  BY <1>1 DEF StampInv, CodecFinite, ContentTrue, FreeBufferFound, decoder
<1>3. Room' => Queues(pend', buffered_pts', missed')
  BY DEF StampInv, Room, decoder
<1>4. Room' => PtsTrue'
  BY DEF StampInv, Room, PtsTrue, decoder
<1> QED
  BY <1>2, <1>3, <1>4 DEF StampInv

LEMMA OnlyMovesStamps ==
  ASSUME StampInv,
         UNCHANGED <<play, pos, decoder, shown, content, buffered_pts, display, frame, unflipped>>
  PROVE  StampInv'
<1>1. ShownInRing' /\ unflipped' >= unflipped
  BY DEF StampInv, ShownInRing, Held, Live, play, display
<1> QED
  BY <1>1, NothingDecoded DEF play

\* The buffer of the slot the ring comes to is given back, or was of an earlier file.
LEMMA FlipStamps ==
  ASSUME SteadyInv, StampInv, Flip
  PROVE  StampInv'
<1>1. /\ cur' = NextSlot /\ frame' = NoFrame
      /\ UNCHANGED <<play, pos, decoder, content, buffered_pts, ring, unflipped>>
      /\ shown' = IF Live(ring[NextSlot]) THEN shown \ {ring[NextSlot].buf} ELSE shown
  BY DEF Flip, NextSlot
<1>2. shows' = shows /\ unflipped \in Nat
  BY <1>1 DEF StampInv, ShownInRing, play
<1>3. ShownInRing'
  <2>1. shown' \subseteq shown /\ shown \subseteq Pool
    BY <1>1 DEF StampInv, ShownInRing
  <2>2. SUFFICES ASSUME unflipped = 0, NEW b \in shown'
                 PROVE  \E s \in Slots : Held(s)' /\ Live(ring[s])' /\ ring'[s].buf = b
    BY <1>1, <1>2, <2>1 DEF ShownInRing
  <2>3. PICK s \in Slots : Live(ring[s]) /\ ring[s].buf = b
    BY <2>1, <2>2 DEF StampInv, ShownInRing
  <2>4. s # NextSlot
    BY <1>1, <2>3
  <2> QED
    BY <1>1, <1>2, <2>3, <2>4 DEF Held, Live
<1> QED
  BY <1>1, <1>2, <1>3, NothingDecoded DEF play

LEMMA FlipFailsStamps ==
  ASSUME StampInv, FlipFails
  PROVE  StampInv'
<1>1. unflipped \in Nat /\ unflipped' = unflipped + 1 /\ shown \subseteq Pool /\ shown' = shown
  BY DEF FlipFails, StampInv, ShownInRing
<1>2. ShownInRing'
  BY <1>1 DEF ShownInRing
<1> QED
  BY <1>1, <1>2, NothingDecoded DEF FlipFails, play

\* The codec gives all up and the queue is emptied.
LEMMA SeekStamps ==
  ASSUME SteadyInv, StampInv, Seek
  PROVE  StampInv'
<1>1. /\ locked' = {} /\ pend' = {} /\ ref' = {} /\ missed' = 0 /\ starved' = starved
      /\ buffered_pts' = {} /\ frame' = NoFrame /\ pos' \in Nat \ {0}
      /\ UNCHANGED <<file, dce, shows, shown, content, ring, cur>>
      /\ unflipped' = IF frame = NoFrame THEN unflipped ELSE unflipped + 1
  BY StampsOfFile DEF Seek, Flushed, play, display
<1>2. Dpb \in Nat \ {0}
  BY VideoAssumption
<1>3. IsFiniteSet({}) /\ Cardinality({}) = 0
  BY FS_EmptySet
<1>4. CodecFinite'
  BY <1>1, <1>2, <1>3 DEF CodecFinite
<1>5. ContentTrue'
  BY <1>1 DEF StampInv, ContentTrue
<1>6. ShownInRing' /\ FreeBufferFound'
  <2>1. CASE frame = NoFrame
    BY <1>1, <2>1 DEF StampInv, ShownInRing, FreeBufferFound, Held, Live
  <2>2. CASE frame # NoFrame
    BY <1>1, <2>2 DEF StampInv, ShownInRing, FreeBufferFound
  <2> QED
    BY <2>1, <2>2
<1>7. Queues(pend', buffered_pts', missed') /\ PtsTrue'
  BY <1>1, <1>3 DEF Queues, PtsTrue
<1> QED
  BY <1>4, <1>5, <1>6, <1>7 DEF StampInv, Room

-----------------------------------------------------------------------------
(* A packet *)

\* As long as the queue has room the stamp of every packet gets in.
LEMMA StampGetsIn ==
  ASSUME StampInv, Room, NEW pts, NEW out
  PROVE  Queued(pts, out) = buffered_pts \cup {pts}
<1>1. /\ Dpb \in Nat /\ MaxBuffered \in Nat /\ missed \in Nat
      /\ Dpb + missed <= MaxBuffered
  BY VideoAssumption DEF StampInv, ContentTrue, Room
<1>2. /\ IsFiniteSet(buffered_pts) /\ IsFiniteSet(pend) /\ IsFiniteSet(ref)
      /\ Cardinality(buffered_pts) <= Cardinality(pend) + missed
      /\ Cardinality(pend) + Cardinality(ref) < Dpb
  BY DEF StampInv, Queues, CodecFinite
<1>3. /\ Cardinality(buffered_pts) \in Nat /\ Cardinality(pend) \in Nat /\ Cardinality(ref) \in Nat
  BY <1>2, FS_CardinalityType
<1>4. Cardinality(buffered_pts) # MaxBuffered
  BY <1>1, <1>2, <1>3
<1> QED
  BY <1>4 DEF Queued

\* What the codec holds after a packet that it makes a frame of.
LEMMA DecodePacketHolds ==
  ASSUME SteadyInv, StampInv, NEW g, g = getBuffer, g # 0, NEW stamp, NEW out, NEW freed,
         out \in {NoFrame} \cup Outputs(pend \cup {[pts |-> stamp, buf |-> g]}),
         freed \subseteq ref \cup ({out.buf} \ {0}),
         pend' = (pend \cup {[pts |-> stamp, buf |-> g]}) \ {out},
         ref' = (ref \cup ({out.buf} \ {0})) \ freed,
         Cardinality(pend') + Cardinality(ref') < Dpb,
         locked' = (locked \cup {g}) \ freed
  PROVE  /\ CodecFinite'
         /\ [pts |-> stamp, buf |-> g] \notin pend
         /\ out.buf # 0 => out \in pend \cup {[pts |-> stamp, buf |-> g]}
         /\ out.buf = 0 => pend' = pend \cup {[pts |-> stamp, buf |-> g]}
<1> DEFINE new == [pts |-> stamp, buf |-> g]
<1>1. /\ g \in Pool /\ g \notin locked /\ new.buf = g /\ 0 \notin Pool
      /\ locked \subseteq Pool /\ ref \subseteq locked
      /\ \A f \in pend : f.buf \in locked /\ f.buf \notin ref
      /\ \A f, h \in pend : f.buf = h.buf => f = h
  BY VideoAssumption, GetBufferFree, BufferNumbers DEF SteadyInv, CodecHolds
<1>2. /\ IsFiniteSet(pend) /\ IsFiniteSet(ref) /\ locked = {f.buf : f \in pend} \cup ref
  BY DEF StampInv, CodecFinite
<1>3. out = NoFrame \/ out \in pend \cup {new}
  BY DEF Outputs
<1>4. pend' = (pend \cup {new}) \ {out}
  OBVIOUS
<1> HIDE DEF new
<1>5. new \notin pend /\ \A f \in pend \cup {new} : f.buf # 0 /\ f.buf \notin ref
  BY <1>1
<1>6. out.buf # 0 => out \in pend \cup {new}
  BY <1>3 DEF NoFrame
<1>7. out.buf = 0 => pend' = pend \cup {new}
  <2>1. SUFFICES ASSUME out.buf = 0 PROVE out \notin pend \cup {new}
    BY <1>4
  <2> QED
    BY <1>5, <2>1
<1>8. IsFiniteSet(pend') /\ IsFiniteSet(ref')
  <2>1. IsFiniteSet(pend \cup {new}) /\ IsFiniteSet(ref \cup {out.buf})
    BY <1>2, AtMostOneMore
  <2>2. pend' \subseteq pend \cup {new} /\ ref' \subseteq ref \cup {out.buf}
    BY <1>4
  <2> QED
    BY <2>1, <2>2, FS_Subset
<1>9. \A f \in pend' : f.buf \notin freed
  <2>1. \A f, h \in pend \cup {new} : f.buf = h.buf => f = h
    BY <1>1
  <2>2. \A f \in pend' : f.buf # out.buf \/ out.buf = 0
    BY <1>4, <1>6, <2>1
  <2> QED
    BY <1>4, <1>5, <2>2
<1>10. locked' = {f.buf : f \in pend'} \cup ref'
  <2>1. {f.buf : f \in pend'} \cup ref' \subseteq locked'
    <3>1. \A f \in pend' : f.buf \in locked \cup {g}
      BY <1>1, <1>4
    <3>2. ref' \subseteq locked \cup {g}
      BY <1>1, <1>6
    <3> QED
      BY <1>9, <3>1, <3>2
  <2>2. locked' \subseteq {f.buf : f \in pend'} \cup ref'
    <3>1. SUFFICES ASSUME NEW b \in locked', b \notin ref' PROVE b \in {f.buf : f \in pend'}
      OBVIOUS
    <3>2. b \notin freed /\ b # 0 /\ b \notin ref /\ b # out.buf
      BY <1>1, <3>1
    <3>3. PICK f \in pend \cup {new} : f.buf = b
      BY <1>1, <1>2, <3>1, <3>2
    <3> QED
      BY <1>4, <3>2, <3>3
  <2> QED
    BY <2>1, <2>2
<1>11. CodecFinite'
  BY <1>8, <1>10 DEF CodecFinite
<1> QED
  BY <1>5, <1>6, <1>7, <1>11 DEF new

\* The frame that is put, of stamp pts in buffer out, is marked like those in the ring.
LEMMA MarkedInRing ==
  ASSUME StampInv, cur \in Slots, shows \in Nat, DOMAIN ring = Slots, frame = NoFrame,
         UNCHANGED <<play, cur, unflipped>>, NEW out \in Nat \ {0},
         \/ UNCHANGED <<frame, shown, ring>>
         \/ /\ frame' # NoFrame
            /\ ring' = [ring EXCEPT ![cur] = [file |-> shows, buf |-> out]]
            /\ shown' = IF out \in Pool THEN shown \cup {out} ELSE shown
  PROVE  ShownInRing'
<1>1. /\ unflipped \in Nat /\ unflipped' = unflipped /\ shows' = shows /\ cur' = cur
      /\ shown \subseteq Pool
      /\ unflipped = 0 =>
           \A b \in shown : \E s \in Slots : s # cur /\ Live(ring[s]) /\ ring[s].buf = b
  BY DEF StampInv, ShownInRing, Held, play
<1>2. CASE UNCHANGED <<frame, shown, ring>>
  BY <1>1, <1>2 DEF ShownInRing, Held, Live
<1>3. CASE /\ frame' # NoFrame
           /\ ring' = [ring EXCEPT ![cur] = [file |-> shows, buf |-> out]]
           /\ shown' = IF out \in Pool THEN shown \cup {out} ELSE shown
  <2>1. /\ ring'[cur] = [file |-> shows, buf |-> out]
        /\ \A s \in Slots : s # cur => ring'[s] = ring[s]
    BY <1>3
  <2>2. shown' \subseteq Pool
    BY <1>1, <1>3
  <2>3. ASSUME unflipped = 0, NEW b \in shown'
        PROVE  \E s \in Slots : Held(s)' /\ Live(ring[s])' /\ ring'[s].buf = b
    <3>1. CASE b \in shown
      BY <1>1, <2>1, <2>3, <3>1 DEF Held, Live
    <3>2. CASE b \notin shown
      <4>1. b = out /\ out \in Pool
        BY <1>3, <2>3, <3>2
      <4> QED
        BY <1>1, <1>3, <2>1, <4>1 DEF Held, Live
    <3> QED
      BY <3>1, <3>2
  <2> QED
    BY <1>1, <2>2, <2>3 DEF ShownInRing
<1> QED
  BY <1>2, <1>3

\* A packet that gives no frame.
LEMMA PacketMissed ==
  ASSUME StampInv, pos <= Len(file), dce, frame = NoFrame,
         pend' = pend, missed' = missed + 1, pos' = pos + 1, UNCHANGED <<play, frame>>,
         buffered_pts' = Queued(file[pos], 0),
         \A f \in pend : content'[f.buf] = content[f.buf],
         CodecFinite', ShownInRing', FreeBufferFound'
  PROVE  StampInv'
<1>1. pos \in Nat \ {0} /\ missed \in Nat /\ file' = file /\ dce' = dce
  BY DEF StampInv, ContentTrue, play
<1>2. file[pos] \in Nat \ {0}
  BY <1>1, StampsOfFile
<1>3. ContentTrue'
  <2>1. file \in Seq(Nat \ {0})
    BY StampsOfFile
  <2>2. \A f \in pend : /\ content'[f.buf] = f.pts
                        /\ \E i \in 1..Len(file) : i < pos + 1 /\ file[i] = f.pts
    <3>1. SUFFICES ASSUME NEW f \in pend
                   PROVE  /\ content'[f.buf] = f.pts
                          /\ \E i \in 1..Len(file) : i < pos + 1 /\ file[i] = f.pts
      OBVIOUS
    <3>2. content[f.buf] = f.pts /\ \E i \in 1..Len(file) : i < pos /\ file[i] = f.pts
      BY DEF StampInv, ContentTrue
    <3>3. PICK i \in 1..Len(file) : i < pos /\ file[i] = f.pts
      BY <3>2
    <3>4. i < pos + 1
      <4>1. i \in Int /\ pos \in Int
        BY <1>1
      <4> QED
        BY <4>1, <3>3
    <3>5. content'[f.buf] = f.pts
      BY <3>2
    <3> QED
      BY <3>3, <3>4, <3>5
  <2>3. pos' \in Nat \ {0} /\ missed' \in Nat /\ file' \in VideoFiles \cup {<<>>}
    BY <1>1 DEF StampInv, ContentTrue
  <2>4. \A f, g \in pend : f.pts = g.pts => f = g
    BY DEF StampInv, ContentTrue
  <2>5. dce'
    BY <1>1
  <2> QED
    BY <1>1, <2>2, <2>3, <2>4, <2>5 DEF ContentTrue
<1>4. Room' => Queues(pend', buffered_pts', missed') /\ PtsTrue'
  <2>1. SUFFICES ASSUME Room' PROVE Queues(pend', buffered_pts', missed')
    BY DEF PtsTrue
  <2>2. Room
    BY <1>1, <2>1, VideoAssumption DEF Room
  <2>3. Queues(pend, buffered_pts, missed)
    BY <2>2 DEF StampInv
  <2>4. buffered_pts' = buffered_pts \cup {file[pos]} \/ buffered_pts' = buffered_pts
    BY DEF Queued
  <2> QED
    BY <1>1, <1>2, <2>3, <2>4, StampLeft
<1> QED
  BY <1>3, <1>4 DEF StampInv

LEMMA DecodeFailsStamps ==
  ASSUME SteadyInv, StampInv, NEW drop \in BOOLEAN, DecodeFails(drop)
  PROVE  StampInv'
<1>1. /\ picture = "decode" /\ dce /\ pos <= Len(file) /\ getBuffer # 0 /\ pend' = pend
      /\ missed' = missed + 1 /\ pos' = pos + 1
      /\ UNCHANGED <<play, starved, cur, unflipped>>
      /\ buffered_pts' = Queued(file[pos], 0) /\ UNCHANGED <<frame, shown, ring>>
  BY DEF DecodeFails, Put
<1>2. /\ getBuffer \notin locked /\ frame = NoFrame
      /\ cur \in Slots /\ shows \in Nat /\ DOMAIN ring = Slots /\ DOMAIN content = Buffers
      /\ \A f \in pend : f.buf \in locked
  BY <1>1, VideoAssumption, GetBufferFree DEF SteadyInv, Shapes, FrameWaits, CodecHolds
<1>3. PICK junk : content' = [content EXCEPT ![getBuffer] = junk]
  BY DEF DecodeFails
<1>4. \/ locked' = locked /\ ref' = ref
      \/ /\ Cardinality(pend) + Cardinality(ref) + 1 < Dpb
         /\ locked' = locked \cup {getBuffer} /\ ref' = ref \cup {getBuffer}
  BY DEF DecodeFails
<1> HIDE DEF getBuffer
<1>5. \A f \in pend : content'[f.buf] = content[f.buf]
  BY <1>2, <1>3
<1>6. CodecFinite'
  <2>1. /\ IsFiniteSet(pend) /\ IsFiniteSet(ref) /\ locked = {f.buf : f \in pend} \cup ref
        /\ Cardinality(pend) + Cardinality(ref) < Dpb
    BY DEF StampInv, CodecFinite
  <2>2. CASE locked' = locked /\ ref' = ref
    BY <1>1, <2>1, <2>2 DEF CodecFinite
  <2>3. CASE /\ Cardinality(pend) + Cardinality(ref) + 1 < Dpb
             /\ locked' = locked \cup {getBuffer} /\ ref' = ref \cup {getBuffer}
    <3>1. /\ IsFiniteSet(ref') /\ Cardinality(ref') = Cardinality(ref) + 1
          /\ Cardinality(ref) \in Nat
      BY <1>2, <2>1, <2>3, AtMostOneMore
    <3>2. Cardinality(pend) \in Nat /\ Dpb \in Nat
      BY <2>1, FS_CardinalityType, VideoAssumption
    <3>3. Cardinality(pend) + Cardinality(ref') < Dpb
      BY <2>3, <3>1, <3>2
    <3>4. locked' = {f.buf : f \in pend} \cup ref'
      BY <2>1, <2>3
    <3> QED
      BY <1>1, <2>1, <3>1, <3>3, <3>4 DEF CodecFinite
  <2> QED
    BY <1>4, <2>2, <2>3
<1>7. ShownInRing' /\ FreeBufferFound'
  BY <1>1, <1>2 DEF StampInv, ShownInRing, FreeBufferFound, Held, Live, play
<1> QED
  BY <1>1, <1>2, <1>5, <1>6, <1>7, PacketMissed

\* There is always a buffer, but after frames were put and never flipped.
LEMMA DecodeStarvedStamps ==
  ASSUME SteadyInv, StampInv, NEW drop \in BOOLEAN, DecodeStarved(drop)
  PROVE  StampInv'
<1>1. /\ picture = "decode" /\ dce /\ pos <= Len(file) /\ getBuffer = 0
      /\ missed' = missed + 1 /\ pos' = pos + 1
      /\ UNCHANGED <<play, locked, pend, ref, content, cur, unflipped>>
      /\ buffered_pts' = Queued(file[pos], 0) /\ UNCHANGED <<frame, shown, ring>>
  BY DEF DecodeStarved, Put
<1>2. unflipped # 0
  <2>1. SUFFICES ASSUME unflipped = 0 PROVE FALSE
    OBVIOUS
  <2>2. Free # {}
    BY <1>1, <2>1, BufferIsLeft
  <2>3. Free \subseteq Nat \ {0}
    BY BufferNumbers, VideoAssumption DEF Free
  <2>4. Min(Free) \in Free
    BY <2>2, <2>3, MinIsLeast
  <2> QED
    BY <1>1, <2>2, <2>3, <2>4 DEF getBuffer
<1>3. frame = NoFrame
  BY <1>1 DEF SteadyInv, FrameWaits
<1>4. CodecFinite'
  BY <1>1 DEF StampInv, CodecFinite
<1>5. ShownInRing' /\ FreeBufferFound'
  BY <1>1, <1>2 DEF StampInv, ShownInRing, FreeBufferFound, Held, Live, play
<1> QED
  BY <1>1, <1>3, <1>4, <1>5, PacketMissed

\* The frames of the codec and the one a packet was decoded to.
LEMMA FramesAndNew ==
  ASSUME SteadyInv, StampInv, pos <= Len(file), NEW g, g \in Pool, g \notin locked,
         content' = [content EXCEPT ![g] = file[pos]], NEW new, new = [pts |-> file[pos], buf |-> g]
  PROVE  /\ pos \in 1..Len(file) /\ new.pts \in Nat \ {0}
         /\ \A f \in pend \cup {new} : content'[f.buf] = f.pts
         /\ \A f \in pend \cup {new} : \E i \in 1..Len(file) : i < pos + 1 /\ file[i] = f.pts
         /\ \A f, h \in pend \cup {new} : f.pts = h.pts => f = h
<1>1. /\ file \in Seq(Nat \ {0}) /\ \A i, j \in 1..Len(file) : file[i] = file[j] => i = j
  BY StampsOfFile
<1>2. /\ pos \in 1..Len(file)
      /\ \A f \in pend : content[f.buf] = f.pts
      /\ \A f \in pend : \E i \in 1..Len(file) : i < pos /\ file[i] = f.pts
      /\ \A f, h \in pend : f.pts = h.pts => f = h
  BY <1>1 DEF StampInv, ContentTrue
<1>3. new.pts = file[pos] /\ new.buf = g /\ new.pts \in Nat \ {0}
  BY <1>1, <1>2
<1>4. g \in DOMAIN content /\ \A f \in pend : f.buf # g
  BY VideoAssumption, BufferNumbers DEF SteadyInv, Shapes, CodecHolds
<1>5. \A f \in pend \cup {new} : content'[f.buf] = f.pts
  BY <1>2, <1>3, <1>4
<1>6. \A f \in pend \cup {new} : \E i \in 1..Len(file) : i < pos + 1 /\ file[i] = f.pts
  <2>1. \A f \in pend : \E i \in 1..Len(file) : i < pos + 1 /\ file[i] = f.pts
    BY <1>1, <1>2
  <2>2. \E i \in 1..Len(file) : i < pos + 1 /\ file[i] = new.pts
    BY <1>1, <1>2, <1>3
  <2> QED
    BY <2>1, <2>2
<1>7. \A f \in pend : f.pts # file[pos]
  BY <1>1, <1>2
<1>8. \A f, h \in pend \cup {new} : f.pts = h.pts => f = h
  BY <1>2, <1>3, <1>7
<1> QED
  BY <1>2, <1>3, <1>5, <1>6, <1>8

\* The frame that comes out has the least stamp of the codec's, so the queue gives it its own,
\* or one that a lost packet left.
LEMMA DecodePacketStamps ==
  ASSUME SteadyInv, StampInv, NEW drop \in BOOLEAN, DecodePacket(drop)
  PROVE  StampInv'
<1> DEFINE g == getBuffer
           new == [pts |-> file[pos], buf |-> g]
<1>1. /\ picture = "decode" /\ dce /\ pos <= Len(file) /\ g # 0
      /\ content' = [content EXCEPT ![g] = file[pos]] /\ pos' = pos + 1
      /\ UNCHANGED <<play, missed, starved, cur, unflipped>>
  BY DEF DecodePacket
<1>2. PICK out \in {NoFrame} \cup Outputs(pend \cup {new}) :
        \E freed \in SUBSET (ref \cup ({out.buf} \ {0})) :
          /\ pend' = (pend \cup {new}) \ {out}
          /\ ref' = (ref \cup ({out.buf} \ {0})) \ freed
          /\ Cardinality(pend') + Cardinality(ref') < Dpb
          /\ locked' = (locked \cup {g}) \ freed
          /\ Put(Queued(file[pos], out.buf), out.buf, drop)
  BY DEF DecodePacket
<1>3. PICK freed \in SUBSET (ref \cup ({out.buf} \ {0})) :
          /\ pend' = (pend \cup {new}) \ {out}
          /\ ref' = (ref \cup ({out.buf} \ {0})) \ freed
          /\ Cardinality(pend') + Cardinality(ref') < Dpb
          /\ locked' = (locked \cup {g}) \ freed
          /\ Put(Queued(file[pos], out.buf), out.buf, drop)
  BY <1>2
<1>4. g \in Pool /\ g \notin locked /\ g = getBuffer
  BY <1>1, VideoAssumption, GetBufferFree
<1> HIDE DEF g
<1>5. /\ CodecFinite' /\ new \notin pend
      /\ out.buf # 0 => out \in pend \cup {new}
      /\ out.buf = 0 => pend' = pend \cup {new}
  BY <1>1, <1>3, <1>4, DecodePacketHolds
<1>6. out.buf # 0 => \A f \in pend \cup {new} : out.pts <= f.pts
  BY DEF Outputs, NoFrame
<1>7. /\ pos \in 1..Len(file) /\ new.pts = file[pos] /\ new.pts \in Nat \ {0}
      /\ \A f \in pend \cup {new} : content'[f.buf] = f.pts
      /\ \A f \in pend \cup {new} : \E i \in 1..Len(file) : i < pos + 1 /\ file[i] = f.pts
      /\ \A f, h \in pend \cup {new} : f.pts = h.pts => f = h
  BY <1>1, <1>4, FramesAndNew
<1> HIDE DEF new
<1>8. /\ missed \in Nat /\ missed' = missed /\ file' = file /\ dce' = dce /\ shows' = shows
      /\ file \in VideoFiles \cup {<<>>} /\ pos \in Nat \ {0}
  BY <1>1 DEF StampInv, ContentTrue, play
<1>9. ContentTrue'
  <2>1. pend' \subseteq pend \cup {new}
    BY <1>3
  <2> QED
    BY <1>1, <1>7, <1>8, <2>1 DEF ContentTrue
<1>10. frame = NoFrame /\ cur \in Slots /\ shows \in Nat /\ DOMAIN ring = Slots
  BY <1>1 DEF SteadyInv, FrameWaits, Shapes
<1>11. out.buf # 0 => out.buf \in Nat \ {0}
  <2>1. \A f \in pend \cup {new} : f.buf \in Pool
    BY <1>4 DEF new, SteadyInv, CodecHolds
  <2> QED
    BY <1>5, <2>1, BufferNumbers, VideoAssumption
<1>12. ASSUME Room
       PROVE  LET queue == Queued(file[pos], out.buf) IN
              /\ Queues(pend \cup {new}, queue, missed)
  BY <1>5, <1>7, <1>8, <1>12, StampGetsIn, StampQueued DEF StampInv
<1>13. Room' => Room
  BY <1>8 DEF Room
<1>14. CASE out.buf = 0
  <2>1. UNCHANGED <<frame, shown, ring>> /\ buffered_pts' = Queued(file[pos], out.buf)
    BY <1>3, <1>14 DEF Put
  <2>2. ShownInRing' /\ FreeBufferFound'
    BY <1>1, <2>1 DEF StampInv, ShownInRing, FreeBufferFound, Held, Live, play
  <2>3. Room' => Queues(pend', buffered_pts', missed') /\ PtsTrue'
    BY <1>5, <1>8, <1>10, <1>12, <1>13, <1>14, <2>1 DEF PtsTrue
  <2> QED
    BY <1>5, <1>9, <2>2, <2>3 DEF StampInv
<1>15. CASE out.buf # 0
  <2> DEFINE queue == Queued(file[pos], out.buf)
  <2>1. /\ buffered_pts' = IF queue = {} THEN {} ELSE queue \ {Min(queue)}
        /\ \/ UNCHANGED <<frame, shown, ring>>
           \/ /\ frame' = [pts |-> IF queue = {} THEN 0 ELSE Min(queue), buf |-> out.buf]
              /\ ring' = [ring EXCEPT ![cur] = [file |-> shows, buf |-> out.buf]]
              /\ shown' = IF out.buf \in Pool THEN shown \cup {out.buf} ELSE shown
    BY <1>3, <1>15 DEF Put
  <2> HIDE DEF queue
  <2>2. ShownInRing'
    BY <1>1, <1>10, <1>11, <1>15, <2>1, MarkedInRing DEF NoFrame
  <2>3. FreeBufferFound'
    BY <1>1 DEF StampInv, FreeBufferFound
  <2>4. ASSUME Room
        PROVE  /\ queue # {} /\ Min(queue) <= out.pts /\ (missed = 0 => Min(queue) = out.pts)
               /\ Queues((pend \cup {new}) \ {out}, queue \ {Min(queue)}, missed)
    <3>1. Queues(pend \cup {new}, queue, missed)
      BY <1>12, <2>4 DEF queue
    <3> DEFINE frames == pend \cup {new}
    <3>2. /\ out \in frames /\ \A f \in frames : out.pts <= f.pts
          /\ \A f, h \in frames : f.pts = h.pts => f = h
          /\ missed \in Nat /\ Queues(frames, queue, missed)
      BY <1>5, <1>6, <1>7, <1>8, <1>15, <3>1
    <3> HIDE DEF frames
    <3>3. queue # {} /\ Min(queue) <= out.pts
      BY <3>2, StampTaken
    <3>4. ASSUME missed = 0 PROVE Min(queue) = out.pts
      BY <3>2, <3>4, StampTaken
    <3>5. Queues(frames \ {out}, queue \ {Min(queue)}, missed)
      BY <3>2, StampTaken
    <3> QED
      BY <3>3, <3>4, <3>5 DEF frames
  <2>5. Room' => Queues(pend', buffered_pts', missed')
    BY <1>3, <1>8, <1>13, <2>1, <2>4
  <2>6. Room' => PtsTrue'
    <3>1. content'[out.buf] = out.pts
      BY <1>5, <1>7, <1>15
    <3> QED
      BY <1>8, <1>10, <1>13, <2>1, <2>4, <3>1 DEF PtsTrue
  <2> QED
    BY <1>5, <1>9, <2>2, <2>3, <2>5, <2>6 DEF StampInv
<1> QED
  BY <1>14, <1>15

\* A frame that is copied takes the only stamp there is.
LEMMA DecodeSoftwareStamps ==
  ASSUME SteadyInv, StampInv, NEW drop \in BOOLEAN, DecodeSoftware(drop)
  PROVE  StampInv'
<1>1. /\ picture = "decode" /\ ~dce /\ pos <= Len(file) /\ pos' = pos + 1
      /\ UNCHANGED <<play, decoder, cur, unflipped>>
  BY DEF DecodeSoftware
<1>2. /\ pend = {} /\ ref = {} /\ missed = 0 /\ pend' = {} /\ missed' = 0 /\ ref' = ref
      /\ locked' = locked /\ starved' = starved
      /\ file' = file /\ dce' = dce /\ shows' = shows
      /\ pos \in Nat \ {0} /\ file \in VideoFiles \cup {<<>>}
  BY <1>1 DEF StampInv, ContentTrue, decoder, play
<1>3. frame = NoFrame /\ cur \in Slots /\ shows \in Nat /\ DOMAIN ring = Slots /\ DOMAIN content = Buffers
  BY <1>1 DEF SteadyInv, FrameWaits, Shapes
<1>4. CodecFinite' /\ FreeBufferFound' /\ ContentTrue'
  BY <1>1, <1>2 DEF StampInv, CodecFinite, FreeBufferFound, ContentTrue
<1>5. Room' <=> Room
  BY <1>2 DEF Room
<1>6. Own(cur) \in Buffers /\ Own(cur) \notin Pool /\ Own(cur) \in Nat \ {0}
  BY <1>3, BufferNumbers, VideoAssumption
<1>7. CASE UNCHANGED <<shown, content, buffered_pts, ring, frame>>
  <2>1. ShownInRing'
    BY <1>1, <1>2, <1>7 DEF StampInv, ShownInRing, Held, Live
  <2>2. Room' => Queues(pend', buffered_pts', missed') /\ PtsTrue'
    BY <1>2, <1>3, <1>5, <1>7 DEF StampInv, PtsTrue
  <2> QED
    BY <1>4, <2>1, <2>2 DEF StampInv
<1> DEFINE queue == Queued(file[pos], Own(cur))
<1>8. CASE /\ content' = IF drop THEN content ELSE [content EXCEPT ![Own(cur)] = file[pos]]
           /\ Put(queue, Own(cur), drop)
  <2>1. /\ buffered_pts' = IF queue = {} THEN {} ELSE queue \ {Min(queue)}
        /\ \/ UNCHANGED <<frame, shown, ring>>
           \/ /\ frame' = [pts |-> IF queue = {} THEN 0 ELSE Min(queue), buf |-> Own(cur)]
              /\ ring' = [ring EXCEPT ![cur] = [file |-> shows, buf |-> Own(cur)]]
              /\ shown' = IF Own(cur) \in Pool THEN shown \cup {Own(cur)} ELSE shown
              /\ ~drop
    BY <1>6, <1>8 DEF Put
  <2>2. ShownInRing'
    BY <1>1, <1>3, <1>6, <2>1, MarkedInRing DEF NoFrame
  <2>3. file[pos] \in Nat \ {0}
    BY <1>1, <1>2, StampsOfFile
  <2>4. ASSUME Room PROVE queue = {file[pos]} /\ Min(queue) = file[pos]
    <3>1. queue = {file[pos]}
      BY <1>2, <2>4, StampGetsIn DEF StampInv, Queues
    <3>2. Min(queue) \in queue
      BY <2>3, <3>1, MinIsLeast
    <3> QED
      BY <3>1, <3>2
  <2> HIDE DEF queue
  <2>5. Room' => Queues(pend', buffered_pts', missed')
    <3>1. SUFFICES ASSUME Room PROVE buffered_pts' = {}
      BY <1>2, <1>5, FS_EmptySet DEF Queues
    <3> QED
      BY <2>1, <2>4, <3>1
  <2>6. Room' => PtsTrue'
    <3>1. SUFFICES ASSUME Room, ~drop, frame' = [pts |-> file[pos], buf |-> Own(cur)]
                   PROVE  PtsTrue'
      BY <1>3, <1>5, <2>1, <2>3, <2>4 DEF PtsTrue
    <3>2. content'[Own(cur)] = file[pos]
      BY <1>3, <1>6, <1>8, <3>1
    <3> QED
      BY <2>3, <3>1, <3>2 DEF PtsTrue
  <2> QED
    BY <1>4, <2>2, <2>5, <2>6 DEF StampInv
<1> QED
  BY <1>7, <1>8 DEF DecodeSoftware

-----------------------------------------------------------------------------
LEMMA StampInvNext ==
  ASSUME SteadyInv, StampInv, [VideoNext]_videoVars
  PROVE  StampInv'
<1>1. CASE Open
  BY <1>1, OpenStamps
<1>2. ASSUME NEW drop \in BOOLEAN, Decode(drop)
      PROVE  StampInv'
  BY <1>2, DecodePacketStamps, DecodeFailsStamps, DecodeStarvedStamps, DecodeSoftwareStamps
     DEF Decode
<1>3. CASE NoPacket
  BY <1>3, OnlyMovesStamps DEF NoPacket
<1>4. CASE Wait
  BY <1>4, OnlyMovesStamps DEF Wait
<1>5. CASE Flip
  BY <1>5, FlipStamps
<1>6. CASE FlipFails
  BY <1>6, FlipFailsStamps
<1>7. CASE Continue
  BY <1>7, OnlyMovesStamps DEF Continue
<1>8. CASE Seek
  BY <1>8, SeekStamps
<1>9. CASE Close
  BY <1>9, CloseStamps
<1>10. CASE UNCHANGED videoVars
  BY <1>10, OnlyMovesStamps DEF videoVars
<1> QED
  BY <1>1, <1>2, <1>3, <1>4, <1>5, <1>6, <1>7, <1>8, <1>9, <1>10 DEF VideoNext

\* Whatever the files, the order in which frames come out, the buffers given back late and the
\* faults: there is a free buffer for every packet unless frames were put and not flipped, and
\* every frame is shown with its own time stamp; after packets that gave no frame never with a
\* later one, for as long as not so many were lost since the last seek that buffered_pts may be
\* full of their stamps.
THEOREM FramesKeepTheirStamps ==
  VideoSpec => [](FreeBufferFound /\ (Dpb + missed <= MaxBuffered => FramesTrue))
<1>1. VideoInit => SteadyInv /\ StampInv
  BY SteadyInvInit, StampInvInit
<1>2. SteadyInv /\ StampInv /\ [VideoNext]_videoVars => SteadyInv' /\ StampInv'
  BY VideoAssumption, SteadyInvNext, StampInvNext
<1>3. SteadyInv /\ StampInv => FreeBufferFound /\ (Dpb + missed <= MaxBuffered => FramesTrue)
  BY DEF StampInv, Room, FramesTrue
<1> QED
  BY <1>1, <1>2, <1>3, PTL DEF VideoSpec


-----------------------------------------------------------------------------
(* VideoDecode                                                             *)

Aspect == Nat \X (Nat \ {0})
Formats == STRING \cup {"none"}
Screens == [size : Sizes, original : Aspect, aspect : Aspect]
Contexts == [dr1 : BOOLEAN, ip : Int, b : Int, vo : BOOLEAN, fmt : Formats, csp : Formats, sar : Int]
Chains == [size : Sizes \cup {NoSize}, out : Formats, screen : [w : Int, h : Int]]
States == [sh : Screens, ctx : Contexts, chain : Chains, res : {"ok", "fail", "crash"}]
Headers == [size : Sizes, fmt : Formats, sar : Nat]
Pics == [n : Nat \ {0}, img : {"own"} \cup Images, ref : BOOLEAN, size : Sizes]
DecodeShapes ==
  /\ film \in Films /\ codec \in Codecs /\ container \in Aspects /\ sizing \in Sizings
  /\ step \in {"decode", "get", "drain", "out", "put", "crashed"}
  /\ packet \in 1..Len(film) + 1 /\ (step = "get" => packet <= Len(film))
  /\ sh_video \in Screens /\ ctx \in Contexts /\ chain \in Chains /\ avctx \in Headers
  /\ static_idx \in {0, 1} /\ mem \in [Images -> Nat]
  /\ references \in Seq(Pics) /\ late \in SUBSET Pics /\ IsFiniteSet(late)
  /\ pic \in Pics \cup {NoPic} /\ hurried \in BOOLEAN

\* A call begins without a picture, and ends with one if anything is to be put out.
PicInHand == /\ step \in {"get", "drain"} => pic = NoPic
             /\ step \in {"out", "put"} => pic # NoPic

\* Who has an image for pictures nobody refers to, and who one of the two.
DrawnRight(p) == p.img # "own" => (p.img = "temp" <=> ~p.ref)
\* Pictures have the size of the codec, and what is drawn is still there.
PicturesTrue == \A p \in Used : DrawnRight(p) /\ p.size = avctx.size /\ (p.img # "own" => mem[p.img] = p.n)

\* The counters are not behind.
Drawn(s, kept) == {p \in s : p.img # "own" /\ p.ref = kept}
Covers(c, s) ==
  c.ip >= Cardinality(Drawn(s, TRUE)) /\ c.b >= Cardinality(Drawn(s, FALSE))
Counted == Covers(ctx, Used)

\* Of the two images the one that is next is given back first.
Image(i) == IF i = 0 THEN "static0" ELSE "static1"
Turn(frames, i) ==
  \A k \in 1..Len(frames) : frames[k].img = Image(i) =>
     \E j \in k + 1..Len(frames) : frames[j].img = Image(1 - i)
InTurn == /\ Turn(references, static_idx)
          /\ \A p \in late : p.img # Image(static_idx)
          /\ codec.delay = 0 => late = {}

\* A display that counts as configured is.
DisplayTrue ==
  ctx.vo => /\ chain.size = sh_video.size /\ chain.out \in Range(codec.outfmt) \cap Display
            /\ chain.screen = ScreenSize(chain.size, sh_video.aspect)

\* After a picture was refused the display has the size of the codec, and so has the next image.
RefusedOnce ==
  \/ refused = NoRefusal
  \/ /\ refused = [size |-> avctx.size, times |-> 1] /\ chain.size = avctx.size
     /\ step \in {"get", "drain", "out"} => mpi = NoMpi \/ mpi.size = avctx.size

PutTrue == step = "put" => /\ ctx.vo /\ mpi.n = pic.n /\ mpi.size = pic.size /\ chain.size = pic.size

AspectTrue ==
  OneSar =>
    /\ Used # {} => avctx.sar = film[1].sar
    /\ ctx.sar \in {UnsetSar, film[1].sar}
    /\ container[1] # 0 => sh_video.original = container /\ (ctx.vo => sh_video.aspect = container)

DecodeInv == DecodeShapes /\ PicInHand /\ PicturesTrue /\ Counted /\ InTurn /\ DisplayTrue /\ RefusedOnce /\ PutTrue /\ AspectTrue

-----------------------------------------------------------------------------
(* Configuring the display.                                                *)

\* A format is chosen that is listed and that the display takes.
LEMMA OutFormatListed ==
  ASSUME codec \in Codecs, NEW c
  PROVE  /\ OutFormat(c) = "none" \/ OutFormat(c) \in Range(codec.outfmt) \cap Display
         /\ OutFormat(c) \in Formats
<1> DEFINE common == {i \in DOMAIN codec.outfmt : Gives(c, codec.outfmt[i]) /\ codec.outfmt[i] \in Display}
<1>1. codec.outfmt \in Seq(STRING) /\ Range(codec.outfmt) \subseteq Formats
  BY DecodeAssumption DEF Range, Formats
<1>2. CASE c.csp \in Range(codec.outfmt) \cap Display
  BY <1>1, <1>2 DEF OutFormat
<1>3. CASE c.csp \notin Range(codec.outfmt) \cap Display /\ common = {}
  <2>1. OutFormat(c) = "none"
    BY <1>3 DEF OutFormat
  <2> QED
    BY <2>1 DEF Formats
<1>4. CASE c.csp \notin Range(codec.outfmt) \cap Display /\ common # {}
  <2>1. common \subseteq Nat /\ common \subseteq DOMAIN codec.outfmt
    BY <1>1
  <2>2. \E i \in common : \A j \in common : i <= j
    BY <1>4, <2>1, Least
  <2>3. Min(common) \in common
    BY <2>2 DEF Min
  <2>4. OutFormat(c) = codec.outfmt[Min(common)]
    BY <1>4 DEF OutFormat
  <2> HIDE DEF common
  <2>5. codec.outfmt[Min(common)] \in Display
    BY <2>3 DEF common
  <2>6. codec.outfmt[Min(common)] \in Range(codec.outfmt)
    BY <2>1, <2>3 DEF Range
  <2> QED
    BY <1>1, <2>4, <2>5, <2>6
<1> QED
  BY <1>2, <1>3, <1>4

LEMMA MaxOfTwo ==
  ASSUME NEW a \in Int, NEW b \in Int
  PROVE  Max({a, b}) \in {a, b} /\ Max({a, b}) >= a /\ Max({a, b}) >= b
<1>1. \E x \in {a, b} : \A y \in {a, b} : x >= y
  OBVIOUS
<1> QED
  BY <1>1 DEF Max

LEMMA EvenFacts ==
  ASSUME NEW n \in Int
  PROVE  Even(n) \in Int /\ n <= Even(n) /\ Even(n) <= n + 1 /\ (Even(n) = 0 \/ Even(n) >= 2 \/ Even(n) < 0)
<1>1. n % 2 \in 0..1
  OBVIOUS
<1>2. n \div 2 \in Int /\ n = 2 * (n \div 2) + (n % 2)
  OBVIOUS
<1> DEFINE half == n \div 2
           odd == n % 2
<1>3. Even(n) = n + odd
  BY DEF Even
<1> HIDE DEF half, odd
<1>4. half \in Int /\ odd \in 0..1 /\ n = 2 * half + odd
  BY <1>1, <1>2 DEF half, odd
<1> QED
  BY <1>3, <1>4

\* A new format or sample aspect takes the display back, and decides on the aspect.
LEMMA UpdateFacts ==
  ASSUME codec \in Codecs, NEW d \in States, NEW av \in Headers, NEW ignore \in BOOLEAN
  PROVE  LET u == Update(d, av, ignore) IN
         /\ u \in States /\ u.chain = d.chain /\ u.res = d.res
         /\ u.sh.size = d.sh.size /\ u.sh.aspect = d.sh.aspect
         /\ u.ctx.ip = d.ctx.ip /\ u.ctx.b = d.ctx.b
         /\ (u.sh = d.sh /\ u.ctx = d.ctx) \/ u.ctx.vo = FALSE
         /\ u.ctx.sar = d.ctx.sar \/ (~ignore /\ u.ctx.sar = av.sar)
         /\ \/ u.sh.original = d.sh.original
            \/ ~ignore /\ (d.sh.original[1] = 0 \/ (av.sar # d.ctx.sar /\ d.ctx.sar # UnsetSar))
<1> DEFINE o == AspectOf(d, av, ignore)
           sar == IF ignore THEN d.ctx.sar ELSE av.sar
           c2 == [d.ctx EXCEPT !.vo = FALSE, !.dr1 = codec.direct, !.sar = sar, !.fmt = av.fmt,
                               !.csp = av.fmt]
           u == [d EXCEPT !.sh.original = o, !.ctx = c2]
           changes == (~ignore /\ av.sar # d.ctx.sar) \/ av.fmt # d.ctx.fmt \/ ~d.ctx.vo
<1>1. Update(d, av, ignore) = IF changes THEN u ELSE d
  <2>1. c2 = [d.ctx EXCEPT !.vo = FALSE, !.dr1 = codec.direct, !.sar = IF ignore THEN @ ELSE av.sar,
                           !.fmt = av.fmt, !.csp = av.fmt]
    BY DEF States, Contexts
  <2> HIDE DEF c2
  <2> QED
    BY <2>1 DEF Update
<1>2. o \in Aspect
  <2>1. av.sar * av.size.w \in Nat /\ av.size.h \in Nat \ {0}
    BY DEF Headers, Sizes
  <2> QED
    BY <2>1 DEF AspectOf, States, Screens, Aspect
<1>3. \/ o = d.sh.original
      \/ ~ignore /\ (d.sh.original[1] = 0 \/ (av.sar # d.ctx.sar /\ d.ctx.sar # UnsetSar))
  BY DEF AspectOf
<1>4. codec.direct \in BOOLEAN
  BY DecodeAssumption
<1>5. sar \in Int /\ (sar = d.ctx.sar \/ (~ignore /\ sar = av.sar))
  BY DEF States, Contexts, Headers
<1> HIDE DEF o, sar
<1>6. /\ c2 \in Contexts /\ c2.ip = d.ctx.ip /\ c2.b = d.ctx.b /\ c2.vo = FALSE /\ c2.sar = sar
  BY <1>4, <1>5 DEF States, Contexts, Headers
<1> HIDE DEF c2
<1>7. /\ u \in States /\ u.chain = d.chain /\ u.res = d.res /\ u.ctx = c2
      /\ u.sh.size = d.sh.size /\ u.sh.aspect = d.sh.aspect /\ u.sh.original = o
  BY <1>2, <1>6 DEF States, Screens
<1> HIDE DEF u
<1>8. CASE changes
  BY <1>1, <1>3, <1>5, <1>6, <1>7, <1>8
<1>9. CASE ~changes
  BY <1>1, <1>9
<1> QED
  BY <1>8, <1>9
-----------------------------------------------------------------------------
(* The size on the screen.                                                 *)

LEMMA Quotient ==
  ASSUME NEW n \in Nat, NEW k \in Nat \ {0}
  PROVE  n \div k \in Nat /\ (n \div k) * k <= n /\ n < (n \div k) * k + k
<1> DEFINE q == n \div k
           r == n % k
<1>1. q \in Int /\ r \in 0..k - 1 /\ n = k * q + r
  OBVIOUS
<1> HIDE DEF q, r
<1>2. ASSUME q < 0 PROVE FALSE
  <2>1. k * q <= k * (-1)
    BY <1>1, <1>2
  <2> QED
    BY <1>1, <2>1
<1>3. q * k = k * q /\ k * q \in Int
  BY <1>1
<1>4. q \in Nat /\ q * k <= n /\ n < q * k + k
  BY <1>1, <1>2, <1>3
<1> QED
  BY <1>4 DEF q

\* What the picture is scaled to by -xy, before its aspect counts.
Scaled(size) ==
  IF sizing.xy = 0 THEN size
  ELSE IF sizing.xy <= 8 THEN [w |-> size.w * sizing.xy, h |-> size.h * sizing.xy]
  ELSE [w |-> sizing.xy, h |-> (sizing.xy * size.h) \div size.w]
\* With that aspect the picture has a line, and without it more than one of both.
HasLines(size, aspect) ==
  size.w >= 2 /\ size.h >= 2 /\ aspect[1] <= Scaled(size).w * aspect[2]

LEMMA ScaledFacts ==
  ASSUME sizing \in Sizings, NEW size \in Sizes
  PROVE  /\ Scaled(size) \in [w : Nat, h : Nat]
         /\ sizing.xy <= 8 => Scaled(size).w >= size.w /\ Scaled(size).h >= size.h
         /\ sizing.xy > 8 => Scaled(size).w = sizing.xy
<1>1. sizing.xy \in Nat /\ size.w \in Nat \ {0} /\ size.h \in Nat \ {0}
  BY DecodeAssumption DEF Sizes
<1>2. CASE sizing.xy = 0
  BY <1>1, <1>2 DEF Scaled, Sizes
<1>3. CASE sizing.xy # 0 /\ sizing.xy <= 8
  <2>1. size.w * sizing.xy \in Nat /\ size.h * sizing.xy \in Nat
    BY <1>1
  <2>2. size.w * sizing.xy >= size.w /\ size.h * sizing.xy >= size.h
    BY <1>1, <1>3
  <2>3. Scaled(size) = [w |-> size.w * sizing.xy, h |-> size.h * sizing.xy]
    BY <1>3 DEF Scaled
  <2> QED
    BY <1>1, <1>3, <2>1, <2>2, <2>3
<1>4. CASE sizing.xy > 8
  <2>1. sizing.xy * size.h \in Nat
    BY <1>1
  <2>2. (sizing.xy * size.h) \div size.w \in Nat
    BY <1>1, <2>1, Quotient
  <2>3. Scaled(size) = [w |-> sizing.xy, h |-> (sizing.xy * size.h) \div size.w]
    BY <1>1, <1>4 DEF Scaled
  <2> QED
    BY <1>1, <1>4, <2>2, <2>3
<1> QED
  BY <1>1, <1>2, <1>3, <1>4

\* The other side of the picture, rounded to an even number, keeps its shape but for the rounding.
LEMMA Rounded ==
  ASSUME NEW side \in Nat, NEW a \in Nat, NEW b \in Nat \ {0}
  PROVE  LET other == Even((side * a) \div b) IN
         /\ other \in Nat /\ Abs(other * b - side * a) <= b /\ Abs(side * a - other * b) <= b
         /\ side * a >= b => other >= 2
<1> DEFINE p == side * a
           q == p \div b
           other == Even(q)
           diff == other * b - p
<1>1. p \in Nat
  OBVIOUS
<1> HIDE DEF p
<1>2. q \in Nat /\ q * b <= p /\ p < q * b + b
  BY <1>1, Quotient
<1> HIDE DEF q
<1>3. other \in Nat /\ other \in {q, q + 1} /\ (other = 0 \/ other >= 2)
  <2>1. q \in Int /\ other = Even(q)
    BY <1>2 DEF q, p
  <2> HIDE DEF other
  <2>2. /\ other \in Int /\ q <= other /\ other <= q + 1
        /\ other = 0 \/ other >= 2 \/ other < 0
    BY <2>1, EvenFacts
  <2> QED
    BY <1>2, <2>2
<1> HIDE DEF other
<1>4. q * b \in Nat /\ (q + 1) * b = q * b + b
  BY <1>2
<1>5. other * b \in {q * b, q * b + b}
  BY <1>2, <1>3, <1>4
<1>6. diff \in Int /\ -b <= diff /\ diff <= b /\ p - other * b = -diff
  BY <1>1, <1>2, <1>4, <1>5
<1>7. Abs(diff) <= b /\ Abs(-diff) <= b
  <2> HIDE DEF diff
  <2>1. diff \in Int /\ -diff \in Int /\ -(-diff) = diff
    BY <1>6
  <2>2. Max({diff, -diff}) \in {diff, -diff}
    BY <2>1, MaxOfTwo
  <2>3. Max({-diff, -(-diff)}) \in {-diff, -(-diff)}
    BY <2>1, MaxOfTwo
  <2> QED
    BY <1>6, <2>1, <2>2, <2>3 DEF Abs
<1>8. p >= b => other >= 2
  <2>1. ASSUME p >= b PROVE q # 0
    BY <1>1, <1>2, <2>1
  <2> QED
    BY <1>2, <1>3, <2>1
<1> QED
  BY <1>3, <1>6, <1>7, <1>8 DEF p, q, other

\* What mpcodecs_config_vo makes of it for an aspect.
Fitted(size, aspect) ==
  LET start == Scaled(size)
      wide == Even((start.h * aspect[1]) \div aspect[2]) IN
  IF aspect[1] = 0 THEN start
  ELSE IF wide < start.w \/ sizing.xy > 8
  THEN [start EXCEPT !.h = Even((start.w * aspect[2]) \div aspect[1])]
  ELSE [start EXCEPT !.w = wide]

LEMMA FittedFacts ==
  ASSUME sizing \in Sizings, NEW size \in Sizes, NEW aspect \in Aspect
  PROVE  LET f == Fitted(size, aspect) IN
         /\ f \in [w : Nat, h : Nat]
         /\ sizing.xy <= 8 => f.w >= size.w
         /\ aspect[1] # 0 => \/ Abs(f.w * aspect[2] - f.h * aspect[1]) <= aspect[1]
                             \/ Abs(f.w * aspect[2] - f.h * aspect[1]) <= aspect[2]
         /\ HasLines(size, aspect) /\ aspect[1] # 0 => f.w >= 2 /\ f.h >= 2
<1> DEFINE w == Scaled(size).w
           h == Scaled(size).h
           a == aspect[1]
           b == aspect[2]
           f == Fitted(size, aspect)
           wide == Even((h * a) \div b)
           tall == Even((w * b) \div a)
<1>1. /\ w \in Nat /\ h \in Nat /\ Scaled(size) = [w |-> w, h |-> h]
      /\ sizing.xy <= 8 => w >= size.w /\ h >= size.h
      /\ sizing.xy > 8 => w = sizing.xy
  <2>1. Scaled(size) \in [w : Nat, h : Nat]
    BY ScaledFacts
  <2>2. Scaled(size) = [w |-> w, h |-> h] /\ w \in Nat /\ h \in Nat
    BY <2>1
  <2> QED
    BY <2>2, ScaledFacts
<1>2. a \in Nat /\ b \in Nat \ {0} /\ sizing.xy \in Nat /\ size.w \in Nat /\ size.h \in Nat
  BY DecodeAssumption DEF Aspect, Sizes
<1>3. HasLines(size, aspect) => size.w >= 2 /\ size.h >= 2 /\ a <= w * b
  BY DEF HasLines
<1>4. f = IF a = 0 THEN [w |-> w, h |-> h]
          ELSE IF wide < w \/ sizing.xy > 8 THEN [w |-> w, h |-> tall] ELSE [w |-> wide, h |-> h]
  <2>1. f = IF a = 0 THEN Scaled(size)
            ELSE IF wide < w \/ sizing.xy > 8 THEN [Scaled(size) EXCEPT !.h = tall]
            ELSE [Scaled(size) EXCEPT !.w = wide]
    BY DEF Fitted
  <2> HIDE DEF f, w, h, wide, tall
  <2> QED
    BY <1>1, <2>1
<1> HIDE DEF f
<1>5. wide \in Nat /\ Abs(wide * b - h * a) <= b
  <2> HIDE DEF a, b, w, h
  <2> QED
    BY <1>1, <1>2, Rounded
<1>6. a # 0 => tall \in Nat /\ Abs(w * b - tall * a) <= a /\ (w * b >= a => tall >= 2)
  <2> HIDE DEF a, b, w, h
  <2> QED
    BY <1>1, <1>2, Rounded
<1> HIDE DEF wide, tall, w, h, a, b
<1>7. CASE a = 0
  <2>1. f = [w |-> w, h |-> h]
    BY <1>4, <1>7
  <2>2. f \in [w : Nat, h : Nat] /\ (sizing.xy <= 8 => f.w >= size.w)
    BY <1>1, <2>1
  <2> QED
    BY <1>7, <2>2 DEF f, a
<1>8. CASE a # 0 /\ (wide < w \/ sizing.xy > 8)
  <2>1. f = [w |-> w, h |-> tall]
    BY <1>4, <1>8
  <2>2. /\ f \in [w : Nat, h : Nat] /\ (sizing.xy <= 8 => f.w >= size.w)
        /\ Abs(f.w * b - f.h * a) <= a
    BY <1>1, <1>6, <1>8, <2>1
  <2>3. ASSUME HasLines(size, aspect) PROVE f.w >= 2 /\ f.h >= 2
    <3>1. w * b \in Nat
      BY <1>1, <1>2
    <3>2. w >= 2
      BY <1>1, <1>2, <1>3, <2>3
    <3> QED
      BY <1>1, <1>2, <1>3, <1>6, <1>8, <2>1, <2>3, <3>1, <3>2
  <2> QED
    BY <2>2, <2>3 DEF f, a, b
<1>9. CASE a # 0 /\ ~ (wide < w \/ sizing.xy > 8)
  <2>1. f = [w |-> wide, h |-> h]
    BY <1>4, <1>9
  <2>2. wide >= w /\ sizing.xy <= 8
    BY <1>1, <1>2, <1>5, <1>9
  <2>3. /\ f \in [w : Nat, h : Nat] /\ (sizing.xy <= 8 => f.w >= size.w)
        /\ Abs(f.w * b - f.h * a) <= b
    BY <1>1, <1>2, <1>5, <2>1, <2>2
  <2>4. ASSUME HasLines(size, aspect) PROVE f.w >= 2 /\ f.h >= 2
    BY <1>1, <1>2, <1>3, <1>5, <2>1, <2>2, <2>4
  <2> QED
    BY <2>3, <2>4 DEF f, a, b
<1> QED
  BY <1>7, <1>8, <1>9 DEF a

\* On the screen a picture keeps its shape, but for the rounding, and is not made narrower.
LEMMA ScreenFacts ==
  ASSUME sizing \in Sizings, NEW size \in Sizes, NEW aspect \in Aspect
  PROVE  LET s == ScreenSize(size, aspect) IN
         /\ s \in [w : Int, h : Int]
         /\ sizing.x = 0 /\ sizing.y = 0 =>
              /\ sizing.xy <= 8 => s.w >= size.w
              /\ HasLines(size, aspect) /\ aspect[1] # 0 =>
                   Abs(s.w * aspect[2] - s.h * aspect[1]) <= Max({aspect[1], aspect[2]})
<1> DEFINE f == Fitted(size, aspect)
           s == ScreenSize(size, aspect)
           wished(wish, n) == IF wish = 0 THEN n ELSE IF wish <= 8 THEN wish * n ELSE wish
<1>1. s = IF sizing.x # 0 \/ sizing.y # 0
          THEN [w |-> wished(sizing.x, size.w), h |-> wished(sizing.y, size.h)]
          ELSE [w |-> Max({f.w, 2}), h |-> Max({f.h, 2})]
  BY DEF ScreenSize, Fitted, Scaled
<1>2. /\ sizing.x \in Nat /\ sizing.y \in Nat /\ sizing.xy \in Nat
      /\ size.w \in Nat /\ size.h \in Nat /\ aspect[1] \in Nat /\ aspect[2] \in Nat
  BY DecodeAssumption DEF Sizes, Aspect
<1>3. /\ f.w \in Nat /\ f.h \in Nat /\ (sizing.xy <= 8 => f.w >= size.w)
      /\ aspect[1] # 0 => \/ Abs(f.w * aspect[2] - f.h * aspect[1]) <= aspect[1]
                          \/ Abs(f.w * aspect[2] - f.h * aspect[1]) <= aspect[2]
      /\ HasLines(size, aspect) /\ aspect[1] # 0 => f.w >= 2 /\ f.h >= 2
  <2>1. f \in [w : Nat, h : Nat]
    BY FittedFacts
  <2> QED
    BY <2>1, FittedFacts
<1> HIDE DEF s, f
<1>4. CASE sizing.x # 0 \/ sizing.y # 0
  <2>1. wished(sizing.x, size.w) \in Int /\ wished(sizing.y, size.h) \in Int
    BY <1>2
  <2> HIDE DEF wished
  <2>2. s \in [w : Int, h : Int]
    BY <1>1, <1>4, <2>1
  <2> QED
    BY <1>4, <2>2 DEF s
<1>5. CASE ~ (sizing.x # 0 \/ sizing.y # 0)
  <2>1. /\ s = [w |-> Max({f.w, 2}), h |-> Max({f.h, 2})]
    BY <1>1, <1>5
  <2> f.w \in Int /\ f.h \in Int /\ 2 \in Int
    BY <1>3
  <2>2. /\ Max({f.w, 2}) \in {f.w, 2} /\ Max({f.w, 2}) >= f.w /\ Max({f.w, 2}) >= 2
    BY MaxOfTwo
  <2>3. /\ Max({f.h, 2}) \in {f.h, 2} /\ Max({f.h, 2}) >= f.h /\ Max({f.h, 2}) >= 2
    BY MaxOfTwo
  <2>4. s \in [w : Int, h : Int] /\ (sizing.xy <= 8 => s.w >= size.w)
    BY <1>2, <1>3, <2>1, <2>2, <2>3
  <2>5. ASSUME HasLines(size, aspect), aspect[1] # 0
        PROVE  Abs(s.w * aspect[2] - s.h * aspect[1]) <= Max({aspect[1], aspect[2]})
    <3>1. s.w = f.w /\ s.h = f.h
      BY <1>3, <2>1, <2>2, <2>3, <2>5
    <3> DEFINE off == f.w * aspect[2] - f.h * aspect[1]
    <3>2. off \in Int
      BY <1>2, <1>3
    <3>3. off <= Abs(off) /\ Abs(off) \in {off, -off}
      <4> HIDE DEF off
      <4>1. -off \in Int
        BY <3>2
      <4> QED
        BY <3>2, <4>1, MaxOfTwo DEF Abs
    <3>4. Abs(off) <= aspect[1] \/ Abs(off) <= aspect[2]
      BY <1>3, <2>5
    <3>5. /\ Max({aspect[1], aspect[2]}) \in Nat /\ Max({aspect[1], aspect[2]}) >= aspect[1]
          /\ Max({aspect[1], aspect[2]}) >= aspect[2]
      <4>1. aspect[1] \in Int /\ aspect[2] \in Int
        BY <1>2
      <4>2. /\ Max({aspect[1], aspect[2]}) \in {aspect[1], aspect[2]}
            /\ Max({aspect[1], aspect[2]}) >= aspect[1] /\ Max({aspect[1], aspect[2]}) >= aspect[2]
        BY <4>1, MaxOfTwo
      <4> QED
        BY <1>2, <4>2
    <3>6. Abs(s.w * aspect[2] - s.h * aspect[1]) = Abs(off)
      BY <3>1
    <3> HIDE DEF off
    <3>7. Abs(off) \in Int
      BY <3>2, <3>3
    <3> QED
      BY <1>2, <3>4, <3>5, <3>6, <3>7
  <2> QED
    BY <1>5, <2>4, <2>5 DEF s
<1> QED
  BY <1>4, <1>5

-----------------------------------------------------------------------------
(* The display configured.                                                 *)

DisplayOf(d) ==
  d.ctx.vo => /\ d.chain.size = d.sh.size /\ d.chain.out \in Range(codec.outfmt) \cap Display
              /\ d.chain.screen = ScreenSize(d.chain.size, d.sh.aspect)

LEMMA ConfigVoFacts ==
  ASSUME sizing \in Sizings, NEW d \in States, NEW out \in Formats
  PROVE  LET u == ConfigVo(d, out) IN
         /\ u \in States
         /\ out = "none" => u.res = "crash"
         /\ out # "none" =>
              /\ u.res = d.res /\ u.ctx.vo = TRUE
              /\ u.sh.size = d.sh.size /\ u.sh.original = d.sh.original /\ u.sh.aspect = d.sh.original
              /\ u.chain.size = d.sh.size /\ u.chain.out = out
              /\ u.chain.screen = ScreenSize(d.sh.size, d.sh.original)
              /\ u.ctx.ip = d.ctx.ip /\ u.ctx.b = d.ctx.b /\ u.ctx.sar = d.ctx.sar
<1> DEFINE screen == ScreenSize(d.sh.size, d.sh.original)
<1>1. d.sh \in Screens /\ d.ctx \in Contexts /\ d.chain \in Chains
  BY DEF States
<1>2. d.sh.size \in Sizes /\ d.sh.original \in Aspect
  BY <1>1 DEF Screens
<1>3. screen \in [w : Int, h : Int]
  BY <1>2, ScreenFacts
<1>4. CASE out = "none"
  <2>1. ConfigVo(d, out) = [d EXCEPT !.res = "crash"]
    BY <1>4 DEF ConfigVo
  <2> QED
    BY <1>4, <2>1 DEF States
<1>5. CASE out # "none"
  <2>1. ConfigVo(d, out) = [d EXCEPT !.sh.aspect = d.sh.original,
                                     !.chain = [size |-> d.sh.size, out |-> out, screen |-> screen],
                                     !.ctx.vo = TRUE]
    BY <1>5 DEF ConfigVo
  <2> HIDE DEF screen
  <2>2. [size |-> d.sh.size, out |-> out, screen |-> screen] \in Chains
    BY <1>2, <1>3 DEF Chains
  <2>3. [d.sh EXCEPT !.aspect = d.sh.original] \in Screens
    BY <1>1, <1>2 DEF Screens
  <2>4. [d.ctx EXCEPT !.vo = TRUE] \in Contexts
    BY <1>1 DEF Contexts
  <2>5. ConfigVo(d, out) \in States
    BY <2>1, <2>2, <2>3, <2>4 DEF States
  <2>6. /\ ConfigVo(d, out).sh = [d.sh EXCEPT !.aspect = d.sh.original]
        /\ ConfigVo(d, out).ctx = [d.ctx EXCEPT !.vo = TRUE]
        /\ ConfigVo(d, out).chain = [size |-> d.sh.size, out |-> out, screen |-> screen]
        /\ ConfigVo(d, out).res = d.res
    BY <2>1 DEF States
  <2> HIDE DEF ConfigVo
  <2>7. [d.sh EXCEPT !.aspect = d.sh.original].aspect = d.sh.original
    BY <1>1 DEF Screens
  <2>8. /\ [d.sh EXCEPT !.aspect = d.sh.original].size = d.sh.size
        /\ [d.sh EXCEPT !.aspect = d.sh.original].original = d.sh.original
    BY <1>1 DEF Screens
  <2>9. /\ [d.ctx EXCEPT !.vo = TRUE].vo = TRUE /\ [d.ctx EXCEPT !.vo = TRUE].ip = d.ctx.ip
        /\ [d.ctx EXCEPT !.vo = TRUE].b = d.ctx.b /\ [d.ctx EXCEPT !.vo = TRUE].sar = d.ctx.sar
    BY <1>1 DEF Contexts
  <2> QED
    BY <1>5, <2>5, <2>6, <2>7, <2>8, <2>9 DEF screen
<1> QED
  BY <1>4, <1>5

\* Whatever it was asked for, a display that is configured is so for the size of the codec.
LEMMA InitVoFacts ==
  ASSUME codec \in Codecs, sizing \in Sizings, NEW d \in States, d.res = "ok", DisplayOf(d),
         NEW av \in Headers, NEW ignore \in BOOLEAN
  PROVE  LET u == InitVo(d, av, ignore) IN
         /\ u \in States
         /\ u.res = "fail" => u.sh = d.sh /\ u.chain = d.chain /\ u.ctx = d.ctx
         /\ u.res = "ok" =>
              /\ u.ctx.vo = TRUE /\ u.sh.size = av.size /\ u.chain.size = av.size /\ DisplayOf(u)
              /\ u.ctx.ip = d.ctx.ip /\ u.ctx.b = d.ctx.b
              /\ u.ctx.sar = d.ctx.sar \/ (~ignore /\ u.ctx.sar = av.sar)
              /\ \/ u.sh.original = d.sh.original
                 \/ ~ignore /\ (d.sh.original[1] = 0 \/ (av.sar # d.ctx.sar /\ d.ctx.sar # UnsetSar))
              /\ \/ u.sh.aspect = u.sh.original
                 \/ u.sh.original = d.sh.original /\ u.sh.aspect = d.sh.aspect /\ d.ctx.vo
<1> DEFINE d1 == [d EXCEPT !.ctx.vo = @ /\ av.size = d.sh.size]
           d2 == Update(d1, av, ignore)
           d3 == [d2 EXCEPT !.sh.size = av.size]
           u == InitVo(d, av, ignore)
<1>1. d.sh \in Screens /\ d.ctx \in Contexts /\ d.chain \in Chains
  BY DEF States
<1>2. /\ d1 \in States /\ d1.sh = d.sh /\ d1.chain = d.chain /\ d1.res = d.res
      /\ d1.ctx.vo = (d.ctx.vo /\ av.size = d.sh.size)
      /\ d1.ctx.ip = d.ctx.ip /\ d1.ctx.b = d.ctx.b /\ d1.ctx.sar = d.ctx.sar
  <2>1. d1 = [d EXCEPT !.ctx = [d.ctx EXCEPT !.vo = (d.ctx.vo /\ av.size = d.sh.size)]]
    BY <1>1 DEF States
  <2> DEFINE c1 == [d.ctx EXCEPT !.vo = (d.ctx.vo /\ av.size = d.sh.size)]
  <2>2. (d.ctx.vo /\ av.size = d.sh.size) \in BOOLEAN
    OBVIOUS
  <2>3. /\ c1 \in Contexts /\ c1.vo = (d.ctx.vo /\ av.size = d.sh.size)
        /\ c1.ip = d.ctx.ip /\ c1.b = d.ctx.b /\ c1.sar = d.ctx.sar
    BY <1>1, <2>2 DEF Contexts
  <2> HIDE DEF c1
  <2>4. /\ [d EXCEPT !.ctx = c1] \in States /\ [d EXCEPT !.ctx = c1].ctx = c1
        /\ [d EXCEPT !.ctx = c1].sh = d.sh /\ [d EXCEPT !.ctx = c1].chain = d.chain
        /\ [d EXCEPT !.ctx = c1].res = d.res
    BY <2>3 DEF States
  <2> QED
    BY <2>1, <2>3, <2>4 DEF c1
<1> HIDE DEF d1
<1>3. /\ d2 \in States /\ d2.chain = d.chain /\ d2.res = "ok"
      /\ d2.sh.size = d.sh.size /\ d2.sh.aspect = d.sh.aspect
      /\ d2.ctx.ip = d.ctx.ip /\ d2.ctx.b = d.ctx.b
      /\ (d2.sh = d.sh /\ d2.ctx = d1.ctx) \/ d2.ctx.vo = FALSE
      /\ d2.ctx.sar = d.ctx.sar \/ (~ignore /\ d2.ctx.sar = av.sar)
      /\ \/ d2.sh.original = d.sh.original
         \/ ~ignore /\ (d.sh.original[1] = 0 \/ (av.sar # d.ctx.sar /\ d.ctx.sar # UnsetSar))
  <2>1. /\ d2 \in States /\ d2.chain = d1.chain /\ d2.res = d1.res
        /\ d2.sh.size = d1.sh.size /\ d2.sh.aspect = d1.sh.aspect
        /\ d2.ctx.ip = d1.ctx.ip /\ d2.ctx.b = d1.ctx.b
        /\ (d2.sh = d1.sh /\ d2.ctx = d1.ctx) \/ d2.ctx.vo = FALSE
        /\ d2.ctx.sar = d1.ctx.sar \/ (~ignore /\ d2.ctx.sar = av.sar)
        /\ \/ d2.sh.original = d1.sh.original
           \/ ~ignore /\ (d1.sh.original[1] = 0 \/ (av.sar # d1.ctx.sar /\ d1.ctx.sar # UnsetSar))
    BY <1>2, UpdateFacts
  <2> HIDE DEF d2
  <2> QED
    BY <1>2, <2>1
<1>4. u = IF av.fmt \notin Range(codec.outfmt) THEN [d EXCEPT !.res = "fail"]
          ELSE IF d2.ctx.vo THEN d2 ELSE ConfigVo(d3, OutFormat(d2.ctx))
  BY DEF InitVo, Configure, d1
<1> HIDE DEF d2, u
<1>5. CASE av.fmt \notin Range(codec.outfmt)
  <2>1. u = [d EXCEPT !.res = "fail"]
    BY <1>4, <1>5
  <2>2. u \in States /\ u.res = "fail" /\ u.sh = d.sh /\ u.chain = d.chain /\ u.ctx = d.ctx
    BY <2>1 DEF States
  <2> QED
    BY <2>2 DEF u
<1>6. CASE av.fmt \in Range(codec.outfmt) /\ d2.ctx.vo
  <2>1. u = d2 /\ d2.sh = d.sh /\ d2.ctx = d1.ctx
    BY <1>3, <1>4, <1>6
  <2>2. d.ctx.vo /\ av.size = d.sh.size /\ u.ctx.vo = TRUE
    BY <1>2, <1>6, <2>1 DEF States, Contexts
  <2>3. d.chain.size = av.size /\ DisplayOf(u)
    BY <1>3, <2>1, <2>2 DEF DisplayOf
  <2> QED
    BY <1>2, <1>3, <2>1, <2>2, <2>3 DEF u
<1>7. CASE av.fmt \in Range(codec.outfmt) /\ ~d2.ctx.vo
  <2> DEFINE out == OutFormat(d2.ctx)
  <2>1. u = ConfigVo(d3, out)
    BY <1>4, <1>7
  <2>2. (out = "none" \/ out \in Range(codec.outfmt) \cap Display) /\ out \in Formats
    BY OutFormatListed
  <2>3. /\ d3 \in States /\ d3.sh.size = av.size /\ d3.sh.original = d2.sh.original
        /\ d3.ctx = d2.ctx /\ d3.res = d2.res
    <3>1. av.size \in Sizes
      BY DEF Headers
    <3> QED
      BY <1>3, <3>1 DEF States, Screens
  <2> HIDE DEF d3, out
  <2>4. u \in States /\ (out = "none" => u.res = "crash")
    BY <2>1, <2>2, <2>3, ConfigVoFacts
  <2>5. ASSUME out # "none"
        PROVE  /\ u.ctx.vo = TRUE /\ u.sh.size = av.size /\ u.sh.original = d2.sh.original
               /\ u.sh.aspect = d2.sh.original /\ u.chain.size = av.size /\ u.chain.out = out
               /\ u.chain.screen = ScreenSize(av.size, d2.sh.original) /\ u.res = "ok"
               /\ u.ctx.ip = d2.ctx.ip /\ u.ctx.b = d2.ctx.b /\ u.ctx.sar = d2.ctx.sar
    <3> DEFINE v == ConfigVo(d3, out)
    <3>1. /\ v.res = d3.res /\ v.ctx.vo = TRUE
          /\ v.sh.size = d3.sh.size /\ v.sh.original = d3.sh.original /\ v.sh.aspect = d3.sh.original
          /\ v.chain.size = d3.sh.size /\ v.chain.out = out
          /\ v.chain.screen = ScreenSize(d3.sh.size, d3.sh.original)
          /\ v.ctx.ip = d3.ctx.ip /\ v.ctx.b = d3.ctx.b /\ v.ctx.sar = d3.ctx.sar
      BY <2>2, <2>3, <2>5, ConfigVoFacts, ZenonT(60)
    <3>2. u = v
      BY <2>1
    <3> HIDE DEF v
    <3> QED
      BY <1>3, <2>3, <3>1, <3>2
  <2>6. CASE out = "none"
    BY <2>4, <2>6 DEF u
  <2>7. CASE out # "none"
    <3>1. DisplayOf(u)
      BY <2>2, <2>5, <2>7 DEF DisplayOf
    <3> QED
      BY <1>3, <2>4, <2>5, <2>7, <3>1 DEF u
  <2> QED
    BY <2>6, <2>7
<1> QED
  BY <1>5, <1>6, <1>7

-----------------------------------------------------------------------------
(* The counters.                                                           *)

AnyPics == Pics \cup {NoPic}

LEMMA NoPicIsNone == NoPic \notin Pics /\ NoPic.img = "own" /\ NoPic.ref = FALSE
BY DEF NoPic, Pics

\* Two parts of a set that have nothing in common are not larger than it.
LEMMA Parts ==
  ASSUME NEW S, IsFiniteSet(S), NEW G \in SUBSET S, NEW T \in SUBSET S, T \cap G = {}
  PROVE  /\ Cardinality(S) \in Nat /\ Cardinality(G) \in Nat /\ Cardinality(T) \in Nat
         /\ Cardinality(T) + Cardinality(G) <= Cardinality(S)
<1>1. IsFiniteSet(G) /\ IsFiniteSet(T)
  BY FS_Subset
<1>2. Cardinality(S) \in Nat /\ Cardinality(G) \in Nat /\ Cardinality(T) \in Nat
  BY <1>1, FS_CardinalityType
<1>3. IsFiniteSet(T \cup G) /\ Cardinality(T \cup G) = Cardinality(T) + Cardinality(G) - Cardinality(T \cap G)
  BY <1>1, FS_Union
<1>4. Cardinality(T \cap G) = 0
  BY FS_EmptySet
<1>5. T \cup G \in SUBSET S
  OBVIOUS
<1>6. Cardinality(T \cup G) <= Cardinality(S)
  BY <1>5, FS_Subset
<1> QED
  BY <1>2, <1>3, <1>4, <1>6

LEMMA DrawnIsFinite ==
  ASSUME NEW s, IsFiniteSet(s), NEW kept
  PROVE  IsFiniteSet(Drawn(s, kept)) /\ Cardinality(Drawn(s, kept)) \in Nat
<1>1. Drawn(s, kept) \in SUBSET s
  BY DEF Drawn
<1>2. IsFiniteSet(Drawn(s, kept))
  BY <1>1, FS_Subset
<1> QED
  BY <1>2, FS_CardinalityType

LEMMA ReleasedFacts ==
  ASSUME NEW c \in Contexts, NEW gone \in SUBSET AnyPics, IsFiniteSet(gone)
  PROVE  LET r == Released(c, gone) IN
         /\ r \in Contexts
         /\ r.ip = c.ip - Cardinality(Drawn(gone, TRUE))
         /\ r.b = c.b - Cardinality(Drawn(gone, FALSE))
         /\ r.vo = c.vo /\ r.dr1 = c.dr1 /\ r.fmt = c.fmt /\ r.csp = c.csp /\ r.sar = c.sar
<1> DEFINE drawn == {p \in gone : p.img # "own"}
<1>1. \A p \in gone : p.ref \in BOOLEAN
  BY NoPicIsNone DEF AnyPics, Pics
<1>2. {p \in drawn : p.ref} = Drawn(gone, TRUE)
  BY <1>1 DEF Drawn
<1>3. {p \in drawn : ~p.ref} = Drawn(gone, FALSE)
  BY <1>1 DEF Drawn
<1>4. Cardinality(Drawn(gone, TRUE)) \in Nat /\ Cardinality(Drawn(gone, FALSE)) \in Nat
  BY DrawnIsFinite
<1>5. Released(c, gone) = [c EXCEPT !.ip = @ - Cardinality(Drawn(gone, TRUE)),
                                    !.b = @ - Cardinality(Drawn(gone, FALSE))]
  BY <1>2, <1>3 DEF Released
<1> QED
  <2> DEFINE m == Cardinality(Drawn(gone, TRUE))
             n == Cardinality(Drawn(gone, FALSE))
  <2>1. m \in Nat /\ n \in Nat
    BY <1>4
  <2>2. Released(c, gone) = [c EXCEPT !.ip = @ - m, !.b = @ - n]
    BY <1>5
  <2> HIDE DEF m, n
  <2>3. c.ip - m \in Int /\ c.b - n \in Int
    BY <2>1 DEF Contexts
  <2>4. /\ Released(c, gone) \in Contexts
        /\ Released(c, gone).ip = c.ip - m /\ Released(c, gone).b = c.b - n
        /\ Released(c, gone).vo = c.vo /\ Released(c, gone).dr1 = c.dr1
        /\ Released(c, gone).fmt = c.fmt /\ Released(c, gone).csp = c.csp
        /\ Released(c, gone).sar = c.sar
    BY <2>2, <2>3 DEF Contexts
  <2> QED
    BY <2>4 DEF m, n

\* Whoever counts all of S counts T, when what is neither in T nor kept is given back.
LEMMA CountedStill ==
  ASSUME NEW c \in Contexts, NEW S \in SUBSET Pics, IsFiniteSet(S), Covers(c, S),
         NEW gone \in SUBSET (S \cup {NoPic}), NEW T, T \subseteq S \cup {NoPic}, T \cap gone \subseteq {NoPic}
  PROVE  Covers(Released(c, gone), T)
<1>1. IsFiniteSet(gone) /\ gone \in SUBSET AnyPics
  <2>1. IsFiniteSet(S \cup {NoPic})
    BY FS_AddElement
  <2> QED
    BY <2>1, FS_Subset DEF AnyPics
<1>2. ASSUME NEW kept \in BOOLEAN
      PROVE  /\ Cardinality(Drawn(S, kept)) \in Nat /\ Cardinality(Drawn(gone, kept)) \in Nat
             /\ Cardinality(Drawn(T, kept)) \in Nat
             /\ Cardinality(Drawn(T, kept)) + Cardinality(Drawn(gone, kept)) <= Cardinality(Drawn(S, kept))
  <2>1. IsFiniteSet(Drawn(S, kept))
    BY DrawnIsFinite
  <2>2. Drawn(gone, kept) \in SUBSET Drawn(S, kept)
    BY NoPicIsNone DEF Drawn
  <2>3. Drawn(T, kept) \in SUBSET Drawn(S, kept)
    BY NoPicIsNone DEF Drawn
  <2>4. Drawn(T, kept) \cap Drawn(gone, kept) = {}
    BY NoPicIsNone DEF Drawn
  <2> QED
    BY <2>1, <2>2, <2>3, <2>4, Parts
<1>3. c.ip \in Int /\ c.b \in Int
  BY DEF Contexts
<1>4. /\ Released(c, gone).ip = c.ip - Cardinality(Drawn(gone, TRUE))
      /\ Released(c, gone).b = c.b - Cardinality(Drawn(gone, FALSE))
  BY <1>1, ReleasedFacts
<1>5. Released(c, gone).ip >= Cardinality(Drawn(T, TRUE))
  <2> DEFINE all == Cardinality(Drawn(S, TRUE))
             given == Cardinality(Drawn(gone, TRUE))
             left == Cardinality(Drawn(T, TRUE))
  <2>1. all \in Nat /\ given \in Nat /\ left \in Nat /\ left + given <= all
    BY <1>2
  <2>2. c.ip >= all /\ Released(c, gone).ip = c.ip - given
    BY <1>4 DEF Covers
  <2> HIDE DEF all, given, left
  <2>3. c.ip - given >= left
    BY <1>3, <2>1, <2>2
  <2> QED
    BY <2>2, <2>3 DEF left
<1>6. Released(c, gone).b >= Cardinality(Drawn(T, FALSE))
  <2> DEFINE all == Cardinality(Drawn(S, FALSE))
             given == Cardinality(Drawn(gone, FALSE))
             left == Cardinality(Drawn(T, FALSE))
  <2>1. all \in Nat /\ given \in Nat /\ left \in Nat /\ left + given <= all
    BY <1>2
  <2>2. c.b >= all /\ Released(c, gone).b = c.b - given
    BY <1>4 DEF Covers
  <2> HIDE DEF all, given, left
  <2>3. c.b - given >= left
    BY <1>3, <2>1, <2>2
  <2> QED
    BY <2>2, <2>3 DEF left
<1> QED
  BY <1>5, <1>6 DEF Covers

LEMMA CountedFewer ==
  ASSUME NEW c \in Contexts, NEW S \in SUBSET Pics, IsFiniteSet(S), Covers(c, S), NEW T \in SUBSET S
  PROVE  Covers(c, T)
<1>1. ASSUME NEW kept \in BOOLEAN
      PROVE  /\ Cardinality(Drawn(S, kept)) \in Nat /\ Cardinality(Drawn(T, kept)) \in Nat
             /\ Cardinality(Drawn(T, kept)) <= Cardinality(Drawn(S, kept))
  <2>1. IsFiniteSet(Drawn(S, kept)) /\ IsFiniteSet(T)
    BY DrawnIsFinite, FS_Subset
  <2>2. Drawn(T, kept) \in SUBSET Drawn(S, kept)
    BY DEF Drawn
  <2> QED
    BY <2>1, <2>2, DrawnIsFinite, FS_Subset
<1>2. c.ip \in Int /\ c.b \in Int
  BY DEF Contexts
<1>3. c.ip >= Cardinality(Drawn(S, TRUE)) /\ c.b >= Cardinality(Drawn(S, FALSE))
  BY DEF Covers
<1>4. c.ip >= Cardinality(Drawn(T, TRUE))
  <2> DEFINE all == Cardinality(Drawn(S, TRUE))
             fewer == Cardinality(Drawn(T, TRUE))
  <2>1. all \in Nat /\ fewer \in Nat /\ fewer <= all /\ c.ip >= all
    BY <1>1, <1>3
  <2> HIDE DEF all, fewer
  <2>2. c.ip >= fewer
    BY <1>2, <2>1
  <2> QED
    BY <2>2 DEF fewer
<1>5. c.b >= Cardinality(Drawn(T, FALSE))
  <2> DEFINE all == Cardinality(Drawn(S, FALSE))
             fewer == Cardinality(Drawn(T, FALSE))
  <2>1. all \in Nat /\ fewer \in Nat /\ fewer <= all /\ c.b >= all
    BY <1>1, <1>3
  <2> HIDE DEF all, fewer
  <2>2. c.b >= fewer
    BY <1>2, <2>1
  <2> QED
    BY <2>2 DEF fewer
<1> QED
  BY <1>4, <1>5 DEF Covers

\* One more is drawn, and counted.
LEMMA CountedOneMore ==
  ASSUME NEW c \in Contexts, NEW d \in Contexts, NEW S, IsFiniteSet(S), NEW p \in Pics, Covers(c, S),
         d.ip >= c.ip, d.b >= c.b,
         p.img # "own" => IF p.ref THEN d.ip >= c.ip + 1 ELSE d.b >= c.b + 1
  PROVE  Covers(d, S \cup {p})
<1>1. c.ip \in Int /\ c.b \in Int /\ d.ip \in Int /\ d.b \in Int /\ p.ref \in BOOLEAN
  BY DEF Contexts, Pics
<1>2. ASSUME NEW kept \in BOOLEAN
      PROVE  /\ Cardinality(Drawn(S, kept)) \in Nat /\ Cardinality(Drawn(S \cup {p}, kept)) \in Nat
             /\ Cardinality(Drawn(S \cup {p}, kept)) <=
                  Cardinality(Drawn(S, kept)) + (IF p.img # "own" /\ p.ref = kept THEN 1 ELSE 0)
  <2>1. IsFiniteSet(Drawn(S, kept)) /\ Cardinality(Drawn(S, kept)) \in Nat
    BY DrawnIsFinite
  <2>2. CASE p.img # "own" /\ p.ref = kept
    <3>1. Drawn(S \cup {p}, kept) = Drawn(S, kept) \cup {p}
      BY <2>2 DEF Drawn
    <3>2. Cardinality(Drawn(S, kept) \cup {p}) =
            IF p \in Drawn(S, kept) THEN Cardinality(Drawn(S, kept)) ELSE Cardinality(Drawn(S, kept)) + 1
      BY <2>1, FS_AddElement
    <3> DEFINE n == Cardinality(Drawn(S, kept))
               m == Cardinality(Drawn(S \cup {p}, kept))
    <3>3. n \in Nat /\ m \in {n, n + 1}
      BY <2>1, <3>1, <3>2
    <3> HIDE DEF m, n
    <3>4. m \in Nat /\ m <= n + 1
      BY <3>3
    <3> QED
      BY <2>1, <2>2, <3>4 DEF m, n
  <2>3. CASE ~ (p.img # "own" /\ p.ref = kept)
    <3>1. Drawn(S \cup {p}, kept) = Drawn(S, kept)
      BY <2>3 DEF Drawn
    <3> QED
      BY <2>1, <2>3, <3>1
  <2> QED
    BY <2>2, <2>3
<1>3. c.ip >= Cardinality(Drawn(S, TRUE)) /\ c.b >= Cardinality(Drawn(S, FALSE))
  BY DEF Covers
<1>4. d.ip >= Cardinality(Drawn(S \cup {p}, TRUE))
  <2> DEFINE n == Cardinality(Drawn(S, TRUE))
             m == Cardinality(Drawn(S \cup {p}, TRUE))
             more == IF p.img # "own" /\ p.ref = TRUE THEN 1 ELSE 0
  <2>1. n \in Nat /\ m \in Nat /\ m <= n + more
    BY <1>2
  <2>2. c.ip >= n /\ more \in {0, 1} /\ d.ip >= c.ip + more
    <3>1. c.ip >= n
      BY <1>3
    <3>2. CASE p.img # "own" /\ p.ref = TRUE
      <4>1. more = 1 /\ d.ip >= c.ip + 1
        BY <3>2
      <4> HIDE DEF n, more
      <4> QED
        BY <3>1, <4>1
    <3>3. CASE ~ (p.img # "own" /\ p.ref = TRUE)
      <4>1. more = 0
        BY <3>3
      <4> HIDE DEF n, more
      <4> QED
        BY <1>1, <3>1, <4>1
    <3> QED
      BY <3>2, <3>3
  <2> HIDE DEF n, m, more
  <2>3. d.ip >= m
    BY <1>1, <2>1, <2>2
  <2> QED
    BY <2>3 DEF m
<1>5. d.b >= Cardinality(Drawn(S \cup {p}, FALSE))
  <2> DEFINE n == Cardinality(Drawn(S, FALSE))
             m == Cardinality(Drawn(S \cup {p}, FALSE))
             more == IF p.img # "own" /\ p.ref = FALSE THEN 1 ELSE 0
  <2>1. n \in Nat /\ m \in Nat /\ m <= n + more
    BY <1>2
  <2>2. c.b >= n /\ more \in {0, 1} /\ d.b >= c.b + more
    <3>1. c.b >= n
      BY <1>3
    <3>2. CASE p.img # "own" /\ p.ref = FALSE
      <4>1. more = 1 /\ d.b >= c.b + 1
        BY <3>2
      <4> HIDE DEF n, more
      <4> QED
        BY <3>1, <4>1
    <3>3. CASE ~ (p.img # "own" /\ p.ref = FALSE)
      <4>1. more = 0
        BY <3>3
      <4> HIDE DEF n, more
      <4> QED
        BY <1>1, <3>1, <4>1
    <3> QED
      BY <3>2, <3>3
  <2> HIDE DEF n, m, more
  <2>3. d.b >= m
    BY <1>1, <2>1, <2>2
  <2> QED
    BY <2>3 DEF m
<1> QED
  BY <1>4, <1>5 DEF Covers

-----------------------------------------------------------------------------
(* The pictures referred to, oldest first.                                 *)

LEMMA TailFacts ==
  ASSUME NEW frames \in Seq(Pics), frames # <<>>, NEW i
  PROVE  /\ Tail(frames) \in Seq(Pics) /\ Range(Tail(frames)) \subseteq Range(frames)
         /\ Turn(frames, i) => Turn(Tail(frames), i)
<1> DEFINE t == Tail(frames)
<1>1. /\ t \in Seq(Pics) /\ Len(t) \in Nat /\ Len(frames) = Len(t) + 1
      /\ DOMAIN t = 1..Len(t) /\ DOMAIN frames = 1..Len(frames)
      /\ \A k \in 1..Len(t) : t[k] = frames[k + 1]
  OBVIOUS
<1> HIDE DEF t
<1>2. Range(t) \subseteq Range(frames)
  BY <1>1 DEF Range
<1>3. ASSUME Turn(frames, i) PROVE Turn(t, i)
  <2> SUFFICES ASSUME NEW k \in 1..Len(t), t[k].img = Image(i)
               PROVE  \E j \in k + 1..Len(t) : t[j].img = Image(1 - i)
    BY DEF Turn
  <2>1. k + 1 \in 1..Len(frames) /\ frames[k + 1].img = Image(i)
    BY <1>1
  <2>2. PICK j \in (k + 1) + 1..Len(frames) : frames[j].img = Image(1 - i)
    BY <1>3, <2>1 DEF Turn
  <2>3. j - 1 \in k + 1..Len(t) /\ t[j - 1] = frames[j]
    BY <1>1, <2>2
  <2> QED
    BY <2>2, <2>3
<1> QED
  BY <1>1, <1>2, <1>3 DEF t

LEMMA AppendFacts ==
  ASSUME NEW frames \in Seq(Pics), NEW p \in Pics
  PROVE  LET a == Append(frames, p) IN
         /\ a \in Seq(Pics) /\ a # <<>> /\ Range(a) \subseteq Range(frames) \cup {p}
         /\ \A i \in {0, 1} : Turn(frames, i) /\ p.img = "own" => Turn(a, i)
         /\ \A i \in {0, 1} : Turn(frames, i) /\ p.img = Image(i) => Turn(a, 1 - i)
<1> DEFINE a == Append(frames, p)
<1>1. /\ a \in Seq(Pics) /\ Len(a) = Len(frames) + 1 /\ Len(frames) \in Nat
      /\ a[Len(a)] = p /\ DOMAIN a = 1..Len(a) /\ DOMAIN frames = 1..Len(frames)
      /\ \A k \in 1..Len(frames) : a[k] = frames[k]
  OBVIOUS
<1> HIDE DEF a
<1>2. Range(a) \subseteq Range(frames) \cup {p} /\ a # <<>>
  BY <1>1 DEF Range
<1>3. ASSUME NEW i \in {0, 1}, Turn(frames, i), p.img = "own"
      PROVE  Turn(a, i)
  <2> SUFFICES ASSUME NEW k \in 1..Len(a), a[k].img = Image(i)
               PROVE  \E j \in k + 1..Len(a) : a[j].img = Image(1 - i)
    BY DEF Turn
  <2>1. Image(i) # "own"
    BY DEF Image
  <2>2. k \in 1..Len(frames) /\ frames[k].img = Image(i)
    BY <1>1, <1>3, <2>1
  <2>3. PICK j \in k + 1..Len(frames) : frames[j].img = Image(1 - i)
    BY <1>3, <2>2 DEF Turn
  <2>4. j \in k + 1..Len(a) /\ a[j] = frames[j]
    BY <1>1, <2>3
  <2> QED
    BY <2>3, <2>4
<1>4. ASSUME NEW i \in {0, 1}, Turn(frames, i), p.img = Image(i)
      PROVE  Turn(a, 1 - i)
  <2> SUFFICES ASSUME NEW k \in 1..Len(a), a[k].img = Image(1 - i)
               PROVE  \E j \in k + 1..Len(a) : a[j].img = Image(1 - (1 - i))
    BY DEF Turn
  <2>1. Image(i) # Image(1 - i) /\ Image(1 - (1 - i)) = Image(i)
    BY DEF Image
  <2>2. k # Len(a)
    BY <1>1, <1>4, <2>1
  <2>3. Len(a) \in k + 1..Len(a)
    BY <1>1, <2>2
  <2> QED
    BY <1>1, <1>4, <2>1, <2>3
<1> QED
  BY <1>1, <1>2, <1>3, <1>4 DEF a

LEMMA FramesAreFinite ==
  ASSUME NEW frames \in Seq(Pics)
  PROVE  IsFiniteSet(Range(frames)) /\ Range(frames) \subseteq Pics
<1>1. DOMAIN frames = 1..Len(frames) /\ Len(frames) \in Nat
  OBVIOUS
<1>2. IsFiniteSet(DOMAIN frames)
  BY <1>1, FS_Interval
<1>3. frames \in Surjection(DOMAIN frames, Range(frames))
  BY <1>1 DEF Surjection, Range
<1>4. IsFiniteSet(Range(frames))
  BY <1>2, <1>3, FS_Surjection
<1>5. Range(frames) \subseteq Pics
  BY <1>1 DEF Range
<1> QED
  BY <1>4, <1>5

-----------------------------------------------------------------------------
(* What every step needs to know.                                          *)

LEMMA UsedFacts ==
  ASSUME DecodeShapes
  PROVE  /\ Used \in SUBSET Pics /\ IsFiniteSet(Used)
         /\ Used = Range(references) \cup late \cup ({pic} \ {NoPic})
         /\ Range(references) \subseteq Pics /\ late \subseteq Pics
         /\ IsFiniteSet(Range(references))
<1>1. references \in Seq(Pics) /\ late \in SUBSET Pics /\ IsFiniteSet(late) /\ pic \in Pics \cup {NoPic}
  BY DEF DecodeShapes
<1>2. IsFiniteSet(Range(references)) /\ Range(references) \subseteq Pics
  BY <1>1, FramesAreFinite
<1>3. Used = Range(references) \cup late \cup ({pic} \ {NoPic})
  BY <1>1, <1>2, NoPicIsNone DEF Used
<1>4. IsFiniteSet(Range(references) \cup late)
  BY <1>1, <1>2, FS_Union
<1>5. IsFiniteSet((Range(references) \cup late) \cup {pic})
  BY <1>4, FS_AddElement
<1>6. Used \in SUBSET ((Range(references) \cup late) \cup {pic})
  BY <1>3
<1>7. IsFiniteSet(Used)
  BY <1>5, <1>6, FS_Subset
<1> QED
  BY <1>1, <1>2, <1>3, <1>7

LEMMA FilmFacts ==
  ASSUME DecodeShapes
  PROVE  /\ Len(film) \in Nat \ {0}
         /\ \A k \in 1..Len(film) : /\ film[k].size \in Sizes /\ film[k].fmt \in STRING
                                    /\ film[k].sar \in Nat /\ film[k].ref \in BOOLEAN
         /\ OneSar => \A k \in 1..Len(film) : film[k].sar = film[1].sar
<1>1. film # <<>> /\ film \in Seq([size : Sizes, fmt : STRING, sar : Nat, ref : BOOLEAN])
  BY DecodeAssumption DEF DecodeShapes
<1>2. Len(film) \in Nat \ {0} /\ DOMAIN film = 1..Len(film)
  <2>1. ASSUME NEW S, NEW f \in Seq(S), f # <<>>
        PROVE  Len(f) \in Nat \ {0} /\ DOMAIN f = 1..Len(f)
    BY <2>1
  <2> QED
    BY <1>1, <2>1
<1>3. \A k \in 1..Len(film) : film[k] \in [size : Sizes, fmt : STRING, sar : Nat, ref : BOOLEAN]
  <2>1. ASSUME NEW S, NEW f \in Seq(S), NEW k \in 1..Len(f)
        PROVE  f[k] \in S
    BY <2>1
  <2> QED
    BY <1>1, <2>1
<1>4. OneSar => \A k \in 1..Len(film) : film[k].sar = film[1].sar
  BY <1>2 DEF OneSar
<1> QED
  BY <1>2, <1>3, <1>4

LEMMA NowFacts ==
  ASSUME DecodeShapes, DisplayTrue, NEW c \in Contexts, c.vo = ctx.vo
  PROVE  LET d == [Now EXCEPT !.ctx = c] IN
         /\ d \in States /\ d.sh = sh_video /\ d.ctx = c /\ d.chain = chain /\ d.res = "ok"
         /\ DisplayOf(d)
<1> DEFINE d == [Now EXCEPT !.ctx = c]
<1>1. d \in States /\ d.sh = sh_video /\ d.ctx = c /\ d.chain = chain /\ d.res = "ok"
  BY DEF Now, States, DecodeShapes
<1> HIDE DEF d
<1>2. DisplayOf(d)
  BY <1>1 DEF DisplayTrue, DisplayOf
<1> QED
  BY <1>1, <1>2 DEF d

\* A display that was, or is now, configured.
LEMMA DisplayStays ==
  ASSUME DisplayTrue, UNCHANGED <<player, chain, sh_video>>, ctx'.vo => ctx.vo
  PROVE  DisplayTrue'
BY DEF DisplayTrue, player, ScreenSize

LEMMA DisplayIsNew ==
  ASSUME NEW d, DisplayOf(d), UNCHANGED player, chain' = d.chain, sh_video' = d.sh, ctx'.vo => d.ctx.vo
  PROVE  DisplayTrue'
BY DEF DisplayTrue, DisplayOf, player, ScreenSize

LEMMA AspectStays ==
  ASSUME AspectTrue, UNCHANGED <<player, sh_video>>, ctx'.vo => ctx.vo, ctx'.sar = ctx.sar,
         OneSar /\ Used' # {} => avctx'.sar = film[1].sar
  PROVE  AspectTrue'
BY DEF AspectTrue, player, OneSar

\* Pictures that were there are still, when the images hold what they held.
LEMMA PicturesStay ==
  ASSUME PicturesTrue, Used' \subseteq Used, mem' = mem, avctx'.size = avctx.size
  PROVE  PicturesTrue'
BY DEF PicturesTrue, DrawnRight

-----------------------------------------------------------------------------
(* The steps.                                                              *)

LEMMA StartKeeps == DecodeInv /\ Start => DecodeInv'
<1> SUFFICES ASSUME DecodeInv, Start PROVE DecodeInv'
  OBVIOUS
<1> USE DEF DecodeInv
<1> DEFINE gone == {pic} \ (Range(references) \cup late)
<1>1. /\ pic' = NoPic /\ ctx' = Released(ctx, gone)
      /\ step = "decode" /\ step' = (IF More THEN "get" ELSE "drain")
      /\ hurried' \in BOOLEAN
      /\ mpi' = NoMpi \/ mpi' = [size |-> chain.size, n |-> 0]
      /\ UNCHANGED <<player, packet, sh_video, chain, static_idx, mem, avctx, references, late, refused>>
  BY DEF Start, BeginDecode
<1>2. /\ Used \in SUBSET Pics /\ IsFiniteSet(Used)
      /\ Used = Range(references) \cup late \cup ({pic} \ {NoPic})
      /\ Used' = (Range(references) \cup late) \ {NoPic}
  BY <1>1, UsedFacts DEF Used
<1>3. gone \in SUBSET (Used \cup {NoPic}) /\ Used' \subseteq Used /\ Used' \cap gone \subseteq {NoPic}
  BY <1>2
<1>4. ctx \in Contexts /\ IsFiniteSet(gone) /\ gone \in SUBSET AnyPics
  <2>1. IsFiniteSet({pic})
    BY FS_Singleton
  <2>2. gone \in SUBSET {pic}
    OBVIOUS
  <2> QED
    BY <1>2, <1>3, <2>1, <2>2, FS_Subset DEF DecodeShapes, AnyPics
<1>5. ctx' \in Contexts /\ ctx'.vo = ctx.vo /\ ctx'.sar = ctx.sar
  BY <1>1, <1>4, ReleasedFacts
<1>6. Covers(ctx', Used')
  BY <1>1, <1>2, <1>3, <1>4, CountedStill DEF Counted
<1> HIDE DEF gone
<1>7. DecodeShapes'
  BY <1>1, <1>5, FilmFacts DEF DecodeShapes, More, player
<1>8. PicInHand'
  BY <1>1 DEF PicInHand
<1>9. PicturesTrue'
  BY <1>1, <1>3, PicturesStay
<1>10. Counted'
  BY <1>6 DEF Counted
<1>11. InTurn'
  BY <1>1 DEF InTurn, Turn, player
<1>12. DisplayTrue'
  BY <1>1, <1>5, DisplayStays
<1>13. RefusedOnce'
  BY <1>1 DEF RefusedOnce, NoMpi
<1>14. PutTrue'
  BY <1>1 DEF PutTrue
<1>15. AspectTrue'
  BY <1>1, <1>3, <1>5, AspectStays DEF AspectTrue
<1> QED
  BY <1>7, <1>8, <1>9, <1>10, <1>11, <1>12, <1>13, <1>14, <1>15

LEMMA DrainKeeps == DecodeInv /\ Drain => DecodeInv'
<1> SUFFICES ASSUME DecodeInv, Drain PROVE DecodeInv'
  OBVIOUS
<1> USE DEF DecodeInv
<1>1. /\ step = "drain" /\ pic' \in late /\ late' = {} /\ step' = "out" /\ pic = NoPic
      /\ UNCHANGED <<player, packet, sh_video, ctx, chain, static_idx, mem, avctx, references, mpi, hurried,
                     refused>>
  BY DEF Drain, PicInHand
<1>2. /\ Used \in SUBSET Pics /\ IsFiniteSet(Used) /\ late \subseteq Used
      /\ Used = Range(references) \cup late \cup ({pic} \ {NoPic})
      /\ Used' = (Range(references) \cup {pic'}) \ {NoPic}
  BY <1>1, UsedFacts DEF Used
<1>3. Used' \subseteq Used /\ pic' \in Pics /\ pic' # NoPic
  BY <1>1, <1>2, NoPicIsNone
<1>4. DecodeShapes'
  BY <1>1, <1>3, FS_EmptySet DEF DecodeShapes, player
<1>5. PicInHand'
  BY <1>1, <1>3 DEF PicInHand
<1>6. PicturesTrue'
  BY <1>1, <1>3, PicturesStay
<1>7. Counted'
  <2>1. ctx \in Contexts /\ Covers(ctx, Used)
    BY DEF DecodeShapes, Counted
  <2> QED
    BY <1>1, <1>2, <1>3, <2>1, CountedFewer DEF Counted
<1>8. InTurn'
  BY <1>1 DEF InTurn, Turn, player
<1>9. DisplayTrue'
  BY <1>1, DisplayStays
<1>10. RefusedOnce'
  BY <1>1 DEF RefusedOnce
<1>11. PutTrue'
  BY <1>1 DEF PutTrue
<1>12. AspectTrue'
  BY <1>1, <1>3, AspectStays DEF AspectTrue
<1> QED
  BY <1>4, <1>5, <1>6, <1>7, <1>8, <1>9, <1>10, <1>11, <1>12

LEMMA SkipKeeps == DecodeInv /\ Skip => DecodeInv'
<1> SUFFICES ASSUME DecodeInv, Skip PROVE DecodeInv'
  OBVIOUS
<1> USE DEF DecodeInv
<1>1. /\ step = "get" /\ packet' = packet + 1 /\ step' = "decode"
      /\ UNCHANGED <<player, sh_video, ctx, chain, static_idx, mem, avctx, references, late, pic, mpi,
                     hurried, refused>>
  BY DEF Skip
<1>2. Used' = Used
  BY <1>1 DEF Used
<1>3. DecodeShapes'
  BY <1>1, FilmFacts DEF DecodeShapes, player
<1>4. PicInHand'
  BY <1>1 DEF PicInHand
<1>5. PicturesTrue'
  BY <1>1, <1>2, PicturesStay
<1>6. Counted'
  BY <1>1, <1>2 DEF Counted, Covers
<1>7. InTurn'
  BY <1>1 DEF InTurn, Turn, player
<1>8. DisplayTrue'
  BY <1>1, DisplayStays
<1>9. RefusedOnce'
  BY <1>1 DEF RefusedOnce
<1>10. PutTrue'
  BY <1>1 DEF PutTrue
<1>11. AspectTrue'
  BY <1>1, <1>2, AspectStays DEF AspectTrue
<1> QED
  BY <1>3, <1>4, <1>5, <1>6, <1>7, <1>8, <1>9, <1>10, <1>11

LEMMA PutImageKeeps == DecodeInv /\ PutImage => DecodeInv'
<1> SUFFICES ASSUME DecodeInv, PutImage PROVE DecodeInv'
  OBVIOUS
<1> USE DEF DecodeInv
<1>1. /\ step = "put" /\ step' = "decode"
      /\ UNCHANGED <<player, packet, sh_video, ctx, chain, static_idx, mem, avctx, references, late, pic,
                     mpi, hurried, refused>>
  BY DEF PutImage
<1>2. Used' = Used
  BY <1>1 DEF Used
<1>3. DecodeShapes'
  BY <1>1 DEF DecodeShapes, player
<1>4. PicInHand'
  BY <1>1 DEF PicInHand
<1>5. PicturesTrue'
  BY <1>1, <1>2, PicturesStay
<1>6. Counted'
  BY <1>1, <1>2 DEF Counted, Covers
<1>7. InTurn'
  BY <1>1 DEF InTurn, Turn, player
<1>8. DisplayTrue'
  BY <1>1, DisplayStays
<1>9. RefusedOnce'
  BY <1>1 DEF RefusedOnce
<1>10. PutTrue'
  BY <1>1 DEF PutTrue
<1>11. AspectTrue'
  BY <1>1, <1>2, AspectStays DEF AspectTrue
<1> QED
  BY <1>3, <1>4, <1>5, <1>6, <1>7, <1>8, <1>9, <1>10, <1>11

LEMMA FlushKeeps == DecodeInv /\ Flush => DecodeInv'
<1> SUFFICES ASSUME DecodeInv, Flush PROVE DecodeInv'
  OBVIOUS
<1> USE DEF DecodeInv
<1> DEFINE gone == (Range(references) \cup late) \ {pic}
<1>1. /\ step = "decode" /\ references' = <<>> /\ late' = {} /\ packet' = 1
      /\ ctx' = Released(ctx, gone)
      /\ UNCHANGED <<step, player, sh_video, chain, static_idx, mem, avctx, pic, mpi, hurried, refused>>
  BY DEF Flush
<1>2. /\ Used \in SUBSET Pics /\ IsFiniteSet(Used)
      /\ Used = Range(references) \cup late \cup ({pic} \ {NoPic})
      /\ Used' = {pic} \ {NoPic}
  BY <1>1, UsedFacts DEF Used, Range
<1>3. gone \in SUBSET (Used \cup {NoPic}) /\ Used' \subseteq Used /\ Used' \cap gone \subseteq {NoPic}
  BY <1>2
<1>4. ctx \in Contexts /\ IsFiniteSet(gone) /\ gone \in SUBSET AnyPics
  <2>1. gone \in SUBSET Used
    BY <1>2, UsedFacts, NoPicIsNone
  <2> QED
    BY <1>2, <2>1, FS_Subset DEF DecodeShapes, AnyPics
<1>5. ctx' \in Contexts /\ ctx'.vo = ctx.vo /\ ctx'.sar = ctx.sar
  BY <1>1, <1>4, ReleasedFacts
<1>6. Covers(ctx', Used')
  BY <1>1, <1>2, <1>3, <1>4, CountedStill DEF Counted
<1> HIDE DEF gone
<1>7. DecodeShapes'
  <2>1. <<>> \in Seq(Pics) /\ IsFiniteSet({})
    BY FS_EmptySet
  <2> QED
    BY <1>1, <1>5, <2>1, FilmFacts DEF DecodeShapes, player
<1>8. PicInHand'
  BY <1>1 DEF PicInHand
<1>9. PicturesTrue'
  BY <1>1, <1>3, PicturesStay
<1>10. Counted'
  BY <1>6 DEF Counted
<1>11. InTurn'
  BY <1>1 DEF InTurn, Turn, player
<1>12. DisplayTrue'
  BY <1>1, <1>5, DisplayStays
<1>13. RefusedOnce'
  BY <1>1 DEF RefusedOnce
<1>14. PutTrue'
  BY <1>1 DEF PutTrue
<1>15. AspectTrue'
  BY <1>1, <1>3, <1>5, AspectStays DEF AspectTrue
<1> QED
  BY <1>7, <1>8, <1>9, <1>10, <1>11, <1>12, <1>13, <1>14, <1>15

LEMMA HeaderKeeps == DecodeInv /\ Header => DecodeInv'
<1> SUFFICES ASSUME DecodeInv, Header PROVE DecodeInv'
  OBVIOUS
<1> USE DEF DecodeInv
<1> DEFINE c == Released(ctx, Used)
           d == [Now EXCEPT !.ctx = c]
           u == Format(c, avctx')
<1>1. /\ step = "get" /\ pic = NoPic /\ packet \in 1..Len(film)
      /\ references' = <<>> /\ late' = {} /\ ctx' = u.ctx /\ sh_video' = u.sh
      /\ refused' = (IF film[packet].size = avctx.size THEN refused ELSE NoRefusal)
      /\ UNCHANGED <<step, player, packet, chain, static_idx, mem, pic, mpi, hurried>>
  BY DEF Header, PicInHand, DecodeShapes
<1>2. PICK sar \in {avctx.sar, film[packet].sar} :
        avctx' = [size |-> film[packet].size, fmt |-> film[packet].fmt, sar |-> sar]
  BY DEF Header
<1>3. avctx' \in Headers /\ avctx'.size = film[packet].size
  <2>1. film[packet].size \in Sizes /\ film[packet].fmt \in Formats /\ film[packet].sar \in Nat
    BY <1>1, FilmFacts DEF Formats
  <2>2. avctx.sar \in Nat
    BY DEF DecodeShapes, Headers
  <2>3. sar \in Nat
    BY <2>1, <2>2
  <2> QED
    <3>1. ASSUME NEW k \in Sizes, NEW f \in Formats, NEW n \in Nat
          PROVE  /\ [size |-> k, fmt |-> f, sar |-> n] \in Headers
                 /\ [size |-> k, fmt |-> f, sar |-> n].size = k
      BY DEF Headers
    <3> QED
      BY <1>2, <2>1, <2>3, <3>1
<1>4. Used' = {} /\ Used \in SUBSET Pics /\ IsFiniteSet(Used)
  BY <1>1, UsedFacts DEF Used, Range
<1>5. c \in Contexts /\ c.vo = ctx.vo /\ c.sar = ctx.sar /\ Covers(c, {})
  <2>1. ctx \in Contexts /\ Used \in SUBSET AnyPics /\ Used \in SUBSET (Used \cup {NoPic})
    BY <1>4 DEF DecodeShapes, AnyPics
  <2>2. c \in Contexts /\ c.vo = ctx.vo /\ c.sar = ctx.sar
    BY <1>4, <2>1, ReleasedFacts
  <2>3. Covers(c, {})
    BY <1>4, <2>1, CountedStill DEF Counted
  <2> QED
    BY <2>2, <2>3
<1> HIDE DEF c
<1>6. d \in States /\ d.sh = sh_video /\ d.ctx = c /\ d.chain = chain /\ DisplayOf(d)
  BY <1>5, NowFacts
<1>7. u = IF c.vo /\ c.fmt = avctx'.fmt THEN d ELSE Update(d, avctx', TRUE)
  BY DEF Format
<1> HIDE DEF d, u
<1>8. /\ u \in States /\ u.sh.size = sh_video.size /\ u.sh.aspect = sh_video.aspect
      /\ u.ctx.ip = c.ip /\ u.ctx.b = c.b
      /\ (u.sh = sh_video /\ u.ctx = c) \/ u.ctx.vo = FALSE
      /\ u.ctx.sar = ctx.sar
      /\ u.sh.original = sh_video.original
  <2>1. CASE c.vo /\ c.fmt = avctx'.fmt
    BY <1>5, <1>6, <1>7, <2>1
  <2>2. CASE ~ (c.vo /\ c.fmt = avctx'.fmt)
    <3> DEFINE v == Update(d, avctx', TRUE)
    <3>1. /\ v \in States
          /\ v.sh.size = d.sh.size /\ v.sh.aspect = d.sh.aspect
          /\ v.ctx.ip = d.ctx.ip /\ v.ctx.b = d.ctx.b
          /\ (v.sh = d.sh /\ v.ctx = d.ctx) \/ v.ctx.vo = FALSE
          /\ v.ctx.sar = d.ctx.sar /\ v.sh.original = d.sh.original
      BY <1>3, <1>6, UpdateFacts DEF DecodeShapes
    <3>2. u = v
      BY <1>7, <2>2
    <3> HIDE DEF v
    <3> QED
      BY <1>5, <1>6, <3>1, <3>2
  <2> QED
    BY <2>1, <2>2
<1>9. u.sh \in Screens /\ u.ctx \in Contexts
  BY <1>8 DEF States
<1>10. DecodeShapes'
  <2>1. <<>> \in Seq(Pics) /\ IsFiniteSet({})
    BY FS_EmptySet
  <2> QED
    BY <1>1, <1>3, <1>9, <2>1, FilmFacts DEF DecodeShapes, player
<1>11. PicInHand'
  BY <1>1 DEF PicInHand
<1>12. PicturesTrue'
  BY <1>4 DEF PicturesTrue
<1>13. Counted'
  BY <1>1, <1>4, <1>5, <1>8 DEF Counted, Covers
<1>14. InTurn'
  BY <1>1 DEF InTurn, Turn, player
<1>15. DisplayTrue'
  <2>1. CASE u.sh = sh_video /\ u.ctx = c
    BY <1>1, <1>5, <2>1, DisplayStays
  <2>2. CASE u.ctx.vo = FALSE
    BY <1>1, <2>2 DEF DisplayTrue
  <2> QED
    BY <1>8, <2>1, <2>2
<1>16. RefusedOnce'
  BY <1>1, <1>3 DEF RefusedOnce
<1>17. PutTrue'
  BY <1>1 DEF PutTrue
<1>18. AspectTrue'
  <2>1. ctx'.vo => ctx.vo
    BY <1>1, <1>5, <1>8 DEF Contexts
  <2>2. sh_video'.original = sh_video.original /\ sh_video'.aspect = sh_video.aspect /\ ctx'.sar = ctx.sar
    BY <1>1, <1>8
  <2> QED
    BY <1>1, <1>4, <2>1, <2>2 DEF AspectTrue, OneSar, player
<1> QED
  BY <1>10, <1>11, <1>12, <1>13, <1>14, <1>15, <1>16, <1>17, <1>18

LEMMA OutPictureKeeps == DecodeInv /\ OutPicture => DecodeInv'
<1> SUFFICES ASSUME DecodeInv, OutPicture PROVE DecodeInv'
  OBVIOUS
<1> USE DEF DecodeInv
<1> DEFINE d == InitVo(Now, avctx, FALSE)
           size == IF ctx.dr1 /\ pic.img # "own" THEN pic.size
                   ELSE IF mpi # NoMpi THEN mpi.size ELSE d.chain.size
<1>1. /\ step = "out" /\ pic # NoPic
      /\ UNCHANGED <<player, packet, static_idx, mem, avctx, references, late, pic, hurried>>
  BY DEF OutPicture, PicInHand
<1>2. Used' = Used /\ pic \in Used
  BY <1>1 DEF Used
<1>3. pic.size = avctx.size /\ (pic.img # "own" => mem[pic.img] = pic.n)
  BY <1>2 DEF PicturesTrue
<1>4. /\ Now \in States /\ Now.sh = sh_video /\ Now.ctx = ctx /\ Now.chain = chain /\ Now.res = "ok"
      /\ DisplayOf(Now) /\ codec \in Codecs /\ sizing \in Sizings /\ avctx \in Headers
      /\ ctx \in Contexts
  BY DEF Now, States, DecodeShapes, DisplayOf, DisplayTrue
<1>5. /\ d \in States
      /\ d.res = "ok" =>
           /\ d.ctx.vo = TRUE /\ d.sh.size = avctx.size /\ d.chain.size = avctx.size /\ DisplayOf(d)
           /\ d.ctx.ip = ctx.ip /\ d.ctx.b = ctx.b
           /\ d.ctx.sar = ctx.sar \/ d.ctx.sar = avctx.sar
           /\ \/ d.sh.original = sh_video.original
              \/ sh_video.original[1] = 0 \/ (avctx.sar # ctx.sar /\ ctx.sar # UnsetSar)
           /\ \/ d.sh.aspect = d.sh.original
              \/ d.sh.original = sh_video.original /\ d.sh.aspect = sh_video.aspect /\ ctx.vo
  BY <1>4, InitVoFacts
<1>6. \/ step' \in {"crashed", "decode"} /\ UNCHANGED <<sh_video, ctx, chain, mpi, refused>>
      \/ /\ d.res = "ok" /\ Configured(d) /\ ctx' = d.ctx
         /\ IF SizeFits(size)
            THEN /\ mpi' = [size |-> size, n |-> IF pic.img = "own" THEN pic.n ELSE mem[pic.img]]
                 /\ step' \in {"decode", "put"} /\ refused' = NoRefusal
            ELSE Refuse(avctx.size) /\ mpi' = mpi /\ step' = "decode"
  <2> HIDE DEF d
  <2>1. \/ d.res = "crash" /\ step' = "crashed" /\ UNCHANGED <<sh_video, ctx, chain, mpi, refused>>
        \/ d.res = "fail" /\ step' = "decode" /\ UNCHANGED <<sh_video, ctx, chain, mpi, refused>>
        \/ /\ d.res = "ok" /\ Configured(d) /\ ctx' = d.ctx
           /\ IF SizeFits(size)
              THEN /\ mpi' = [size |-> size, n |-> IF pic.img = "own" THEN pic.n ELSE mem[pic.img]]
                   /\ step' = (IF hurried THEN "decode" ELSE "put") /\ refused' = NoRefusal
              ELSE Refuse(avctx.size) /\ mpi' = mpi /\ step' = "decode"
    BY DEF OutPicture, d
  <2> HIDE DEF size
  <2> QED
    BY <2>1
<1> HIDE DEF d
<1>7. CASE step' \in {"crashed", "decode"} /\ UNCHANGED <<sh_video, ctx, chain, mpi, refused>>
  <2>1. DecodeShapes'
    BY <1>1, <1>7 DEF DecodeShapes, player
  <2>2. PicInHand'
    BY <1>7 DEF PicInHand
  <2>3. PicturesTrue'
    BY <1>1, <1>2, PicturesStay
  <2>4. Counted'
    BY <1>2, <1>7 DEF Counted, Covers
  <2>5. InTurn'
    BY <1>1 DEF InTurn, Turn, player
  <2>6. DisplayTrue'
    BY <1>1, <1>7, DisplayStays
  <2>7. RefusedOnce'
    BY <1>1, <1>7 DEF RefusedOnce
  <2>8. PutTrue'
    BY <1>7 DEF PutTrue
  <2>9. AspectTrue'
    BY <1>1, <1>2, <1>7, AspectStays DEF AspectTrue
  <2> QED
    BY <2>1, <2>2, <2>3, <2>4, <2>5, <2>6, <2>7, <2>8, <2>9
<1>8. CASE /\ d.res = "ok" /\ Configured(d) /\ ctx' = d.ctx
           /\ IF SizeFits(size)
              THEN /\ mpi' = [size |-> size, n |-> IF pic.img = "own" THEN pic.n ELSE mem[pic.img]]
                   /\ step' \in {"decode", "put"} /\ refused' = NoRefusal
              ELSE Refuse(avctx.size) /\ mpi' = mpi /\ step' = "decode"
  <2>1. /\ sh_video' = d.sh /\ chain' = d.chain /\ ctx' = d.ctx
        /\ d.sh \in Screens /\ d.chain \in Chains /\ d.ctx \in Contexts
        /\ step' \in {"decode", "put"}
    BY <1>5, <1>8 DEF Configured, States
  <2>2. DecodeShapes'
    BY <1>1, <2>1 DEF DecodeShapes, player
  <2>3. PicInHand'
    BY <1>1, <2>1 DEF PicInHand
  <2>4. PicturesTrue'
    BY <1>1, <1>2, PicturesStay
  <2>5. Counted'
    BY <1>2, <1>5, <1>8 DEF Counted, Covers
  <2>6. InTurn'
    BY <1>1 DEF InTurn, Turn, player
  <2>7. DisplayTrue'
    BY <1>1, <1>5, <1>8, <2>1, DisplayIsNew
  <2>8. ASSUME refused # NoRefusal
        PROVE  SizeFits(size)
    <3>1. chain.size = avctx.size /\ (mpi = NoMpi \/ mpi.size = avctx.size)
      BY <1>1, <2>8 DEF RefusedOnce
    <3>2. size = avctx.size
      BY <1>3, <1>5, <1>8, <3>1
    <3>3. avctx.size.w \in Nat /\ avctx.size.h \in Nat
      BY <1>4 DEF Headers, Sizes
    <3> HIDE DEF size
    <3> QED
      BY <1>3, <3>2, <3>3 DEF SizeFits
  <2> HIDE DEF size
  <2>9. RefusedOnce'
    <3>1. CASE SizeFits(size)
      BY <1>8, <3>1 DEF RefusedOnce
    <3>2. CASE ~SizeFits(size)
      <4>1. refused = NoRefusal
        BY <2>8, <3>2
      <4>2. refused.size # avctx.size
        <5>1. avctx.size.w \in Nat \ {0}
          BY <1>4 DEF Headers, Sizes
        <5> QED
          BY <4>1, <5>1 DEF NoRefusal, NoSize
      <4>3. refused' = [size |-> avctx.size, times |-> 1] /\ step' = "decode"
        BY <1>8, <3>2, <4>2 DEF Refuse
      <4> QED
        BY <1>1, <1>5, <1>8, <2>1, <4>3 DEF RefusedOnce
    <3> QED
      BY <3>1, <3>2
  <2>10. PutTrue'
    <3> SUFFICES ASSUME step' = "put" PROVE PutTrue'
      BY DEF PutTrue
    <3>1. /\ mpi' = [size |-> size, n |-> IF pic.img = "own" THEN pic.n ELSE mem[pic.img]]
          /\ size = avctx.size
      BY <1>8 DEF SizeFits
    <3>2. mpi'.size = avctx.size /\ mpi'.n = pic.n
      BY <1>3, <3>1
    <3> QED
      BY <1>1, <1>3, <1>5, <1>8, <2>1, <3>2 DEF PutTrue
  <2>11. AspectTrue'
    <3> SUFFICES ASSUME OneSar' PROVE AspectTrue'
      BY DEF AspectTrue
    <3>1. OneSar /\ UNCHANGED <<film, container>>
      BY <1>1 DEF OneSar, player
    <3>2. /\ avctx.sar = film[1].sar /\ ctx.sar \in {UnsetSar, film[1].sar}
          /\ container[1] # 0 => sh_video.original = container /\ (ctx.vo => sh_video.aspect = container)
      BY <1>2, <3>1 DEF AspectTrue
    <3>3. d.ctx.sar \in {UnsetSar, film[1].sar}
      BY <1>5, <1>8, <3>2
    <3>4. container[1] # 0 => d.sh.original = container /\ d.sh.aspect = container
      BY <1>5, <1>8, <3>2
    <3> QED
      BY <1>1, <1>8, <2>1, <3>1, <3>2, <3>3, <3>4 DEF AspectTrue
  <2> QED
    BY <2>2, <2>3, <2>4, <2>5, <2>6, <2>7, <2>9, <2>10, <2>11
<1> QED
  BY <1>6, <1>7, <1>8

-----------------------------------------------------------------------------
(* Decoding a picture.                                                     *)

NewPic(img) == [n |-> packet, img |-> img, ref |-> film[packet].ref, size |-> avctx.size]

LEMMA TrimmedFacts ==
  ASSUME DecodeShapes, InTurn
  PROVE  /\ Trimmed \in Seq(Pics) /\ Range(Trimmed) \subseteq Range(references)
         /\ Turn(Trimmed, static_idx)
<1>1. references \in Seq(Pics) /\ Turn(references, static_idx)
  BY DEF DecodeShapes, InTurn
<1>2. Trimmed = references \/ (references # <<>> /\ Trimmed = Tail(references))
  BY DEF Trimmed
<1>3. CASE Trimmed = references
  BY <1>1, <1>3
<1>4. CASE references # <<>> /\ Trimmed = Tail(references)
  BY <1>1, <1>4, TailFacts
<1> QED
  BY <1>2, <1>3, <1>4

\* A picture referred to follows the others, and the oldest may go.
LEMMA KeptFacts ==
  ASSUME codec \in Codecs, NEW frames \in Seq(Pics), NEW p \in Pics
  PROVE  LET k == RefsKept(Append(frames, p)) IN
         /\ k \in Seq(Pics) /\ Range(k) \subseteq Range(frames) \cup {p}
         /\ \A i \in {0, 1} : Turn(frames, i) /\ p.img = "own" => Turn(k, i)
         /\ \A i \in {0, 1} : Turn(frames, i) /\ p.img = Image(i) => Turn(k, 1 - i)
<1> DEFINE a == Append(frames, p)
           k == RefsKept(a)
<1>1. /\ a \in Seq(Pics) /\ a # <<>> /\ Range(a) \subseteq Range(frames) \cup {p}
      /\ \A i \in {0, 1} : Turn(frames, i) /\ p.img = "own" => Turn(a, i)
      /\ \A i \in {0, 1} : Turn(frames, i) /\ p.img = Image(i) => Turn(a, 1 - i)
  BY AppendFacts
<1> HIDE DEF a
<1>2. k = a \/ k = Tail(a)
  BY DEF RefsKept
<1>3. /\ Tail(a) \in Seq(Pics) /\ Range(Tail(a)) \subseteq Range(a)
      /\ \A i : Turn(a, i) => Turn(Tail(a), i)
  BY <1>1, TailFacts
<1> HIDE DEF k
<1>4. CASE k = a
  BY <1>1, <1>4 DEF k, a
<1>5. CASE k = Tail(a)
  <2>1. k \in Seq(Pics) /\ Range(k) \subseteq Range(frames) \cup {p}
    BY <1>1, <1>3, <1>5
  <2>2. \A i \in {0, 1} : Turn(frames, i) /\ p.img = "own" => Turn(k, i)
    BY <1>1, <1>3, <1>5
  <2>3. \A i \in {0, 1} : Turn(frames, i) /\ p.img = Image(i) => Turn(k, 1 - i)
    BY <1>1, <1>3, <1>5
  <2> QED
    BY <2>1, <2>2, <2>3 DEF k, a
<1> QED
  BY <1>2, <1>4, <1>5

\* Which pictures there are then, and that the images stay in turn.
LEMMA DecodedFacts ==
  ASSUME DecodeShapes, PicInHand, InTurn, step = "get", NEW img \in {"own"} \cup Images, Decoded(img),
         UNCHANGED player
  PROVE  /\ NewPic(img) \in Pics
         /\ references' \in Seq(Pics) /\ late' \in SUBSET Pics /\ IsFiniteSet(late')
         /\ pic' \in Pics \cup {NoPic}
         /\ Range(references') \cup late' \cup {pic'} \subseteq
              Range(Trimmed) \cup late \cup {NewPic(img), NoPic}
         /\ avctx' \in Headers /\ avctx'.size = avctx.size /\ avctx'.sar = film[packet].sar
         /\ packet' \in 1..Len(film) + 1
         /\ (pic' = NoPic /\ step' = "decode") \/ (pic' # NoPic /\ step' = "out")
         /\ img = "own" \/ ~film[packet].ref =>
              Turn(references', static_idx) /\ \A p \in late' : p.img # Image(static_idx)
         /\ img = Image(static_idx) /\ film[packet].ref =>
              Turn(references', 1 - static_idx) /\ \A p \in late' : p.img # Image(1 - static_idx)
         /\ codec.delay = 0 => late' = {}
<1> DEFINE new == NewPic(img)
           lagging == film[packet].ref /\ codec.delay = 1
<1>1. packet \in 1..Len(film) /\ pic = NoPic /\ codec \in Codecs /\ codec.delay \in 0..1
  BY DecodeAssumption DEF DecodeShapes, PicInHand
<1>2. film[packet].size \in Sizes /\ film[packet].sar \in Nat /\ film[packet].ref \in BOOLEAN
  BY <1>1, FilmFacts
<1>3. new \in Pics /\ new.img = img /\ new.ref = film[packet].ref
  <2>1. packet \in Nat \ {0} /\ avctx.size \in Sizes
    BY <1>1 DEF DecodeShapes, Headers
  <2> QED
    BY <1>2, <2>1 DEF NewPic, Pics
<1>4. /\ references' = (IF film[packet].ref THEN RefsKept(Append(Trimmed, new)) ELSE Trimmed)
      /\ late' = IF lagging THEN {new} ELSE late
      /\ pic' = IF ~lagging THEN new ELSE IF late = {} THEN NoPic ELSE CHOOSE p \in late : TRUE
      /\ avctx' = [avctx EXCEPT !.sar = film[packet].sar]
      /\ step' = (IF pic' = NoPic THEN "decode" ELSE "out")
      /\ packet' = packet + 1
  BY DEF Decoded, NewPic
<1> HIDE DEF new
<1>5. /\ Trimmed \in Seq(Pics) /\ Turn(Trimmed, static_idx) /\ static_idx \in {0, 1}
      /\ late \subseteq Pics /\ IsFiniteSet(late)
      /\ (\A p \in late : p.img # Image(static_idx)) /\ (codec.delay = 0 => late = {})
  BY TrimmedFacts DEF DecodeShapes, InTurn
<1>6. LET k == RefsKept(Append(Trimmed, new)) IN
      /\ k \in Seq(Pics) /\ Range(k) \subseteq Range(Trimmed) \cup {new}
      /\ \A i \in {0, 1} : Turn(Trimmed, i) /\ new.img = "own" => Turn(k, i)
      /\ \A i \in {0, 1} : Turn(Trimmed, i) /\ new.img = Image(i) => Turn(k, 1 - i)
  BY <1>1, <1>3, <1>5, KeptFacts
<1>7. /\ references' \in Seq(Pics) /\ Range(references') \subseteq Range(Trimmed) \cup {new}
      /\ img = "own" \/ ~film[packet].ref => Turn(references', static_idx)
      /\ img = Image(static_idx) /\ film[packet].ref => Turn(references', 1 - static_idx)
  <2>1. CASE film[packet].ref
    BY <1>3, <1>4, <1>5, <1>6, <2>1
  <2>2. CASE ~film[packet].ref
    BY <1>4, <1>5, <2>2
  <2> QED
    BY <2>1, <2>2
<1>8. /\ late' \in SUBSET Pics /\ IsFiniteSet(late') /\ late' \subseteq late \cup {new}
      /\ codec.delay = 0 => late' = {}
  <2>1. IsFiniteSet({new})
    BY FS_Singleton
  <2>2. codec.delay = 0 => ~lagging
    OBVIOUS
  <2>3. late' = {new} \/ (late' = late)
    BY <1>4
  <2>4. late' \in SUBSET Pics /\ IsFiniteSet(late') /\ late' \subseteq late \cup {new}
    BY <1>3, <1>5, <2>1, <2>3
  <2> HIDE DEF lagging
  <2> QED
    BY <1>4, <1>5, <2>2, <2>4
<1>9. img = "own" \/ ~film[packet].ref => \A p \in late' : p.img # Image(static_idx)
  <2>1. "own" # Image(static_idx)
    BY DEF Image
  <2> QED
    BY <1>3, <1>4, <1>5, <2>1
<1>10. ASSUME img = Image(static_idx), film[packet].ref
       PROVE  \A p \in late' : p.img # Image(1 - static_idx)
  <2>1. Image(static_idx) # Image(1 - static_idx)
    BY <1>5 DEF Image
  <2>2. CASE codec.delay = 1
    BY <1>3, <1>4, <1>10, <2>1, <2>2
  <2>3. CASE codec.delay = 0
    BY <1>8, <2>3
  <2> QED
    BY <1>1, <2>2, <2>3
<1>11. pic' \in late \cup {new, NoPic}
  BY <1>4
<1>12. avctx' \in Headers /\ avctx'.size = avctx.size /\ avctx'.sar = film[packet].sar
  <2>1. avctx \in Headers
    BY DEF DecodeShapes
  <2> QED
    BY <1>2, <1>4, <2>1 DEF Headers
<1>13. packet' \in 1..Len(film) + 1
  BY <1>1, <1>4, FilmFacts
<1>14. (pic' = NoPic /\ step' = "decode") \/ (pic' # NoPic /\ step' = "out")
  BY <1>4
<1>15. NewPic(img) \in Pics /\ new = NewPic(img)
  BY <1>3 DEF new
<1>16. pic' \in Pics \cup {NoPic}
  BY <1>3, <1>5, <1>11
<1>17. Range(references') \cup late' \cup {pic'} \subseteq
         Range(Trimmed) \cup late \cup {NewPic(img), NoPic}
  BY <1>7, <1>8, <1>11, <1>15
<1> HIDE DEF new
<1> QED
  BY <1>7, <1>8, <1>9, <1>10, <1>12, <1>13, <1>14, <1>15, <1>16, <1>17

Remaining == Range(Trimmed) \cup late
Dropped == Range(references) \ (Range(Trimmed) \cup late)

LEMMA RemainingFacts ==
  ASSUME DecodeInv
  PROVE  /\ Remaining \in SUBSET Used /\ Remaining \in SUBSET Pics /\ IsFiniteSet(Remaining)
         /\ Dropped \in SUBSET Used /\ Dropped \in SUBSET AnyPics /\ IsFiniteSet(Dropped)
<1>1. DecodeShapes /\ InTurn
  BY DEF DecodeInv
<1>2. /\ Used \in SUBSET Pics /\ IsFiniteSet(Used)
      /\ Used = Range(references) \cup late \cup ({pic} \ {NoPic})
  BY <1>1, UsedFacts
<1>3. Range(Trimmed) \subseteq Range(references)
  BY <1>1, TrimmedFacts
<1>4. Remaining \in SUBSET Used /\ Dropped \in SUBSET Used
  BY <1>2, <1>3 DEF Remaining, Dropped
<1> QED
  BY <1>2, <1>4, FS_Subset DEF AnyPics

\* The counters when memory was asked for: one more than are in use, if it is to be drawn into.
LEMMA AskingFacts ==
  ASSUME DecodeInv, packet \in 1..Len(film)
  PROVE  LET c == Released(ctx, Dropped) IN
         /\ Asking \in Contexts /\ Asking.vo = ctx.vo /\ Asking.sar = ctx.sar
         /\ c \in Contexts /\ Covers(c, Remaining)
         /\ ~ctx.dr1 => Asking.ip = c.ip /\ Asking.b = c.b
         /\ ctx.dr1 => IF film[packet].ref THEN Asking.ip = c.ip + 1 /\ Asking.b = c.b
                       ELSE Asking.ip = c.ip /\ Asking.b = c.b + 1
<1> DEFINE c == Released(ctx, Dropped)
<1>1. ctx \in Contexts /\ Used \in SUBSET Pics /\ IsFiniteSet(Used) /\ Covers(ctx, Used)
  BY UsedFacts DEF DecodeInv, DecodeShapes, Counted
<1>2. /\ Remaining \in SUBSET Used /\ IsFiniteSet(Dropped) /\ Dropped \in SUBSET AnyPics
      /\ Dropped \in SUBSET (Used \cup {NoPic}) /\ Remaining \cap Dropped \subseteq {NoPic}
      /\ Remaining \subseteq Used \cup {NoPic}
  BY RemainingFacts DEF Remaining, Dropped
<1>3. c \in Contexts /\ c.vo = ctx.vo /\ c.sar = ctx.sar /\ c.dr1 = ctx.dr1
  BY <1>1, <1>2, ReleasedFacts
<1>4. Covers(c, Remaining)
  BY <1>1, <1>2, CountedStill
<1>5. Asking = IF ~c.dr1 THEN c
               ELSE IF film[packet].ref THEN [c EXCEPT !.ip = @ + 1] ELSE [c EXCEPT !.b = @ + 1]
  BY DEF Asking, Dropped
<1> HIDE DEF c
<1>6. CASE ~ctx.dr1
  BY <1>3, <1>4, <1>5, <1>6 DEF c
<1>7. CASE ctx.dr1
  <2>1. c.dr1 = TRUE
    BY <1>3, <1>7 DEF Contexts
  <2>2. CASE film[packet].ref
    <3>1. Asking = [c EXCEPT !.ip = @ + 1]
      BY <1>5, <2>1, <2>2
    <3>2. /\ Asking \in Contexts /\ Asking.vo = ctx.vo /\ Asking.sar = ctx.sar
          /\ Asking.ip = c.ip + 1 /\ Asking.b = c.b
      BY <1>3, <3>1 DEF Contexts
    <3> QED
      BY <1>3, <1>4, <1>7, <2>2, <3>2 DEF c
  <2>3. CASE ~film[packet].ref
    <3>1. Asking = [c EXCEPT !.b = @ + 1]
      BY <1>5, <2>1, <2>3
    <3>2. /\ Asking \in Contexts /\ Asking.vo = ctx.vo /\ Asking.sar = ctx.sar
          /\ Asking.b = c.b + 1 /\ Asking.ip = c.ip
      BY <1>3, <3>1 DEF Contexts
    <3> QED
      BY <1>3, <1>4, <1>7, <2>3, <3>2 DEF c
  <2> QED
    BY <2>2, <2>3
<1> QED
  BY <1>6, <1>7

LEMMA TwoAreMore ==
  ASSUME NEW S, IsFiniteSet(S), NEW p \in S, NEW q \in S, p # q
  PROVE  Cardinality(S) \in Nat /\ Cardinality(S) >= 2
<1>1. IsFiniteSet({p}) /\ Cardinality({p}) = 1
  BY FS_Singleton
<1>2. IsFiniteSet({p} \cup {q}) /\ Cardinality({p} \cup {q}) = 2
  <2>1. /\ IsFiniteSet({p} \cup {q})
        /\ Cardinality({p} \cup {q}) = IF q \in {p} THEN Cardinality({p}) ELSE Cardinality({p}) + 1
    BY <1>1, FS_AddElement
  <2>2. q \notin {p}
    OBVIOUS
  <2>3. Cardinality({p} \cup {q}) = 1 + 1
    BY <1>1, <2>1, <2>2
  <2> QED
    BY <2>1, <2>3
<1>3. {p} \cup {q} \in SUBSET S
  OBVIOUS
<1>4. Cardinality({p} \cup {q}) <= Cardinality(S) /\ Cardinality(S) \in Nat
  BY <1>3, FS_Subset, FS_CardinalityType
<1> QED
  BY <1>2, <1>4

LEMMA OneIsMore ==
  ASSUME NEW S, IsFiniteSet(S), NEW p \in S
  PROVE  Cardinality(S) \in Nat /\ Cardinality(S) >= 1
<1>1. Cardinality(S) \in Nat /\ Cardinality(S) # 0
  BY FS_CardinalityType, FS_EmptySet
<1> QED
  BY <1>1

\* The counters allow it, so the image whose turn it is holds no picture in use.
LEMMA ImageIsFree ==
  ASSUME DecodeInv, packet \in 1..Len(film), ctx.dr1,
         NEW c \in Contexts, c.ip = Asking.ip, c.b = Asking.b, ~TooMany(c)
  PROVE  \A p \in Remaining : p.img # ImageFor
<1> DEFINE r == Released(ctx, Dropped)
<1>1. /\ Asking \in Contexts /\ r \in Contexts /\ Covers(r, Remaining)
      /\ IF film[packet].ref THEN Asking.ip = r.ip + 1 /\ Asking.b = r.b
         ELSE Asking.ip = r.ip /\ Asking.b = r.b + 1
  BY AskingFacts
<1>2. Remaining \in SUBSET Used /\ Remaining \in SUBSET Pics /\ IsFiniteSet(Remaining)
  BY RemainingFacts
<1>3. PicturesTrue /\ InTurn /\ DecodeShapes
  BY DEF DecodeInv
<1>4. \A p \in Remaining : DrawnRight(p) /\ p.ref \in BOOLEAN
  BY <1>2, <1>3 DEF PicturesTrue, Pics
<1>5. c.b <= 1 /\ c.ip <= 2 /\ c.b \in Int /\ c.ip \in Int /\ r.ip \in Int /\ r.b \in Int
  BY <1>1 DEF TooMany, Contexts
<1> HIDE DEF r
<1>6. CASE film[packet].ref
  <2>1. ImageFor = Image(static_idx) /\ static_idx \in {0, 1} /\ Trimmed \in Seq(Pics)
    BY <1>3, <1>6, TrimmedFacts DEF ImageFor, Image, DecodeShapes
  <2>2. r.ip <= 1
    BY <1>1, <1>5, <1>6
  <2> SUFFICES ASSUME NEW p \in Remaining, p.img = Image(static_idx) PROVE FALSE
    BY <2>1
  <2>3. p \in Range(Trimmed)
    BY <1>3 DEF InTurn, Remaining
  <2>4. PICK k \in 1..Len(Trimmed) : Trimmed[k] = p
    BY <2>1, <2>3 DEF Range
  <2>5. PICK j \in k + 1..Len(Trimmed) : Trimmed[j].img = Image(1 - static_idx)
    BY <1>3, <2>4, TrimmedFacts DEF Turn
  <2>6. j \in 1..Len(Trimmed)
    BY <2>4, <2>5
  <2> DEFINE q == Trimmed[j]
  <2>7. q \in Remaining
    BY <2>1, <2>6 DEF Range, Remaining
  <2>8. q.img = Image(1 - static_idx) /\ Image(1 - static_idx) # Image(static_idx)
    BY <2>1, <2>5 DEF Image
  <2> HIDE DEF q
  <2>9. /\ p.img # "own" /\ q.img # "own" /\ p.img # "temp" /\ q.img # "temp" /\ p # q
    BY <2>8 DEF Image
  <2>10. p \in Drawn(Remaining, TRUE) /\ q \in Drawn(Remaining, TRUE)
    BY <1>4, <2>7, <2>9 DEF Drawn, DrawnRight
  <2> DEFINE n == Cardinality(Drawn(Remaining, TRUE))
  <2>11. n \in Nat /\ n >= 2
    BY <1>2, <2>9, <2>10, DrawnIsFinite, TwoAreMore
  <2>12. r.ip >= n
    BY <1>1 DEF Covers
  <2> HIDE DEF n
  <2> QED
    BY <1>5, <2>2, <2>11, <2>12
<1>7. CASE ~film[packet].ref
  <2>1. ImageFor = "temp"
    BY <1>7 DEF ImageFor
  <2>2. r.b <= 0
    BY <1>1, <1>5, <1>7
  <2> SUFFICES ASSUME NEW p \in Remaining, p.img = "temp" PROVE FALSE
    BY <2>1
  <2>3. p \in Drawn(Remaining, FALSE)
    BY <1>4 DEF Drawn, DrawnRight
  <2> DEFINE n == Cardinality(Drawn(Remaining, FALSE))
  <2>4. n \in Nat /\ n >= 1
    BY <1>2, <2>3, DrawnIsFinite, OneIsMore
  <2>5. r.b >= n
    BY <1>1 DEF Covers
  <2> HIDE DEF n
  <2> QED
    BY <1>5, <2>2, <2>4, <2>5
<1> QED
  BY <1>6, <1>7

\* A picture decoded, into an image or not, with what that leaves of the others.
LEMMA PictureDecoded ==
  ASSUME DecodeInv, step = "get", UNCHANGED <<player, hurried>>, NEW img \in {"own"} \cup Images, Decoded(img),
         NEW c \in Contexts, c.ip = Asking.ip, c.b = Asking.b, ctx' = Left(c),
         sh_video' \in Screens, chain' \in Chains,
         \/ img = "own" /\ UNCHANGED <<mem, static_idx>>
         \/ /\ img = ImageFor /\ ctx.dr1 /\ ~TooMany(c) /\ mem' = [mem EXCEPT ![ImageFor] = packet]
            /\ static_idx' = NextStatic(film[packet].ref)
  PROVE  /\ DecodeShapes' /\ PicInHand' /\ PicturesTrue' /\ Counted' /\ InTurn'
         /\ ctx'.vo = c.vo /\ ctx'.sar = c.sar
         /\ avctx'.size = avctx.size /\ avctx'.sar = film[packet].sar /\ step' \in {"decode", "out"}
<1> DEFINE new == NewPic(img)
<1>1. DecodeShapes /\ PicInHand /\ PicturesTrue /\ InTurn
  BY DEF DecodeInv
<1>2. packet \in 1..Len(film) /\ pic = NoPic /\ static_idx \in {0, 1} /\ film[packet].ref \in BOOLEAN
  BY <1>1, FilmFacts DEF DecodeShapes, PicInHand
<1>3. /\ new \in Pics
      /\ references' \in Seq(Pics) /\ late' \in SUBSET Pics /\ IsFiniteSet(late')
      /\ pic' \in Pics \cup {NoPic}
      /\ Range(references') \cup late' \cup {pic'} \subseteq Remaining \cup {new, NoPic}
      /\ avctx' \in Headers /\ avctx'.size = avctx.size /\ avctx'.sar = film[packet].sar
      /\ packet' \in 1..Len(film) + 1
      /\ (pic' = NoPic /\ step' = "decode") \/ (pic' # NoPic /\ step' = "out")
  BY <1>1, DecodedFacts DEF Remaining
<1>4. /\ img = "own" \/ ~film[packet].ref =>
           Turn(references', static_idx) /\ \A p \in late' : p.img # Image(static_idx)
      /\ img = Image(static_idx) /\ film[packet].ref =>
           Turn(references', 1 - static_idx) /\ \A p \in late' : p.img # Image(1 - static_idx)
      /\ codec.delay = 0 => late' = {}
  BY <1>1, DecodedFacts
<1>5. new.img = img /\ new.n = packet /\ new.ref = film[packet].ref /\ new.size = avctx.size
  BY DEF NewPic
<1> HIDE DEF new
<1>6. Used' \subseteq Remaining \cup {new}
  BY <1>3 DEF Used
<1>7. Remaining \in SUBSET Used /\ Remaining \in SUBSET Pics /\ IsFiniteSet(Remaining)
  BY RemainingFacts
<1>8. Covers(c, Remaining \cup {new})
  <2> DEFINE r == Released(ctx, Dropped)
  <2>1. /\ Asking \in Contexts /\ r \in Contexts /\ Covers(r, Remaining)
        /\ ~ctx.dr1 => Asking.ip = r.ip /\ Asking.b = r.b
        /\ ctx.dr1 => IF film[packet].ref THEN Asking.ip = r.ip + 1 /\ Asking.b = r.b
                      ELSE Asking.ip = r.ip /\ Asking.b = r.b + 1
    BY <1>2, AskingFacts
  <2> HIDE DEF r
  <2>2. r.ip \in Int /\ r.b \in Int
    BY <2>1 DEF Contexts
  <2>3. c.ip >= r.ip /\ c.b >= r.b
    BY <2>1, <2>2
  <2>4. new.img # "own" => IF new.ref THEN c.ip >= r.ip + 1 ELSE c.b >= r.b + 1
    BY <1>5, <2>1, <2>2
  <2> QED
    BY <1>3, <1>7, <2>1, <2>3, <2>4, CountedOneMore
<1> DEFINE S == Remaining \cup {new}
           left == Range(Trimmed) \ (Range(references') \cup late' \cup {pic'})
<1>9. S \in SUBSET Pics /\ IsFiniteSet(S) /\ left \in SUBSET S
  BY <1>3, <1>7, FS_AddElement DEF Remaining
<1>10. left \in SUBSET AnyPics /\ IsFiniteSet(left)
  BY <1>9, FS_Subset DEF AnyPics
<1>11. ctx' = Released(c, left)
  BY DEF Left
<1>12. ctx' \in Contexts /\ ctx'.vo = c.vo /\ ctx'.sar = c.sar
  BY <1>10, <1>11, ReleasedFacts
<1>13. Counted'
  <2>1. Used' \subseteq S \cup {NoPic} /\ Used' \cap left \subseteq {NoPic}
    BY <1>6 DEF Used
  <2>2. left \in SUBSET (S \cup {NoPic}) /\ Covers(c, S)
    BY <1>8, <1>9
  <2> HIDE DEF S, left
  <2> QED
    BY <1>9, <1>11, <2>1, <2>2, CountedStill DEF Counted
<1> HIDE DEF S, left
<1>14. DecodeShapes'
  <2>1. static_idx' \in {0, 1}
    BY <1>2 DEF NextStatic
  <2>2. mem' \in [Images -> Nat]
    BY <1>1, <1>2 DEF DecodeShapes
  <2> QED
    BY <1>1, <1>3, <1>12, <2>1, <2>2 DEF DecodeShapes, player
<1>15. PicInHand'
  BY <1>3 DEF PicInHand
<1>16. PicturesTrue'
  <2>1. CASE img = "own" /\ UNCHANGED <<mem, static_idx>>
    BY <1>1, <1>3, <1>5, <1>6, <1>7, <2>1 DEF PicturesTrue, DrawnRight
  <2>2. CASE /\ img = ImageFor /\ ctx.dr1 /\ ~TooMany(c) /\ mem' = [mem EXCEPT ![ImageFor] = packet]
             /\ static_idx' = NextStatic(film[packet].ref)
    <3>1. \A p \in Remaining : p.img # ImageFor
      BY <1>2, <2>2, ImageIsFree
    <3>2. ImageFor \in Images /\ (ImageFor = "temp" <=> ~film[packet].ref) /\ mem \in [Images -> Nat]
      BY <1>1, <1>2 DEF ImageFor, Images, DecodeShapes
    <3> SUFFICES ASSUME NEW p \in Used'
                 PROVE  /\ DrawnRight(p) /\ p.size = avctx'.size
                        /\ p.img # "own" => mem'[p.img] = p.n
      BY DEF PicturesTrue, DrawnRight
    <3>3. CASE p = new
      BY <1>3, <1>5, <2>2, <3>2, <3>3 DEF DrawnRight
    <3>4. CASE p \in Remaining
      <4>1. DrawnRight(p) /\ p.size = avctx.size /\ (p.img # "own" => mem[p.img] = p.n)
        BY <1>1, <1>7, <3>4 DEF PicturesTrue
      <4>2. mem'[p.img] = mem[p.img] \/ p.img = "own"
        BY <1>7, <2>2, <3>1, <3>2, <3>4 DEF Pics
      <4> QED
        BY <1>3, <4>1, <4>2
    <3> QED
      BY <1>6, <3>3, <3>4
  <2> QED
    BY <2>1, <2>2
<1>17. InTurn'
  <2>1. CASE img = "own" /\ UNCHANGED <<mem, static_idx>>
    BY <1>4, <2>1 DEF InTurn, Turn, player
  <2>2. CASE img = ImageFor /\ static_idx' = NextStatic(film[packet].ref)
    <3>1. CASE film[packet].ref
      <4>1. static_idx' = 1 - static_idx /\ img = Image(static_idx)
        BY <1>2, <2>2, <3>1 DEF NextStatic, ImageFor, Image
      <4> QED
        BY <1>4, <3>1, <4>1 DEF InTurn, Turn, player
    <3>2. CASE ~film[packet].ref
      <4>1. static_idx' = static_idx
        BY <1>2, <2>2, <3>2 DEF NextStatic
      <4> QED
        BY <1>4, <3>2, <4>1 DEF InTurn, Turn, player
    <3> QED
      BY <3>1, <3>2
  <2> QED
    BY <2>1, <2>2
<1> QED
  BY <1>3, <1>12, <1>13, <1>14, <1>15, <1>16, <1>17

LEMMA GetOwnKeeps == DecodeInv /\ GetOwn => DecodeInv'
<1> SUFFICES ASSUME DecodeInv, GetOwn PROVE DecodeInv'
  OBVIOUS
<1>1. /\ step = "get" /\ ~ctx.dr1 /\ Decoded("own") /\ ctx' = Left(Asking)
      /\ UNCHANGED <<player, sh_video, chain, static_idx, mem, mpi, hurried, refused>>
  BY DEF GetOwn
<1>2. /\ packet \in 1..Len(film) /\ sh_video' \in Screens /\ chain' \in Chains
      /\ film[packet].ref \in BOOLEAN /\ (OneSar => film[packet].sar = film[1].sar)
  <2>1. DecodeShapes
    BY DEF DecodeInv
  <2>2. packet \in 1..Len(film) /\ sh_video' \in Screens /\ chain' \in Chains
    BY <1>1, <2>1 DEF DecodeShapes
  <2> QED
    BY <2>1, <2>2, FilmFacts
<1>3. Asking \in Contexts /\ Asking.vo = ctx.vo /\ Asking.sar = ctx.sar
  BY <1>2, AskingFacts
<1>4. /\ DecodeShapes' /\ PicInHand' /\ PicturesTrue' /\ Counted' /\ InTurn'
      /\ ctx'.vo = Asking.vo /\ ctx'.sar = Asking.sar
      /\ avctx'.size = avctx.size /\ avctx'.sar = film[packet].sar /\ step' \in {"decode", "out"}
  BY <1>1, <1>2, <1>3, PictureDecoded
<1> USE DEF DecodeInv
<1>5. DisplayTrue'
  BY <1>1, <1>3, <1>4, DisplayStays
<1>6. RefusedOnce'
  BY <1>1, <1>4 DEF RefusedOnce
<1>7. PutTrue'
  BY <1>4 DEF PutTrue
<1>8. AspectTrue'
  BY <1>1, <1>2, <1>3, <1>4, AspectStays
<1> QED
  BY <1>4, <1>5, <1>6, <1>7, <1>8

LEMMA GetImageKeeps == DecodeInv /\ GetImage => DecodeInv'
<1> SUFFICES ASSUME DecodeInv, GetImage PROVE DecodeInv'
  OBVIOUS
<1> DEFINE a == [Now EXCEPT !.ctx = Asking]
           d == InitVo(a, avctx, TRUE)
<1>1. DecodeShapes /\ DisplayTrue /\ RefusedOnce /\ AspectTrue /\ PicInHand
  BY DEF DecodeInv
<1>2. /\ step = "get" /\ ctx.dr1 /\ UNCHANGED <<player, mpi, hurried, refused>>
      /\ \/ /\ step' = "crashed"
            /\ UNCHANGED <<packet, sh_video, ctx, chain, static_idx, mem, avctx, references, late, pic>>
         \/ /\ d.res = "fail" \/ (d.res = "ok" /\ TooMany(d.ctx))
            /\ Configured(d) /\ Decoded("own") /\ ctx' = Left(WithoutDr1(d.ctx))
            /\ UNCHANGED <<static_idx, mem>>
         \/ /\ d.res = "ok" /\ ~TooMany(d.ctx)
            /\ Configured(d) /\ Decoded(ImageFor) /\ ctx' = Left(d.ctx)
            /\ mem' = [mem EXCEPT ![ImageFor] = packet]
            /\ static_idx' = NextStatic(film[packet].ref)
  BY DEF GetImage
<1>3. /\ packet \in 1..Len(film) /\ film[packet].ref \in BOOLEAN
      /\ OneSar => film[packet].sar = film[1].sar
      /\ codec \in Codecs /\ sizing \in Sizings /\ avctx \in Headers
  BY <1>1, <1>2, FilmFacts DEF DecodeShapes
<1>4. Asking \in Contexts /\ Asking.vo = ctx.vo /\ Asking.sar = ctx.sar
  BY <1>3, AskingFacts
<1>5. a \in States /\ a.sh = sh_video /\ a.ctx = Asking /\ a.chain = chain /\ a.res = "ok" /\ DisplayOf(a)
  BY <1>1, <1>4, NowFacts
<1> HIDE DEF a
<1>6. /\ d \in States
      /\ d.res = "fail" => d.sh = a.sh /\ d.chain = a.chain /\ d.ctx = a.ctx
      /\ d.res = "ok" =>
           /\ d.ctx.vo = TRUE /\ d.sh.size = avctx.size /\ d.chain.size = avctx.size /\ DisplayOf(d)
           /\ d.ctx.ip = a.ctx.ip /\ d.ctx.b = a.ctx.b /\ d.ctx.sar = a.ctx.sar
           /\ d.sh.original = a.sh.original
           /\ \/ d.sh.aspect = d.sh.original
              \/ d.sh.original = a.sh.original /\ d.sh.aspect = a.sh.aspect /\ a.ctx.vo
  BY <1>3, <1>5, InitVoFacts
<1> HIDE DEF d
<1>7. CASE /\ step' = "crashed"
           /\ UNCHANGED <<packet, sh_video, ctx, chain, static_idx, mem, avctx, references, late, pic>>
  <2> USE DEF DecodeInv
  <2>1. Used' = Used
    BY <1>7 DEF Used
  <2>2. DecodeShapes'
    BY <1>2, <1>7 DEF DecodeShapes, player
  <2>3. PicInHand'
    BY <1>7 DEF PicInHand
  <2>4. PicturesTrue'
    BY <1>7, <2>1, PicturesStay
  <2>5. Counted'
    BY <1>7, <2>1 DEF Counted, Covers
  <2>6. InTurn'
    BY <1>2, <1>7 DEF InTurn, Turn, player
  <2>7. DisplayTrue'
    BY <1>2, <1>7, DisplayStays
  <2>8. RefusedOnce'
    BY <1>2, <1>7 DEF RefusedOnce
  <2>9. PutTrue'
    BY <1>7 DEF PutTrue
  <2>10. AspectTrue'
    BY <1>2, <1>7, <2>1, AspectStays DEF AspectTrue
  <2> QED
    BY <2>2, <2>3, <2>4, <2>5, <2>6, <2>7, <2>8, <2>9, <2>10
<1>8. ASSUME d.res \in {"ok", "fail"}, Configured(d), ctx'.vo = d.ctx.vo, ctx'.sar = d.ctx.sar,
             avctx'.size = avctx.size, avctx'.sar = film[packet].sar, step' \in {"decode", "out"}
      PROVE  DisplayTrue' /\ RefusedOnce' /\ PutTrue' /\ AspectTrue'
  <2>1. sh_video' = d.sh /\ chain' = d.chain /\ ctx.vo \in BOOLEAN
    BY <1>1, <1>8 DEF Configured, DecodeShapes, Contexts
  <2>2. DisplayTrue'
    <3>1. DisplayOf(d)
      BY <1>5, <1>6, <1>8 DEF DisplayOf
    <3> QED
      BY <1>2, <1>8, <2>1, <3>1, DisplayIsNew
  <2>3. RefusedOnce'
    <3>1. d.chain.size \in {chain.size, avctx.size}
      BY <1>5, <1>6, <1>8
    <3> QED
      BY <1>1, <1>2, <1>8, <2>1, <3>1 DEF RefusedOnce
  <2>4. PutTrue'
    BY <1>8 DEF PutTrue
  <2>5. AspectTrue'
    <3> SUFFICES ASSUME OneSar' PROVE AspectTrue'
      BY DEF AspectTrue
    <3>1. OneSar /\ UNCHANGED <<film, container>>
      BY <1>2 DEF OneSar, player
    <3>2. /\ avctx'.sar = film[1].sar /\ ctx.sar \in {UnsetSar, film[1].sar}
          /\ container[1] # 0 => sh_video.original = container /\ (ctx.vo => sh_video.aspect = container)
      BY <1>1, <1>3, <1>8, <3>1 DEF AspectTrue
    <3>3. d.ctx.sar = ctx.sar /\ d.sh.original = sh_video.original
      BY <1>4, <1>5, <1>6, <1>8
    <3>4. container[1] # 0 => (d.ctx.vo => d.sh.aspect = container)
      <4>1. CASE d.res = "fail"
        BY <1>4, <1>5, <1>6, <3>2, <4>1
      <4>2. CASE d.res = "ok"
        BY <1>4, <1>5, <1>6, <3>2, <3>3, <4>2
      <4> QED
        BY <1>8, <4>1, <4>2
    <3> QED
      BY <1>8, <2>1, <3>1, <3>2, <3>3, <3>4 DEF AspectTrue
  <2> QED
    BY <2>2, <2>3, <2>4, <2>5
<1>9. ASSUME d.res \in {"ok", "fail"}
      PROVE  /\ d.ctx \in Contexts /\ d.ctx.ip = Asking.ip /\ d.ctx.b = Asking.b
             /\ d.sh \in Screens /\ d.chain \in Chains
  BY <1>5, <1>6, <1>9 DEF States
<1>10. CASE /\ d.res = "fail" \/ (d.res = "ok" /\ TooMany(d.ctx))
            /\ Configured(d) /\ Decoded("own") /\ ctx' = Left(WithoutDr1(d.ctx))
            /\ UNCHANGED <<static_idx, mem>>
  <2> DEFINE c == WithoutDr1(d.ctx)
  <2>1. /\ c \in Contexts /\ c.ip = Asking.ip /\ c.b = Asking.b /\ c.vo = d.ctx.vo /\ c.sar = d.ctx.sar
    BY <1>9, <1>10 DEF WithoutDr1, Contexts
  <2>2. sh_video' \in Screens /\ chain' \in Chains
    BY <1>9, <1>10 DEF Configured
  <2> HIDE DEF c
  <2>3. /\ DecodeShapes' /\ PicInHand' /\ PicturesTrue' /\ Counted' /\ InTurn'
        /\ ctx'.vo = c.vo /\ ctx'.sar = c.sar
        /\ avctx'.size = avctx.size /\ avctx'.sar = film[packet].sar /\ step' \in {"decode", "out"}
    <3>1. ctx' = Left(c)
      BY <1>10 DEF c
    <3> QED
      BY <1>2, <1>10, <2>1, <2>2, <3>1, PictureDecoded
  <2>4. DisplayTrue' /\ RefusedOnce' /\ PutTrue' /\ AspectTrue'
    BY <1>8, <1>10, <2>1, <2>3
  <2> QED
    BY <2>3, <2>4 DEF DecodeInv
<1>11. CASE /\ d.res = "ok" /\ ~TooMany(d.ctx)
            /\ Configured(d) /\ Decoded(ImageFor) /\ ctx' = Left(d.ctx)
            /\ mem' = [mem EXCEPT ![ImageFor] = packet]
            /\ static_idx' = NextStatic(film[packet].ref)
  <2>1. sh_video' \in Screens /\ chain' \in Chains /\ ImageFor \in {"own"} \cup Images
    BY <1>9, <1>11 DEF Configured, ImageFor, Images
  <2>2. /\ DecodeShapes' /\ PicInHand' /\ PicturesTrue' /\ Counted' /\ InTurn'
        /\ ctx'.vo = d.ctx.vo /\ ctx'.sar = d.ctx.sar
        /\ avctx'.size = avctx.size /\ avctx'.sar = film[packet].sar /\ step' \in {"decode", "out"}
    BY <1>2, <1>9, <1>11, <2>1, PictureDecoded
  <2>3. DisplayTrue' /\ RefusedOnce' /\ PutTrue' /\ AspectTrue'
    BY <1>8, <1>11, <2>2
  <2> QED
    BY <2>2, <2>3 DEF DecodeInv
<1> QED
  BY <1>2, <1>7, <1>10, <1>11

-----------------------------------------------------------------------------
(* The theorem.                                                            *)

LEMMA DecodeInvBegins == DecodeInit => DecodeInv
<1> SUFFICES ASSUME DecodeInit PROVE DecodeInv
  OBVIOUS
<1> USE DEF DecodeInit
<1>1. film \in Films /\ codec \in Codecs /\ container \in Aspects /\ sizing \in Sizings
  OBVIOUS
<1>2. /\ film # <<>> /\ film \in Seq([size : Sizes, fmt : STRING, sar : Nat, ref : BOOLEAN])
      /\ codec.direct \in BOOLEAN /\ container \in Aspect
  BY <1>1, DecodeAssumption DEF Aspect
<1>3. Len(film) \in Nat \ {0} /\ film[1].size \in Sizes
  <2>1. ASSUME NEW S, NEW f \in Seq(S), f # <<>>
        PROVE  Len(f) \in Nat \ {0} /\ f[1] \in S
    BY <2>1
  <2>2. Len(film) \in Nat \ {0} /\ film[1] \in [size : Sizes, fmt : STRING, sar : Nat, ref : BOOLEAN]
    BY <1>2, <2>1
  <2> QED
    BY <2>2
<1>4. "none" \in Formats /\ <<0, 1>> \in Aspect
  BY DEF Formats, Aspect
<1>5. /\ sh_video \in Screens /\ sh_video.original = container
  BY <1>2, <1>3, <1>4 DEF Screens
<1>6. /\ ctx \in Contexts /\ ctx.ip = 0 /\ ctx.b = 0 /\ ctx.vo = FALSE /\ ctx.sar = UnsetSar
  BY <1>2, <1>4 DEF Contexts, UnsetSar
<1>7. chain \in Chains
  BY <1>4 DEF Chains, NoSize
<1>8. avctx \in Headers
  BY <1>3, <1>4 DEF Headers
<1>9. Used = {}
  BY DEF Used, Range
<1>10. DecodeShapes
  <2>1. <<>> \in Seq(Pics) /\ IsFiniteSet({}) /\ references = <<>> /\ late = {} /\ pic = NoPic
    BY FS_EmptySet
  <2>2. packet \in 1..Len(film) + 1 /\ step = "decode" /\ static_idx = 0 /\ hurried = FALSE
    BY <1>3
  <2>3. mem \in [Images -> Nat]
    OBVIOUS
  <2> QED
    BY <1>1, <1>5, <1>6, <1>7, <1>8, <2>1, <2>2, <2>3 DEF DecodeShapes
<1>11. PicInHand /\ PicturesTrue /\ InTurn /\ RefusedOnce /\ PutTrue
  BY <1>9 DEF PicInHand, PicturesTrue, InTurn, Turn, RefusedOnce, PutTrue
<1>12. Counted
  <2>1. Drawn({}, TRUE) = {} /\ Drawn({}, FALSE) = {}
    BY DEF Drawn
  <2>2. Cardinality({}) = 0
    BY FS_EmptySet
  <2>3. Cardinality(Drawn(Used, TRUE)) = 0 /\ Cardinality(Drawn(Used, FALSE)) = 0
    BY <1>9, <2>1, <2>2
  <2>4. ctx.ip >= 0 /\ ctx.b >= 0
    BY <1>6
  <2> QED
    BY <2>3, <2>4 DEF Counted, Covers
<1>13. DisplayTrue /\ AspectTrue
  BY <1>5, <1>6, <1>9 DEF DisplayTrue, AspectTrue
<1> QED
  BY <1>10, <1>11, <1>12, <1>13 DEF DecodeInv

LEMMA DecodeInvStays == DecodeInv /\ UNCHANGED decodeVars => DecodeInv'
<1> SUFFICES ASSUME DecodeInv, UNCHANGED decodeVars PROVE DecodeInv'
  OBVIOUS
<1> USE DEF decodeVars, DecodeInv
<1>1. Used' = Used
  BY DEF Used
<1>2. UNCHANGED player
  OBVIOUS
<1>3. DecodeShapes'
  BY DEF DecodeShapes, player
<1>4. PicInHand'
  BY DEF PicInHand
<1>5. PicturesTrue'
  BY <1>1, PicturesStay
<1>6. Counted'
  BY <1>1 DEF Counted, Covers
<1>7. InTurn'
  BY DEF InTurn, Turn, player
<1>8. DisplayTrue'
  BY <1>2, DisplayStays
<1>9. RefusedOnce' /\ PutTrue'
  BY DEF RefusedOnce, PutTrue
<1>10. AspectTrue'
  BY <1>1, <1>2, AspectStays DEF AspectTrue
<1> QED
  BY <1>3, <1>4, <1>5, <1>6, <1>7, <1>8, <1>9, <1>10

\* The invariant says what is wanted of the pictures, the display and their shape.
LEMMA DecodeIsTrue ==
  ASSUME DecodeInv
  PROVE  /\ PicturesKept /\ PutRight /\ AspectKept
         /\ HasLines(chain.size, sh_video.aspect) => ShapeKept
<1> USE DEF DecodeInv
<1>1. PicturesKept
  BY DEF PicturesTrue, Counted, Covers, Drawn, PicturesKept
<1>2. PutRight
  BY DEF PutTrue, DisplayTrue, RefusedOnce, PutRight, NoRefusal
<1>3. AspectKept
  BY DEF AspectTrue, PutTrue, AspectKept
<1>4. ASSUME HasLines(chain.size, sh_video.aspect) PROVE ShapeKept
  <2> SUFFICES ASSUME step = "put", sizing.x = 0, sizing.y = 0
               PROVE  /\ sh_video.aspect[1] # 0 =>
                           Abs(chain.screen.w * sh_video.aspect[2] - chain.screen.h * sh_video.aspect[1])
                             <= Max({sh_video.aspect[1], sh_video.aspect[2]})
                      /\ sizing.xy <= 8 => chain.screen.w >= chain.size.w
    BY DEF ShapeKept
  <2>1. /\ ctx.vo /\ chain.screen = ScreenSize(chain.size, sh_video.aspect) /\ chain.size = sh_video.size
        /\ sh_video.size \in Sizes /\ sh_video.aspect \in Aspect /\ sizing \in Sizings
    BY DEF PutTrue, DisplayTrue, DecodeShapes, Screens
  <2> QED
    BY <1>4, <2>1, ScreenFacts
<1> QED
  BY <1>1, <1>2, <1>3, <1>4

\* For every film, codec, container and size: nothing is decoded over a picture that is still in
\* use (vf_get_image, get_buffer2, release_buffer), what is put out is that picture, in the size
\* and with a format the display was configured for, one picture at most is lost to a change of
\* size, the container's aspect holds and, on the screen, the picture keeps its shape as soon as it
\* has two lines and columns (mpcodecs_config_vo).
THEOREM DecodesTrue ==
  DecodeSpec => [](/\ PicturesKept /\ PutRight /\ AspectKept
                   /\ HasLines(chain.size, sh_video.aspect) => DecodeTrue)
<1>1. DecodeInit => DecodeInv
  BY DecodeInvBegins
<1>2. DecodeInv /\ [DecodeNext]_decodeVars => DecodeInv'
  BY StartKeeps, DrainKeeps, SkipKeeps, HeaderKeeps, GetOwnKeeps, GetImageKeeps, OutPictureKeeps,
     PutImageKeeps, FlushKeeps, DecodeInvStays DEF DecodeNext
<1>3. DecodeInv => /\ PicturesKept /\ PutRight /\ AspectKept
                   /\ HasLines(chain.size, sh_video.aspect) => DecodeTrue
  BY DecodeIsTrue DEF DecodeTrue
<1> QED
  BY <1>1, <1>2, <1>3, PTL DEF DecodeSpec
=============================================================================
