---------------------------- MODULE ChannelOrder ----------------------------
(***************************************************************************)
(* libaf/reorder_ch.c: bringing the interleaved samples of a buffer from   *)
(* one order of the channels into another, into a second buffer by a table *)
(* of indices or in place by cycles of swaps.                              *)
(*                                                                         *)
(* A buffer is a function from 0 to the samples; the cells after its end   *)
(* are there to see what is written past it.                               *)
(***************************************************************************)
EXTENDS Integers, Sequences, SequencesExt

\* What the names of the layouts stand for (reorder_ch.h)
Layout ==
  [A5 |-> <<"L", "R", "C", "Ls", "Rs">>, B5 |-> <<"L", "R", "Ls", "Rs", "C">>,
   C5 |-> <<"L", "C", "R", "Ls", "Rs">>, D5 |-> <<"C", "L", "R", "Ls", "Rs">>,
   A6 |-> <<"L", "R", "C", "LFE", "Ls", "Rs">>, B6 |-> <<"L", "R", "Ls", "Rs", "C", "LFE">>,
   C6 |-> <<"L", "C", "R", "Ls", "Rs", "LFE">>, D6 |-> <<"C", "L", "R", "Ls", "Rs", "LFE">>,
   E6 |-> <<"LFE", "L", "C", "R", "Ls", "Rs">>, F6 |-> <<"C", "L", "R", "LFE", "Ls", "Rs">>,
   A8 |-> <<"L", "R", "C", "LFE", "Ls", "Rs", "Rls", "Rrs">>,
   B8 |-> <<"L", "R", "Ls", "Rs", "C", "LFE", "Rls", "Rrs">>,
   C8 |-> <<"L", "C", "R", "Ls", "Rs", "LFE", "Rls", "Rrs">>,
   D8 |-> <<"C", "L", "R", "Ls", "Rs", "Rls", "Rrs", "LFE">>,
   F8 |-> <<"C", "L", "R", "LFE", "Ls", "Rs", "Rls", "Rrs">>]
Layouts == DOMAIN Layout
ChNum(layout) == Len(Layout[layout])
Sizes == {1, 2, 3, 4, 8}            \* sizes of a sample, in bytes

\* channel_layout_mapping_5ch, _6ch and _8ch: the orders of the sources of audio
Mapping ==
  [alsa   |-> [c5 |-> "B5", c6 |-> "B6", c8 |-> "B8"],
   aac    |-> [c5 |-> "D5", c6 |-> "D6", c8 |-> "D8"],
   waveex |-> [c5 |-> "A5", c6 |-> "A6", c8 |-> "A8"],
   lavc   |-> [c5 |-> "A5", c6 |-> "A6", c8 |-> "A8"],
   vorbis |-> [c5 |-> "C5", c6 |-> "C6", c8 |-> "C8"]]
Origins == DOMAIN Mapping
\* The layout of a source for a number of channels that is reordered at all
LayoutOf(source, ch) ==
  CASE ch = 5 -> Mapping[source].c5 [] ch = 6 -> Mapping[source].c6 [] ch = 8 -> Mapping[source].c8

-----------------------------------------------------------------------------
(* In place: cycles of the samples s[1], s[2], ... of every frame.         *)

Steps(count, stride) == {i * stride : i \in 0..count} \cap 0..count - 1
\* One pass of REORDER_SELF_SWAP: each cell takes what the next of its cycle holds
RotateAt(buf, i, s) ==
  LET next == [k \in DOMAIN s |-> IF k = Len(s) THEN 1 ELSE k + 1] IN
  [c \in DOMAIN buf |-> IF \E k \in DOMAIN s : c = i + s[k]
                        THEN buf[i + s[next[CHOOSE k \in DOMAIN s : c = i + s[k]]]] ELSE buf[c]]
Rotate(buf, count, stride, cycles) ==
  LET frame(b, i) == FoldLeft(LAMBDA x, s : RotateAt(x, i, s), b, cycles)
  IN FoldLeft(frame, buf, SetToSortSeq(Steps(count, stride), <))
\* Do nothing for a size the switch does not know
Known(size, sizes, buf, result) == IF size \in sizes THEN result ELSE buf

\* Seeded error: frames of three are taken to be of four.
reorder_self_2_stride4(buf, count, size, ch, a) ==
  Known(size, Sizes, buf, Rotate(buf, count, IF ch = 3 THEN 4 ELSE ch, <<a>>))
reorder_self_2(buf, count, size, ch, a) ==
  LET stride == CASE size = 1 -> IF ch \in {6, 8} THEN ch ELSE 5
                  [] size = 2 -> IF ch = 6 THEN 6 ELSE IF ch \in {3, 4} THEN 3 ELSE 5
                  [] size = 3 -> ch
                  [] OTHER -> IF ch \in {3, 4, 6} THEN ch ELSE 5
  IN Known(size, Sizes, buf, Rotate(buf, count, stride, <<a>>))
reorder_self_3(buf, count, size, ch, a) ==
  Known(size, Sizes, buf, Rotate(buf, count, IF size = 3 \/ ch = 6 THEN ch ELSE 5, <<a>>))
reorder_self_4_step_1(buf, count, size, ch, a) ==
  Known(size, Sizes, buf, Rotate(buf, count, IF size = 3 \/ ch \in {6, 8} THEN ch ELSE 5, <<a>>))
reorder_self_4_step_2(buf, count, size, ch, a) ==
  Known(size, {3}, buf, Rotate(buf, count, ch, <<<<a[1], a[3]>>, <<a[2], a[4]>>>>))
reorder_self_5_step_1(buf, count, size, ch, a) ==
  Known(size, Sizes, buf, Rotate(buf, count, IF size = 3 \/ ch \in {6, 8} THEN ch ELSE 5, <<a>>))
reorder_self_2_3(buf, count, size, a) ==
  Known(size, Sizes, buf, Rotate(buf, count, 6, <<SubSeq(a, 1, 2), SubSeq(a, 3, 5)>>))
reorder_self_3_3(buf, count, size, a) ==
  Known(size, Sizes, buf, Rotate(buf, count, 6, <<SubSeq(a, 1, 3), SubSeq(a, 4, 6)>>))
reorder_self_2_4(buf, count, size, ch, a) ==
  Known(size, Sizes, buf, Rotate(buf, count, IF size = 3 \/ ch = 6 THEN ch ELSE 8,
                                 <<SubSeq(a, 1, 2), SubSeq(a, 3, 6)>>))

\* Exchange of C LFE and Ls Rs: by pairs of samples, as samples of twice the size
Pairs(buf, count, size, ch, half) ==
  LET n == (count + 4) \div 2
      pairs == [k \in 0..n - 1 |-> <<buf[2 * k], buf[2 * k + 1]>>]
      new == reorder_self_2(pairs, count \div 2, 2 * size, half, <<1, 2>>)
  IN IF size = 3 THEN reorder_self_4_step_2(buf, count, size, ch, <<2, 3, 4, 5>>)
     ELSE [c \in DOMAIN buf |-> IF c < 2 * n THEN new[c \div 2][1 + (c % 2)] ELSE buf[c]]

\* The table of reorder_channel: nothing is done for pairs that are not in it
reorder_channel(buf, n, size, src, dest) ==
  LET two(a) == reorder_self_2(buf, n, size, ChNum(src), a)
      three(a) == reorder_self_3(buf, n, size, 5, a)
      four(a) == reorder_self_4_step_1(buf, n, size, ChNum(src), a)
      five(a) == reorder_self_5_step_1(buf, n, size, ChNum(src), a)
      twofour(a) == reorder_self_2_4(buf, n, size, ChNum(src), a)
      pair == <<src, dest>>
  IN CASE pair = <<"A5", "B5">> -> three(<<2, 3, 4>>)
       [] pair \in {<<"A5", "C5">>, <<"C5", "A5">>} -> two(<<1, 2>>)
       [] pair = <<"A5", "D5">> -> three(<<2, 1, 0>>)
       [] pair = <<"B5", "A5">> -> three(<<4, 3, 2>>)
       [] pair \in {<<"B5", "C5">>, <<"B6", "C6">>} -> four(<<4, 3, 2, 1>>)
       [] pair \in {<<"B5", "D5">>, <<"B6", "D6">>} -> five(<<4, 3, 2, 1, 0>>)
       [] pair \in {<<"C5", "B5">>, <<"C6", "B6">>, <<"C8", "B8">>} -> four(<<1, 2, 3, 4>>)
       [] pair \in {<<"C5", "D5">>, <<"D5", "C5">>, <<"C6", "D6">>, <<"D6", "C6">>} -> two(<<0, 1>>)
       [] pair = <<"D5", "A5">> -> three(<<0, 1, 2>>)
       [] pair \in {<<"D5", "B5">>, <<"D6", "B6">>} -> five(<<0, 1, 2, 3, 4>>)
       [] pair \in {<<"A6", "B6">>, <<"B6", "A6">>} -> Pairs(buf, n, size, 6, 3)
       [] pair = <<"A6", "C6">> -> reorder_self_2_3(buf, n, size, <<1, 2, 3, 4, 5>>)
       [] pair = <<"A6", "D6">> -> reorder_self_3_3(buf, n, size, <<2, 1, 0, 3, 4, 5>>)
       [] pair = <<"B6", "E6">> -> twofour(<<2, 4, 5, 3, 1, 0>>)
       [] pair = <<"C6", "A6">> -> reorder_self_2_3(buf, n, size, <<1, 2, 5, 4, 3>>)
       [] pair = <<"D6", "A6">> -> reorder_self_3_3(buf, n, size, <<0, 1, 2, 5, 4, 3>>)
       [] pair = <<"E6", "B6">> -> twofour(<<2, 4, 0, 1, 3, 5>>)
       [] pair \in {<<"F6", "B6">>, <<"F8", "B8">>} -> twofour(<<3, 5, 0, 1, 2, 4>>)
       [] pair \in {<<"A8", "B8">>, <<"B8", "A8">>} -> Pairs(buf, n, size, 8, 4)
       [] pair = <<"B8", "D8">> ->
            reorder_self_5_step_1(twofour(<<3, 5, 4, 2, 1, 0>>), n, size, 8, <<3, 4, 5, 6, 7>>)
       [] OTHER -> buf
\* Every pair reorder_channel has a case for, none of them twice
InPlace ==
  {<<"A5", "B5">>, <<"A5", "C5">>, <<"A5", "D5">>, <<"B5", "A5">>, <<"B5", "C5">>, <<"B5", "D5">>,
   <<"C5", "A5">>, <<"C5", "B5">>, <<"C5", "D5">>, <<"D5", "A5">>, <<"D5", "B5">>, <<"D5", "C5">>,
   <<"A6", "B6">>, <<"A6", "C6">>, <<"A6", "D6">>, <<"B6", "A6">>, <<"B6", "C6">>, <<"B6", "D6">>,
   <<"B6", "E6">>, <<"C6", "A6">>, <<"C6", "B6">>, <<"C6", "D6">>, <<"D6", "A6">>, <<"D6", "B6">>,
   <<"D6", "C6">>, <<"E6", "B6">>, <<"F6", "B6">>, <<"A8", "B8">>, <<"B8", "A8">>, <<"B8", "D8">>,
   <<"C8", "B8">>, <<"F8", "B8">>}

-----------------------------------------------------------------------------
(* Into another buffer                                                     *)

reorder_copy(src, n, ch, s) == [c \in 0..n - 1 |-> src[(c - (c % ch)) + s[1 + (c % ch)]]]
reorder_copy_5ch(src, n, s) == reorder_copy(src, n, 5, s)
reorder_copy_6ch(src, n, s) == reorder_copy(src, n, 6, s)
reorder_copy_8ch(src, n, s) == reorder_copy(src, n, 8, s)

Five == [A5 |-> [B5 |-> <<0, 1, 3, 4, 2>>, C5 |-> <<0, 2, 1, 3, 4>>, D5 |-> <<2, 0, 1, 3, 4>>],
         B5 |-> [A5 |-> <<0, 1, 4, 2, 3>>, C5 |-> <<0, 4, 1, 2, 3>>, D5 |-> <<4, 0, 1, 2, 3>>],
         C5 |-> [A5 |-> <<0, 2, 1, 3, 4>>, B5 |-> <<0, 2, 3, 4, 1>>, D5 |-> <<1, 0, 2, 3, 4>>],
         D5 |-> [A5 |-> <<1, 2, 0, 3, 4>>, B5 |-> <<1, 2, 3, 4, 0>>, C5 |-> <<1, 0, 2, 3, 4>>]]
Six == [A6 |-> [B6 |-> <<0, 1, 4, 5, 2, 3>>, C6 |-> <<0, 2, 1, 4, 5, 3>>, D6 |-> <<2, 0, 1, 4, 5, 3>>],
        B6 |-> [A6 |-> <<0, 1, 4, 5, 2, 3>>, C6 |-> <<0, 4, 1, 2, 3, 5>>, D6 |-> <<4, 0, 1, 2, 3, 5>>,
                E6 |-> <<5, 0, 4, 1, 2, 3>>],
        C6 |-> [A6 |-> <<0, 2, 1, 5, 3, 4>>, B6 |-> <<0, 2, 3, 4, 1, 5>>, D6 |-> <<1, 0, 2, 3, 4, 5>>],
        D6 |-> [A6 |-> <<1, 2, 0, 5, 3, 4>>, B6 |-> <<1, 2, 3, 4, 0, 5>>, C6 |-> <<1, 0, 2, 3, 4, 5>>],
        E6 |-> [B6 |-> <<1, 3, 4, 5, 2, 0>>], F6 |-> [B6 |-> <<1, 2, 4, 5, 0, 3>>]]
Eight == [A8 |-> [B8 |-> <<0, 1, 4, 5, 2, 3, 6, 7>>], B8 |-> [A8 |-> <<0, 1, 4, 5, 2, 3, 6, 7>>],
          D8 |-> [B8 |-> <<1, 2, 3, 4, 0, 7, 5, 6>>]]
Copied(src, dest) ==
  \E t \in {Five, Six, Eight} : src \in DOMAIN t /\ dest \in DOMAIN t[src]
\* Equal layouts, other numbers of channels and pairs without a case are copied as they are,
\* the second not at all
reorder_channel_copy(buf, n, src, dest) ==
  IF src \in DOMAIN Five /\ dest \in DOMAIN Five[src] THEN reorder_copy_5ch(buf, n, Five[src][dest])
  ELSE IF src \in DOMAIN Six /\ dest \in DOMAIN Six[src] THEN reorder_copy_6ch(buf, n, Six[src][dest])
  ELSE IF src \in DOMAIN Eight /\ dest \in DOMAIN Eight[src] THEN reorder_copy_8ch(buf, n, Eight[src][dest])
  ELSE [c \in 0..n - 1 |-> buf[c]]

-----------------------------------------------------------------------------
(* The callers name the sources                                            *)

reorder_channel_nch(buf, n, size, ch, from, to) ==
  IF from = to \/ ch \notin {5, 6, 8} THEN buf
  ELSE reorder_channel(buf, n, size, LayoutOf(from, ch), LayoutOf(to, ch))
reorder_channel_copy_nch(buf, n, ch, from, to) ==
  IF ch \notin {5, 6, 8} THEN [c \in 0..n - 1 |-> buf[c]]
  ELSE reorder_channel_copy(buf, n, LayoutOf(from, ch), LayoutOf(to, ch))

-----------------------------------------------------------------------------
(* What it is to be reordered                                              *)

Slack == 4
\* frames in the order of a layout, and then cells that are not ours
Buffer(layout, frames) ==
  LET ch == ChNum(layout) IN
  [c \in 0..frames * ch + Slack - 1 |->
     IF c < frames * ch THEN <<c \div ch, Layout[layout][1 + (c % ch)]>> ELSE <<"past", c>>]
=============================================================================
