----------------------------- MODULE InputProofs -----------------------------
(***************************************************************************)
(* Proofs about the keys, the command queue and the remote: no key gets    *)
(* stuck, for every set of keys and size of fifo; no command which ends a  *)
(* wait is lost and commands are run in the order they came in, for every  *)
(* size of the ring; and the player does not close the pipe under the      *)
(* remote's thread, which leaves no descriptor open.                       *)
(***************************************************************************)
EXTENDS KeyInput, InputQueue, PS3Remote, TLAPS

-----------------------------------------------------------------------------
(* The key fifo.                                                           *)

Releases(c, k) == c.all = 1 \/ (c.key = k /\ c.down = 0)

\* A key that is not held is released by something behind each of its downs.
FifoCovered ==
    \A k \in Keys \ pressed : \A i \in 1 .. Len(fifo) :
        fifo[i].key = k /\ fifo[i].down = 1 =>
            \E j \in i + 1 .. Len(fifo) : Releases(fifo[j], k)

\* A key that is down and not held is released by something in the fifo.
DownCovered ==
    \A k \in Keys \ pressed :
        IsDown(k, key_down) => \E j \in 1 .. Len(fifo) : Releases(fifo[j], k)

\* What makes it safe to refuse a release: the fifo ends by resetting all keys.
Reset ==
    /\ Len(fifo) <= FifoSize
    /\ \A i \in 1 .. Len(fifo) : /\ fifo[i].all = 1 => fifo[i].down = 0
                                 /\ fifo[i].down = 1 => fifo[i].key \in Keys
    /\ Len(fifo) = FifoSize => fifo[Len(fifo)].all = 1
    /\ previous_down_key.all = 1 /\ fifo # <<>> => fifo[Len(fifo)].all = 1

KeyInv == TypeOK /\ FifoCovered /\ DownCovered /\ Reset /\ DownOnce

LEMMA KeyInvInit == Init => KeyInv
  BY KeyAssumption
     DEF KeyAssumption, Init, KeyInv, TypeOK, FifoCovered, DownCovered, Reset,
         DownOnce, IsDown, Codes, Code

\* What mplayer_put_key_internal appends, and that it may refuse a release.
LEMMA PutKey ==
  ASSUME KeyInv, NEW k \in Keys, NEW d \in {0, 1},
         mplayer_put_key_internal(Code(k, d, 0))
  PROVE  \/ /\ fifo' = fifo /\ previous_down_key' = previous_down_key
            /\ d = 0 => fifo # <<>> /\ fifo[Len(fifo)].all = 1
         \/ \E c \in Codes :
              /\ fifo' = Append(fifo, c) /\ Len(fifo) < FifoSize
              /\ previous_down_key' \in Codes
              /\ previous_down_key'.all = 1 => c.all = 1
              /\ c.all = 1 => c.down = 0
              /\ Len(fifo) + 1 = FifoSize => c.all = 1
              /\ c.down = 1 => c.key = k /\ d = 1
              /\ d = 0 => Releases(c, k)
<1> USE KeyAssumption DEF KeyAssumption, KeyInv, TypeOK, Reset
<1>1. CASE Refused(Code(k, d, 0))
  BY <1>1 DEF mplayer_put_key_internal, Refused, fifo_free, Code, fifoVars
<1>2. CASE ~Refused(Code(k, d, 0))
  <2> DEFINE c == Stored(Code(k, d, 0))
  <2>1. c \in Codes /\ (c.all = 1 => c.down = 0)
        /\ (fifo_free = 1 => c.all = 1)
        /\ (c.down = 1 => c.key = k /\ d = 1) /\ (d = 0 => Releases(c, k))
    BY <1>2 DEF Refused, Stored, fifo_free, Code, Codes, Releases
  <2>2. Len(fifo) < FifoSize
    BY <1>2 DEF Refused, fifo_free
  <2>3. fifo' = Append(fifo, c) /\ previous_down_key' \in Codes
        /\ (previous_down_key'.all = 1 => c.all = 1)
    BY <1>2, <2>1 DEF mplayer_put_key_internal, Code, Codes
  <2> QED
    BY <2>1, <2>2, <2>3 DEF fifo_free
<1> QED
  BY <1>1, <1>2

LEMMA EmptySeq == <<>> \in Seq(Keys)
  OBVIOUS

\* What is appended at the back keeps what is in the fifo.
LEMMA AppendKeeps ==
  ASSUME NEW S, NEW f \in Seq(S), NEW c \in S
  PROVE  /\ Append(f, c) \in Seq(S) /\ Len(Append(f, c)) = Len(f) + 1
         /\ \A i \in 1 .. Len(f) : Append(f, c)[i] = f[i]
         /\ Append(f, c)[Len(f) + 1] = c
  OBVIOUS

\* The fifo part of a step of the keyboard: pressing k, or letting go of it.
LEMMA PutKeepsInv ==
  ASSUME KeyInv, NEW k \in Keys, NEW d \in {0, 1},
         mplayer_put_key_internal(Code(k, d, 0)), UNCHANGED downVars,
         pressed' \in SUBSET Keys, pressed \ {k} \subseteq pressed',
         d = 1 => k \in pressed'
  PROVE  KeyInv'
<1> USE KeyAssumption DEF KeyAssumption
<1>1. CASE /\ fifo' = fifo /\ previous_down_key' = previous_down_key
           /\ d = 0 => fifo # <<>> /\ fifo[Len(fifo)].all = 1
  <2>1. TypeOK' /\ Reset' /\ DownOnce'
    BY <1>1 DEF KeyInv, TypeOK, Reset, DownOnce, downVars
  <2>2. FifoCovered'
    <3>1. SUFFICES ASSUME NEW q \in Keys \ pressed', NEW i \in 1 .. Len(fifo),
                          fifo[i].key = q, fifo[i].down = 1
                   PROVE  \E j \in i + 1 .. Len(fifo) : Releases(fifo[j], q)
      BY <1>1 DEF FifoCovered
    <3>2. CASE q \notin pressed
      BY <3>1, <3>2 DEF KeyInv, FifoCovered
    <3>3. CASE q \in pressed
      <4>1. d = 0 /\ fifo # <<>> /\ fifo[Len(fifo)].all = 1
        BY <1>1, <3>3
      <4>2. Len(fifo) \in i + 1 .. Len(fifo) /\ Releases(fifo[Len(fifo)], q)
        BY <3>1, <4>1 DEF KeyInv, Reset, TypeOK, Releases
      <4> QED
        BY <4>2
    <3> QED
      BY <3>2, <3>3
  <2>3. DownCovered'
    <3>1. SUFFICES ASSUME NEW q \in Keys \ pressed', IsDown(q, key_down)
                   PROVE  \E j \in 1 .. Len(fifo) : Releases(fifo[j], q)
      BY <1>1 DEF DownCovered, downVars
    <3>2. CASE q \notin pressed
      BY <3>1, <3>2 DEF KeyInv, DownCovered
    <3>3. CASE q \in pressed
      <4>1. d = 0 /\ fifo # <<>> /\ fifo[Len(fifo)].all = 1
        BY <1>1, <3>3
      <4>2. Len(fifo) \in 1 .. Len(fifo) /\ Releases(fifo[Len(fifo)], q)
        BY <4>1 DEF KeyInv, TypeOK, Releases
      <4> QED
        BY <4>2
    <3> QED
      BY <3>2, <3>3
  <2> QED
    BY <2>1, <2>2, <2>3 DEF KeyInv
<1>2. ASSUME NEW c \in Codes,
             fifo' = Append(fifo, c), Len(fifo) < FifoSize,
             previous_down_key' \in Codes,
             previous_down_key'.all = 1 => c.all = 1,
             c.all = 1 => c.down = 0,
             Len(fifo) + 1 = FifoSize => c.all = 1,
             c.down = 1 => c.key = k /\ d = 1,
             d = 0 => Releases(c, k)
      PROVE  KeyInv'
  <2>1. /\ fifo' \in Seq(Codes) /\ Len(fifo') = Len(fifo) + 1
        /\ \A i \in 1 .. Len(fifo) : fifo'[i] = fifo[i]
        /\ fifo'[Len(fifo) + 1] = c /\ Len(fifo) \in Nat
    BY <1>2, AppendKeeps DEF KeyInv, TypeOK
  <2>2. TypeOK' /\ DownOnce'
    BY <1>2, <2>1 DEF KeyInv, TypeOK, DownOnce, downVars
  <2>3. Reset'
    BY <1>2, <2>1 DEF KeyInv, Reset
  <2>4. FifoCovered'
    <3>1. SUFFICES ASSUME NEW q \in Keys \ pressed', NEW i \in 1 .. Len(fifo'),
                          fifo'[i].key = q, fifo'[i].down = 1
                   PROVE  \E j \in i + 1 .. Len(fifo') : Releases(fifo'[j], q)
      BY DEF FifoCovered
    <3>2. i \in 1 .. Len(fifo)
      BY <1>2, <2>1, <3>1
    <3>3. CASE q \notin pressed
      <4>1. PICK j \in i + 1 .. Len(fifo) : Releases(fifo[j], q)
        BY <2>1, <3>1, <3>2, <3>3 DEF KeyInv, FifoCovered
      <4> QED
        BY <2>1, <3>2, <4>1
    <3>4. CASE q \in pressed
      <4>1. Len(fifo') \in i + 1 .. Len(fifo') /\ Releases(fifo'[Len(fifo')], q)
        BY <1>2, <2>1, <3>2, <3>4
      <4> QED
        BY <4>1
    <3> QED
      BY <3>3, <3>4
  <2>5. DownCovered'
    <3>1. SUFFICES ASSUME NEW q \in Keys \ pressed', IsDown(q, key_down)
                   PROVE  \E j \in 1 .. Len(fifo') : Releases(fifo'[j], q)
      BY DEF DownCovered, downVars
    <3>2. CASE q \notin pressed
      <4>1. PICK j \in 1 .. Len(fifo) : Releases(fifo[j], q)
        BY <3>1, <3>2 DEF KeyInv, DownCovered
      <4> QED
        BY <2>1, <4>1
    <3>3. CASE q \in pressed
      <4>1. Len(fifo') \in 1 .. Len(fifo') /\ Releases(fifo'[Len(fifo')], q)
        BY <1>2, <2>1, <3>3
      <4> QED
        BY <4>1
    <3> QED
      BY <3>2, <3>3
  <2> QED
    BY <2>2, <2>3, <2>4, <2>5 DEF KeyInv
<1> QED
  BY <1>1, <1>2, PutKey

\* Taking a code from the fifo, when what is down afterwards is down before it
\* and not released by it, or is what it says.
LEMMA TakeKeepsInv ==
  ASSUME KeyInv, fifo # <<>> /\ fifo' = Tail(fifo),
         UNCHANGED <<pressed, previous_down_key>>,
         TypeOK', DownOnce',
         \A k \in Keys : IsDown(k, key_down') =>
            \/ IsDown(k, key_down) /\ ~Releases(Head(fifo), k)
            \/ Head(fifo).key = k /\ Head(fifo).down = 1
  PROVE  KeyInv'
<1>1. /\ Len(fifo) \in Nat /\ Len(fifo) >= 1 /\ Len(fifo') = Len(fifo) - 1
      /\ \A i \in 1 .. Len(fifo') : fifo'[i] = fifo[i + 1]
      /\ Head(fifo) = fifo[1]
  BY DEF KeyInv, TypeOK
<1>2. Reset'
  <2>1. fifo' # <<>> => Len(fifo') >= 1
    BY <1>1 DEF TypeOK
  <2>2. /\ Len(fifo') <= FifoSize /\ Len(fifo') # FifoSize
        /\ \A i \in 1 .. Len(fifo') : /\ fifo'[i].all = 1 => fifo'[i].down = 0
                                      /\ fifo'[i].down = 1 => fifo'[i].key \in Keys
    <3>1. Len(fifo') <= FifoSize /\ Len(fifo') # FifoSize
      <4>1. Len(fifo) <= FifoSize /\ FifoSize \in Nat
        BY KeyAssumption DEF KeyAssumption, KeyInv, Reset
      <4>2. Len(fifo) \in Nat /\ Len(fifo') = Len(fifo) - 1
        BY <1>1
      <4>3. \A n, m \in Nat : n <= m => n - 1 <= m /\ n - 1 # m
        OBVIOUS
      <4> QED
        BY <4>1, <4>2, <4>3, Zenon
    <3>2. \A i \in 1 .. Len(fifo') : i + 1 \in 1 .. Len(fifo)
      BY <1>1
    <3> QED
      BY <1>1, <3>1, <3>2 DEF KeyInv, Reset
  <2>3. previous_down_key'.all = 1 /\ fifo' # <<>> => fifo'[Len(fifo')].all = 1
    BY <1>1, <2>1 DEF KeyInv, Reset
  <2> QED
    BY <2>2, <2>3 DEF Reset
<1>3. FifoCovered'
  <2>1. SUFFICES ASSUME NEW q \in Keys \ pressed, NEW i \in 1 .. Len(fifo'),
                        fifo'[i].key = q, fifo'[i].down = 1
                 PROVE  \E j \in i + 1 .. Len(fifo') : Releases(fifo'[j], q)
    BY DEF FifoCovered
  <2>2. PICK j \in i + 2 .. Len(fifo) : Releases(fifo[j], q)
    BY <1>1, <2>1 DEF KeyInv, FifoCovered
  <2>3. j - 1 \in i + 1 .. Len(fifo') /\ Releases(fifo'[j - 1], q)
    BY <1>1, <2>2
  <2> QED
    BY <2>3
<1>4. DownCovered'
  <2>1. SUFFICES ASSUME NEW q \in Keys \ pressed, IsDown(q, key_down')
                 PROVE  \E j \in 1 .. Len(fifo') : Releases(fifo'[j], q)
    BY DEF DownCovered
  <2>2. \E j \in 2 .. Len(fifo) : Releases(fifo[j], q)
    <3>1. CASE IsDown(q, key_down) /\ ~Releases(Head(fifo), q)
      BY <1>1, <2>1, <3>1 DEF KeyInv, DownCovered
    <3>2. CASE Head(fifo).key = q /\ Head(fifo).down = 1
      BY <1>1, <2>1, <3>2 DEF KeyInv, FifoCovered
    <3> QED
      BY <2>1, <3>1, <3>2
  <2>3. PICK j \in 2 .. Len(fifo) : Releases(fifo[j], q)
    BY <2>2
  <2>4. j - 1 \in 1 .. Len(fifo') /\ Releases(fifo'[j - 1], q)
    BY <1>1, <2>3
  <2> QED
    BY <2>4
<1> QED
  BY <1>2, <1>3, <1>4 DEF KeyInv

\* Closing the gap at i removes the key at i, which is in no other place.
LEMMA WithoutKey ==
  ASSUME NEW keys \in Seq(Keys), NEW i \in 1 .. Len(keys),
         \A a, b \in 1 .. Len(keys) : keys[a] = keys[b] => a = b
  PROVE  /\ Without(i, keys) \in Seq(Keys)
         /\ \A a, b \in 1 .. Len(Without(i, keys)) :
                Without(i, keys)[a] = Without(i, keys)[b] => a = b
         /\ \A k \in Keys :
                IsDown(k, Without(i, keys)) => IsDown(k, keys) /\ k # keys[i]
<1> DEFINE w == Without(i, keys)
           old(j) == IF j < i THEN j ELSE j + 1
<1>1. /\ w \in Seq(Keys) /\ Len(w) = Len(keys) - 1 /\ Len(keys) \in Nat
      /\ \A j \in 1 .. Len(w) : w[j] = keys[old(j)]
  BY DEF Without
<1>2. \A j \in 1 .. Len(w) : old(j) \in 1 .. Len(keys) /\ old(j) # i
  BY <1>1
<1>3. \A a, b \in 1 .. Len(w) : w[a] = w[b] => a = b
  BY <1>1, <1>2
<1>4. \A k \in Keys : IsDown(k, w) => IsDown(k, keys) /\ k # keys[i]
  BY <1>1, <1>2 DEF IsDown
<1> QED
  BY <1>1, <1>3, <1>4

LEMMA KeyInvStep == KeyInv /\ [Next]_vars => KeyInv'
<1> SUFFICES ASSUME KeyInv, [Next]_vars PROVE KeyInv'
  OBVIOUS
<1>1. ASSUME NEW k \in Keys, Press(k) PROVE KeyInv'
  BY <1>1, PutKeepsInv DEF Press, KeyInv, TypeOK
<1>2. ASSUME NEW k \in Keys, Release(k) PROVE KeyInv'
  BY <1>2, PutKeepsInv DEF Release, KeyInv, TypeOK
<1>3. ASSUME NEW k \in Keys, Type(k) PROVE KeyInv'
  <2>1. UNCHANGED downVars /\ pressed' \in SUBSET Keys
        /\ pressed \ {k} \subseteq pressed'
    BY <1>3 DEF Type, KeyInv, TypeOK
  <2> QED
    BY <1>3, <2>1, PutKeepsInv DEF Type
<1>4. CASE ReadKey
  <2> DEFINE c == Head(fifo)
             keys == KeysBefore(c)
  <2>1. /\ fifo # <<>> /\ fifo' = Tail(fifo) /\ fifo' \in Seq(Codes)
        /\ UNCHANGED <<pressed, previous_down_key>> /\ c \in Codes
        /\ (c.all = 1 => c.down = 0) /\ (c.down = 1 => c.key \in Keys)
    BY <1>4 DEF ReadKey, KeyInv, TypeOK, Reset
  <2>2. /\ keys \in Seq(Keys)
        /\ \A i, j \in 1 .. Len(keys) : keys[i] = keys[j] => i = j
        /\ \A k \in Keys : IsDown(k, keys) => IsDown(k, key_down) /\ c.all # 1
    BY <2>1 DEF KeysBefore, KeyInv, TypeOK, DownOnce, IsDown
  <2>3. LastBefore(c) \in {0, 1}
    BY DEF LastBefore, KeyInv, TypeOK
  <2>4. CASE ResetOnly(c)
    <3>1. TypeOK' /\ DownOnce' /\ key_down' = <<>>
      BY <2>1, <2>4 DEF ResetOnly, TypeOK, DownOnce, KeyInv
    <3> QED
      BY <2>1, <3>1, TakeKeepsInv DEF IsDown
  <2>5. CASE KeyDown(c)
    <3>1. CASE key_down' = keys /\ UNCHANGED <<ar_state, ar_cmd>>
               /\ last_key_down' \in {0, 1}
      <4>1. TypeOK' /\ DownOnce'
        BY <2>1, <2>2, <3>1 DEF TypeOK, DownOnce, KeyInv
      <4>2. \A k \in Keys : IsDown(k, key_down') =>
                IsDown(k, key_down) /\ ~Releases(c, k)
        BY <2>1, <2>2, <2>5, <3>1 DEF KeyDown, Releases
      <4> QED
        BY <2>1, <4>1, <4>2, TakeKeepsInv
    <3>2. CASE /\ ~IsDown(c.key, keys) /\ key_down' = Append(keys, c.key)
               /\ last_key_down' = 1 /\ ar_state' = 0 /\ UNCHANGED ar_cmd
               /\ c.key \in Keys
      <4> HIDE DEF keys
      <4>1. /\ key_down' \in Seq(Keys) /\ Len(key_down') = Len(keys) + 1
            /\ \A i \in 1 .. Len(keys) : key_down'[i] = keys[i]
            /\ key_down'[Len(keys) + 1] = c.key /\ Len(keys) \in Nat
        BY <2>2, <3>2, AppendKeeps
      <4>2. TypeOK'
        BY <2>1, <3>2, <4>1 DEF TypeOK, KeyInv
      <4>3. DownOnce'
        BY <2>2, <3>2, <4>1 DEF DownOnce, IsDown
      <4>4. \A k \in Keys : IsDown(k, key_down') => IsDown(k, keys) \/ k = c.key
        BY <4>1 DEF IsDown
      <4>5. c.down = 1
        BY <2>5 DEF KeyDown
      <4>6. \A k \in Keys : IsDown(k, key_down') =>
                \/ IsDown(k, key_down) /\ ~Releases(c, k)
                \/ c.key = k /\ c.down = 1
        BY <2>2, <4>4, <4>5 DEF Releases
      <4> QED
        BY <2>1, <4>2, <4>3, <4>6, TakeKeepsInv
    <3> QED
      BY <2>1, <2>3, <2>5, <3>1, <3>2 DEF KeyDown
  <2>6. CASE KeyUp(c)
    <3>1. PICK i \in 1 .. Len(keys) :
              keys[i] = c.key /\ key_down' = Without(i, keys)
      BY <2>6 DEF KeyUp
    <3> HIDE DEF keys
    <3>2. /\ key_down' \in Seq(Keys)
          /\ \A a, b \in 1 .. Len(key_down') : key_down'[a] = key_down'[b] => a = b
          /\ \A k \in Keys : IsDown(k, key_down') => IsDown(k, keys) /\ k # c.key
      BY <2>2, <3>1, WithoutKey
    <3>3. TypeOK' /\ DownOnce'
      BY <2>1, <2>6, <3>2 DEF KeyUp, TypeOK, DownOnce, KeyInv
    <3>4. \A k \in Keys : IsDown(k, key_down') =>
              IsDown(k, key_down) /\ ~Releases(c, k)
      BY <2>2, <3>2 DEF Releases
    <3> QED
      BY <2>1, <3>3, <3>4, TakeKeepsInv
  <2>7. CASE KeyTyped(c)
    <3> HIDE DEF keys
    <3>1. /\ key_down' = keys /\ last_key_down' \in {0, 1}
          /\ ar_state' \in {-1, 0, 1} /\ ar_cmd' \in Seq(Keys)
      <4>1. \/ last_key_down' = LastBefore(c) /\ UNCHANGED <<ar_state, ar_cmd>>
            \/ last_key_down' = 0 /\ ar_state' = -1 /\ ar_cmd' = <<>>
        BY <2>7 DEF KeyTyped
      <4>2. key_down' = keys
        BY <2>7 DEF KeyTyped, keys
      <4>3. last_key_down' \in {0, 1}
        BY <2>3, <4>1
      <4>4. ar_state' \in {-1, 0, 1}
        BY <4>1 DEF TypeOK, KeyInv
      <4>5. ar_cmd' = ar_cmd \/ ar_cmd' = <<>>
        BY <4>1
      <4>6. ar_cmd' \in Seq(Keys)
        BY <4>5, EmptySeq DEF TypeOK, KeyInv
      <4> QED
        BY <4>2, <4>3, <4>4, <4>6
    <3>3. TypeOK' /\ DownOnce'
      BY <2>1, <2>2, <3>1 DEF TypeOK, DownOnce, KeyInv
    <3>2. \A k \in Keys : IsDown(k, key_down') =>
              IsDown(k, key_down) /\ ~Releases(c, k)
      BY <2>1, <2>2, <2>7, <3>1 DEF KeyTyped, Releases, keys
    <3> QED
      BY <2>1, <3>3, <3>2, TakeKeepsInv
  <2> QED
    BY <1>4, <2>4, <2>5, <2>6, <2>7 DEF ReadKey
<1>5. CASE StartRepeat
  <2>1. TypeOK'
    <3>1. KeyInv /\ StartRepeat
      BY <1>5
    <3>2. ar_state' \in {-1, 0, 1}
      BY <3>1 DEF StartRepeat
    <3>3. ar_cmd' \in Seq(Keys)
      <4>1. ar_cmd' = key_down \/ ar_cmd' = <<>>
        BY <3>1, Zenon DEF StartRepeat
      <4> QED
        BY <4>1, EmptySeq DEF KeyInv, TypeOK
    <3> QED
      BY <3>1, <3>2, <3>3 DEF StartRepeat, KeyInv, TypeOK, fifoVars
  <2>2. (FifoCovered /\ DownCovered /\ Reset /\ DownOnce)'
    BY <1>5 DEF StartRepeat, KeyInv, FifoCovered, DownCovered, Reset, DownOnce,
                fifoVars
  <2> QED
    BY <2>1, <2>2 DEF KeyInv
<1>6. CASE UNCHANGED vars
  BY <1>6 DEF vars, downVars, fifoVars, KeyInv, TypeOK, FifoCovered,
              DownCovered, Reset, DownOnce
<1> QED
  BY <1>1, <1>2, <1>3, <1>4, <1>5, <1>6 DEF Next

\* The inductive invariant holds of every behaviour.
THEOREM KeyInvariant == Spec => []KeyInv
  BY KeyInvInit, KeyInvStep, PTL DEF Spec

\* No key is taken to be down for ever (mp_fifo.c keeps room for the release or
\* resets the state): once the fifo has been read, what is down is held.
THEOREM KeysNotStuck == Spec => []NoStuckKeys
<1>1. KeyInv => NoStuckKeys
  BY DEF KeyInv, NoStuckKeys, DownCovered, TypeOK, IsDown
<1> QED
  BY <1>1, KeyInvariant, PTL

\* key_down of input.c never holds a key twice, so the first match of a release
\* is the only one; and every variable keeps its type.
THEOREM KeyTypesAndDowns == Spec => [](TypeOK /\ DownOnce)
<1>1. KeyInv => TypeOK /\ DownOnce
  BY DEF KeyInv
<1> QED
  BY <1>1, KeyInvariant, PTL

-----------------------------------------------------------------------------
(* The command queue.                                                      *)

QueueConstants ==
    QueueSize \in Nat \ {0} /\ Kinds \subseteq AllKinds /\ MaxCommands \in Nat

Elems == Commands \cup {None}

\* The command came in as what it says it is.
IsKnown(c, a) == c.n > 0 => c.n <= Len(a) /\ c.kind = a[c.n]
Known(s, a)   == \A i \in 1 .. Len(s) : IsKnown(s[i], a)

Precedes(c, d) == c.n > 0 /\ d.n > 0 => c.n < d.n
Ascends(s)     == \A i, j \in 1 .. Len(s) : i < j => Precedes(s[i], s[j])
Before(s, t)   == \A i \in 1 .. Len(s), j \in 1 .. Len(t) : Precedes(s[i], t[j])

\* The commands run, the ring and the descriptors hold, one after the other,
\* commands that came in, in the order they came in.
Flow(x, q, e, a) ==
    /\ Known(x, a) /\ Known(q, a) /\ Known(e, a)
    /\ Ascends(x) /\ Ascends(q) /\ Ascends(e)
    /\ Before(x, q) /\ Before(x, e) /\ Before(q, e)

Kept(x, q, e, a) ==
    \A n \in 1 .. Len(a) :
        a[n] \in Interrupting => Holds(e, n) \/ Holds(q, n) \/ Holds(x, n)

-----------------------------------------------------------------------------
(* Sequences of commands *)

LEMMA TailFacts ==
  ASSUME NEW S, NEW s \in Seq(S), Len(s) > 0
  PROVE  /\ Head(s) = s[1] /\ Head(s) \in S /\ Tail(s) \in Seq(S)
         /\ Len(Tail(s)) = Len(s) - 1
         /\ \A i \in 1 .. Len(s) - 1 : Tail(s)[i] = s[i + 1]
<1>1. s # <<>>
  OBVIOUS
<1> QED
  BY <1>1

LEMMA AppendFacts ==
  ASSUME NEW S, NEW s \in Seq(S), NEW c \in S
  PROVE  /\ Append(s, c) \in Seq(S) /\ Len(Append(s, c)) = Len(s) + 1
         /\ Append(s, c)[Len(s) + 1] = c
         /\ \A i \in 1 .. Len(s) : Append(s, c)[i] = s[i]
  OBVIOUS

\* Only the first of the commands that a sequence holds goes with its head.
LEMMA HoldsTail ==
  ASSUME NEW s \in Seq(Elems), Len(s) > 0, NEW n \in Nat, Holds(s, n)
  PROVE  Head(s).n = n \/ Holds(Tail(s), n)
<1>1. PICK i \in 1 .. Len(s) : s[i].n = n
  BY DEF Holds
<1>2. CASE i = 1
  BY <1>1, <1>2, TailFacts
<1>3. CASE i # 1
  <2>1. i - 1 \in 1 .. Len(Tail(s)) /\ Tail(s)[i - 1] = s[i]
    BY <1>3, TailFacts
  <2> QED
    BY <1>1, <2>1 DEF Holds
<1> QED
  BY <1>2, <1>3

LEMMA HoldsAppend ==
  ASSUME NEW s \in Seq(Elems), NEW c \in Elems, NEW n \in Nat
  PROVE  /\ Holds(s, n) => Holds(Append(s, c), n)
         /\ c.n = n => Holds(Append(s, c), n)
<1>1. ASSUME Holds(s, n) PROVE Holds(Append(s, c), n)
  <2>1. PICK i \in 1 .. Len(s) : s[i].n = n
    BY <1>1 DEF Holds
  <2>2. i \in 1 .. Len(Append(s, c)) /\ Append(s, c)[i] = s[i]
    BY AppendFacts
  <2> QED
    BY <2>1, <2>2 DEF Holds
<1>2. ASSUME c.n = n PROVE Holds(Append(s, c), n)
  <2>1. Len(s) + 1 \in 1 .. Len(Append(s, c)) /\ Append(s, c)[Len(s) + 1] = c
    BY AppendFacts
  <2> QED
    BY <1>2, <2>1 DEF Holds
<1> QED
  BY <1>1, <1>2

\* What is left of a sequence is still known and in order, and behind its head.
LEMMA TailOrdered ==
  ASSUME NEW s \in Seq(Elems), Len(s) > 0, NEW a, Known(s, a), Ascends(s)
  PROVE  /\ Known(Tail(s), a) /\ Ascends(Tail(s)) /\ IsKnown(Head(s), a)
         /\ \A j \in 1 .. Len(Tail(s)) : Precedes(Head(s), Tail(s)[j])
  BY TailFacts DEF Known, Ascends

LEMMA TailBefore ==
  ASSUME NEW s \in Seq(Elems), Len(s) > 0, NEW t \in Seq(Elems)
  PROVE  /\ Before(s, t) => /\ Before(Tail(s), t)
                            /\ \A j \in 1 .. Len(t) : Precedes(Head(s), t[j])
         /\ Before(t, s) => /\ Before(t, Tail(s))
                            /\ \A j \in 1 .. Len(t) : Precedes(t[j], Head(s))
  BY TailFacts DEF Before

\* A command that everything there precedes may be put behind it.
LEMMA AppendOrdered ==
  ASSUME NEW s \in Seq(Elems), NEW c \in Elems, NEW a, Known(s, a), IsKnown(c, a),
         Ascends(s), \A i \in 1 .. Len(s) : Precedes(s[i], c)
  PROVE  Known(Append(s, c), a) /\ Ascends(Append(s, c))
<1>1. Known(Append(s, c), a)
  BY AppendFacts DEF Known
<1>2. ASSUME NEW i \in 1 .. Len(Append(s, c)), NEW j \in 1 .. Len(Append(s, c)), i < j
      PROVE  Precedes(Append(s, c)[i], Append(s, c)[j])
  <2>1. i \in 1 .. Len(s) /\ Append(s, c)[i] = s[i]
    BY <1>2, AppendFacts
  <2>2. CASE j = Len(s) + 1
    BY <2>1, <2>2, AppendFacts
  <2>3. CASE j # Len(s) + 1
    BY <1>2, <2>1, <2>3, AppendFacts DEF Ascends
  <2> QED
    BY <2>2, <2>3
<1> QED
  BY <1>1, <1>2 DEF Ascends

LEMMA AppendBefore ==
  ASSUME NEW s \in Seq(Elems), NEW c \in Elems, NEW t \in Seq(Elems)
  PROVE  /\ /\ Before(s, t)
            /\ \A j \in 1 .. Len(t) : Precedes(c, t[j])
            => Before(Append(s, c), t)
         /\ /\ Before(t, s)
            /\ \A j \in 1 .. Len(t) : Precedes(t[j], c)
            => Before(t, Append(s, c))
<1>1. \A i \in 1 .. Len(Append(s, c)) :
        (i \in 1 .. Len(s) /\ Append(s, c)[i] = s[i]) \/ Append(s, c)[i] = c
  BY AppendFacts
<1> QED
  BY <1>1 DEF Before

-----------------------------------------------------------------------------
(* What the steps do to the flow *)

LEMMA RunQueued ==
  ASSUME NEW x \in Seq(Elems), NEW q \in Seq(Elems), NEW e \in Seq(Elems), NEW a \in Seq(Kinds),
         Flow(x, q, e, a), Kept(x, q, e, a), Len(q) > 0
  PROVE  Flow(Append(x, Head(q)), Tail(q), e, a) /\ Kept(Append(x, Head(q)), Tail(q), e, a)
<1>1. Head(q) \in Elems /\ Tail(q) \in Seq(Elems) /\ Head(q) = q[1]
  BY TailFacts
<1>2. /\ Known(Tail(q), a) /\ Ascends(Tail(q)) /\ IsKnown(Head(q), a)
      /\ \A j \in 1 .. Len(Tail(q)) : Precedes(Head(q), Tail(q)[j])
  BY TailOrdered DEF Flow
<1>3. /\ Before(Tail(q), e) /\ \A j \in 1 .. Len(e) : Precedes(Head(q), e[j])
      /\ Before(x, Tail(q)) /\ \A j \in 1 .. Len(x) : Precedes(x[j], Head(q))
  BY TailBefore DEF Flow
<1>4. Known(Append(x, Head(q)), a) /\ Ascends(Append(x, Head(q)))
  BY <1>1, <1>2, <1>3, AppendOrdered DEF Flow
<1>5. Before(Append(x, Head(q)), Tail(q)) /\ Before(Append(x, Head(q)), e)
  BY <1>1, <1>2, <1>3, AppendBefore DEF Flow
<1>6. ASSUME NEW n \in 1 .. Len(a), a[n] \in Interrupting
      PROVE  Holds(e, n) \/ Holds(Tail(q), n) \/ Holds(Append(x, Head(q)), n)
  BY <1>1, <1>6, HoldsTail, HoldsAppend DEF Kept
<1> QED
  BY <1>2, <1>3, <1>4, <1>5, <1>6 DEF Flow, Kept

LEMMA DropQueued ==
  ASSUME NEW x \in Seq(Elems), NEW q \in Seq(Elems), NEW e \in Seq(Elems), NEW a \in Seq(Kinds),
         Flow(x, q, e, a), Kept(x, q, e, a), Len(q) > 0, Head(q).kind \notin Interrupting
  PROVE  Flow(x, Tail(q), e, a) /\ Kept(x, Tail(q), e, a)
<1>1. Known(Tail(q), a) /\ Ascends(Tail(q)) /\ IsKnown(Head(q), a)
  BY TailOrdered DEF Flow
<1>2. Before(Tail(q), e) /\ Before(x, Tail(q))
  BY TailBefore DEF Flow
<1>3. ASSUME NEW n \in 1 .. Len(a), a[n] \in Interrupting
      PROVE  Holds(e, n) \/ Holds(Tail(q), n) \/ Holds(x, n)
  <2>1. Head(q).n # n
    BY <1>1, <1>3 DEF IsKnown
  <2> QED
    BY <1>3, <2>1, HoldsTail DEF Kept
<1> QED
  BY <1>1, <1>2, <1>3 DEF Flow, Kept

LEMMA RunEvent ==
  ASSUME NEW x \in Seq(Elems), NEW q \in Seq(Elems), NEW e \in Seq(Elems), NEW a \in Seq(Kinds),
         Flow(x, q, e, a), Kept(x, q, e, a), Len(q) = 0, Len(e) > 0
  PROVE  Flow(Append(x, Head(e)), q, Tail(e), a) /\ Kept(Append(x, Head(e)), q, Tail(e), a)
<1>1. Head(e) \in Elems /\ Tail(e) \in Seq(Elems)
  BY TailFacts
<1>2. /\ Known(Tail(e), a) /\ Ascends(Tail(e)) /\ IsKnown(Head(e), a)
      /\ \A j \in 1 .. Len(Tail(e)) : Precedes(Head(e), Tail(e)[j])
  BY TailOrdered DEF Flow
<1>3. /\ Before(x, Tail(e)) /\ \A j \in 1 .. Len(x) : Precedes(x[j], Head(e))
      /\ Before(q, Tail(e))
  BY TailBefore DEF Flow
<1>4. Known(Append(x, Head(e)), a) /\ Ascends(Append(x, Head(e)))
  BY <1>1, <1>2, <1>3, AppendOrdered DEF Flow
<1>5. Before(Append(x, Head(e)), Tail(e)) /\ Before(Append(x, Head(e)), q)
  BY <1>1, <1>2, <1>3, AppendBefore DEF Flow, Before
<1>6. ASSUME NEW n \in 1 .. Len(a), a[n] \in Interrupting
      PROVE  Holds(Tail(e), n) \/ Holds(q, n) \/ Holds(Append(x, Head(e)), n)
  BY <1>1, <1>6, HoldsTail, HoldsAppend DEF Kept
<1> QED
  BY <1>2, <1>3, <1>4, <1>5, <1>6 DEF Flow, Kept

LEMMA DropEvent ==
  ASSUME NEW x \in Seq(Elems), NEW q \in Seq(Elems), NEW e \in Seq(Elems), NEW a \in Seq(Kinds),
         Flow(x, q, e, a), Kept(x, q, e, a), Len(e) > 0, Head(e).kind \notin Interrupting
  PROVE  Flow(x, q, Tail(e), a) /\ Kept(x, q, Tail(e), a)
<1>1. Known(Tail(e), a) /\ Ascends(Tail(e)) /\ IsKnown(Head(e), a)
  BY TailOrdered DEF Flow
<1>2. Before(q, Tail(e)) /\ Before(x, Tail(e))
  BY TailBefore DEF Flow
<1>3. ASSUME NEW n \in 1 .. Len(a), a[n] \in Interrupting
      PROVE  Holds(Tail(e), n) \/ Holds(q, n) \/ Holds(x, n)
  <2>1. Head(e).n # n
    BY <1>1, <1>3 DEF IsKnown
  <2> QED
    BY <1>3, <2>1, HoldsTail DEF Kept
<1> QED
  BY <1>1, <1>2, <1>3 DEF Flow, Kept

LEMMA QueueEvent ==
  ASSUME NEW x \in Seq(Elems), NEW q \in Seq(Elems), NEW e \in Seq(Elems), NEW a \in Seq(Kinds),
         Flow(x, q, e, a), Kept(x, q, e, a), Len(q) = 0, Len(e) > 0
  PROVE  Flow(x, Append(q, Head(e)), Tail(e), a) /\ Kept(x, Append(q, Head(e)), Tail(e), a)
<1>1. Head(e) \in Elems /\ Tail(e) \in Seq(Elems)
  BY TailFacts
<1>2. /\ Known(Tail(e), a) /\ Ascends(Tail(e)) /\ IsKnown(Head(e), a)
      /\ \A j \in 1 .. Len(Tail(e)) : Precedes(Head(e), Tail(e)[j])
  BY TailOrdered DEF Flow
<1>3. /\ Before(x, Tail(e)) /\ \A j \in 1 .. Len(x) : Precedes(x[j], Head(e))
      /\ Before(q, Tail(e)) /\ \A j \in 1 .. Len(q) : Precedes(q[j], Head(e))
  BY TailBefore DEF Flow
<1>4. Known(Append(q, Head(e)), a) /\ Ascends(Append(q, Head(e)))
  BY <1>1, <1>2, <1>3, AppendOrdered DEF Flow
<1>5. Before(Append(q, Head(e)), Tail(e)) /\ Before(x, Append(q, Head(e)))
  BY <1>1, <1>2, <1>3, AppendBefore DEF Flow
<1>6. ASSUME NEW n \in 1 .. Len(a), a[n] \in Interrupting
      PROVE  Holds(Tail(e), n) \/ Holds(Append(q, Head(e)), n) \/ Holds(x, n)
  <2>1. Holds(e, n) => Head(e).n = n \/ Holds(Tail(e), n)
    BY HoldsTail
  <2>2. n \in Nat
    OBVIOUS
  <2>3. Head(e).n = n \/ Holds(q, n) => Holds(Append(q, Head(e)), n)
    BY <1>1, <2>2, HoldsAppend, Zenon
  <2> QED
    BY <1>6, <2>1, <2>3 DEF Kept
<1> QED
  BY <1>2, <1>3, <1>4, <1>5, <1>6 DEF Flow, Kept

\* A command the player makes itself may be put anywhere.
LEMMA MadeCommand ==
  ASSUME NEW x \in Seq(Elems), NEW q \in Seq(Elems), NEW e \in Seq(Elems), NEW a \in Seq(Kinds),
         Flow(x, q, e, a), Kept(x, q, e, a), NEW c \in Elems, c.n = 0
  PROVE  /\ Flow(Append(x, c), q, e, a) /\ Kept(Append(x, c), q, e, a)
         /\ Flow(x, Append(q, c), e, a) /\ Kept(x, Append(q, c), e, a)
<1>1. IsKnown(c, a) /\ \A d : Precedes(c, d) /\ Precedes(d, c)
  BY DEF IsKnown, Precedes
<1>2. /\ Known(Append(x, c), a) /\ Ascends(Append(x, c))
      /\ Known(Append(q, c), a) /\ Ascends(Append(q, c))
  BY <1>1, AppendOrdered DEF Flow
<1>3. /\ Before(Append(x, c), q) /\ Before(Append(x, c), e)
      /\ Before(x, Append(q, c)) /\ Before(Append(q, c), e)
  BY <1>1, AppendBefore DEF Flow
<1>4. Kept(Append(x, c), q, e, a) /\ Kept(x, Append(q, c), e, a)
  BY HoldsAppend DEF Kept
<1> QED
  BY <1>2, <1>3, <1>4 DEF Flow

\* One that comes in is behind all the others.
LEMMA ArrivedCommand ==
  ASSUME NEW x \in Seq(Elems), NEW q \in Seq(Elems), NEW e \in Seq(Elems), NEW a \in Seq(Kinds),
         Flow(x, q, e, a), Kept(x, q, e, a), NEW kind \in Kinds,
         Cmd(Len(a) + 1, kind) \in Elems
  PROVE  /\ Flow(x, q, Append(e, Cmd(Len(a) + 1, kind)), Append(a, kind))
         /\ Kept(x, q, Append(e, Cmd(Len(a) + 1, kind)), Append(a, kind))
<1> DEFINE c == Cmd(Len(a) + 1, kind)
<1> DEFINE b == Append(a, kind)
<1>1. c.n = Len(a) + 1 /\ c.kind = kind /\ c \in Elems
  BY DEF Cmd
<1>2. /\ Len(b) = Len(a) + 1 /\ b[Len(a) + 1] = kind /\ Len(a) \in Nat
      /\ \A i \in 1 .. Len(a) : b[i] = a[i]
  BY AppendFacts
<1> HIDE DEF c, b
<1>3. ASSUME NEW s \in Seq(Elems), Known(s, a)
      PROVE  Known(s, b) /\ \A i \in 1 .. Len(s) : Precedes(s[i], c)
  <2>1. ASSUME NEW i \in 1 .. Len(s) PROVE IsKnown(s[i], b) /\ Precedes(s[i], c)
    <3>1. s[i].n \in Nat
      BY DEF Elems, Commands, None, Cmd
    <3>2. IsKnown(s[i], a)
      BY <1>3 DEF Known
    <3> QED
      BY <1>1, <1>2, <3>1, <3>2 DEF IsKnown, Precedes
  <2> QED
    BY <2>1 DEF Known
<1>4. IsKnown(c, b)
  BY <1>1, <1>2 DEF IsKnown
<1>5. Known(Append(e, c), b) /\ Ascends(Append(e, c))
  BY <1>1, <1>3, <1>4, AppendOrdered DEF Flow
<1>6. Before(x, Append(e, c)) /\ Before(q, Append(e, c))
  BY <1>1, <1>3, AppendBefore DEF Flow
<1>7. ASSUME NEW n \in 1 .. Len(b), b[n] \in Interrupting
      PROVE  Holds(Append(e, c), n) \/ Holds(q, n) \/ Holds(x, n)
  <2>1. CASE n = Len(a) + 1
    BY <1>1, <1>2, <2>1, HoldsAppend
  <2>2. CASE n # Len(a) + 1
    <3>1. n \in 1 .. Len(a) /\ a[n] \in Interrupting
      BY <1>2, <1>7, <2>2
    <3> QED
      BY <1>1, <3>1, HoldsAppend DEF Kept
  <2> QED
    BY <2>1, <2>2
<1>8. Flow(x, q, Append(e, c), b) /\ Kept(x, q, Append(e, c), b)
  BY <1>3, <1>5, <1>6, <1>7 DEF Flow, Kept
<1> QED
  BY <1>8 DEF c, b

-----------------------------------------------------------------------------
(* The ring *)

LEMMA ModLess ==
  ASSUME NEW n \in Nat \ {0}, NEW a \in 0 .. n - 1
  PROVE  a % n = a
  OBVIOUS

LEMMA ModOver ==
  ASSUME NEW n \in Nat \ {0}, NEW a \in n .. 2 * n - 1
  PROVE  a % n = a - n
  OBVIOUS

LEMMA RingIndex ==
  ASSUME QueueConstants, NEW s \in 0 .. QueueSize - 1, NEW k \in 0 .. QueueSize
  PROVE  /\ (s + k) % QueueSize = IF s + k < QueueSize THEN s + k ELSE s + k - QueueSize
         /\ (s + k) % QueueSize \in 0 .. QueueSize - 1
<1>1. QueueSize \in Nat \ {0}
  BY DEF QueueConstants
<1>2. CASE s + k < QueueSize
  <2>1. s + k \in 0 .. QueueSize - 1
    BY <1>1, <1>2
  <2> QED
    BY <1>1, <1>2, <2>1, ModLess
<1>3. CASE s + k >= QueueSize
  <2>1. s + k \in QueueSize .. 2 * QueueSize - 1
    BY <1>1, <1>3
  <2>2. (s + k) % QueueSize = s + k - QueueSize
    BY <1>1, <2>1, ModOver
  <2> QED
    BY <1>1, <1>3, <2>2
<1> QED
  BY <1>1, <1>2, <1>3

\* k places behind s, once around the ring at most.
Past(s, k) == IF s + k < QueueSize THEN s + k ELSE s + k - QueueSize

LEMMA RingPast ==
  ASSUME QueueConstants, NEW s \in 0 .. QueueSize - 1, NEW k \in 0 .. QueueSize
  PROVE  (s + k) % QueueSize = Past(s, k) /\ Past(s, k) \in 0 .. QueueSize - 1
  BY RingIndex DEF Past

\* The slot of the i-th command of a ring that starts at s.
Slot(s, i) == (s + i - 1) % QueueSize

LEMMA SlotPast ==
  ASSUME QueueConstants, NEW s \in 0 .. QueueSize - 1, NEW i \in 1 .. QueueSize + 1
  PROVE  Slot(s, i) = Past(s, i - 1) /\ Slot(s, i) \in 0 .. QueueSize - 1
<1>1. i - 1 \in 0 .. QueueSize /\ s + i - 1 = s + (i - 1)
  BY DEF QueueConstants
<1> QED
  BY <1>1, RingPast DEF Slot

LEMMA RingSequence ==
  ASSUME QueueConstants, NEW ring \in [0 .. QueueSize - 1 -> Elems],
         NEW s \in 0 .. QueueSize - 1, NEW n \in 0 .. QueueSize
  PROVE  /\ [i \in 1 .. n |-> ring[Slot(s, i)]] \in Seq(Elems)
         /\ Len([i \in 1 .. n |-> ring[Slot(s, i)]]) = n
<1>1. ASSUME NEW i \in 1 .. n PROVE ring[Slot(s, i)] \in Elems
  <2>1. i \in 1 .. QueueSize + 1
    BY DEF QueueConstants
  <2> QED
    BY <2>1, SlotPast
<1> QED
  BY <1>1

LEMMA SameSequence ==
  ASSUME NEW s \in Seq(Elems), NEW t \in Seq(Elems), Len(s) = Len(t),
         \A i \in 1 .. Len(s) : s[i] = t[i]
  PROVE  s = t
  OBVIOUS

RingOK ==
    /\ cmd_queue \in [0 .. QueueSize - 1 -> Elems]
    /\ cmd_queue_start \in 0 .. QueueSize - 1
    /\ cmd_queue_end \in 0 .. QueueSize - 1
    /\ cmd_queue_length \in 0 .. QueueSize
    /\ RingAgrees

LEMMA QueueSequence ==
  ASSUME QueueConstants, RingOK
  PROVE  /\ Queue \in Seq(Elems) /\ Len(Queue) = cmd_queue_length
         /\ \A i \in 1 .. cmd_queue_length : Queue[i] = cmd_queue[Slot(cmd_queue_start, i)]
<1>1. Queue = [i \in 1 .. cmd_queue_length |-> cmd_queue[Slot(cmd_queue_start, i)]]
  BY DEF Queue, Slot
<1> QED
  BY <1>1, RingSequence DEF RingOK

LEMMA NextQueueSequence ==
  ASSUME QueueConstants, RingOK'
  PROVE  /\ Queue' \in Seq(Elems) /\ Len(Queue') = cmd_queue_length'
         /\ \A i \in 1 .. cmd_queue_length' :
              Queue'[i] = cmd_queue'[Slot(cmd_queue_start', i)]
<1>1. Queue' = [i \in 1 .. cmd_queue_length' |-> cmd_queue'[Slot(cmd_queue_start', i)]]
  BY DEF Queue, Slot
<1> QED
  BY <1>1, RingSequence DEF RingOK

\* mp_input_queue_cmd puts a command behind those in the ring.
LEMMA QueueCmdAppends ==
  ASSUME QueueConstants, RingOK, NEW c \in Elems, mp_input_queue_cmd(c)
  PROVE  RingOK' /\ Queue' = Append(Queue, c)
<1> DEFINE s == cmd_queue_start
<1> DEFINE n == cmd_queue_length
<1>1. QueueSize \in Nat \ {0} /\ n \in 0 .. QueueSize - 1 /\ s \in 0 .. QueueSize - 1
  BY DEF QueueConstants, RingOK, mp_input_queue_cmd, Full
<1>2. /\ cmd_queue_length' = n + 1 /\ cmd_queue_start' = s
      /\ cmd_queue_end' = (cmd_queue_end + 1) % QueueSize
      /\ cmd_queue' = [cmd_queue EXCEPT ![cmd_queue_end] = c]
  BY DEF mp_input_queue_cmd
<1>3. /\ cmd_queue_end = Past(s, n) /\ cmd_queue_end \in 0 .. QueueSize - 1
      /\ cmd_queue \in [0 .. QueueSize - 1 -> Elems]
  BY <1>1, RingPast DEF RingOK, RingAgrees
<1> HIDE DEF s, n
<1>4. RingOK'
  <2>1. 1 \in 0 .. QueueSize /\ n + 1 \in 0 .. QueueSize
    BY <1>1
  <2>2. /\ cmd_queue_end' = Past(cmd_queue_end, 1)
        /\ cmd_queue_end' \in 0 .. QueueSize - 1
    BY <1>2, <1>3, <2>1, RingPast
  <2>3. (s + (n + 1)) % QueueSize = Past(s, n + 1)
    BY <1>1, <2>1, RingPast
  <2>4. Past(cmd_queue_end, 1) = Past(s, n + 1)
    BY <1>1, <1>3 DEF Past
  <2>5. cmd_queue' \in [0 .. QueueSize - 1 -> Elems]
    BY <1>2, <1>3
  <2> QED
    BY <1>1, <1>2, <2>1, <2>2, <2>3, <2>4, <2>5 DEF RingOK, RingAgrees
<1>5. ASSUME NEW i \in 1 .. n PROVE cmd_queue'[Slot(s, i)] = cmd_queue[Slot(s, i)]
  <2>1. i \in 1 .. QueueSize + 1 /\ i - 1 \in 0 .. n - 1
    BY <1>1
  <2>2. Slot(s, i) = Past(s, i - 1) /\ Slot(s, i) \in 0 .. QueueSize - 1
    BY <1>1, <2>1, SlotPast
  <2>3. Past(s, i - 1) # Past(s, n)
    BY <1>1, <2>1 DEF Past
  <2> QED
    BY <1>2, <1>3, <2>2, <2>3
<1>6. cmd_queue'[Slot(s, n + 1)] = c
  <2>1. n + 1 \in 1 .. QueueSize + 1 /\ (n + 1) - 1 = n
    BY <1>1
  <2>2. Slot(s, n + 1) = Past(s, n)
    BY <1>1, <2>1, SlotPast
  <2> QED
    BY <1>2, <1>3, <2>2
<1>7. /\ Queue' \in Seq(Elems) /\ Len(Queue') = n + 1
      /\ \A i \in 1 .. n + 1 : Queue'[i] = cmd_queue'[Slot(s, i)]
  BY <1>2, <1>4, NextQueueSequence
<1>8. /\ Append(Queue, c) \in Seq(Elems) /\ Len(Append(Queue, c)) = n + 1
      /\ Append(Queue, c)[n + 1] = c
      /\ \A i \in 1 .. n : Append(Queue, c)[i] = cmd_queue[Slot(s, i)]
  BY QueueSequence, AppendFacts DEF s, n
<1>9. \A i \in 1 .. n + 1 : Queue'[i] = Append(Queue, c)[i]
  BY <1>1, <1>5, <1>6, <1>7, <1>8
<1> QED
  BY <1>4, <1>7, <1>8, <1>9, SameSequence

\* Taking the command at the start leaves the others.
LEMMA RemoveTakesHead ==
  ASSUME QueueConstants, RingOK, cmd_queue_length > 0, RemoveQueued
  PROVE  RingOK' /\ Queue' = Tail(Queue)
<1> DEFINE s == cmd_queue_start
<1> DEFINE n == cmd_queue_length
<1>1. QueueSize \in Nat \ {0} /\ n \in 1 .. QueueSize /\ s \in 0 .. QueueSize - 1
  BY DEF QueueConstants, RingOK
<1>2. /\ cmd_queue_length' = n - 1 /\ cmd_queue_start' = (s + 1) % QueueSize
      /\ cmd_queue' = cmd_queue /\ cmd_queue_end' = cmd_queue_end
  BY DEF RemoveQueued
<1>3. /\ cmd_queue_end = Past(s, n) /\ cmd_queue_end \in 0 .. QueueSize - 1
      /\ cmd_queue \in [0 .. QueueSize - 1 -> Elems]
  BY <1>1, RingPast DEF RingOK, RingAgrees
<1> HIDE DEF s, n
<1>4. cmd_queue_start' = Past(s, 1) /\ Past(s, 1) \in 0 .. QueueSize - 1
  <2>1. 1 \in 0 .. QueueSize
    BY <1>1
  <2> QED
    BY <1>1, <1>2, <2>1, RingPast
<1>5. RingOK'
  <2>1. n - 1 \in 0 .. QueueSize
    BY <1>1
  <2>2. (Past(s, 1) + (n - 1)) % QueueSize = Past(Past(s, 1), n - 1)
    BY <1>4, <2>1, RingPast
  <2>3. Past(Past(s, 1), n - 1) = Past(s, n)
    BY <1>1 DEF Past
  <2> QED
    BY <1>2, <1>3, <1>4, <2>1, <2>2, <2>3 DEF RingOK, RingAgrees
<1>6. ASSUME NEW i \in 1 .. n - 1 PROVE Slot(Past(s, 1), i) = Slot(s, i + 1)
  <2>1. i \in 1 .. QueueSize + 1 /\ i + 1 \in 1 .. QueueSize + 1 /\ (i + 1) - 1 = i
    BY <1>1
  <2>2. Slot(Past(s, 1), i) = Past(Past(s, 1), i - 1)
    BY <1>4, <2>1, SlotPast
  <2>3. Slot(s, i + 1) = Past(s, i)
    BY <1>1, <2>1, SlotPast
  <2>4. Past(Past(s, 1), i - 1) = Past(s, i)
    BY <1>1 DEF Past
  <2> QED
    BY <2>2, <2>3, <2>4
<1>7. /\ Queue' \in Seq(Elems) /\ Len(Queue') = n - 1
      /\ \A i \in 1 .. n - 1 : Queue'[i] = cmd_queue[Slot(Past(s, 1), i)]
  BY <1>2, <1>4, <1>5, NextQueueSequence
<1>8. /\ Tail(Queue) \in Seq(Elems) /\ Len(Tail(Queue)) = n - 1
      /\ \A i \in 1 .. n - 1 : Tail(Queue)[i] = cmd_queue[Slot(s, i + 1)]
  <2>1. /\ Queue \in Seq(Elems) /\ Len(Queue) = n
        /\ \A i \in 1 .. n : Queue[i] = cmd_queue[Slot(s, i)]
    BY QueueSequence DEF s, n
  <2>2. /\ Tail(Queue) \in Seq(Elems) /\ Len(Tail(Queue)) = n - 1
        /\ \A i \in 1 .. n - 1 : Tail(Queue)[i] = Queue[i + 1]
    BY <1>1, <2>1, TailFacts
  <2>3. \A i \in 1 .. n - 1 : i + 1 \in 1 .. n
    BY <1>1
  <2> QED
    BY <2>1, <2>2, <2>3
<1>9. \A i \in 1 .. n - 1 : Queue'[i] = Tail(Queue)[i]
  BY <1>6, <1>7, <1>8
<1> QED
  BY <1>5, <1>7, <1>8, <1>9, SameSequence

LEMMA HeadOfRing ==
  ASSUME QueueConstants, RingOK, cmd_queue_length > 0
  PROVE  Len(Queue) > 0 /\ Head(Queue) = cmd_queue[cmd_queue_start]
<1>1. cmd_queue_length \in 1 .. QueueSize /\ QueueSize \in Nat \ {0}
      /\ cmd_queue_start \in 0 .. QueueSize - 1
  BY DEF QueueConstants, RingOK
<1>2. Slot(cmd_queue_start, 1) = cmd_queue_start
  <2>1. 1 \in 1 .. QueueSize + 1 /\ 1 - 1 = 0
    BY <1>1
  <2>2. Slot(cmd_queue_start, 1) = Past(cmd_queue_start, 0)
    BY <1>1, <2>1, SlotPast
  <2> QED
    BY <1>1, <2>2 DEF Past
<1> QED
  BY <1>1, <1>2, QueueSequence, TailFacts

-----------------------------------------------------------------------------
(* The invariant *)

FlowOK ==
    /\ RingOK
    /\ events \in Seq(Commands) /\ executed \in Seq(Commands) /\ arrived \in Seq(Kinds)
    /\ Flow(executed, Queue, events, arrived)
    /\ Kept(executed, Queue, events, arrived)

\* What mp_input_check_interrupt is about to remove does not end a wait.
Removing == pc = "removing" => Len(Queue) > 0 /\ Head(Queue).kind \notin Interrupting

FlowInv == FlowOK /\ Removing

LEMMA SeqElems ==
  ASSUME NEW s \in Seq(Commands)
  PROVE  s \in Seq(Elems)
  BY DEF Elems

LEMMA FlowSequences ==
  ASSUME QueueConstants, FlowOK
  PROVE  /\ executed \in Seq(Elems) /\ Queue \in Seq(Elems) /\ events \in Seq(Elems)
         /\ arrived \in Seq(Kinds)
  BY SeqElems, QueueSequence DEF FlowOK

LEMMA SameQueue ==
  ASSUME UNCHANGED queueVars
  PROVE  Queue' = Queue /\ (RingOK => RingOK')
  BY DEF queueVars, Queue, RingOK, RingAgrees

LEMMA FlowInvInit == QueueConstants /\ QueueInit => FlowInv
<1> SUFFICES ASSUME QueueConstants, QueueInit PROVE FlowInv
  OBVIOUS
<1>1. QueueSize \in Nat \ {0} /\ 0 % QueueSize = 0
  <2>1. QueueSize \in Nat \ {0} /\ 0 \in 0 .. QueueSize - 1
    BY DEF QueueConstants
  <2> QED
    BY <2>1, ModLess
<1>2. RingOK
  BY <1>1 DEF QueueInit, RingOK, RingAgrees, Elems
<1>3. Queue \in Seq(Elems) /\ Len(Queue) = 0
  BY <1>2, QueueSequence DEF QueueInit
<1>4. /\ events = <<>> /\ executed = <<>> /\ arrived = <<>> /\ pc = "main"
      /\ Len(events) = 0 /\ Len(executed) = 0 /\ Len(arrived) = 0
  BY DEF QueueInit
<1>5. events \in Seq(Commands) /\ executed \in Seq(Commands) /\ arrived \in Seq(Kinds)
  BY <1>4
<1>6. Flow(executed, Queue, events, arrived) /\ Kept(executed, Queue, events, arrived)
  BY <1>3, <1>4 DEF Flow, Known, Ascends, Before, Kept
<1> QED
  BY <1>2, <1>4, <1>5, <1>6 DEF FlowInv, FlowOK, Removing

\* mp_input_get_cmd takes the head of the ring, else that of the descriptors.
LEMMA GetCmdTakes ==
  ASSUME QueueConstants, FlowOK, NEW c \in Elems, GetCmd(c)
  PROVE  /\ RingOK'
         /\ \/ c.n = 0 /\ Queue' = Queue /\ events' = events
            \/ /\ Len(Queue) > 0 /\ c = Head(Queue)
               /\ Queue' = Tail(Queue) /\ events' = events
            \/ /\ Len(Queue) = 0 /\ Len(events) > 0 /\ c = Head(events)
               /\ Queue' = Queue /\ events' = Tail(events)
<1>1. RingOK /\ Len(Queue) = cmd_queue_length /\ cmd_queue_length \in Nat
      /\ events \in Seq(Commands)
  BY QueueSequence DEF FlowOK, RingOK
<1>2. CASE async_quit_request = 1 /\ c = Quit1 /\ UNCHANGED <<queueVars, events>>
  BY <1>1, <1>2, SameQueue DEF Quit1, Cmd
<1>3. CASE cmd_queue_length > 0 /\ c = cmd_queue[cmd_queue_start] /\ RemoveQueued
           /\ UNCHANGED events
  BY <1>1, <1>3, RemoveTakesHead, HeadOfRing
<1>4. CASE cmd_queue_length = 0 /\ events # <<>> /\ c = Head(events)
           /\ events' = Tail(events) /\ UNCHANGED queueVars
  <2>1. Len(events) > 0
    BY <1>1, <1>4
  <2> QED
    BY <1>1, <1>4, <2>1, SameQueue
<1>5. CASE c = None /\ UNCHANGED <<queueVars, events>>
  BY <1>1, <1>5, SameQueue DEF None, Cmd
<1> QED
  BY <1>2, <1>3, <1>4, <1>5 DEF GetCmd

\* A command that is taken and run stays in the flow.
LEMMA TakeAndRun ==
  ASSUME QueueConstants, FlowOK, NEW c \in Elems, GetCmd(c), Runs(c), arrived' = arrived
  PROVE  FlowOK'
<1> USE DEF FlowOK
<1>1. /\ executed \in Seq(Elems) /\ Queue \in Seq(Elems) /\ events \in Seq(Elems)
      /\ arrived \in Seq(Kinds)
  BY FlowSequences
<1>2. RingOK'
  BY GetCmdTakes
<1>3. CASE c = None
  <2>1. executed' = executed /\ c.n = 0 /\ c.kind \notin Interrupting
    BY <1>3 DEF Runs, None, Cmd, Interrupting
  <2>2. events' \in Seq(Commands)
    BY GetCmdTakes, TailFacts
  <2>3. Flow(executed', Queue', events', arrived') /\ Kept(executed', Queue', events', arrived')
    BY <1>1, <2>1, GetCmdTakes, DropQueued, DropEvent
  <2> QED
    BY <1>2, <2>1, <2>2, <2>3
<1>4. CASE c # None
  <2>1. executed' = Append(executed, c) /\ c \in Commands
    BY <1>4 DEF Runs, Elems
  <2>2. events' \in Seq(Commands)
    BY GetCmdTakes, TailFacts
  <2>3. executed' \in Seq(Commands)
    BY <2>1, AppendFacts
  <2>4. Flow(executed', Queue', events', arrived') /\ Kept(executed', Queue', events', arrived')
    BY <1>1, <2>1, GetCmdTakes, RunQueued, RunEvent, MadeCommand
  <2> QED
    BY <1>2, <2>2, <2>3, <2>4
<1> QED
  BY <1>3, <1>4

\* So do the others when one that does not end a wait is taken and dropped.
LEMMA TakeAndDrop ==
  ASSUME QueueConstants, FlowOK, NEW c \in Elems, GetCmd(c), executed' = executed,
         arrived' = arrived,
         c.kind \notin Interrupting \/ (Len(Queue) > 0 /\ Head(Queue).kind \notin Interrupting)
  PROVE  FlowOK'
<1> USE DEF FlowOK
<1>1. /\ executed \in Seq(Elems) /\ Queue \in Seq(Elems) /\ events \in Seq(Elems)
      /\ arrived \in Seq(Kinds)
  BY FlowSequences
<1>2. RingOK'
  BY GetCmdTakes
<1>3. events' \in Seq(Commands)
  BY GetCmdTakes, TailFacts
<1>4. Flow(executed', Queue', events', arrived') /\ Kept(executed', Queue', events', arrived')
  <2>1. CASE Queue' = Queue /\ events' = events
    BY <2>1
  <2>2. CASE Len(Queue) > 0 /\ c = Head(Queue) /\ Queue' = Tail(Queue) /\ events' = events
    <3>1. Head(Queue).kind \notin Interrupting
      BY <2>2
    <3>2. /\ Flow(executed, Tail(Queue), events, arrived)
          /\ Kept(executed, Tail(Queue), events, arrived)
      BY <1>1, <2>2, <3>1, DropQueued
    <3> QED
      BY <2>2, <3>2
  <2>3. CASE /\ Len(Queue) = 0 /\ Len(events) > 0 /\ c = Head(events)
             /\ Queue' = Queue /\ events' = Tail(events)
    <3>1. Head(events).kind \notin Interrupting
      BY <2>3
    <3>2. /\ Flow(executed, Queue, Tail(events), arrived)
          /\ Kept(executed, Queue, Tail(events), arrived)
      BY <1>1, <2>3, <3>1, DropEvent
    <3> QED
      BY <2>3, <3>2
  <2> QED
    BY <2>1, <2>2, <2>3, GetCmdTakes
<1> QED
  BY <1>2, <1>3, <1>4

\* A command that is looked at is at the head of the ring afterwards.
LEMMA PeekKeeps ==
  ASSUME QueueConstants, FlowOK, NEW c \in Elems, PeekCmd(c), executed' = executed,
         arrived' = arrived
  PROVE  /\ FlowOK'
         /\ c # None /\ c.kind \notin Interrupting => Len(Queue') > 0 /\ Head(Queue') = c
<1> USE DEF FlowOK
<1>1. /\ executed \in Seq(Elems) /\ Queue \in Seq(Elems) /\ events \in Seq(Elems)
      /\ arrived \in Seq(Kinds) /\ RingOK /\ Len(Queue) = cmd_queue_length
      /\ cmd_queue_length \in Nat
  BY FlowSequences, QueueSequence DEF RingOK
<1>2. CASE c = Quit1 /\ events' = events /\ mp_input_queue_cmd(c)
  <2>1. RingOK' /\ Queue' = Append(Queue, c) /\ c.n = 0 /\ c.kind \in Interrupting
    BY <1>1, <1>2, QueueCmdAppends DEF Quit1, Cmd, Interrupting
  <2>2. Flow(executed', Queue', events', arrived') /\ Kept(executed', Queue', events', arrived')
    BY <1>1, <1>2, <2>1, MadeCommand
  <2> QED
    BY <1>2, <2>1, <2>2
<1>3. CASE c = None /\ UNCHANGED <<queueVars, events>>
  <2>1. RingOK' /\ Queue' = Queue /\ events' = events
    BY <1>1, <1>3, SameQueue
  <2> QED
    BY <1>3, <2>1
<1>4. CASE cmd_queue_length > 0 /\ c = cmd_queue[cmd_queue_start]
           /\ UNCHANGED <<queueVars, events>>
  <2>1. RingOK' /\ Queue' = Queue /\ events' = events
    BY <1>1, <1>4, SameQueue
  <2>2. Len(Queue) > 0 /\ Head(Queue) = c
    BY <1>1, <1>4, HeadOfRing
  <2> QED
    BY <2>1, <2>2
<1>5. CASE cmd_queue_length = 0 /\ events # <<>> /\ c = Head(events)
           /\ events' = Tail(events) /\ mp_input_queue_cmd(c)
  <2>1. Len(events) > 0 /\ Len(Queue) = 0
    BY <1>1, <1>5
  <2>2. RingOK' /\ Queue' = Append(Queue, c)
    BY <1>1, <1>5, QueueCmdAppends
  <2>3. Flow(executed', Queue', events', arrived') /\ Kept(executed', Queue', events', arrived')
    BY <1>1, <1>5, <2>1, <2>2, QueueEvent
  <2>4. events' \in Seq(Commands)
    BY <1>5, <2>1, TailFacts
  <2>5. Len(Queue') > 0 /\ Head(Queue') = c
    <3>1. Queue' \in Seq(Elems) /\ Len(Queue') = 1 /\ Queue'[1] = c
      BY <1>1, <2>1, <2>2, AppendFacts
    <3> QED
      BY <3>1, TailFacts
  <2> QED
    BY <2>2, <2>3, <2>4, <2>5
<1> QED
  BY <1>2, <1>3, <1>4, <1>5 DEF PeekCmd

LEMMA FlowInvStep == QueueConstants /\ FlowInv /\ [QueueNext]_inputVars => FlowInv'
<1> SUFFICES ASSUME QueueConstants, FlowInv, [QueueNext]_inputVars PROVE FlowInv'
  OBVIOUS
<1> USE DEF FlowInv
<1>1. ASSUME NEW kind \in Kinds, Arrive(kind) PROVE FlowInv'
  <2>1. /\ executed \in Seq(Elems) /\ Queue \in Seq(Elems) /\ events \in Seq(Elems)
        /\ arrived \in Seq(Kinds)
    BY FlowSequences
  <2>2. Cmd(Len(arrived) + 1, kind) \in Commands
    BY <1>1, <2>1 DEF Arrive, Cmd, Commands, QueueConstants
  <2>3. /\ events' = Append(events, Cmd(Len(arrived) + 1, kind))
        /\ arrived' = Append(arrived, kind) /\ executed' = executed /\ pc' = pc
        /\ UNCHANGED queueVars
    BY <1>1 DEF Arrive
  <2>4. Queue' = Queue /\ RingOK'
    BY <2>3, SameQueue DEF FlowOK
  <2>5. events' \in Seq(Commands) /\ arrived' \in Seq(Kinds)
    BY <2>2, <2>3, AppendFacts DEF FlowOK
  <2>6. Flow(executed', Queue', events', arrived') /\ Kept(executed', Queue', events', arrived')
    BY <2>1, <2>2, <2>3, <2>4, ArrivedCommand DEF FlowOK, Elems
  <2> QED
    BY <2>3, <2>4, <2>5, <2>6 DEF FlowOK, Removing
<1>2. CASE Signal \/ Pause \/ Block \/ Unblock \/ Return \/ UNCHANGED inputVars
  <2>1. /\ UNCHANGED <<queueVars, events, executed, arrived>>
        /\ pc' = pc \/ pc' # "removing"
    BY <1>2 DEF Signal, Pause, Block, Unblock, Return, inputVars
  <2>2. Queue' = Queue /\ RingOK'
    BY <2>1, SameQueue DEF FlowOK
  <2> QED
    BY <2>1, <2>2 DEF FlowOK, Removing
<1>3. CASE QueueCmd
  <2>1. UNCHANGED <<events, executed, arrived>> /\ pc' = "main"
    BY <1>3 DEF QueueCmd
  <2>2. CASE UNCHANGED queueVars
    <3>1. Queue' = Queue /\ RingOK'
      BY <2>2, SameQueue DEF FlowOK
    <3> QED
      BY <2>1, <3>1 DEF FlowOK, Removing
  <2>3. CASE mp_input_queue_cmd(Cmd(0, "other"))
    <3>1. Cmd(0, "other") \in Elems /\ Cmd(0, "other").n = 0
      BY DEF Cmd, Elems, Commands, AllKinds, QueueConstants
    <3>2. RingOK' /\ Queue' = Append(Queue, Cmd(0, "other"))
      BY <2>3, <3>1, QueueCmdAppends DEF FlowOK
    <3>3. /\ Flow(executed', Queue', events', arrived')
          /\ Kept(executed', Queue', events', arrived')
      BY <2>1, <3>1, <3>2, FlowSequences, MadeCommand DEF FlowOK
    <3> QED
      BY <2>1, <3>2, <3>3 DEF FlowOK, Removing
  <2> QED
    BY <1>3, <2>2, <2>3 DEF QueueCmd
<1>4. CASE CheckInterrupt
  <2>1. PICK c \in Elems :
          /\ PeekCmd(c) /\ executed' = executed /\ arrived' = arrived
          /\ pc' = "removing" => c # None /\ c.kind \notin Interrupting
    BY <1>4 DEF CheckInterrupt, Elems
  <2> QED
    BY <2>1, PeekKeeps DEF Removing
<1>5. CASE PauseLoop
  <2>1. PICK c \in Elems :
          PeekCmd(c) /\ executed' = executed /\ arrived' = arrived /\ pc' # "removing"
    BY <1>5 DEF PauseLoop, Elems
  <2> QED
    BY <2>1, PeekKeeps DEF Removing
<1>6. CASE MainLoop \/ RunPaused \/ Resume
  <2>1. PICK c \in Elems : GetCmd(c) /\ Runs(c) /\ arrived' = arrived /\ pc' # "removing"
    BY <1>6 DEF MainLoop, RunPaused, Resume, Elems
  <2> QED
    BY <2>1, TakeAndRun DEF Removing
<1>7. CASE Remove
  <2>1. PICK c \in Elems : GetCmd(c)
    BY <1>7 DEF Remove, Elems
  <2>2. /\ executed' = executed /\ arrived' = arrived /\ pc' = "blocked"
        /\ Len(Queue) > 0 /\ Head(Queue).kind \notin Interrupting
    BY <1>7 DEF Remove, Removing
  <2> QED
    BY <2>1, <2>2, TakeAndDrop DEF Removing
<1>8. CASE libmpdemux_was_interrupted
  <2>1. PICK c \in Elems :
          /\ GetCmd(c) /\ arrived' = arrived /\ pc' # "removing"
          /\ IF c.kind \in Interrupting THEN Runs(c) ELSE executed' = executed
    BY <1>8 DEF libmpdemux_was_interrupted, Elems
  <2> QED
    BY <2>1, TakeAndRun, TakeAndDrop DEF Removing
<1>9. CASE Exited
  BY <1>2, <1>9 DEF Exited
<1> QED
  BY <1>1, <1>2, <1>3, <1>4, <1>5, <1>6, <1>7, <1>8, <1>9 DEF QueueNext, Player

\* Whatever the size of the ring and however many commands and signals come: a
\* command that ends a wait reaches the main loop, also when it was looked at by
\* the waits and the pause loop, and commands are run in the order they came in.
THEOREM CommandsAreKept ==
  ASSUME QueueConstants
  PROVE  QueueSpec => []CommandsKept
<1>1. QueueInit => FlowInv
  BY FlowInvInit
<1>2. FlowInv /\ [QueueNext]_inputVars => FlowInv'
  BY FlowInvStep
<1>3. FlowInv => CommandsKept
  <2> SUFFICES ASSUME FlowInv PROVE CommandsKept
    OBVIOUS
  <2>1. InterruptsKept
    BY DEF FlowInv, FlowOK, Kept, InterruptsKept
  <2>2. InOrder
    BY DEF FlowInv, FlowOK, Flow, Ascends, Precedes, InOrder
  <2> QED
    BY <2>1, <2>2 DEF CommandsKept
<1> QED
  BY <1>1, <1>2, <1>3, PTL DEF QueueSpec

\* The indices of the ring agree however often it goes round.
THEOREM RingIndicesAgree ==
  ASSUME QueueConstants
  PROVE  QueueSpec => []RingAgrees
<1>1. QueueInit => FlowInv
  BY FlowInvInit
<1>2. FlowInv /\ [QueueNext]_inputVars => FlowInv'
  BY FlowInvStep
<1>3. FlowInv => RingAgrees
  BY DEF FlowInv, FlowOK, RingOK
<1> QED
  BY <1>1, <1>2, <1>3, PTL DEF QueueSpec

-----------------------------------------------------------------------------
(* The remote.                                                             *)

\* The thread says that it ended after it closed what it had, and the player
\* closes the pipe, and forgets the flag, after that.
RemoteInv ==
    /\ tpc \in {"cleaned", "gone"} => input_fd = 0 /\ inotify_fd = 0
    /\ thread_exited \in {0, 1}
    /\ thread_exited = 1 => tpc = "gone"
    /\ pipe_open = 0 => tpc = "gone"

LEMMA RemoteInvInit == RemoteInit => RemoteInv
  BY DEF RemoteInit, RemoteInv

LEMMA RemoteInvStep == RemoteInv /\ [RemoteNext]_remoteVars => RemoteInv'
<1> SUFFICES ASSUME RemoteInv, [RemoteNext]_remoteVars PROVE RemoteInv'
  OBVIOUS
<1> USE DEF RemoteInv, device, thread, main
\* The device and the player's own steps leave the thread where it is.
<1>1. CASE PressKey \/ Plug \/ mp_input_ps3remote_read \/ StartClose
  BY <1>1 DEF PressKey, Plug, mp_input_ps3remote_read, StartClose
<1>2. CASE FirstScan
  BY <1>2 DEF FirstScan, scan_ps3_remote
<1>3. CASE Watch
  BY <1>3 DEF Watch
<1>4. CASE Loop
  BY <1>4 DEF Loop
<1>5. CASE Rescan
  BY <1>5 DEF Rescan, scan_ps3_remote
<1>6. CASE ReadDevice
  BY <1>6 DEF ReadDevice
<1>7. CASE WritePipe
  BY <1>7 DEF WritePipe
<1>8. CASE Cleanup
  BY <1>8 DEF Cleanup
<1>9. CASE Ended
  BY <1>9 DEF Ended
<1>10. CASE FinishClose
  BY <1>10 DEF FinishClose
<1>11. CASE Closed \/ UNCHANGED remoteVars
  BY <1>11 DEF Closed, remoteVars
<1> QED
  BY <1>1, <1>2, <1>3, <1>4, <1>5, <1>6, <1>7, <1>8, <1>9, <1>10, <1>11
     DEF RemoteNext, Thread

\* For every size of the pipe, however often the device comes and goes and
\* wherever the thread is when the player asks it to end: once the pipe is
\* closed nothing writes to it any more, and the thread's descriptors are closed.
THEOREM ThreadIsOutlived == RemoteSpec => []ThreadOutlived
<1>1. RemoteInv => ThreadOutlived
  BY DEF RemoteInv, ThreadOutlived
<1> QED
  BY RemoteInvInit, RemoteInvStep, <1>1, PTL DEF RemoteSpec

=============================================================================
