--------------------------- MODULE SubtitlesProofs ---------------------------
(***************************************************************************)
(* Proofs about the subtitles: there is one source of them, whatever is    *)
(* loaded, removed and selected; and, as long as no file is read to where  *)
(* another one was, what find_sub shows is due, however much it remembers. *)
(***************************************************************************)
EXTENDS Subtitles, SequenceTheorems, FiniteSetTheorems, WellFoundedInduction, TLAPS

-----------------------------------------------------------------------------
(* The binary search.                                                      *)

NothingDue(subs, key) == \A n \in 1..Len(subs) : ~ Due(subs[n], key)

LEMMA ContentShape ==
  ASSUME NEW subs \in Contents
  PROVE  /\ subs \in Seq([start : Int, end : Int]) /\ Len(subs) \in Nat /\ Len(subs) >= 1
         /\ DOMAIN subs = 1..Len(subs) /\ subs # <<>>
         /\ \A i \in 1..Len(subs) : subs[i].start \in Int /\ subs[i].end \in Int
         /\ \A i, j \in 1..Len(subs) :
              i < j => subs[i].start <= subs[j].start /\ subs[i].end <= subs[j].end
<1>1. subs \in Seq([start : Int, end : Int]) /\ subs # <<>>
  BY ContentsAssumption
<1>2. Len(subs) \in Nat /\ DOMAIN subs = 1..Len(subs) /\ Len(subs) # 0
  BY <1>1, LenProperties, EmptySeq
<1>3. \A i \in 1..Len(subs) : subs[i] \in [start : Int, end : Int]
  BY <1>1, <1>2, ElementOfSeq
<1>4. \A i \in 1..Len(subs) : subs[i].start \in Int /\ subs[i].end \in Int
  BY <1>3
<1> QED
  BY <1>1, <1>2, <1>4, ContentsAssumption

\* The least number of a set of them.
LEMMA LeastOf ==
  ASSUME NEW T, T \subseteq Nat, T # {}
  PROVE  \E x \in T : \A y \in T : x <= y
<1> DEFINE R == OpToRel(<, Nat)
<1>1. PICK x \in T : \A y \in T : ~ (<<y, x>> \in R)
  <2>1. IsWellFoundedOn(R, Nat)
    BY NatLessThanWellFounded
  <2> HIDE DEF R
  <2> QED
    BY <2>1, WFMin
<1>2. \A y \in T : ~ (y < x)
  BY <1>1 DEF OpToRel
<1> QED
  BY <1>2

FirstTurn(subs, from) == [lo |-> 0, hi |-> Len(subs) - 1, at |-> from]
RowOfTurns(f, subs, key, from, n) ==
  f = [k \in 0..n |-> IF k = 0 THEN FirstTurn(subs, from) ELSE Narrowed(subs, key, f[k - 1])]

\* There is a row of turns, up to any number of them.
LEMMA TurnsExist ==
  ASSUME NEW subs, NEW key, NEW from, NEW n \in Nat
  PROVE  \E f : RowOfTurns(f, subs, key, from, n)
<1> USE DEF RowOfTurns
<1> DEFINE Row(f, m) == RowOfTurns(f, subs, key, from, m)
           T == {m \in Nat : ~ \E f : Row(f, m)}
<1>1. SUFFICES T = {}
  OBVIOUS
<1>2. SUFFICES ASSUME T # {} PROVE FALSE
  OBVIOUS
<1>3. PICK m \in T : \A y \in T : m <= y
  <2> HIDE DEF T
  <2>1. T \subseteq Nat
    BY DEF T
  <2> QED
    BY <1>2, <2>1, LeastOf
<1>4. m # 0
  <2>1. Row([k \in 0..0 |-> FirstTurn(subs, from)], 0)
    OBVIOUS
  <2> QED
    BY <2>1
<1>5. m - 1 \in Nat /\ m - 1 \notin T
  BY <1>3, <1>4
<1>6. PICK f : Row(f, m - 1)
  BY <1>5
<1> DEFINE g == [k \in 0..m |-> IF k = m THEN Narrowed(subs, key, f[m - 1]) ELSE f[k]]
<1>7. Row(g, m)
  <2>1. ASSUME NEW k \in 0..m
        PROVE  g[k] = IF k = 0 THEN FirstTurn(subs, from) ELSE Narrowed(subs, key, g[k - 1])
    <3>1. CASE k = m
      BY <3>1, <1>4, <1>5
    <3>2. CASE k # m
      <4>1. k \in 0..m - 1 /\ g[k] = f[k]
        BY <3>2
      <4>2. k # 0 => k - 1 \in 0..m - 1 /\ k - 1 # m /\ g[k - 1] = f[k - 1]
        BY <4>1
      <4>3. f[k] = IF k = 0 THEN FirstTurn(subs, from) ELSE Narrowed(subs, key, f[k - 1])
        BY <4>1, <1>6
      <4> QED
        BY <4>1, <4>2, <4>3
    <3> QED
      BY <3>1, <3>2
  <2>2. g = [k \in 0..m |-> g[k]]
    OBVIOUS
  <2> HIDE DEF g
  <2> QED
    BY <2>1, <2>2
<1> QED
  BY <1>3, <1>7

\* Turns conforms to the equation it is defined by.
LEMMA TurnsDef ==
  ASSUME NEW subs, NEW key, NEW from, Len(subs) \in Nat
  PROVE  /\ Turns(subs, key, from)[0] = FirstTurn(subs, from)
         /\ \A k \in 1..Len(subs) :
              Turns(subs, key, from)[k] = Narrowed(subs, key, Turns(subs, key, from)[k - 1])
<1>1. RowOfTurns(Turns(subs, key, from), subs, key, from, Len(subs))
  <2>1. \E f : RowOfTurns(f, subs, key, from, Len(subs))
    BY TurnsExist
  <2>2. Turns(subs, key, from) = CHOOSE f : RowOfTurns(f, subs, key, from, Len(subs))
    BY DEF Turns, FirstTurn, RowOfTurns
  <2> QED
    BY <2>1, <2>2
<1> QED
  BY <1>1 DEF RowOfTurns

\* What a search knows: either it is at what is due, or what is before lo is over and what is after
\* hi not yet due, and so many turns are left that the rest is looked through.
Narrowing(subs, key, turn, left) ==
  /\ turn.lo \in Int /\ turn.hi \in Int
  /\ \/ /\ turn.at \in 0..Len(subs) - 1 /\ turn.lo = turn.at /\ turn.hi = turn.at
        /\ Due(subs[turn.at + 1], key)
     \/ /\ 0 <= turn.lo /\ turn.hi < Len(subs)
        /\ turn.at \in 0..Len(subs) - 1 \/ turn.hi >= turn.lo
        /\ turn.hi - turn.lo < left
        /\ \A n \in 1..Len(subs) : n <= turn.lo => subs[n].end < key
        /\ \A n \in 1..Len(subs) : n > turn.hi + 1 => key < subs[n].start

LEMMA NarrowedKeeps ==
  ASSUME NEW subs \in Contents, NEW key \in Int, NEW left \in Nat, left > 0, NEW turn,
         Narrowing(subs, key, turn, left)
  PROVE  Narrowing(subs, key, Narrowed(subs, key, turn), left - 1)
<1> DEFINE m == (turn.lo + turn.hi + 1) \div 2
           next == Narrowed(subs, key, turn)
           n == Len(subs)
<1>1. /\ n \in Nat /\ n >= 1
      /\ \A i \in 1..n : subs[i].start \in Int /\ subs[i].end \in Int
      /\ \A i, j \in 1..n : i < j => subs[i].start <= subs[j].start /\ subs[i].end <= subs[j].end
  BY ContentShape
<1>2. turn.lo \in Int /\ turn.hi \in Int
  BY DEF Narrowing
<1>3. CASE turn.at \in 0..n - 1 /\ turn.lo = turn.at /\ turn.hi = turn.at /\ Due(subs[turn.at + 1], key)
  <2> DEFINE a == turn.at
  <2>0. \A b \in Int : (b + b + 1) \div 2 = b
    OBVIOUS
  <2>1. m = turn.at /\ ~ turn.hi < turn.lo /\ m + 1 \in 1..n /\ m \in Int
    <3>1. a \in Int /\ a \in 0..n - 1 /\ turn.lo = a /\ turn.hi = a
      BY <1>3, <1>1
    <3> HIDE DEF a, n
    <3>2. (a + a + 1) \div 2 = a
      BY <3>1, <2>0
    <3>3. m = a
      BY <3>1, <3>2
    <3> HIDE DEF m
    <3> QED
      BY <3>1, <3>3, <1>1 DEF a
  <2> HIDE DEF m
  <2>2. ~ key < subs[m + 1].start /\ ~ key > subs[m + 1].end
    BY <1>3, <2>1, <1>1 DEF Due
  <2>3. next = [lo |-> m, hi |-> m, at |-> m]
    BY <2>1, <2>2 DEF Narrowed, m
  <2>4. next.lo = m /\ next.hi = m /\ next.at = m
    BY <2>3
  <2> HIDE DEF next
  <2> QED
    BY <1>3, <2>1, <2>4 DEF Narrowing, next
<1>4. CASE /\ 0 <= turn.lo /\ turn.hi < n
           /\ turn.at \in 0..n - 1 \/ turn.hi >= turn.lo
           /\ turn.hi - turn.lo < left
           /\ \A i \in 1..n : i <= turn.lo => subs[i].end < key
           /\ \A i \in 1..n : i > turn.hi + 1 => key < subs[i].start
  <2>1. CASE turn.hi < turn.lo
    <3>1. next = turn
      BY <2>1 DEF Narrowed
    <3>2. turn.at \in 0..n - 1
      BY <1>1, <1>2, <1>4, <2>1
    <3> QED
      BY <1>1, <1>2, <1>4, <2>1, <3>1, <3>2 DEF Narrowing
  <2>2. CASE ~ turn.hi < turn.lo
    <3>1. m \in 0..n - 1 /\ m + 1 \in 1..n /\ turn.lo <= m /\ m <= turn.hi
      BY <1>1, <1>2, <1>4, <2>2
    <3> HIDE DEF m, n
    <3>2. m \in Int /\ subs[m + 1].start \in Int /\ subs[m + 1].end \in Int
      BY <1>1, <3>1
    <3>3. CASE key < subs[m + 1].start
      <4>1. next = [lo |-> turn.lo, hi |-> m - 1, at |-> m]
        BY <2>2, <3>3 DEF Narrowed, m
      <4>2. \A i \in 1..n : i > m => key < subs[i].start
        <5> TAKE i \in 1..n
        <5> HAVE i > m
        <5>1. i = m + 1 \/ m + 1 < i
          BY <3>1
        <5>2. subs[i].start \in Int
          BY <1>1
        <5> QED
          BY <5>1, <5>2, <3>1, <3>2, <3>3, <1>1
      <4>3. m - 1 - turn.lo < left - 1
        BY <1>2, <1>4, <3>1
      <4> HIDE DEF next
      <4>4. next.lo = turn.lo /\ next.hi = m - 1 /\ next.at = m
        BY <4>1
      <4>5. next.hi + 1 = m /\ next.hi < n /\ next.hi \in Int
        BY <4>4, <3>1, <1>1
      <4>6. \A i \in 1..n : i > next.hi + 1 => key < subs[i].start
        BY <4>2, <4>5
      <4>7. next.hi - next.lo < left - 1
        BY <4>3, <4>4
      <4>8. /\ next.lo \in Int /\ 0 <= next.lo /\ next.at \in 0..n - 1
            /\ \A i \in 1..n : i <= next.lo => subs[i].end < key
        BY <1>2, <1>4, <3>1, <4>4
      <4> QED
        BY <4>5, <4>6, <4>7, <4>8 DEF Narrowing, n, next
    <3>4. CASE ~ key < subs[m + 1].start /\ key > subs[m + 1].end
      <4>1. next = [lo |-> m + 1, hi |-> turn.hi, at |-> m]
        BY <2>2, <3>4 DEF Narrowed, m
      <4>2. \A i \in 1..n : i <= m + 1 => subs[i].end < key
        <5> TAKE i \in 1..n
        <5> HAVE i <= m + 1
        <5>1. i = m + 1 \/ i < m + 1
          BY <3>1
        <5>2. subs[i].end \in Int
          BY <1>1
        <5> QED
          BY <5>1, <5>2, <3>1, <3>2, <3>4, <1>1
      <4>3. turn.hi - (m + 1) < left - 1
        BY <1>2, <1>4, <3>1
      <4> HIDE DEF next
      <4>4. next.lo = m + 1 /\ next.hi = turn.hi /\ next.at = m
        BY <4>1
      <4>5. next.lo \in Int /\ 0 <= next.lo
        BY <4>4, <3>1
      <4>6. \A i \in 1..n : i <= next.lo => subs[i].end < key
        BY <4>2, <4>4
      <4>7. next.hi - next.lo < left - 1
        BY <4>3, <4>4
      <4>8. /\ next.hi \in Int /\ next.hi < n /\ next.at \in 0..n - 1
            /\ \A i \in 1..n : i > next.hi + 1 => key < subs[i].start
        BY <1>2, <1>4, <3>1, <4>4
      <4> QED
        BY <4>5, <4>6, <4>7, <4>8 DEF Narrowing, n, next
    <3>5. CASE ~ key < subs[m + 1].start /\ ~ key > subs[m + 1].end
      <4>1. next = [lo |-> m, hi |-> m, at |-> m]
        BY <2>2, <3>5 DEF Narrowed, m
      <4>2. Due(subs[m + 1], key)
        BY <3>2, <3>5 DEF Due
      <4> QED
        BY <3>1, <3>2, <4>1, <4>2 DEF Narrowing, n
    <3> QED
      BY <3>3, <3>4, <3>5
  <2> QED
    BY <2>1, <2>2
<1> QED
  BY <1>3, <1>4 DEF Narrowing

\* Where the search ends it is at what is due, or nothing is due.
LEMMA BisectedFinds ==
  ASSUME NEW subs \in Contents, NEW key \in Int, NEW from \in Nat
  PROVE  /\ Bisected(subs, key, from) \in 0..Len(subs) - 1
         /\ \/ Due(subs[Bisected(subs, key, from) + 1], key)
            \/ NothingDue(subs, key)
<1> DEFINE n == Len(subs)
           turn(k) == Turns(subs, key, from)[k]
           T == {k \in Nat : k <= n /\ ~ Narrowing(subs, key, turn(k), n - k)}
<1>1. n \in Nat /\ n >= 1
  BY ContentShape
<1>2. Narrowing(subs, key, turn(0), n - 0)
  <2>1. turn(0) = [lo |-> 0, hi |-> n - 1, at |-> from]
    BY <1>1, TurnsDef DEF FirstTurn
  <2> HIDE DEF turn
  <2>2. turn(0).lo = 0 /\ turn(0).hi = n - 1
    BY <2>1
  <2>3. /\ \A i \in 1..n : ~ i <= turn(0).lo
        /\ \A i \in 1..n : ~ i > turn(0).hi + 1
    BY <1>1, <2>2
  <2> HIDE DEF n
  <2>4. turn(0).lo \in Int /\ turn(0).hi \in Int /\ turn(0).hi < n /\ turn(0).hi - turn(0).lo < n - 0
        /\ turn(0).hi >= turn(0).lo
    BY <1>1, <2>2
  <2> QED
    BY <1>1, <2>2, <2>3, <2>4 DEF Narrowing, n
<1>3. T = {}
  <2> SUFFICES ASSUME T # {} PROVE FALSE
    OBVIOUS
  <2>1. PICK k \in T : \A y \in T : k <= y
    <3>1. T \subseteq Nat
      OBVIOUS
    <3> HIDE DEF T
    <3> QED
      BY <3>1, LeastOf
  <2>2. k \in Nat /\ k <= n /\ k # 0
    <3> HIDE DEF turn
    <3> QED
      BY <2>1, <1>2
  <2>3. k - 1 \in Nat /\ k - 1 \notin T /\ k - 1 <= n /\ k \in 1..n
    <3> HIDE DEF T
    <3> QED
      BY <1>1, <2>1, <2>2
  <2>4. Narrowing(subs, key, turn(k - 1), n - (k - 1))
    BY <2>3
  <2>5. turn(k) = Narrowed(subs, key, turn(k - 1))
    BY <1>1, <2>3, TurnsDef
  <2> HIDE DEF turn
  <2>6. n - (k - 1) \in Nat /\ n - (k - 1) > 0 /\ (n - (k - 1)) - 1 = n - k
    BY <1>1, <2>2
  <2>7. Narrowing(subs, key, turn(k), n - k)
    <3> HIDE DEF n
    <3>1. Narrowing(subs, key, Narrowed(subs, key, turn(k - 1)), (n - (k - 1)) - 1)
      BY <2>4, <2>6, NarrowedKeeps
    <3> QED
      BY <3>1, <2>5, <2>6
  <2> QED
    BY <2>1, <2>7
<1>4. Narrowing(subs, key, turn(n), 0)
  <2>1. n \notin T /\ n - n = 0 /\ n <= n
    BY <1>1, <1>3
  <2> HIDE DEF turn
  <2> QED
    BY <1>1, <2>1
<1>5. Bisected(subs, key, from) = turn(n).at
  BY DEF Bisected
<1> HIDE DEF turn, T
<1>6. CASE /\ turn(n).hi - turn(n).lo < 0
           /\ turn(n).at \in 0..n - 1 \/ turn(n).hi >= turn(n).lo
           /\ \A i \in 1..n : i <= turn(n).lo => subs[i].end < key
           /\ \A i \in 1..n : i > turn(n).hi + 1 => key < subs[i].start
  <2>1. turn(n).lo \in Int /\ turn(n).hi \in Int
    BY <1>4 DEF Narrowing
  <2>2. ASSUME NEW i \in 1..n PROVE ~ Due(subs[i], key)
    <3>1. i <= turn(n).lo \/ i > turn(n).hi + 1
      BY <1>6, <2>1
    <3>2. subs[i].start \in Int /\ subs[i].end \in Int
      BY ContentShape
    <3> QED
      BY <1>6, <3>1, <3>2 DEF Due
  <2> QED
    BY <1>1, <1>5, <1>6, <2>1, <2>2 DEF NothingDue
<1>7. CASE turn(n).at \in 0..n - 1 /\ Due(subs[turn(n).at + 1], key)
  BY <1>5, <1>7
<1> QED
  BY <1>1, <1>4, <1>6, <1>7 DEF Narrowing

-----------------------------------------------------------------------------
(* find_sub: what it shows is due, and where it shows nothing nothing is.   *)

\* Inside of the gap remembered nothing is due.
GapTrue(range, subs) == \A key \in Int : Inside(range, key) => NothingDue(subs, key)

GapAfter(subs, i) == <<subs[i + 1].end, IF i + 2 > Len(subs) THEN MAXINT ELSE subs[i + 2].start>>

LEMMA GapAfterTrue ==
  ASSUME NEW subs \in Contents, NEW i \in 0..Len(subs) - 1
  PROVE  GapAfter(subs, i) \in Int \X Int /\ GapTrue(GapAfter(subs, i), subs)
<1> DEFINE n == Len(subs)
<1>1. /\ n \in Nat /\ n >= 1
      /\ \A j \in 1..n : subs[j].start \in Int /\ subs[j].end \in Int
      /\ \A j, k \in 1..n : j < k => subs[j].start <= subs[k].start /\ subs[j].end <= subs[k].end
  BY ContentShape
<1>2. i + 1 \in 1..n /\ (~ i + 2 > n => i + 2 \in 1..n)
  BY <1>1
<1>3. GapAfter(subs, i)[1] = subs[i + 1].end
  BY DEF GapAfter
<1>4. ~ i + 2 > n => GapAfter(subs, i)[2] = subs[i + 2].start
  BY DEF GapAfter
<1>5. GapAfter(subs, i) \in Int \X Int
  BY <1>1, <1>2 DEF GapAfter, MAXINT
<1>6. ASSUME NEW key \in Int, Inside(GapAfter(subs, i), key), NEW j \in 1..n
      PROVE  ~ Due(subs[j], key)
  <2> HIDE DEF n
  <2>1. subs[i + 1].end < key
    BY <1>3, <1>6 DEF Inside
  <2>2. CASE j <= i + 1
    <3>1. j = i + 1 \/ j < i + 1
      BY <2>2, <1>2
    <3>2. subs[j].end <= subs[i + 1].end
      BY <3>1, <1>1, <1>2
    <3> QED
      BY <2>1, <3>2, <1>1, <1>2 DEF Due
  <2>3. CASE j > i + 1
    <3>1. ~ i + 2 > n /\ (j = i + 2 \/ i + 2 < j)
      BY <2>3, <1>1, <1>2
    <3>2. key < subs[i + 2].start
      BY <3>1, <1>4, <1>6 DEF Inside
    <3>3. subs[i + 2].start <= subs[j].start
      BY <3>1, <1>1, <1>2
    <3> QED
      BY <3>1, <3>2, <3>3, <1>1, <1>2 DEF Due
  <2> QED
    BY <2>2, <2>3, <1>1, <1>2
<1> QED
  BY <1>5, <1>6 DEF GapTrue, NothingDue

\* What the search gives, wherever it was; and the gap it leaves, if the one it remembered was one.
SearchTrue(r, subs, key, sound) ==
  /\ r.at \in Nat /\ r.sub \in BOOLEAN /\ r.range \in Int \X Int /\ (sound => GapTrue(r.range, subs))
  /\ r.sub => r.at + 1 \in 1..Len(subs) /\ Due(subs[r.at + 1], key)
  /\ ~ r.sub /\ key > 0 => NothingDue(subs, key)

LEMMA SearchedTrue ==
  ASSUME NEW subs \in Contents, NEW key \in Int, NEW cur \in Nat, NEW range \in Int \X Int,
         NEW sound \in BOOLEAN, sound => GapTrue(range, subs)
  PROVE  SearchTrue(Searched(subs, key, cur, range), subs, key, sound)
<1> DEFINE n == Len(subs)
           at == Bisected(subs, key, cur)
           r == Searched(subs, key, cur, range)
           Found(i) == [at |-> i, sub |-> TRUE, range |-> range]
           NoSub(i, gap) == [at |-> i, sub |-> FALSE, range |-> gap]
<1>1. /\ n \in Nat /\ n >= 1
      /\ \A j \in 1..n : subs[j].start \in Int /\ subs[j].end \in Int
      /\ \A j, k \in 1..n : j < k => subs[j].start <= subs[k].start /\ subs[j].end <= subs[k].end
  BY ContentShape
<1>2. at \in 0..n - 1 /\ (Due(subs[at + 1], key) \/ NothingDue(subs, key))
  BY BisectedFinds
<1>3. r = IF key <= 0 THEN NoSub(cur, range)
          ELSE IF cur + 1 < n /\ Inside(GapAfter(subs, cur), key) THEN NoSub(cur, GapAfter(subs, cur))
          ELSE IF cur + 1 < n /\ Due(subs[cur + 2], key) THEN Found(cur + 1)
          ELSE IF Due(subs[at + 1], key) THEN Found(at)
          ELSE IF key < subs[at + 1].start
            THEN IF at = 0 THEN NoSub(0, <<key - 1, subs[1].start>>)
                 ELSE NoSub(at - 1, IF Inside(GapAfter(subs, at - 1), key) THEN GapAfter(subs, at - 1)
                                    ELSE range)
            ELSE NoSub(at, IF Inside(GapAfter(subs, at), key) \/ at + 1 >= n THEN GapAfter(subs, at)
                           ELSE range)
  BY DEF Searched, GapAfter
<1> HIDE DEF at, r
\* Nothing is shown: it is enough that the gap is one, and that nothing is due.
<1>4. ASSUME NEW i \in Nat, NEW gap \in Int \X Int, sound => GapTrue(gap, subs),
             key > 0 => NothingDue(subs, key)
      PROVE  SearchTrue(NoSub(i, gap), subs, key, sound)
  BY <1>4 DEF SearchTrue
<1>5. ASSUME NEW i \in 0..n - 1, Due(subs[i + 1], key)
      PROVE  SearchTrue(Found(i), subs, key, sound)
  BY <1>1, <1>5 DEF SearchTrue
<1> HIDE DEF NoSub, Found
<1>6. CASE key <= 0
  <2>1. r = NoSub(cur, range)
    BY <1>3, <1>6
  <2> QED
    BY <1>4, <1>6, <2>1 DEF r
<1>7. CASE ~ key <= 0 /\ cur + 1 < n /\ Inside(GapAfter(subs, cur), key)
  <2>1. cur \in 0..n - 1
    BY <1>1, <1>7
  <2>2. GapAfter(subs, cur) \in Int \X Int /\ GapTrue(GapAfter(subs, cur), subs)
    BY <2>1, GapAfterTrue
  <2>3. NothingDue(subs, key)
    BY <2>2, <1>7 DEF GapTrue
  <2>4. r = NoSub(cur, GapAfter(subs, cur))
    BY <1>3, <1>7
  <2> QED
    BY <1>4, <2>2, <2>3, <2>4 DEF r
<1>8. CASE /\ ~ key <= 0 /\ ~ (cur + 1 < n /\ Inside(GapAfter(subs, cur), key))
           /\ cur + 1 < n /\ Due(subs[cur + 2], key)
  <2>1. cur + 1 \in 0..n - 1 /\ (cur + 1) + 1 = cur + 2
    BY <1>1, <1>8
  <2>2. r = Found(cur + 1)
    BY <1>3, <1>8
  <2> QED
    BY <1>5, <1>8, <2>1, <2>2 DEF r
<1>9. CASE /\ ~ key <= 0 /\ ~ (cur + 1 < n /\ Inside(GapAfter(subs, cur), key))
           /\ ~ (cur + 1 < n /\ Due(subs[cur + 2], key)) /\ Due(subs[at + 1], key)
  <2>1. r = Found(at)
    BY <1>3, <1>9
  <2> QED
    BY <1>2, <1>5, <1>9, <2>1 DEF r
<1>10. CASE /\ ~ key <= 0 /\ ~ (cur + 1 < n /\ Inside(GapAfter(subs, cur), key))
            /\ ~ (cur + 1 < n /\ Due(subs[cur + 2], key)) /\ ~ Due(subs[at + 1], key)
  <2>1. NothingDue(subs, key)
    BY <1>2, <1>10
  <2>2. CASE key < subs[at + 1].start /\ at = 0
    <3> DEFINE gap == <<key - 1, subs[1].start>>
    <3>1. r = NoSub(0, gap)
      BY <1>3, <1>10, <2>2
    <3>2. 1 \in 1..n /\ subs[1].start \in Int
      BY <1>1
    <3>3. gap \in Int \X Int
      BY <3>2
    <3>4. ASSUME NEW k \in Int, Inside(gap, k), NEW j \in 1..n PROVE ~ Due(subs[j], k)
      <4>1. k < subs[1].start
        BY <3>4 DEF Inside
      <4>2. subs[1].start <= subs[j].start
        <5>1. j = 1 \/ 1 < j
          BY <1>1
        <5> QED
          BY <5>1, <3>2, <1>1
      <4> QED
        BY <4>1, <4>2, <3>2, <1>1 DEF Due
    <3>5. GapTrue(gap, subs)
      BY <3>4 DEF GapTrue, NothingDue
    <3> HIDE DEF gap
    <3> QED
      BY <1>4, <2>1, <3>1, <3>3, <3>5 DEF r
  <2>3. CASE key < subs[at + 1].start /\ at # 0
    <3> DEFINE gap == IF Inside(GapAfter(subs, at - 1), key) THEN GapAfter(subs, at - 1) ELSE range
    <3>1. r = NoSub(at - 1, gap)
      BY <1>3, <1>10, <2>3
    <3>2. at - 1 \in 0..n - 1 /\ at - 1 \in Nat
      BY <1>1, <1>2, <2>3
    <3>3. gap \in Int \X Int /\ (sound => GapTrue(gap, subs))
      BY <3>2, GapAfterTrue
    <3> HIDE DEF gap
    <3> QED
      BY <1>4, <2>1, <3>1, <3>2, <3>3 DEF r
  <2>4. CASE ~ key < subs[at + 1].start
    <3> DEFINE gap == IF Inside(GapAfter(subs, at), key) \/ at + 1 >= n THEN GapAfter(subs, at) ELSE range
    <3>1. r = NoSub(at, gap)
      BY <1>3, <1>10, <2>4
    <3>2. at \in Nat
      BY <1>1, <1>2
    <3>3. gap \in Int \X Int /\ (sound => GapTrue(gap, subs))
      BY <1>2, GapAfterTrue
    <3> HIDE DEF gap
    <3> QED
      BY <1>4, <2>1, <3>1, <3>2, <3>3 DEF r
  <2> QED
    BY <2>2, <2>3, <2>4
<1> QED
  BY <1>6, <1>7, <1>8, <1>9, <1>10 DEF r

\* find_sub as a whole: subs is what it is given, range the gap that still counts.
LEMMA FindSubTrue ==
  ASSUME NEW data \in Addresses, NEW key \in Int, NEW shown, heap'[data] \in Contents,
         current_sub \in Nat, KeptRange(data) \in Int \X Int,
         NEW sound \in BOOLEAN, sound => GapTrue(KeptRange(data), heap'[data]),
         shown = None \/ (shown.of = data /\ shown \in [of : Int, n : Int] /\ shown.n \in 1..Len(heap'[data])),
         find_sub(data, key, shown)
  PROVE  /\ last_sub_data' = data /\ current_sub' \in Nat
         /\ nosub_range' \in Int \X Int /\ (sound => GapTrue(nosub_range', heap'[data]))
         /\ vo_sub' \in [of : Int, n : Int]
         /\ sound /\ vo_sub' = None /\ key > 0 => NothingDue(heap'[data], key)
         /\ vo_sub' # None => /\ vo_sub'.of = data /\ vo_sub'.n \in 1..Len(heap'[data])
                              /\ Due(heap'[data][vo_sub'.n], key)
<1> DEFINE subs == heap'[data]
           range == KeptRange(data)
           r == Searched(subs, key, current_sub, range)
           same == IF shown # None THEN Due(heap'[shown.of][shown.n], key) ELSE Inside(range, key)
<1>1. last_sub_data' = data
  BY DEF find_sub
<1>2. CASE same
  <2>1. vo_sub' = shown /\ current_sub' = current_sub /\ nosub_range' = range
    BY <1>2 DEF find_sub
  <2>2. CASE shown = None
    <3>1. sound => NothingDue(subs, key)
      <4> HIDE DEF range, subs
      <4> QED
        BY <1>2, <2>2 DEF GapTrue, subs, range
    <3> QED
      BY <1>1, <2>1, <2>2, <3>1 DEF None
  <2>3. CASE shown # None
    BY <1>1, <1>2, <2>1, <2>3
  <2> QED
    BY <2>2, <2>3
<1>3. CASE ~ same
  <2>1. /\ vo_sub' = IF r.sub THEN [of |-> data, n |-> r.at + 1] ELSE None
        /\ current_sub' = r.at /\ nosub_range' = r.range
    BY <1>3 DEF find_sub
  <2>2. SearchTrue(r, subs, key, sound)
    BY SearchedTrue
  <2> HIDE DEF r, subs
  <2>3. CASE r.sub
    <3>1. vo_sub' = [of |-> data, n |-> r.at + 1]
      BY <2>1, <2>3
    <3>2. r.at + 1 \in 1..Len(subs) /\ Due(subs[r.at + 1], key) /\ r.at \in Nat
      BY <2>2, <2>3 DEF SearchTrue
    <3>3. data \in Int /\ data # 0
      BY DEF Addresses
    <3>4. vo_sub'.of = data /\ vo_sub'.n = r.at + 1 /\ vo_sub' # None
      BY <3>1, <3>3 DEF None
    <3>5. vo_sub' \in [of : Int, n : Int]
      BY <3>1, <3>2, <3>3
    <3> QED
      BY <1>1, <2>1, <2>2, <3>2, <3>4, <3>5 DEF SearchTrue, subs
  <2>4. CASE ~ r.sub
    <3>1. vo_sub' = None /\ None \in [of : Int, n : Int]
      BY <2>1, <2>4 DEF None
    <3> QED
      BY <1>1, <2>1, <2>2, <2>4, <3>1 DEF SearchTrue, subs
  <2> QED
    BY <2>3, <2>4
<1> QED
  BY <1>2, <1>3

-----------------------------------------------------------------------------
(* What holds at all times.                                                *)

SearchTypes ==
  /\ current_sub \in Nat /\ sub_last_pts \in Int /\ looked \in Int
  /\ vo_sub \in [of : Int, n : Int]
  /\ nosub_range \in Int \X Int /\ last_sub_data \in 0..MaxReads

FileTypes ==
  /\ heap \in [Addresses -> Contents \cup {<<>>}]
  /\ set_of_subtitles \in Seq(Addresses)
  /\ counts \in [subs : Nat, demux : Nat] /\ sub_tracks \in Seq(Nat)

SubTypes ==
  /\ playing \in BOOLEAN /\ reads \in Nat /\ now \in Int /\ sub_delay \in Int
  /\ global_sub_pos \in Int /\ set_of_sub_pos \in Int /\ subdata \in 0..MaxReads
  /\ d_sub \in Int /\ sub_id \in Int

\* The files that have a number are in memory, each once.
FilesApart ==
  /\ \A i \in 1..Len(set_of_subtitles) : heap[set_of_subtitles[i]] # <<>>
  /\ \A i, j \in 1..Len(set_of_subtitles) : set_of_subtitles[i] = set_of_subtitles[j] => i = j
  /\ playing => counts.demux = Len(sub_tracks)

Stopped ==
  ~ playing => subdata = 0 /\ vo_sub = None /\ set_of_subtitles = <<>> /\ looked = NOTHING

\* A file that is selected is the one its numbers say.
Selected ==
  subdata # 0 => /\ set_of_sub_pos + 1 \in 1..Len(set_of_subtitles)
                 /\ set_of_subtitles[set_of_sub_pos + 1] = subdata
                 /\ global_sub_pos = set_of_sub_pos /\ d_sub < 0

\* What is shown is of the source selected.
ShownFits ==
  /\ subdata # 0 /\ vo_sub # None => vo_sub.of = subdata /\ vo_sub.n \in 1..Len(heap[subdata])
  /\ vo_sub = Packets => subdata = 0 /\ d_sub >= 0
  /\ looked # NOTHING => subdata # 0

SourceInv ==
  FileTypes /\ SubTypes /\ SearchTypes /\ FilesApart /\ Stopped /\ Selected /\ ShownFits

\* The gap remembered is one of the file it is of, while that is in memory.
Remembered(files) ==
  last_sub_data # 0 => (files[last_sub_data] # <<>> => GapTrue(nosub_range, files[last_sub_data]))

\* No file is read to where the one remembered was.
NotReused == last_sub_data <= reads /\ \A a \in Addresses : heap[a] # <<>> => a <= reads

SearchInv == NotReused /\ Remembered(heap) /\ DueShown

SubtitlesInv == SourceInv /\ (~ Reuse => SearchInv)

LEMMA SubInitInv == SubInit => SubtitlesInv
<1> SUFFICES ASSUME SubInit PROVE SubtitlesInv
  OBVIOUS
<1> USE SubtitlesBounds DEF SubInit, None, NOTHING, Packets
<1>1. set_of_subtitles = <<>> /\ <<>> \in Seq(Addresses) /\ <<>> \in Seq(Nat) /\ Len(<<>>) = 0
  BY EmptySeq
<1>2. \A a \in Addresses : heap[a] = <<>>
  OBVIOUS
<1>3. FileTypes
  BY <1>1 DEF FileTypes
<1>4. SubTypes
  <2>1. playing \in BOOLEAN
    OBVIOUS
  <2>2. sub_id \in Int
    OBVIOUS
  <2> QED
    BY <2>1, <2>2 DEF SubTypes
<1>5. SearchTypes
  BY DEF SearchTypes
<1>6. FilesApart /\ Stopped /\ Selected /\ ShownFits
  BY <1>1 DEF FilesApart, Stopped, Selected, ShownFits
<1>7. SearchInv
  BY <1>2, EmptySeq DEF SearchInv, NotReused, Remembered, DueShown
<1> QED
  BY <1>3, <1>4, <1>5, <1>6, <1>7 DEF SubtitlesInv, SourceInv

LEMMA InvIsTrue ==
  /\ SubtitlesInv => OneSource
  /\ SubtitlesInv /\ ~ Reuse => DueShown
<1>1. ASSUME SourceInv PROVE OneSource
  <2> USE <1>1 DEF SourceInv, FileTypes, SubTypes, SearchTypes, FilesApart, Selected, ShownFits
  <2>1. DOMAIN set_of_subtitles = 1..Len(set_of_subtitles)
    BY LenProperties
  <2> QED
    BY <2>1 DEF OneSource
<1> QED
  BY <1>1 DEF SubtitlesInv, SearchInv

\* What update_subtitles is called with: a file in memory, or none; and the same as before where it
\* does not start anew.
ReadyToShow(reset) ==
  /\ subdata' \in 0..MaxReads /\ d_sub' \in Int
  /\ subdata' # 0 => heap'[subdata'] \in Contents /\ d_sub' < 0
  /\ ~ reset => heap' = heap /\ subdata' = subdata /\ d_sub' = d_sub

LEMMA UpdateKeeps ==
  ASSUME SearchTypes, ShownFits, sub_delay \in Int, NEW pts \in Int, NEW reset \in BOOLEAN,
         NEW sound \in BOOLEAN, sound => Remembered(heap') /\ DueShown,
         ReadyToShow(reset), update_subtitles(pts, reset)
  PROVE  /\ SearchTypes' /\ ShownFits' /\ last_sub_data' \in {last_sub_data, subdata'}
         /\ sound => Remembered(heap)' /\ DueShown'
<1> DEFINE shown == Shown(reset)
<1> USE SubtitlesBounds
<1>1. shown = IF reset THEN None ELSE vo_sub
  BY DEF Shown
<1>2. None \in [of : Int, n : Int] /\ Packets \in [of : Int, n : Int] /\ None # Packets
      /\ Packets.of = 0 /\ NOTHING \in Int
  BY DEF None, Packets, NOTHING
<1> HIDE DEF shown
<1>3. CASE subdata' # 0 /\ (pts > sub_last_pts \/ pts < sub_last_pts - SECOND)
  <2> DEFINE data == subdata'
             key == pts - sub_delay
  <2>1. /\ find_sub(data, key, shown) /\ sub_last_pts' = pts /\ looked' = key
    BY <1>3 DEF update_subtitles, shown
  <2>2. data \in Addresses /\ heap'[data] \in Contents /\ key \in Int /\ data # 0 /\ d_sub' < 0
    BY <1>3 DEF ReadyToShow, Addresses
  <2>3. shown = None \/ (shown.of = data /\ shown \in [of : Int, n : Int] /\ shown.n \in 1..Len(heap'[data]))
    BY <1>1, <1>2, <1>3 DEF ReadyToShow, ShownFits, SearchTypes
  <2>4. KeptRange(data) \in Int \X Int
    BY DEF KeptRange, SearchTypes
  <2>5. heap'[data] # <<>>
    BY <2>2, ContentShape
  <2>6. sound => GapTrue(KeptRange(data), heap'[data])
    <3>1. CASE last_sub_data = data
      BY <2>2, <2>5, <3>1 DEF KeptRange, Remembered
    <3>2. CASE last_sub_data # data
      <4>1. KeptRange(data) = <<-1, -1>>
        BY <3>2 DEF KeptRange
      <4>2. \A k \in Int : ~ Inside(<<-1, -1>>, k)
        BY DEF Inside
      <4> QED
        BY <4>1, <4>2 DEF GapTrue
    <3> QED
      BY <3>1, <3>2
  <2>7. current_sub \in Nat
    BY DEF SearchTypes
  <2> HIDE DEF data, key
  <2>8. /\ last_sub_data' = data /\ current_sub' \in Nat
        /\ nosub_range' \in Int \X Int /\ (sound => GapTrue(nosub_range', heap'[data]))
        /\ vo_sub' \in [of : Int, n : Int]
        /\ sound /\ vo_sub' = None /\ key > 0 => NothingDue(heap'[data], key)
        /\ vo_sub' # None => /\ vo_sub'.of = data /\ vo_sub'.n \in 1..Len(heap'[data])
                             /\ Due(heap'[data][vo_sub'.n], key)
    BY <2>1, <2>2, <2>3, <2>4, <2>6, <2>7, FindSubTrue
  <2>9. SearchTypes'
    BY <2>1, <2>2, <2>8 DEF SearchTypes, Addresses
  <2>10. ShownFits'
    BY <1>2, <2>2, <2>8 DEF ShownFits, data
  <2>11. sound => Remembered(heap)'
    BY <2>8 DEF Remembered
  <2>12. sound => DueShown'
    <3> SUFFICES ASSUME sound PROVE DueShown'
      OBVIOUS
    <3>1. DOMAIN heap'[data] = 1..Len(heap'[data])
      BY <2>2, ContentShape
    <3> QED
      BY <2>1, <2>8, <3>1 DEF DueShown, NothingDue, data
  <2> QED
    BY <2>8, <2>9, <2>10, <2>11, <2>12 DEF data
<1>4. CASE ~ (subdata' # 0 /\ (pts > sub_last_pts \/ pts < sub_last_pts - SECOND))
  <2>1. /\ vo_sub' \in {shown} \cup (IF d_sub' >= 0 THEN {Packets} ELSE {})
        /\ looked' = IF vo_sub' = vo_sub /\ ~ reset THEN looked ELSE NOTHING
        /\ UNCHANGED <<current_sub, nosub_range, last_sub_data, sub_last_pts>>
    BY <1>4 DEF update_subtitles, shown
  <2>2. vo_sub' \in [of : Int, n : Int] /\ looked' \in Int
    BY <1>1, <1>2, <2>1 DEF SearchTypes
  <2>3. SearchTypes'
    BY <2>1, <2>2 DEF SearchTypes
  <2>4. vo_sub' = Packets => subdata' = 0 /\ d_sub' >= 0
    BY <1>1, <1>2, <2>1 DEF ReadyToShow, ShownFits
  <2>5. vo_sub' # None /\ vo_sub' # Packets => ~ reset /\ vo_sub' = vo_sub
    BY <1>1, <2>1
  <2>6. looked' # NOTHING => ~ reset /\ vo_sub' = vo_sub /\ looked' = looked
    BY <2>1
  <2>7. ShownFits'
    <3>1. ASSUME subdata' # 0, vo_sub' # None
          PROVE  vo_sub'.of = subdata' /\ vo_sub'.n \in 1..Len(heap'[subdata'])
      BY <2>4, <2>5, <3>1 DEF ReadyToShow, ShownFits
    <3>2. looked' # NOTHING => subdata' # 0
      BY <2>6 DEF ReadyToShow, ShownFits
    <3> QED
      BY <2>4, <3>1, <3>2 DEF ShownFits
  <2>8. sound => Remembered(heap)'
    BY <2>1 DEF Remembered
  <2>9. sound => DueShown'
    BY <2>6 DEF ReadyToShow, DueShown
  <2> QED
    BY <2>1, <2>3, <2>7, <2>8, <2>9
<1> QED
  BY <1>3, <1>4

-----------------------------------------------------------------------------
(* Selecting.                                                              *)

\* What is selected once the number is known: the files and tracks are those of the film.
LEMMA SelectKeeps ==
  ASSUME NEW pos \in Int, SearchTypes, ShownFits, sub_delay \in Int, now' \in Int,
         FileTypes', counts'.demux = Len(sub_tracks'),
         \A i \in 1..Len(set_of_subtitles') : heap'[set_of_subtitles'[i]] # <<>>,
         ~ Reuse => Remembered(heap') /\ DueShown,
         Select(pos)
  PROVE  /\ SearchTypes' /\ ShownFits' /\ Selected' /\ last_sub_data' \in {last_sub_data, subdata'}
         /\ global_sub_pos' \in Int /\ set_of_sub_pos' \in Int /\ subdata' \in 0..MaxReads
         /\ d_sub' \in Int /\ sub_id' \in Int
         /\ subdata' # 0 => \E i \in 1..Len(set_of_subtitles') : subdata' = set_of_subtitles'[i]
         /\ ~ Reuse => Remembered(heap)' /\ DueShown'
<1> DEFINE source == Source(pos, counts')
<1> USE SubtitlesBounds
<1>1. /\ counts'.subs \in Nat /\ counts'.demux \in Nat /\ Len(set_of_subtitles') \in Nat
      /\ \A i \in 1..Len(set_of_subtitles') : set_of_subtitles'[i] \in Addresses
      /\ \A i \in 1..Len(sub_tracks') : sub_tracks'[i] \in Nat
  BY LenProperties, ElementOfSeq DEF FileTypes
<1>2. /\ global_sub_pos' = pos
      /\ set_of_sub_pos' = IF source = "subs" THEN pos ELSE -1
      /\ subdata' = IF source = "subs" /\ pos < Len(set_of_subtitles') THEN set_of_subtitles'[pos + 1] ELSE 0
      /\ sub_id' = IF source = "demux" THEN pos - counts'.subs ELSE -1
      /\ d_sub' = IF source = "demux" THEN sub_tracks'[pos - counts'.subs + 1] ELSE -2
      /\ update_subtitles(now', TRUE)
  BY DEF Select
<1>3. source = "subs" => pos >= 0
  BY <1>1 DEF Source
<1>4. source = "demux" => pos - counts'.subs + 1 \in 1..Len(sub_tracks')
  BY <1>1 DEF Source
<1> HIDE DEF source
<1>5. global_sub_pos' \in Int /\ set_of_sub_pos' \in Int /\ sub_id' \in Int
  BY <1>1, <1>2
<1>6. d_sub' \in Int /\ (source # "demux" => d_sub' < 0)
  <2>1. CASE source = "demux"
    <3>1. d_sub' = sub_tracks'[pos - counts'.subs + 1]
      BY <1>2, <2>1
    <3>2. d_sub' \in Nat
      <4> DEFINE k == pos - counts'.subs + 1
      <4>1. k \in 1..Len(sub_tracks')
        BY <1>4, <2>1
      <4>2. d_sub' = sub_tracks'[k]
        BY <3>1
      <4> HIDE DEF k
      <4>3. \A i \in 1..Len(sub_tracks') : sub_tracks'[i] \in Nat
        BY <1>1
      <4> QED
        BY <4>1, <4>2, <4>3
    <3> QED
      BY <2>1, <3>2
  <2>2. CASE source # "demux"
    <3>1. d_sub' = -2
      BY <1>2, <2>2
    <3> QED
      BY <3>1
  <2> QED
    BY <2>1, <2>2
<1>7. subdata' # 0 => /\ source = "subs" /\ pos + 1 \in 1..Len(set_of_subtitles')
                      /\ subdata' = set_of_subtitles'[pos + 1]
  BY <1>1, <1>2, <1>3
<1>8. subdata' \in 0..MaxReads /\ (subdata' # 0 => heap'[subdata'] \in Contents)
  <2>1. CASE subdata' = 0
    BY <2>1
  <2>2. CASE subdata' # 0
    <3>1. subdata' \in Addresses /\ heap'[subdata'] # <<>>
      BY <1>1, <1>7, <2>2
    <3> QED
      BY <3>1 DEF FileTypes, Addresses
  <2> QED
    BY <2>1, <2>2
<1>9. ReadyToShow(TRUE)
  BY <1>6, <1>7, <1>8 DEF ReadyToShow
<1>10. Selected'
  BY <1>2, <1>6, <1>7 DEF Selected
<1>11. (~ Reuse) \in BOOLEAN
  OBVIOUS
<1>12. /\ SearchTypes' /\ ShownFits' /\ last_sub_data' \in {last_sub_data, subdata'}
       /\ ~ Reuse => Remembered(heap)' /\ DueShown'
  BY <1>2, <1>9, <1>11, UpdateKeeps
<1> QED
  BY <1>5, <1>6, <1>7, <1>8, <1>10, <1>12

\* While a film plays: files, tracks and time stay.
LEMMA SelectInFilm ==
  ASSUME SubtitlesInv, playing, FilmKept, NEW pos \in Int, Select(pos)
  PROVE  SubtitlesInv'
<1> USE DEF SubtitlesInv, SourceInv, SearchInv
<1>1. /\ playing' = playing /\ reads' = reads /\ heap' = heap /\ counts' = counts
      /\ set_of_subtitles' = set_of_subtitles /\ sub_tracks' = sub_tracks
      /\ sub_delay' = sub_delay /\ now' = now
  BY DEF FilmKept, subFiles
<1>2. FileTypes' /\ FilesApart' /\ now' \in Int /\ sub_delay \in Int /\ counts'.demux = Len(sub_tracks')
  BY <1>1 DEF FileTypes, FilesApart, SubTypes
<1>3. \A i \in 1..Len(set_of_subtitles') : heap'[set_of_subtitles'[i]] # <<>>
  BY <1>2 DEF FilesApart
<1>4. ~ Reuse => Remembered(heap') /\ DueShown
  BY <1>1 DEF Remembered
<1>5. /\ SearchTypes' /\ ShownFits' /\ Selected' /\ last_sub_data' \in {last_sub_data, subdata'}
      /\ global_sub_pos' \in Int /\ set_of_sub_pos' \in Int /\ subdata' \in 0..MaxReads
      /\ d_sub' \in Int /\ sub_id' \in Int
      /\ subdata' # 0 => \E i \in 1..Len(set_of_subtitles') : subdata' = set_of_subtitles'[i]
      /\ ~ Reuse => Remembered(heap)' /\ DueShown'
  BY <1>2, <1>3, <1>4, SelectKeeps
<1>6. SubTypes' /\ Stopped'
  BY <1>1, <1>5 DEF SubTypes, Stopped
<1>7. ~ Reuse => NotReused'
  <2> SUFFICES ASSUME ~ Reuse PROVE NotReused'
    OBVIOUS
  <2>1. last_sub_data \in Int /\ last_sub_data <= reads /\ reads \in Nat
    BY DEF SearchTypes, NotReused, SubTypes
  <2>2. subdata' = 0 \/ subdata' <= reads
    <3>1. ASSUME subdata' # 0 PROVE subdata' <= reads
      <4>1. subdata' \in Addresses /\ heap[subdata'] # <<>>
        BY <1>1, <1>3, <1>5, <3>1, ElementOfSeq DEF FileTypes
      <4> QED
        BY <4>1 DEF NotReused
    <3> QED
      BY <3>1
  <2>3. last_sub_data' <= reads
    BY <1>5, <2>1, <2>2
  <2> QED
    BY <1>1, <2>3 DEF NotReused
<1> QED
  BY <1>2, <1>5, <1>6, <1>7

LEMMA NumbersAreWhole ==
  ASSUME SubtitlesInv
  PROVE  /\ global_sub_pos \in Int /\ Size \in Nat /\ counts.subs \in Nat /\ counts.demux \in Nat
         /\ \A pos \in Int : Detected(pos) \in Int
<1> USE DEF SubtitlesInv, SourceInv, FileTypes, SubTypes
<1>1. global_sub_pos \in Int /\ counts.subs \in Nat /\ counts.demux \in Nat /\ d_sub \in Int
  OBVIOUS
<1> QED
  BY <1>1 DEF Size, Detected

LEMMA SelectSetKeeps ==
  ASSUME SubtitlesInv, playing, FilmKept, NEW pos \in Int, SelectSet(pos)
  PROVE  SubtitlesInv'
<1> DEFINE to == IF pos < -1 THEN -1 ELSE IF pos >= Size THEN Size - 1 ELSE pos
<1>1. to \in Int
  BY NumbersAreWhole
<1>2. Select(to)
  BY DEF SelectSet
<1> HIDE DEF to
<1> QED
  BY <1>1, <1>2, SelectInFilm

LEMMA SelectUpKeeps ==
  ASSUME SubtitlesInv, playing, FilmKept, NEW pos \in Int, SelectUp(pos)
  PROVE  SubtitlesInv'
<1> DEFINE to == ((Detected(pos) + 2) % (Size + 1)) - 1
<1>1. to \in Int
  <2>1. Detected(pos) \in Int /\ Size \in Nat
    BY NumbersAreWhole
  <2> QED
    BY <2>1
<1>2. Select(to)
  BY DEF SelectUp
<1> HIDE DEF to
<1> QED
  BY <1>1, <1>2, SelectInFilm

LEMMA SelectDownKeeps ==
  ASSUME SubtitlesInv, playing, FilmKept, NEW pos \in Int, SelectDown(pos)
  PROVE  SubtitlesInv'
<1> DEFINE to == ((Detected(pos) + Size + 1) % (Size + 1)) - 1
<1>1. to \in Int
  <2>1. Detected(pos) \in Int /\ Size \in Nat
    BY NumbersAreWhole
  <2> QED
    BY <2>1
<1>2. Select(to)
  BY DEF SelectDown
<1> HIDE DEF to
<1> QED
  BY <1>1, <1>2, SelectInFilm

\* Nothing changes but what is counted and queued.
LEMMA NothingSelected ==
  ASSUME SubtitlesInv, UNCHANGED <<playing, reads, subFiles, sub_tracks, sub_delay, now, selection, search>>
  PROVE  SubtitlesInv'
BY DEF SubtitlesInv, SourceInv, SearchInv, FileTypes, SubTypes, SearchTypes, FilesApart, Stopped,
       Selected, ShownFits, NotReused, Remembered, DueShown, subFiles, selection, search

LEMMA SubSelectKeeps == SubtitlesInv /\ SubSelect => SubtitlesInv'
<1> SUFFICES ASSUME SubtitlesInv, SubSelect PROVE SubtitlesInv'
  OBVIOUS
<1>1. playing /\ FilmKept
  BY DEF SubSelect, SubCommand
<1>2. global_sub_pos \in Int /\ Size \in Nat
  BY NumbersAreWhole
<1>3. CASE Size = 0
  <2>1. UNCHANGED <<selection, search>>
    BY <1>3 DEF SubSelect
  <2> QED
    BY <1>1, <2>1, NothingSelected DEF FilmKept
<1>4. CASE Size # 0
  <2>1. \/ SelectUp(global_sub_pos) \/ SelectDown(global_sub_pos)
        \/ \E n \in -1..Size : SelectSet(n)
    BY <1>4 DEF SubSelect
  <2> QED
    BY <1>1, <1>2, <2>1, SelectUpKeeps, SelectDownKeeps, SelectSetKeeps
<1> QED
  BY <1>3, <1>4

LEMMA SubSourceKeeps == SubtitlesInv /\ SubSource => SubtitlesInv'
<1> SUFFICES ASSUME SubtitlesInv, SubSource PROVE SubtitlesInv'
  OBVIOUS
<1>1. playing /\ FilmKept
  BY DEF SubSource, SubCommand
<1> DEFINE pos == Detected(global_sub_pos)
           source == Source(pos, counts)
           from(to) == (IF to = "none" THEN -1 ELSE IF to = source THEN pos ELSE FirstOf(to, counts)) - 1
<1>2. PICK to \in {"none", "subs", "demux"} : SelectUp(from(to))
  BY DEF SubSource
<1>3. pos \in Int /\ FirstOf(to, counts) \in Int
  BY NumbersAreWhole DEF FirstOf
<1> HIDE DEF pos, source
<1>4. from(to) \in Int
  BY <1>3
<1> HIDE DEF from
<1> QED
  BY <1>1, <1>2, <1>4, SelectUpKeeps

LEMMA SubByTypeKeeps == SubtitlesInv /\ SubByType => SubtitlesInv'
<1> SUFFICES ASSUME SubtitlesInv, SubByType PROVE SubtitlesInv'
  OBVIOUS
<1>1. playing /\ FilmKept
  BY DEF SubByType, SubCommand
<1> DEFINE pos == Detected(global_sub_pos)
           from(s) == FirstOf(s, counts)
           current(s) == Source(pos, counts) = s
<1>2. PICK s \in {"subs", "demux"} :
        \/ \E n \in -1..counts[s] : SelectSet(IF n < 0 THEN -1 ELSE from(s) + n)
        \/ SelectSet(IF ~ current(s) THEN from(s) ELSE IF pos + 1 >= Size THEN -1 ELSE pos + 1)
        \/ SelectSet(IF ~ current(s) \/ pos - 1 < from(s) THEN -1 ELSE pos - 1)
  BY DEF SubByType
<1>3. pos \in Int /\ from(s) \in Int
  BY NumbersAreWhole DEF FirstOf
<1> HIDE DEF pos, from, current
<1>4. CASE \E n \in -1..counts[s] : SelectSet(IF n < 0 THEN -1 ELSE from(s) + n)
  <2>1. PICK n \in -1..counts[s] : SelectSet(IF n < 0 THEN -1 ELSE from(s) + n)
    BY <1>4
  <2>2. (IF n < 0 THEN -1 ELSE from(s) + n) \in Int
    BY <1>3
  <2> QED
    BY <1>1, <2>1, <2>2, SelectSetKeeps
<1>5. CASE SelectSet(IF ~ current(s) THEN from(s) ELSE IF pos + 1 >= Size THEN -1 ELSE pos + 1)
  <2>1. (IF ~ current(s) THEN from(s) ELSE IF pos + 1 >= Size THEN -1 ELSE pos + 1) \in Int
    BY <1>3
  <2> QED
    BY <1>1, <1>5, <2>1, SelectSetKeeps
<1>6. CASE SelectSet(IF ~ current(s) \/ pos - 1 < from(s) THEN -1 ELSE pos - 1)
  <2>1. (IF ~ current(s) \/ pos - 1 < from(s) THEN -1 ELSE pos - 1) \in Int
    BY <1>3
  <2> QED
    BY <1>1, <1>6, <2>1, SelectSetKeeps
<1> QED
  BY <1>2, <1>4, <1>5, <1>6

-----------------------------------------------------------------------------
(* Films, files and time.                                                  *)

\* Where files are read to: places not in use, each another one, and after all that were read.
LEMMA PlacesAreNew ==
  ASSUME reads \in Nat, NEW n \in Nat, NEW at \in Places(n)
  PROVE  /\ at \in Seq(Addresses) /\ Len(at) = n
         /\ \A i \in 1..n : at[i] \in Addresses /\ heap[at[i]] = <<>> /\ (~ Reuse => at[i] > reads)
         /\ \A i, j \in 1..n : at[i] = at[j] => i = j
         /\ ~ Reuse /\ NotReused => \A i \in 1..n : at[i] = reads + i
<1>1. /\ at \in [1..n -> FreePlaces]
      /\ \A i \in 1..n : Cardinality({a \in FreePlaces : a < at[i]}) = i - 1
  BY DEF Places
<1>2. FreePlaces \subseteq Addresses
  BY DEF FreePlaces
<1>3. at \in Seq(Addresses) /\ Len(at) = n
  <2>1. at \in [1..n -> Addresses]
    BY <1>1, <1>2
  <2> QED
    BY <2>1, SeqDef, LenProperties
<1>4. \A i \in 1..n : at[i] \in Addresses /\ heap[at[i]] = <<>> /\ (~ Reuse => at[i] > reads)
  BY <1>1 DEF FreePlaces
<1>5. ASSUME NEW i \in 1..n, NEW j \in 1..n, at[i] = at[j] PROVE i = j
  <2>1. i - 1 = j - 1
    BY <1>1, <1>5
  <2> QED
    BY <2>1
<1>6. ASSUME ~ Reuse, NotReused, NEW i \in 1..n PROVE at[i] = reads + i
  <2>1. at[i] \in 1..MaxReads /\ at[i] > reads
    BY <1>4, <1>6 DEF Addresses
  <2>2. {a \in FreePlaces : a < at[i]} = reads + 1..at[i] - 1
    <3>1. ASSUME NEW a \in reads + 1..at[i] - 1 PROVE a \in FreePlaces /\ a < at[i]
      <4>1. a \in Addresses /\ a > reads /\ ~ a <= reads
        BY <2>1, SubtitlesBounds DEF Addresses
      <4>2. heap[a] = <<>>
        BY <4>1, <1>6 DEF NotReused
      <4> QED
        BY <2>1, <4>1, <4>2 DEF FreePlaces
    <3>2. ASSUME NEW a \in FreePlaces, a < at[i] PROVE a \in reads + 1..at[i] - 1
      <4>1. a \in 1..MaxReads /\ a > reads
        BY <1>6 DEF FreePlaces, Addresses
      <4> QED
        BY <2>1, <3>2, <4>1
    <3> QED
      BY <3>1, <3>2
  <2>3. Cardinality(reads + 1..at[i] - 1) = IF reads + 1 > at[i] - 1 THEN 0 ELSE at[i] - 1 - (reads + 1) + 1
    <3> DEFINE first == reads + 1
               last == at[i] - 1
    <3>1. first \in Int /\ last \in Int
      BY <2>1, SubtitlesBounds
    <3> HIDE DEF first, last
    <3>2. Cardinality(first..last) = IF first > last THEN 0 ELSE last - first + 1
      BY <3>1, FS_Interval
    <3> QED
      BY <3>2 DEF first, last
  <2>4. Cardinality(reads + 1..at[i] - 1) = i - 1
    BY <1>1, <2>2
  <2> QED
    BY <2>1, <2>3, <2>4
<1> QED
  BY <1>3, <1>4, <1>5, <1>6

LEMMA OpenFilmKeeps == SubtitlesInv /\ OpenFilm => SubtitlesInv'
<1> SUFFICES ASSUME SubtitlesInv, OpenFilm PROVE SubtitlesInv'
  OBVIOUS
<1> USE DEF SubtitlesInv, SourceInv, SearchInv
<1>1. PICK n \in 0..2 : \E at \in Places(n), content \in [1..n -> Contents] :
        /\ reads' = reads + n /\ set_of_subtitles' = at /\ heap' = ReadTo(at, content, n)
        /\ counts' = [subs |-> n, demux |-> Len(sub_tracks')]
        /\ \/ /\ sub_id >= 0 /\ sub_tracks' # <<>>
              /\ Select(IF sub_id > Len(sub_tracks') THEN -1
                        ELSE IF sub_id = Len(sub_tracks') THEN n + sub_id - 1 ELSE n + sub_id)
           \/ /\ sub_id < 0 \/ sub_tracks' = <<>>
              /\ n > 0 /\ Select(0)
           \/ /\ sub_id < 0 /\ n = 0
              /\ \E default \in 0..Len(sub_tracks') - 1 : Select(default)
           \/ /\ sub_id < 0 \/ sub_tracks' = <<>>
              /\ n = 0 /\ global_sub_pos' = -1 /\ d_sub' = sub_id
              /\ UNCHANGED <<set_of_sub_pos, subdata, sub_id, search>>
  BY DEF OpenFilm
<1>held. PICK at \in Places(n), content \in [1..n -> Contents] :
        /\ reads' = reads + n /\ set_of_subtitles' = at /\ heap' = ReadTo(at, content, n)
        /\ counts' = [subs |-> n, demux |-> Len(sub_tracks')]
        /\ \/ \E pos \in Int : Select(pos)
           \/ global_sub_pos' = -1 /\ d_sub' = sub_id /\ UNCHANGED <<set_of_sub_pos, subdata, sub_id, search>>
  <2>1. (IF sub_id > Len(sub_tracks') THEN -1
         ELSE IF sub_id = Len(sub_tracks') THEN n + sub_id - 1 ELSE n + sub_id) \in Int
    BY DEF SubTypes
  <2>2. \A default \in 0..Len(sub_tracks') - 1 : default \in Int
    OBVIOUS
  <2> QED
    BY <1>1, <2>1, <2>2
<1>2. ~ playing /\ playing' = TRUE /\ now' = 0 /\ sub_tracks' \in Seq(Nat) /\ sub_delay' = sub_delay
  BY TracksAssumption DEF OpenFilm
<1>3. /\ at \in Seq(Addresses) /\ Len(at) = n
      /\ \A i \in 1..n : at[i] \in Addresses /\ heap[at[i]] = <<>> /\ (~ Reuse => at[i] > reads)
      /\ \A i, j \in 1..n : at[i] = at[j] => i = j
      /\ ~ Reuse => \A i \in 1..n : at[i] = reads + i
  BY PlacesAreNew DEF SubTypes
<1>4. /\ \A i \in 1..n : heap'[at[i]] \in Contents
      /\ \A a \in Addresses : (\A i \in 1..n : at[i] # a) => heap'[a] = heap[a]
      /\ heap' \in [Addresses -> Contents \cup {<<>>}]
  <2>1. ASSUME NEW a \in Addresses, NEW i \in 1..n, at[i] = a PROVE ReadTo(at, content, n)[a] \in Contents
    BY <2>1 DEF ReadTo
  <2>2. \A a \in Addresses : (\A i \in 1..n : at[i] # a) => ReadTo(at, content, n)[a] = heap[a]
    BY DEF ReadTo
  <2>3. ReadTo(at, content, n) = [a \in Addresses |-> ReadTo(at, content, n)[a]]
    BY DEF ReadTo
  <2>4. \A a \in Addresses : ReadTo(at, content, n)[a] \in Contents \cup {<<>>}
    BY <2>1, <2>2 DEF FileTypes
  <2> QED
    BY <1>held, <1>3, <2>1, <2>2, <2>3, <2>4
<1>5. counts'.subs = n /\ counts'.demux = Len(sub_tracks') /\ counts' \in [subs : Nat, demux : Nat]
  BY <1>held, <1>2, LenProperties
<1>6. FileTypes'
  BY <1>held, <1>2, <1>3, <1>4, <1>5 DEF FileTypes
<1>7. \A i \in 1..Len(set_of_subtitles') : heap'[set_of_subtitles'[i]] # <<>>
  BY <1>held, <1>3, <1>4, ContentShape
<1>8. FilesApart'
  BY <1>held, <1>3, <1>5, <1>7 DEF FilesApart
<1>9. ~ Reuse => \A a \in Addresses : a <= reads => heap'[a] = heap[a]
  <2> SUFFICES ASSUME ~ Reuse, NEW a \in Addresses, a <= reads PROVE heap'[a] = heap[a]
    OBVIOUS
  <2>1. \A i \in 1..n : at[i] # a
    <3> TAKE i \in 1..n
    <3>1. at[i] > reads /\ at[i] \in Int /\ reads \in Nat /\ a \in Int
      BY <1>3 DEF SubTypes, Addresses
    <3> QED
      BY <3>1
  <2> QED
    BY <1>4, <2>1
<1>10. ~ Reuse => Remembered(heap') /\ DueShown
  <2>1. last_sub_data # 0 => last_sub_data \in Addresses
    BY DEF SearchTypes, Addresses
  <2> QED
    BY <1>9, <2>1 DEF Remembered, NotReused
<1>11. /\ SearchTypes' /\ ShownFits' /\ Selected' /\ last_sub_data' \in {last_sub_data, subdata'}
       /\ global_sub_pos' \in Int /\ set_of_sub_pos' \in Int /\ subdata' \in 0..MaxReads
       /\ d_sub' \in Int /\ sub_id' \in Int
       /\ subdata' # 0 => \E i \in 1..Len(set_of_subtitles') : subdata' = set_of_subtitles'[i]
       /\ ~ Reuse => Remembered(heap)' /\ DueShown'
  <2>1. CASE \E pos \in Int : Select(pos)
    <3>1. sub_delay \in Int /\ now' \in Int
      BY <1>2 DEF SubTypes
    <3> QED
      BY <1>5, <1>6, <1>7, <1>10, <2>1, <3>1, SelectKeeps
  <2>2. CASE /\ global_sub_pos' = -1 /\ d_sub' = sub_id
             /\ UNCHANGED <<set_of_sub_pos, subdata, sub_id, search>>
    <3>1. /\ subdata' = 0 /\ vo_sub' = None /\ looked' = NOTHING /\ set_of_sub_pos' = set_of_sub_pos
          /\ UNCHANGED <<sub_id, current_sub, nosub_range, last_sub_data, sub_last_pts>>
      BY <1>2, <2>2 DEF Stopped, search
    <3>2. SearchTypes' /\ Selected'
      BY <3>1 DEF SearchTypes, Selected, None, NOTHING
    <3>3. ShownFits' /\ DueShown'
      BY <3>1 DEF ShownFits, DueShown, None, Packets
    <3>4. ~ Reuse => Remembered(heap)'
      BY <1>10, <3>1 DEF Remembered
    <3>5. /\ global_sub_pos' \in Int /\ set_of_sub_pos' \in Int /\ subdata' \in 0..MaxReads
          /\ d_sub' \in Int /\ sub_id' \in Int
      BY <2>2, <3>1, SubtitlesBounds DEF SubTypes
    <3> QED
      BY <3>1, <3>2, <3>3, <3>4, <3>5
  <2> QED
    BY <1>held, <2>1, <2>2
<1>12. SubTypes' /\ Stopped'
  <2>1. reads' \in Nat /\ now' \in Int /\ sub_delay' \in Int /\ playing' = TRUE
    BY <1>held, <1>2 DEF SubTypes
  <2> QED
    BY <1>11, <2>1 DEF SubTypes, Stopped
<1>13. ~ Reuse => NotReused'
  <2> SUFFICES ASSUME ~ Reuse PROVE NotReused'
    OBVIOUS
  <2>1. reads \in Nat /\ reads' = reads + n /\ last_sub_data \in Int /\ last_sub_data <= reads
    BY <1>held DEF SubTypes, SearchTypes, NotReused
  <2>2. \A i \in 1..n : at[i] <= reads'
    BY <1>3, <2>1
  <2>3. last_sub_data' <= reads'
    <3>1. subdata' = 0 \/ \E i \in 1..n : subdata' = at[i]
      BY <1>held, <1>3, <1>11
    <3> QED
      BY <1>11, <2>1, <2>2, <3>1
  <2>4. ASSUME NEW a \in Addresses, heap'[a] # <<>> PROVE a <= reads'
    <3>1. CASE \E i \in 1..n : at[i] = a
      BY <2>2, <3>1
    <3>2. CASE \A i \in 1..n : at[i] # a
      <4>1. a <= reads /\ a \in Int
        BY <1>4, <2>4, <3>2 DEF NotReused, Addresses
      <4> QED
        BY <2>1, <4>1
    <3> QED
      BY <3>1, <3>2
  <2> QED
    BY <2>3, <2>4 DEF NotReused
<1> QED
  BY <1>6, <1>8, <1>11, <1>12, <1>13

LEMMA CloseFilmKeeps == SubtitlesInv /\ CloseFilm => SubtitlesInv'
<1> SUFFICES ASSUME SubtitlesInv, CloseFilm PROVE SubtitlesInv'
  OBVIOUS
<1> USE DEF SubtitlesInv, SourceInv, SearchInv
<1>1. /\ playing' = FALSE /\ set_of_subtitles' = <<>> /\ subdata' = 0 /\ vo_sub' = None
      /\ looked' = NOTHING /\ d_sub' = -2 /\ sub_tracks' = <<>>
      /\ heap' = [a \in Addresses |-> IF \E i \in DOMAIN set_of_subtitles : set_of_subtitles[i] = a
                                      THEN <<>> ELSE heap[a]]
      /\ UNCHANGED <<reads, counts, global_sub_pos, set_of_sub_pos, sub_id, current_sub, nosub_range,
                     last_sub_data, sub_last_pts, sub_delay, now>>
  BY DEF CloseFilm, subBounds
<1>2. \A a \in Addresses : heap'[a] = <<>> \/ heap'[a] = heap[a]
  BY <1>1
<1>3. FileTypes'
  <2>1. heap' \in [Addresses -> Contents \cup {<<>>}]
    BY <1>1 DEF FileTypes
  <2>2. <<>> \in Seq(Addresses) /\ <<>> \in Seq(Nat)
    BY EmptySeq
  <2> QED
    BY <1>1, <2>1, <2>2 DEF FileTypes
<1>4. SubTypes' /\ SearchTypes'
  <2>1. 0 \in 0..MaxReads /\ -2 \in Int
    BY SubtitlesBounds
  <2>2. None \in [of : Int, n : Int] /\ NOTHING \in Int
    BY DEF None, NOTHING
  <2> QED
    BY <1>1, <2>1, <2>2 DEF SubTypes, SearchTypes
<1>5. FilesApart'
  <2>1. Len(set_of_subtitles') = 0
    BY <1>1, EmptySeq
  <2> QED
    BY <1>1, <2>1 DEF FilesApart
<1>6. Stopped' /\ Selected' /\ ShownFits' /\ DueShown'
  BY <1>1 DEF Stopped, Selected, ShownFits, DueShown, None, Packets
<1>7. ~ Reuse => NotReused' /\ Remembered(heap)'
  <2>1. last_sub_data # 0 => last_sub_data \in Addresses
    BY DEF SearchTypes, Addresses
  <2> QED
    BY <1>1, <1>2, <2>1 DEF NotReused, Remembered
<1> QED
  BY <1>3, <1>4, <1>5, <1>6, <1>7

\* Time goes on, or starts anew elsewhere: the selection stays.
LEMMA TimeKeeps ==
  ASSUME SubtitlesInv, playing, now' \in Int, NEW reset \in BOOLEAN, update_subtitles(now', reset),
         UNCHANGED <<playing, reads, subFiles, selection, sub_tracks, sub_delay>>
  PROVE  SubtitlesInv'
<1> USE DEF SubtitlesInv, SourceInv, SearchInv
<1>1. /\ UNCHANGED <<playing, reads, heap, set_of_subtitles, counts, global_sub_pos, set_of_sub_pos,
                     subdata, d_sub, sub_id, sub_tracks, sub_delay>>
  BY DEF subFiles, selection
<1>2. subdata # 0 => subdata \in Addresses /\ heap[subdata] # <<>> /\ d_sub < 0
  BY DEF Selected, FilesApart, SubTypes, Addresses
<1>3. ReadyToShow(reset)
  BY <1>1, <1>2 DEF ReadyToShow, FileTypes, SubTypes
<1>4. ~ Reuse => Remembered(heap') /\ DueShown
  BY <1>1 DEF Remembered
<1>5. sub_delay \in Int /\ (~ Reuse) \in BOOLEAN
  BY DEF SubTypes
<1>6. /\ SearchTypes' /\ ShownFits' /\ last_sub_data' \in {last_sub_data, subdata'}
      /\ ~ Reuse => Remembered(heap)' /\ DueShown'
  BY <1>3, <1>4, <1>5, UpdateKeeps
<1>7. FileTypes' /\ SubTypes' /\ FilesApart' /\ Stopped' /\ Selected'
  BY <1>1 DEF FileTypes, SubTypes, FilesApart, Stopped, Selected
<1>8. ~ Reuse => NotReused'
  <2> SUFFICES ASSUME ~ Reuse PROVE NotReused'
    OBVIOUS
  <2>1. subdata # 0 => subdata <= reads
    BY <1>2 DEF NotReused
  <2>2. last_sub_data <= reads /\ 0 <= reads
    BY DEF NotReused, SubTypes
  <2> QED
    BY <1>1, <1>6, <2>1, <2>2 DEF NotReused
<1> QED
  BY <1>6, <1>7, <1>8

LEMMA FrameKeeps == SubtitlesInv /\ Frame => SubtitlesInv'
<1> SUFFICES ASSUME SubtitlesInv, Frame PROVE SubtitlesInv'
  OBVIOUS
<1>1. now' \in Int
  <2>1. now \in Int /\ now' \in now + 1..now + 2
    BY DEF SubtitlesInv, SourceInv, SubTypes, Frame
  <2> QED
    BY <2>1
<1>2. /\ playing /\ update_subtitles(now', FALSE)
      /\ UNCHANGED <<playing, reads, subFiles, selection, sub_tracks, sub_delay>>
  BY DEF Frame, subBounds
<1> QED
  BY <1>1, <1>2, TimeKeeps

LEMMA SeekFilmKeeps == SubtitlesInv /\ SeekFilm => SubtitlesInv'
<1> SUFFICES ASSUME SubtitlesInv, SeekFilm PROVE SubtitlesInv'
  OBVIOUS
<1>1. /\ playing /\ update_subtitles(now', TRUE)
      /\ UNCHANGED <<playing, reads, subFiles, selection, sub_tracks, sub_delay>>
  BY DEF SeekFilm
<1>2. now' \in Int
  BY DEF SeekFilm
<1> QED
  BY <1>1, <1>2, TimeKeeps

-----------------------------------------------------------------------------
(* Loading, removing and stepping.                                         *)

LEMMA SubLoadKeeps == SubtitlesInv /\ SubLoad => SubtitlesInv'
<1> SUFFICES ASSUME SubtitlesInv, SubLoad PROVE SubtitlesInv'
  OBVIOUS
<1> USE DEF SubtitlesInv, SourceInv, SearchInv
<1>1. PICK at \in Places(1), content \in Contents :
        /\ reads' = reads + 1 /\ heap' = [heap EXCEPT ![at[1]] = content]
        /\ set_of_subtitles' = set_of_subtitles \o at
        /\ counts' = [counts EXCEPT !.subs = @ + 1]
  BY DEF SubLoad
<1>2. /\ playing
      /\ UNCHANGED <<playing, global_sub_pos, set_of_sub_pos, subdata, d_sub, sub_id, sub_tracks,
                     current_sub, nosub_range, last_sub_data, sub_last_pts, vo_sub, looked, sub_delay, now>>
  BY DEF SubLoad, SubCommand, selection, search
<1> DEFINE new == at[1]
           s == set_of_subtitles
<1>3. /\ at \in Seq(Addresses) /\ Len(at) = 1 /\ new \in Addresses /\ heap[new] = <<>>
      /\ ~ Reuse => new > reads /\ new = reads + 1
  <2>1. /\ at \in Seq(Addresses) /\ Len(at) = 1
        /\ \A i \in 1..1 : at[i] \in Addresses /\ heap[at[i]] = <<>> /\ (~ Reuse => at[i] > reads)
        /\ ~ Reuse => \A i \in 1..1 : at[i] = reads + i
    BY PlacesAreNew DEF SubTypes
  <2>2. 1 \in 1..1
    OBVIOUS
  <2> HIDE DEF new
  <2> QED
    BY <2>1, <2>2 DEF new
<1>4. s \in Seq(Addresses) /\ Len(s) \in Nat
  BY LenProperties DEF FileTypes
<1>5. /\ set_of_subtitles' \in Seq(Addresses) /\ Len(set_of_subtitles') = Len(s) + 1
      /\ \A i \in 1..Len(s) : set_of_subtitles'[i] = s[i]
      /\ set_of_subtitles'[Len(s) + 1] = new
  <2>1. /\ s \o at \in Seq(Addresses) /\ Len(s \o at) = Len(s) + Len(at)
        /\ \A i \in 1..Len(s) + Len(at) : (s \o at)[i] = IF i <= Len(s) THEN s[i] ELSE at[i - Len(s)]
    BY <1>3, <1>4, ConcatProperties
  <2> DEFINE all == s \o at
  <2>2. set_of_subtitles' = all
    BY <1>1
  <2>3. \A i \in 1..Len(s) : i \in 1..Len(s) + 1 /\ i <= Len(s)
    BY <1>4
  <2>4. Len(s) + 1 \in 1..Len(s) + 1 /\ ~ Len(s) + 1 <= Len(s) /\ (Len(s) + 1) - Len(s) = 1
    BY <1>4
  <2> HIDE DEF all, s, new
  <2> QED
    BY <1>3, <1>4, <2>1, <2>2, <2>3, <2>4 DEF all, new
<1>6. /\ heap'[new] = content /\ content # <<>>
      /\ \A a \in Addresses : a # new => heap'[a] = heap[a]
      /\ heap' \in [Addresses -> Contents \cup {<<>>}]
  BY <1>1, <1>3, ContentShape DEF FileTypes
<1>7. counts' \in [subs : Nat, demux : Nat] /\ counts'.demux = counts.demux
  BY <1>1 DEF FileTypes
<1>8. FileTypes'
  BY <1>2, <1>5, <1>6, <1>7 DEF FileTypes
<1>9. SubTypes' /\ SearchTypes'
  BY <1>1, <1>2 DEF SubTypes, SearchTypes
<1>10. \A i \in 1..Len(s) : s[i] \in Addresses /\ heap[s[i]] # <<>> /\ s[i] # new
  BY <1>3, <1>4, ElementOfSeq DEF FilesApart
<1> HIDE DEF new, s
<1>11. \A i \in 1..Len(set_of_subtitles') : i \in 1..Len(s) \/ i = Len(s) + 1
  BY <1>4, <1>5
<1>12. FilesApart'
  <2>1. \A i \in 1..Len(set_of_subtitles') : heap'[set_of_subtitles'[i]] # <<>>
    BY <1>5, <1>6, <1>10, <1>11
  <2>2. \A i, j \in 1..Len(set_of_subtitles') : set_of_subtitles'[i] = set_of_subtitles'[j] => i = j
    BY <1>5, <1>10, <1>11 DEF FilesApart, s
  <2> QED
    BY <1>2, <1>7, <2>1, <2>2 DEF FilesApart
<1>13. subdata # 0 => /\ subdata \in Addresses /\ heap[subdata] # <<>> /\ subdata # new
                      /\ heap'[subdata] = heap[subdata]
  BY <1>3, <1>6 DEF Selected, FilesApart, SubTypes, Addresses
<1>14. Stopped' /\ ShownFits'
  BY <1>2, <1>13 DEF Stopped, ShownFits
<1>15. Selected'
  <2>1. \A i \in 1..Len(s) : i \in 1..Len(set_of_subtitles')
    BY <1>4, <1>5
  <2> QED
    BY <1>2, <1>5, <2>1 DEF Selected, s
<1>16. ~ Reuse => NotReused' /\ Remembered(heap)' /\ DueShown'
  <2> SUFFICES ASSUME ~ Reuse PROVE NotReused' /\ Remembered(heap)' /\ DueShown'
    OBVIOUS
  <2>1. reads \in Nat /\ reads' = reads + 1 /\ new = reads + 1 /\ last_sub_data \in 0..MaxReads
    BY <1>1, <1>3 DEF SubTypes, SearchTypes
  <2>2. last_sub_data <= reads /\ last_sub_data # new
    BY <2>1 DEF NotReused
  <2>3. Remembered(heap)'
    BY <1>2, <1>6, <2>1, <2>2 DEF Remembered, Addresses
  <2>4. DueShown'
    BY <1>2, <1>13 DEF DueShown, ShownFits
  <2>5. ASSUME NEW a \in Addresses, heap'[a] # <<>> PROVE a <= reads'
    <3>1. a = new \/ a <= reads
      BY <1>6, <2>5 DEF NotReused
    <3> QED
      BY <2>1, <3>1 DEF Addresses
  <2> QED
    BY <1>2, <2>1, <2>2, <2>3, <2>4, <2>5 DEF NotReused
<1> QED
  BY <1>8, <1>9, <1>12, <1>14, <1>15, <1>16

\* What is left of a sequence when its elements from from + 1 to to are taken out.
Without(s, from, to) == SubSeq(s, 1, from) \o SubSeq(s, to + 1, Len(s))

LEMMA TakenOut ==
  ASSUME NEW s \in Seq(Addresses), NEW from \in Nat, NEW to \in Nat, from <= to, to <= Len(s)
  PROVE  /\ Without(s, from, to) \in Seq(Addresses) /\ Len(Without(s, from, to)) = Len(s) - (to - from)
         /\ \A i \in 1..Len(Without(s, from, to)) :
              Without(s, from, to)[i] = s[IF i <= from THEN i ELSE i + (to - from)]
<1> DEFINE a == SubSeq(s, 1, from)
           b == SubSeq(s, to + 1, Len(s))
           left == Without(s, from, to)
<1>1. Len(s) \in Nat
  BY LenProperties
<1>2. \A i \in 1..from : s[i] \in Addresses
  BY <1>1, ElementOfSeq
<1>3. \A i \in to + 1..Len(s) : s[i] \in Addresses
  BY <1>1, ElementOfSeq
<1>4. a \in Seq(Addresses) /\ Len(a) = from /\ \A i \in 1..from : a[i] = s[i]
  <2>1. /\ a \in Seq(Addresses) /\ Len(a) = IF 1 <= from THEN from - 1 + 1 ELSE 0
        /\ \A i \in 1..from - 1 + 1 : a[i] = s[1 + i - 1]
    BY <1>1, <1>2, SubSeqProperties
  <2> HIDE DEF a
  <2> QED
    BY <2>1
<1>5. b \in Seq(Addresses) /\ Len(b) = Len(s) - to /\ \A i \in 1..Len(s) - to : b[i] = s[to + i]
  <2>1. /\ b \in Seq(Addresses) /\ Len(b) = IF to + 1 <= Len(s) THEN Len(s) - (to + 1) + 1 ELSE 0
        /\ \A i \in 1..Len(s) - (to + 1) + 1 : b[i] = s[(to + 1) + i - 1]
    BY <1>1, <1>3, SubSeqProperties
  <2> HIDE DEF b
  <2>2. \A i \in 1..Len(s) - to : i \in 1..Len(s) - (to + 1) + 1 /\ (to + 1) + i - 1 = to + i
    BY <1>1
  <2>3. Len(b) = Len(s) - to
    BY <1>1, <2>1
  <2> QED
    BY <2>1, <2>2, <2>3
<1> HIDE DEF a, b
<1>6. left = a \o b
  BY DEF Without, a, b
<1> HIDE DEF left
<1>7. /\ left \in Seq(Addresses) /\ Len(left) = Len(a) + Len(b)
      /\ \A i \in 1..Len(a) + Len(b) : left[i] = IF i <= Len(a) THEN a[i] ELSE b[i - Len(a)]
  <2>1. /\ a \o b \in Seq(Addresses) /\ Len(a \o b) = Len(a) + Len(b)
        /\ \A i \in 1..Len(a) + Len(b) : (a \o b)[i] = IF i <= Len(a) THEN a[i] ELSE b[i - Len(a)]
    BY <1>4, <1>5, ConcatProperties
  <2> QED
    BY <2>1, <1>6
<1>8. Len(left) = Len(s) - (to - from)
  <2>1. Len(left) = from + (Len(s) - to)
    BY <1>4, <1>5, <1>7
  <2> QED
    BY <1>1, <2>1
<1>9. ASSUME NEW i \in 1..Len(left) PROVE left[i] = s[IF i <= from THEN i ELSE i + (to - from)]
  <2>0. i \in 1..from + (Len(s) - to) /\ i \in 1..Len(a) + Len(b)
    <3>1. Len(left) = from + (Len(s) - to)
      BY <1>4, <1>5, <1>7
    <3> QED
      BY <1>7, <3>1
  <2>1. CASE i <= from
    <3>1. i \in 1..from
      BY <2>0, <2>1
    <3> QED
      BY <1>4, <1>7, <2>0, <2>1, <3>1
  <2>2. CASE ~ i <= from
    <3>1. i - from \in 1..Len(s) - to /\ to + (i - from) = i + (to - from)
      BY <1>1, <2>0, <2>2
    <3>2. left[i] = b[i - from]
      BY <1>4, <1>7, <2>0, <2>2
    <3> QED
      BY <1>5, <2>2, <3>1, <3>2
  <2> QED
    BY <2>1, <2>2
<1> QED
  BY <1>7, <1>8, <1>9 DEF left

LEMMA SubRemoveKeeps == SubtitlesInv /\ SubRemove => SubtitlesInv'
<1> SUFFICES ASSUME SubtitlesInv, SubRemove PROVE SubtitlesInv'
  OBVIOUS
<1> USE DEF SubtitlesInv, SourceInv, SearchInv
<1> DEFINE s == set_of_subtitles
           n == Len(s)
<1>1. PICK from \in 0..n - 1 : \E to \in {from + 1, n} :
        /\ heap' = [a \in Addresses |-> IF a \in {s[i] : i \in from + 1..to} THEN <<>> ELSE heap[a]]
        /\ set_of_subtitles' = SubSeq(s, 1, from) \o SubSeq(s, to + 1, n)
        /\ counts' = IF SubSeq(s, 1, from) \o SubSeq(s, to + 1, n) = <<>> THEN [counts EXCEPT !.subs = 0] ELSE counts
        /\ IF GivenUp(from, to)
           THEN global_sub_pos' = -2 /\ subdata' = 0 /\ pending' = TRUE /\ UNCHANGED set_of_sub_pos
           ELSE /\ set_of_sub_pos' = set_of_sub_pos - (IF set_of_sub_pos >= to THEN to - from ELSE 0)
                /\ global_sub_pos' = global_sub_pos - (IF set_of_sub_pos >= to THEN to - from ELSE 0)
                /\ UNCHANGED <<subdata, pending>>
  BY DEF SubRemove
<1>2. PICK to \in {from + 1, n} :
        /\ heap' = [a \in Addresses |-> IF a \in {s[i] : i \in from + 1..to} THEN <<>> ELSE heap[a]]
        /\ set_of_subtitles' = SubSeq(s, 1, from) \o SubSeq(s, to + 1, n)
        /\ counts' = IF SubSeq(s, 1, from) \o SubSeq(s, to + 1, n) = <<>> THEN [counts EXCEPT !.subs = 0] ELSE counts
        /\ IF GivenUp(from, to)
           THEN global_sub_pos' = -2 /\ subdata' = 0 /\ pending' = TRUE /\ UNCHANGED set_of_sub_pos
           ELSE /\ set_of_sub_pos' = set_of_sub_pos - (IF set_of_sub_pos >= to THEN to - from ELSE 0)
                /\ global_sub_pos' = global_sub_pos - (IF set_of_sub_pos >= to THEN to - from ELSE 0)
                /\ UNCHANGED <<subdata, pending>>
  BY <1>1
<1>3. /\ playing /\ looked' = IF subdata' = 0 THEN NOTHING ELSE looked
      /\ UNCHANGED <<playing, reads, d_sub, sub_id, sub_tracks, current_sub, nosub_range,
                     last_sub_data, sub_last_pts, vo_sub, sub_delay, now>>
  BY DEF SubRemove, SubCommand
<1>4. s \in Seq(Addresses) /\ n \in Nat /\ \A i \in 1..n : s[i] \in Addresses
  BY LenProperties, ElementOfSeq DEF FileTypes
<1>5. from \in Nat /\ to \in Nat /\ from <= to /\ to <= n
  BY <1>4
<1>6. /\ set_of_subtitles' \in Seq(Addresses) /\ Len(set_of_subtitles') = n - (to - from)
      /\ \A i \in 1..Len(set_of_subtitles') :
           set_of_subtitles'[i] = s[IF i <= from THEN i ELSE i + (to - from)]
  <2>1. set_of_subtitles' = Without(s, from, to)
    BY <1>2 DEF Without
  <2>2. /\ Without(s, from, to) \in Seq(Addresses) /\ Len(Without(s, from, to)) = Len(s) - (to - from)
        /\ \A i \in 1..Len(Without(s, from, to)) :
             Without(s, from, to)[i] = s[IF i <= from THEN i ELSE i + (to - from)]
    <3> HIDE DEF s
    <3>1. s \in Seq(Addresses) /\ from \in Nat /\ to \in Nat /\ from <= to /\ to <= Len(s)
      BY <1>4, <1>5
    <3> HIDE DEF n
    <3> QED
      BY <3>1, TakenOut
  <2> QED
    BY <2>1, <2>2
<1> DEFINE at(i) == IF i <= from THEN i ELSE i + (to - from)
<1> HIDE DEF s, n
<1>7. \A i \in 1..n : (i <= from \/ to < i) => heap'[s[i]] = heap[s[i]]
  <2> SUFFICES ASSUME NEW i \in 1..n, i <= from \/ to < i PROVE heap'[s[i]] = heap[s[i]]
    OBVIOUS
  <2>1. \A j \in from + 1..to : j \in 1..n /\ j # i
    BY <1>4, <1>5
  <2>2. \A j \in from + 1..to : s[j] # s[i]
    BY <2>1 DEF FilesApart, s, n
  <2>3. s[i] \in Addresses
    BY <1>4
  <2> QED
    BY <1>2, <2>2, <2>3
<1>8. \A i \in 1..Len(set_of_subtitles') : at(i) \in 1..n /\ (at(i) <= from \/ to < at(i))
  <2> TAKE i \in 1..Len(set_of_subtitles')
  <2>1. i \in 1..n - (to - from)
    BY <1>6
  <2> QED
    BY <1>4, <1>5, <2>1
<1>9. \A i, j \in 1..Len(set_of_subtitles') : at(i) = at(j) => i = j
  BY <1>4, <1>5, <1>6
<1>10. \A i \in 1..Len(set_of_subtitles') : set_of_subtitles'[i] = s[at(i)]
  BY <1>6
<1> HIDE DEF at
<1>11. \A a \in Addresses : heap'[a] = <<>> \/ heap'[a] = heap[a]
  BY <1>2
<1>12. FileTypes'
  <2>1. heap' \in [Addresses -> Contents \cup {<<>>}]
    BY <1>2 DEF FileTypes
  <2>2. counts' \in [subs : Nat, demux : Nat]
    BY <1>2 DEF FileTypes
  <2> QED
    BY <1>3, <1>6, <2>1, <2>2 DEF FileTypes
<1>13. counts'.demux = counts.demux
  BY <1>2 DEF FileTypes
<1>14. SubTypes' /\ SearchTypes'
  <2>1. global_sub_pos' \in Int /\ set_of_sub_pos' \in Int
    BY <1>2, <1>5 DEF SubTypes
  <2>2. subdata' \in 0..MaxReads
    BY <1>2, SubtitlesBounds DEF SubTypes
  <2>3. looked' \in Int
    <3>1. looked' = NOTHING \/ looked' = looked
      BY <1>3
    <3> QED
      BY <3>1 DEF SearchTypes, NOTHING
  <2> QED
    BY <1>3, <2>1, <2>2, <2>3 DEF SubTypes, SearchTypes
<1>15. FilesApart'
  <2>1. \A i \in 1..Len(set_of_subtitles') : heap'[set_of_subtitles'[i]] # <<>>
    BY <1>7, <1>8, <1>10 DEF FilesApart, s, n
  <2>2. \A i, j \in 1..Len(set_of_subtitles') : set_of_subtitles'[i] = set_of_subtitles'[j] => i = j
    BY <1>8, <1>9, <1>10 DEF FilesApart, s, n
  <2> QED
    BY <1>3, <1>13, <2>1, <2>2 DEF FilesApart
\* A file that stays selected is none of those taken out.
<1>16. subdata' # 0 =>
         /\ subdata' = subdata /\ heap'[subdata] = heap[subdata] /\ looked' = looked
         /\ set_of_sub_pos' + 1 \in 1..Len(set_of_subtitles')
         /\ set_of_subtitles'[set_of_sub_pos' + 1] = subdata /\ global_sub_pos' = set_of_sub_pos'
  <2> SUFFICES ASSUME subdata' # 0 PROVE
         /\ subdata' = subdata /\ heap'[subdata] = heap[subdata] /\ looked' = looked
         /\ set_of_sub_pos' + 1 \in 1..Len(set_of_subtitles')
         /\ set_of_subtitles'[set_of_sub_pos' + 1] = subdata /\ global_sub_pos' = set_of_sub_pos'
    OBVIOUS
  <2> DEFINE p == set_of_sub_pos
             back == IF p >= to THEN to - from ELSE 0
  <2>1. ~ GivenUp(from, to) /\ subdata' = subdata /\ looked' = looked
    BY <1>2, <1>3
  <2>2. set_of_sub_pos' = p - back /\ global_sub_pos' = global_sub_pos - back
    BY <1>2, <2>1
  <2>3. p \in Int /\ p + 1 \in 1..n /\ s[p + 1] = subdata /\ global_sub_pos = p
    BY <2>1 DEF Selected, SubTypes, s, n
  <2>4. p < from \/ p >= to
    BY <1>5, <2>1, <2>3 DEF GivenUp
  <2> HIDE DEF p
  <2>5. p + 1 <= from \/ to < p + 1
    BY <1>5, <2>3, <2>4
  <2>6. heap'[subdata] = heap[subdata]
    BY <1>7, <2>3, <2>5
  <2>7. /\ (p - back) + 1 \in 1..n - (to - from)
        /\ at((p - back) + 1) = p + 1
    BY <1>4, <1>5, <2>3, <2>4 DEF at
  <2> HIDE DEF back
  <2>8. set_of_subtitles'[(p - back) + 1] = subdata
    BY <1>6, <1>10, <2>3, <2>7
  <2> QED
    BY <1>6, <2>1, <2>2, <2>3, <2>6, <2>7, <2>8
<1>17. Stopped' /\ Selected' /\ ShownFits'
  <2>1. subdata' = 0 => looked' = NOTHING
    BY <1>3
  <2>2. Stopped'
    BY <1>3 DEF Stopped
  <2>3. Selected'
    BY <1>3, <1>16 DEF Selected
  <2>4. ShownFits'
    BY <1>2, <1>3, <1>16, <2>1 DEF ShownFits
  <2> QED
    BY <2>2, <2>3, <2>4
<1>18. ~ Reuse => NotReused' /\ Remembered(heap)' /\ DueShown'
  <2> SUFFICES ASSUME ~ Reuse PROVE NotReused' /\ Remembered(heap)' /\ DueShown'
    OBVIOUS
  <2>1. NotReused'
    BY <1>3, <1>11 DEF NotReused
  <2>2. last_sub_data # 0 => last_sub_data \in Addresses
    BY DEF SearchTypes, Addresses
  <2>3. Remembered(heap)'
    BY <1>3, <1>11, <2>2 DEF Remembered
  <2>4. DueShown'
    BY <1>3, <1>16 DEF DueShown
  <2> QED
    BY <2>1, <2>3, <2>4
<1> QED
  BY <1>12, <1>14, <1>15, <1>17, <1>18

LEMMA SubStepKeeps == SubtitlesInv /\ SubStep => SubtitlesInv'
<1> SUFFICES ASSUME SubtitlesInv, SubStep PROVE SubtitlesInv'
  OBVIOUS
<1> USE DEF SubtitlesInv, SourceInv, SearchInv
<1> DEFINE subs == heap[subdata]
<1>1. /\ subdata # 0
      /\ UNCHANGED <<playing, reads, heap, set_of_subtitles, counts, global_sub_pos, set_of_sub_pos,
                     subdata, d_sub, sub_id, sub_tracks, nosub_range, last_sub_data, sub_last_pts,
                     vo_sub, looked, now>>
  BY DEF SubStep, subFiles, selection
<1>2. PICK to \in Int :
        /\ current_sub' = IF to < 0 THEN 0 ELSE IF to >= Len(subs) THEN Len(subs) - 1 ELSE to
        /\ sub_delay' = now - subs[current_sub' + 1].start
  <2>1. PICK movement \in {-1, 1}, stay \in BOOLEAN :
          LET to == current_sub + (IF stay THEN 0 ELSE movement) IN
          /\ current_sub' = IF to < 0 THEN 0 ELSE IF to >= Len(subs) THEN Len(subs) - 1 ELSE to
          /\ sub_delay' = now - subs[current_sub' + 1].start
    BY DEF SubStep
  <2>2. current_sub + (IF stay THEN 0 ELSE movement) \in Int
    BY DEF SearchTypes
  <2> QED
    BY <2>1, <2>2
<1>3. subs \in Contents
  BY <1>1 DEF Selected, FilesApart, FileTypes, SubTypes, Addresses
<1>4. Len(subs) \in Nat /\ Len(subs) >= 1 /\ \A i \in 1..Len(subs) : subs[i].start \in Int
  BY <1>3, ContentShape
<1> HIDE DEF subs
<1>5. current_sub' \in Nat /\ current_sub' + 1 \in 1..Len(subs)
  BY <1>2, <1>4
<1>6. sub_delay' \in Int
  <2>1. subs[current_sub' + 1].start \in Int /\ now \in Int
    BY <1>4, <1>5 DEF SubTypes
  <2> QED
    BY <1>2, <2>1
<1>7. FileTypes' /\ SubTypes' /\ SearchTypes' /\ FilesApart' /\ Stopped' /\ Selected' /\ ShownFits'
  BY <1>1, <1>5, <1>6
     DEF FileTypes, SubTypes, SearchTypes, FilesApart, Stopped, Selected, ShownFits
<1>8. ~ Reuse => NotReused' /\ Remembered(heap)' /\ DueShown'
  BY <1>1 DEF NotReused, Remembered, DueShown
<1> QED
  BY <1>7, <1>8

-----------------------------------------------------------------------------
(* The theorems.                                                           *)

LEMMA SubtitlesStep == SubtitlesInv /\ [SubNext]_subVars => SubtitlesInv'
<1> SUFFICES ASSUME SubtitlesInv, [SubNext]_subVars PROVE SubtitlesInv'
  OBVIOUS
<1>1. CASE UNCHANGED subVars
  BY <1>1, NothingSelected DEF subVars, subBounds
<1>2. CASE SubNext
  BY <1>2, OpenFilmKeeps, CloseFilmKeeps, FrameKeeps, SeekFilmKeeps, SubSelectKeeps, SubSourceKeeps,
     SubByTypeKeeps, SubLoadKeeps, SubRemoveKeeps, SubStepKeeps DEF SubNext
<1> QED
  BY <1>1, <1>2

\* Everything keeps its type, a file that is selected is in memory and the one its numbers say, and
\* what is shown is of it.
THEOREM SubtitlesTyped == SubSpec => []SubtitlesInv
  BY SubInitInv, SubtitlesStep, PTL DEF SubSpec

\* There is one source of subtitles, whatever is loaded, removed and selected, in whatever order: even
\* where memory is used again.
THEOREM SourceIsOne == SubSpec => []OneSource
  BY SubtitlesTyped, InvIsTrue, PTL

\* As long as no file is read to where another one was: after any films, seeks, steps, delays,
\* loads and removals, what is shown is due, where nothing is shown nothing is, and there is one
\* source.
THEOREM ShownIsTrue == ~ Reuse => (SubSpec => []ShownTrue)
<1> SUFFICES ASSUME ~ Reuse PROVE SubSpec => []ShownTrue
  OBVIOUS
<1>1. SubtitlesInv => ShownTrue
  BY InvIsTrue DEF ShownTrue
<1> QED
  BY <1>1, SubtitlesTyped, PTL
=============================================================================
