--------------------------- MODULE PlayTreeProofs ---------------------------
(***************************************************************************)
(* Proofs about the play tree: wherever the iterator goes, by steps,       *)
(* loops, commands and lists, an entry is played with its options and      *)
(* those of the groups around it, and what was pushed is popped.           *)
(* And played forward, the tree plays what its loops say, in order.        *)
(***************************************************************************)
EXTENDS PlayTree, SequenceTheorems, FiniteSetTheorems, WellFoundedInduction, TLAPS

-----------------------------------------------------------------------------
(* Levels of options: a slot for each node on the way to the root.         *)

SlotSet == [lvl : Int, value : Int]
IsLevels(s) == s \in Seq(SlotSet) /\ Len(s) >= 2 /\ \A i \in 1..Len(s) : s[i].lvl = i - 1
\* The options when the saved values are those of s, and nothing was changed since.
ConfigAt(s) == [lvl |-> Len(s) - 1, value |-> Last(s).value, slots |-> s]
ChangedTo(s, v) == [lvl |-> Len(s) - 1, value |-> v, slots |-> s]
\* The level of a node with option value v (or None) on top of those of s.
OnTop(s, v) == Append(s, Slot(Len(s), IF v # None THEN v ELSE Last(s).value))

LEMMA SlotTypes ==
  ASSUME NEW l \in Int, NEW v \in Int
  PROVE  Slot(l, v) \in SlotSet /\ Slot(l, v).lvl = l /\ Slot(l, v).value = v
  BY DEF Slot, SlotSet

LEMMA LevelsFacts ==
  ASSUME NEW s, IsLevels(s)
  PROVE  /\ s \in Seq(SlotSet) /\ Len(s) \in Nat /\ Len(s) >= 2 /\ DOMAIN s = 1..Len(s)
         /\ Last(s) = s[Len(s)] /\ Last(s) \in SlotSet /\ Last(s).value \in Int
         /\ Last(s).lvl = Len(s) - 1 /\ Last(s) = Slot(Len(s) - 1, Last(s).value)
         /\ \A i \in 1..Len(s) : s[i] \in SlotSet /\ s[i].lvl = i - 1
<1>1. s \in Seq(SlotSet) /\ Len(s) \in Nat /\ Len(s) >= 2 /\ DOMAIN s = 1..Len(s)
  BY LenProperties DEF IsLevels
<1>2. \A i \in 1..Len(s) : s[i] \in SlotSet /\ s[i].lvl = i - 1
  BY <1>1, ElementOfSeq DEF IsLevels
<1>3. Len(s) \in 1..Len(s) /\ Last(s) = s[Len(s)]
  BY <1>1 DEF Last
<1>4. Last(s) \in SlotSet /\ Last(s).lvl = Len(s) - 1
  BY <1>2, <1>3
<1>5. Last(s).value \in Int /\ Last(s) = Slot(Len(s) - 1, Last(s).value)
  BY <1>4 DEF SlotSet, Slot
<1> QED
  BY <1>1, <1>2, <1>3, <1>4, <1>5

LEMMA BaseLevels ==
  /\ IsLevels(BaseConfig.slots) /\ Len(BaseConfig.slots) = 2
  /\ Last(BaseConfig.slots).value = BaseValue /\ BaseConfig = ConfigAt(BaseConfig.slots)
<1> DEFINE s == <<Slot(0, BaseValue), Slot(1, BaseValue)>>
<1>1. BaseConfig = [lvl |-> 1, value |-> BaseValue, slots |-> s] /\ BaseConfig.slots = s
  BY DEF BaseConfig
<1>2. BaseValue \in Int
  BY DEF BaseValue
<1>3. Slot(0, BaseValue) \in SlotSet /\ Slot(1, BaseValue) \in SlotSet
  BY <1>2, SlotTypes
<1>4. s \in Seq(SlotSet) /\ Len(s) = 2 /\ s[1] = Slot(0, BaseValue) /\ s[2] = Slot(1, BaseValue)
  BY <1>3
<1>5. s[1].lvl = 0 /\ s[2].lvl = 1 /\ s[2].value = BaseValue
  BY <1>2, <1>4, SlotTypes
<1> HIDE DEF s
<1>6. Last(s).value = BaseValue
  BY <1>4, <1>5 DEF Last
<1>7. IsLevels(s)
  BY <1>4, <1>5 DEF IsLevels
<1>8. ConfigAt(s) = [lvl |-> 1, value |-> BaseValue, slots |-> s]
  BY <1>4, <1>6 DEF ConfigAt
<1> QED
  BY <1>1, <1>4, <1>6, <1>7, <1>8

LEMMA OnTopLevels ==
  ASSUME NEW s, IsLevels(s), NEW v \in Int
  PROVE  /\ IsLevels(OnTop(s, v)) /\ Len(OnTop(s, v)) = Len(s) + 1
         /\ Front(OnTop(s, v)) = s
         /\ Last(OnTop(s, v)).value = IF v # None THEN v ELSE Last(s).value
<1> DEFINE w == IF v # None THEN v ELSE Last(s).value
           e == Slot(Len(s), w)
           t == Append(s, e)
<1>1. s \in Seq(SlotSet) /\ Len(s) \in Nat /\ Len(s) >= 2 /\ \A i \in 1..Len(s) : s[i].lvl = i - 1
  BY LevelsFacts
<1>2. w \in Int
  BY LevelsFacts
<1>3. e \in SlotSet /\ e.lvl = Len(s) /\ e.value = w
  BY <1>1, <1>2, SlotTypes
<1>4. OnTop(s, v) = t
  BY DEF OnTop
<1> HIDE DEF e, w
<1>5. /\ t \in Seq(SlotSet) /\ Len(t) = Len(s) + 1
      /\ \A i \in 1..Len(s) : t[i] = s[i]
      /\ t[Len(s) + 1] = e
  BY <1>1, <1>3, AppendProperties
<1> HIDE DEF t
<1>6. \A i \in 1..Len(t) : t[i].lvl = i - 1
  <2> TAKE i \in 1..Len(t)
  <2>1. CASE i \in 1..Len(s)
    BY <2>1, <1>1, <1>5
  <2>2. CASE i = Len(s) + 1
    BY <2>2, <1>1, <1>3, <1>5
  <2> QED
    BY <2>1, <2>2, <1>1, <1>5
<1>7. IsLevels(t)
  BY <1>1, <1>5, <1>6 DEF IsLevels
<1>8. Last(t).value = w
  BY <1>3, <1>5 DEF Last
<1>9. Front(t) = s
  <2>1. Front(t) = SubSeq(t, 1, Len(s))
    BY <1>1, <1>5 DEF Front
  <2>2. /\ SubSeq(t, 1, Len(s)) \in Seq(SlotSet) /\ Len(SubSeq(t, 1, Len(s))) = Len(s)
        /\ \A i \in 1..Len(s) : SubSeq(t, 1, Len(s))[i] = t[i]
    <3>1. \A i \in 1..Len(s) : t[i] \in SlotSet
      BY <1>1, <1>5, ElementOfSeq
    <3>2. /\ SubSeq(t, 1, Len(s)) \in Seq(SlotSet)
          /\ Len(SubSeq(t, 1, Len(s))) = IF 1 <= Len(s) THEN Len(s) - 1 + 1 ELSE 0
          /\ \A i \in 1..Len(s) - 1 + 1 : SubSeq(t, 1, Len(s))[i] = t[1 + i - 1]
      BY <1>1, <3>1, SubSeqProperties
    <3>3. \A i \in 1..Len(s) : i \in 1..Len(s) - 1 + 1 /\ 1 + i - 1 = i
      BY <1>1
    <3> QED
      BY <1>1, <3>2, <3>3
  <2> DEFINE f == SubSeq(t, 1, Len(s))
  <2>3. \A i \in 1..Len(f) : f[i] = s[i]
    BY <2>2, <1>5
  <2> HIDE DEF f
  <2>4. f \in Seq(SlotSet) /\ Len(f) = Len(s)
    BY <2>2 DEF f
  <2>5. f = s
    BY <2>3, <2>4, <1>1, SeqEqual
  <2> QED
    BY <2>1, <2>5 DEF f
<1> QED
  BY <1>4, <1>5, <1>7, <1>8, <1>9 DEF w

-----------------------------------------------------------------------------
(* Pushing and popping.                                                    *)

LEMMA MaxOf ==
  ASSUME NEW T, T \subseteq Int, NEW m \in T, \A x \in T : x <= m
  PROVE  Max(T) = m
<1>1. Max(T) \in T /\ \A y \in T : Max(T) >= y
  <2>1. \E x \in T : \A y \in T : x >= y
    BY SMT
  <2> QED
    BY <2>1 DEF Max
<1>2. Max(T) \in Int /\ m \in Int /\ Max(T) <= m /\ m <= Max(T)
  BY <1>1
<1> QED
  BY <1>2

LEMMA MinOf ==
  ASSUME NEW T, T \subseteq Int, NEW m \in T, \A x \in T : m <= x
  PROVE  Min(T) = m
<1>1. Min(T) \in T /\ \A y \in T : Min(T) <= y
  <2>1. \E x \in T : \A y \in T : x <= y
    BY SMT
  <2> QED
    BY <2>1 DEF Min
<1>2. Min(T) \in Int /\ m \in Int /\ Min(T) <= m /\ m <= Min(T)
  BY <1>1
<1> QED
  BY <1>2

\* Popping takes the level off and restores the value of the one below, whatever the value is.
LEMMA PopRestores ==
  ASSUME NEW s, IsLevels(s), NEW v \in Int, NEW w
  PROVE  m_config_pop(ChangedTo(OnTop(s, v), w)) = ConfigAt(s)
<1> DEFINE t == OnTop(s, v)
           c == ChangedTo(t, w)
           T == {0} \cup {i \in DOMAIN c.slots : c.slots[i].lvl < c.lvl}
<1>1. IsLevels(t) /\ Len(t) = Len(s) + 1 /\ Front(t) = s
  BY OnTopLevels
<1>2. Len(s) \in Nat /\ Len(s) >= 2
  BY LevelsFacts
<1>3. DOMAIN t = 1..Len(t) /\ \A i \in 1..Len(t) : t[i].lvl = i - 1
  BY <1>1, LevelsFacts
<1> HIDE DEF t
<1>4. c.slots = t /\ c.lvl = Len(s) /\ c.value = w
  <2>1. c.slots = t /\ c.lvl = Len(t) - 1 /\ c.value = w
    BY DEF ChangedTo
  <2> QED
    BY <2>1, <1>1, <1>2
<1> HIDE DEF c
<1>5. T \subseteq Int /\ Len(s) \in T /\ \A x \in T : x <= Len(s)
  BY <1>1, <1>2, <1>3, <1>4
<1>6. Max(T) = Len(s)
  <2> HIDE DEF T
  <2> QED
    BY <1>5, MaxOf
<1>7. Below(c) = SubSeq(t, 1, Len(s))
  BY <1>4, <1>6 DEF Below
<1>8. SubSeq(t, 1, Len(s)) = s
  BY <1>1, <1>2 DEF Front
<1>9. s # t
  BY <1>1, <1>2
<1>10. Below(c) = s
  BY <1>7, <1>8
<1>11. m_config_pop(c) = [lvl |-> c.lvl - 1, value |-> Last(s).value, slots |-> s]
  BY <1>4, <1>9, <1>10 DEF m_config_pop
<1> QED
  BY <1>4, <1>11 DEF ConfigAt, c, t

LEMMA FrontAndLast ==
  ASSUME NEW S, NEW s \in Seq(S), s # <<>>
  PROVE  Front(s) \o <<Last(s)>> = s
<1>1. Len(s) \in Nat /\ Len(s) >= 1
  BY EmptySeq, LenProperties
<1>2. Len(s) \in 1..Len(s) /\ 1 \in 1..Len(s) /\ Len(s) \in 1..Len(s)
  BY <1>1
<1>3. SubSeq(s, 1, Len(s)) = SubSeq(s, 1, Len(s) - 1) \o <<s[Len(s)]>>
  BY <1>2, SubSeqRecursiveSecond
<1> QED
  BY <1>3, SubSeqFull DEF Front, Last

LEMMA PushAppends ==
  ASSUME NEW s, IsLevels(s), NEW n, own[n] \in Int, n \notin byAlias
  PROVE  play_tree_iter_push_params(ConfigAt(s), n) = ConfigAt(OnTop(s, own[n]))
<1> DEFINE c == ConfigAt(s)
           p == m_config_push(c)
           v == own[n]
           f == Front(s)
           t == OnTop(s, v)
<1>1. s \in Seq(SlotSet) /\ Len(s) \in Nat /\ Len(s) >= 2 /\ s # <<>>
  BY LevelsFacts
<1>2. c.lvl = Len(s) - 1 /\ c.value = Last(s).value /\ c.slots = s
  BY DEF ConfigAt
<1> HIDE DEF c
<1>3. Last(s) = Slot(Last(s).lvl, Last(s).value)
  BY LevelsFacts
<1>4. Front(s) \o <<Slot(Last(s).lvl, Last(s).value)>> = s
  BY <1>1, <1>3, FrontAndLast
<1>5. p = [lvl |-> Len(s), value |-> Last(s).value, slots |-> Append(s, Slot(Len(s), Last(s).value))]
  <2>1. c.lvl + 1 = Len(s)
    BY <1>1, <1>2
  <2> QED
    BY <1>2, <1>4, <2>1 DEF m_config_push
<1>6. /\ IsLevels(t) /\ Len(t) = Len(s) + 1 /\ Front(t) = s
      /\ Last(t).value = IF v # None THEN v ELSE Last(s).value
  BY OnTopLevels
<1>7. CASE v = None
  <2>1. play_tree_iter_push_params(c, n) = p
    BY <1>7 DEF play_tree_iter_push_params
  <2>2. t = Append(s, Slot(Len(s), Last(s).value)) /\ Last(t).value = Last(s).value /\ Len(t) - 1 = Len(s)
    BY <1>1, <1>6, <1>7 DEF OnTop
  <2> HIDE DEF t
  <2> QED
    BY <1>5, <2>1, <2>2 DEF ConfigAt, c, t
<1>8. CASE v # None
  <2> DEFINE q == Append(s, Slot(Len(s), Last(s).value))
  <2>1. play_tree_iter_push_params(c, n) = m_config_set_option(p, v)
    BY <1>8 DEF play_tree_iter_push_params
  <2>2. q \in Seq(SlotSet) /\ q = OnTop(s, None)
    <3>1. Slot(Len(s), Last(s).value) \in SlotSet
      BY <1>1, LevelsFacts, SlotTypes
    <3> QED
      BY <3>1, <1>1, AppendProperties DEF OnTop
  <2>3. Front(q) = s /\ Last(q).lvl = Len(s)
    <3>1. None \in Int
      BY DEF None
    <3>2. IsLevels(OnTop(s, None)) /\ Len(OnTop(s, None)) = Len(s) + 1 /\ Front(OnTop(s, None)) = s
      BY <3>1, OnTopLevels
    <3>3. Last(OnTop(s, None)).lvl = Len(OnTop(s, None)) - 1
      BY <3>2, LevelsFacts
    <3> QED
      BY <1>1, <3>2, <3>3, <2>2
  <2>4. m_config_set_option(p, v) = [lvl |-> Len(s), value |-> v, slots |-> s \o <<Slot(Len(s), v)>>]
    <3> HIDE DEF q
    <3>1. p = [lvl |-> Len(s), value |-> Last(s).value, slots |-> q]
      BY <1>5 DEF q
    <3> HIDE DEF p
    <3>2. m_config_set_option(p, v)
            = [p EXCEPT !.value = v, !.slots = Front(p.slots) \o <<Slot(Last(p.slots).lvl, v)>>]
      BY DEF m_config_set_option
    <3>3. Front(p.slots) \o <<Slot(Last(p.slots).lvl, v)>> = s \o <<Slot(Len(s), v)>>
      BY <3>1, <2>3
    <3> QED
      BY <3>1, <3>2, <3>3
  <2>5. s \o <<Slot(Len(s), v)>> = Append(s, Slot(Len(s), v))
    <3>1. Slot(Len(s), v) \in SlotSet
      BY <1>1, SlotTypes
    <3> QED
      BY <3>1, <1>1, AppendIsConcat
  <2>6. t = Append(s, Slot(Len(s), v)) /\ Last(t).value = v /\ Len(t) - 1 = Len(s)
    BY <1>1, <1>6, <1>8 DEF OnTop
  <2> HIDE DEF t
  <2> QED
    BY <2>1, <2>4, <2>5, <2>6 DEF ConfigAt, c, t
<1> QED
  BY <1>7, <1>8

-----------------------------------------------------------------------------
(* What is computed along the way to the root.  A parent has a smaller     *)
(* number than its children.                                               *)

Climbs(up) ==
    /\ up \in [Nodes -> Nodes \cup {None}]
    /\ \A n \in Nodes : up[n] # None => up[n] < n

LastNode == Size + Spare - 1

\* The levels of the nodes up to k, when up gives the parents and mine the values.
LevelsUpTo(f, up, mine, k) ==
    f = [n \in 0 .. k |-> OnTop(IF up[n] = None THEN BaseConfig.slots ELSE f[up[n]], mine[n])]
LevelsOf(up, mine) == CHOOSE f : LevelsUpTo(f, up, mine, LastNode)
Under(up, mine, n) == IF up[n] = None THEN BaseConfig.slots ELSE LevelsOf(up, mine)[up[n]]

LEMMA NodesAre ==
  /\ Nodes = 0 .. LastNode /\ LastNode \in Nat /\ LastNode \in Nodes /\ LastNode + 1 = Size + Spare
  /\ Nodes \subseteq Nat /\ Root \in Nodes /\ None \notin Nodes /\ None \in Int
  /\ Size \in Nat /\ Spare \in Nat /\ Size >= 2 /\ Size - 1 \in Nodes /\ Root = 0 /\ None = -1
  BY TreeAssumption DEF Nodes, Root, None, LastNode

\* The least number of a set of them.
LEMMA LeastOf ==
  ASSUME NEW T, T \subseteq Nat, T # {}
  PROVE  \E x \in T : \A y \in T : x <= y
<1> DEFINE R == OpToRel(<, Nat)
<1>1. PICK x \in T : \A y \in T : ~ (<<y, x>> \in R)
  <2>1. IsWellFoundedOn(R, Nat)
    BY NatLessThanWellFounded
  <2> HIDE DEF R
  <2> QED
    BY <2>1, WFMin
<1>2. \A y \in T : ~ (y < x)
  BY <1>1 DEF OpToRel
<1> QED
  BY <1>2

LEMMA LevelsExist ==
  ASSUME NEW up, Climbs(up), NEW mine
  PROVE  \A k \in Nodes : \E f : LevelsUpTo(f, up, mine, k)
<1> DEFINE T == {m \in Nodes : ~ \E f : LevelsUpTo(f, up, mine, m)}
<1>1. SUFFICES T = {}
  OBVIOUS
<1>2. SUFFICES ASSUME T # {} PROVE FALSE
  OBVIOUS
<1>3. PICK m \in T : \A y \in T : m <= y
  <2>1. T \subseteq Nat
    BY NodesAre
  <2> HIDE DEF T
  <2> QED
    BY <1>2, <2>1, LeastOf
<1>4. m \in Nodes /\ m \in Nat
  BY NodesAre
<1>5. m # 0
  <2> DEFINE f == [n \in 0 .. 0 |-> OnTop(BaseConfig.slots, mine[n])]
  <2>1. up[0] = None
    BY NodesAre DEF Climbs
  <2>2. LevelsUpTo(f, up, mine, 0)
    <3>1. \A n \in 0 .. 0 : n = 0
      OBVIOUS
    <3>2. f = [n \in 0 .. 0 |-> OnTop(IF up[n] = None THEN BaseConfig.slots ELSE f[up[n]], mine[n])]
      <4> SUFFICES ASSUME NEW n \in 0 .. 0
                   PROVE  OnTop(BaseConfig.slots, mine[n])
                            = OnTop(IF up[n] = None THEN BaseConfig.slots ELSE f[up[n]], mine[n])
        OBVIOUS
      <4> QED
        BY <2>1, <3>1
    <3> HIDE DEF f
    <3> QED
      BY <3>2 DEF LevelsUpTo
  <2> QED
    BY <2>2
<1>6. m - 1 \in Nodes /\ m - 1 \notin T
  BY <1>3, <1>4, <1>5, NodesAre
<1>7. PICK f : LevelsUpTo(f, up, mine, m - 1)
  BY <1>6
<1> DEFINE At(h, n) == OnTop(IF up[n] = None THEN BaseConfig.slots ELSE h[up[n]], mine[n])
           g == [n \in 0 .. m |-> IF n = m THEN At(f, m) ELSE f[n]]
<1>8. \A n \in 0 .. m : up[n] # None => up[n] \in 0 .. m - 1 /\ up[n] \in 0 .. m /\ up[n] < n
  BY <1>4, NodesAre DEF Climbs
<1>9. \A n \in 0 .. m - 1 : f[n] = At(f, n)
  BY <1>7 DEF LevelsUpTo
<1>10. \A n \in 0 .. m - 1 : n \in 0 .. m /\ n # m
  BY <1>4
<1>11. \A n \in 0 .. m - 1 : g[n] = f[n]
  BY <1>10
<1>12. \A n \in 0 .. m : up[n] # None => g[up[n]] = f[up[n]]
  BY <1>8, <1>11
<1>13. \A n \in 0 .. m : At(g, n) = At(f, n)
  BY <1>12
<1>14. \A n \in 0 .. m : g[n] = At(g, n)
  <2> TAKE n \in 0 .. m
  <2>1. CASE n = m
    BY <2>1, <1>13
  <2>2. CASE n # m
    <3>1. n \in 0 .. m - 1
      BY <2>2, <1>4
    <3> QED
      BY <3>1, <1>9, <1>11, <1>13
  <2> QED
    BY <2>1, <2>2
<1>15. g = [n \in 0 .. m |-> g[n]]
  OBVIOUS
<1> HIDE DEF g
<1>16. LevelsUpTo(g, up, mine, m)
  BY <1>14, <1>15 DEF LevelsUpTo
<1> QED
  BY <1>3, <1>16

LEMMA LevelsDef ==
  ASSUME NEW up, Climbs(up), NEW mine, NEW n \in Nodes
  PROVE  LevelsOf(up, mine)[n] = OnTop(Under(up, mine, n), mine[n])
<1>1. \E f : LevelsUpTo(f, up, mine, LastNode)
  <2>1. LastNode \in Nodes
    BY NodesAre
  <2>2. \A k \in Nodes : \E f : LevelsUpTo(f, up, mine, k)
    BY LevelsExist
  <2> QED
    BY <2>1, <2>2
<1>2. LevelsUpTo(LevelsOf(up, mine), up, mine, LastNode)
  BY <1>1 DEF LevelsOf
<1>3. n \in 0 .. LastNode
  BY NodesAre
<1> QED
  BY <1>2, <1>3 DEF LevelsUpTo, Under

Values(mine) == mine \in [Nodes -> Int]

LEMMA LevelsTrue ==
  ASSUME NEW up, Climbs(up), NEW mine, Values(mine)
  PROVE  \A n \in Nodes : IsLevels(LevelsOf(up, mine)[n]) /\ IsLevels(Under(up, mine, n))
<1> DEFINE T == {m \in Nodes : ~ IsLevels(LevelsOf(up, mine)[m])}
<1>1. T = {}
  <2> SUFFICES ASSUME T # {} PROVE FALSE
    OBVIOUS
  <2>1. PICK m \in T : \A y \in T : m <= y
    <3>1. T \subseteq Nat
      BY NodesAre
    <3> HIDE DEF T
    <3> QED
      BY <3>1, LeastOf
  <2>2. m \in Nodes /\ m \in Nat
    BY NodesAre
  <2>3. up[m] # None => up[m] \in Nodes /\ up[m] \in Nat /\ up[m] < m
    BY <2>2, NodesAre DEF Climbs
  <2>4. up[m] # None => up[m] \notin T
    BY <2>1, <2>2, <2>3
  <2>5. IsLevels(Under(up, mine, m))
    BY <2>3, <2>4, BaseLevels DEF Under
  <2>6. mine[m] \in Int
    BY <2>2 DEF Values
  <2>7. LevelsOf(up, mine)[m] = OnTop(Under(up, mine, m), mine[m])
    BY <2>2, LevelsDef
  <2>8. IsLevels(OnTop(Under(up, mine, m), mine[m]))
    BY <2>5, <2>6, OnTopLevels
  <2> QED
    BY <2>1, <2>7, <2>8
<1>2. \A n \in Nodes : up[n] # None => up[n] \in Nodes
  BY NodesAre DEF Climbs
<1> QED
  BY <1>1, <1>2, BaseLevels DEF Under

\* What is above a node decides its levels: they are the same where nodes closed under parents have
\* the same parents and values.
LEMMA LevelsFrame ==
  ASSUME NEW up, Climbs(up), NEW mine, NEW up2, Climbs(up2), NEW mine2, NEW K, K \subseteq Nodes,
         \A n \in K : up2[n] = up[n] /\ mine2[n] = mine[n] /\ (up[n] # None => up[n] \in K)
  PROVE  \A n \in K : /\ LevelsOf(up2, mine2)[n] = LevelsOf(up, mine)[n]
                      /\ Under(up2, mine2, n) = Under(up, mine, n)
<1> DEFINE T == {m \in K : LevelsOf(up2, mine2)[m] # LevelsOf(up, mine)[m]}
<1>1. T = {}
  <2> SUFFICES ASSUME T # {} PROVE FALSE
    OBVIOUS
  <2>1. PICK m \in T : \A y \in T : m <= y
    <3>1. T \subseteq Nat
      BY NodesAre
    <3> HIDE DEF T
    <3> QED
      BY <3>1, LeastOf
  <2>2. m \in K /\ m \in Nodes /\ m \in Nat
    BY NodesAre
  <2>3. up[m] # None => up[m] \in K /\ up[m] \in Nat /\ up[m] < m
    BY <2>2, NodesAre DEF Climbs
  <2>4. up[m] # None => up[m] \notin T
    BY <2>1, <2>2, <2>3
  <2>5. Under(up2, mine2, m) = Under(up, mine, m)
    BY <2>2, <2>3, <2>4 DEF Under
  <2> QED
    BY <2>1, <2>2, <2>5, LevelsDef
<1> QED
  BY <1>1 DEF Under

\* How deep a node is, and the value that holds for it, can be read off its levels.
DepthEq(f) == f = [n \in Nodes |-> IF parent[n] = None THEN 0 ELSE 1 + f[parent[n]]]
EffectiveEq(f) ==
    f = [n \in Nodes |-> IF own[n] # None THEN own[n]
                         ELSE IF parent[n] = None THEN BaseValue ELSE f[parent[n]]]
Levels == LevelsOf(parent, own)
Above(n) == Under(parent, own, n)

LEMMA LevelsHave ==
  ASSUME Climbs(parent), Values(own), NEW n \in Nodes
  PROVE  /\ Len(Levels[n]) \in Nat /\ Last(Levels[n]).value \in Int
         /\ parent[n] # None => parent[n] \in Nodes /\ parent[n] \in Nat /\ parent[n] < n
         /\ Len(Levels[n]) = IF parent[n] = None THEN 3 ELSE Len(Levels[parent[n]]) + 1
         /\ Last(Levels[n]).value = IF own[n] # None THEN own[n]
                                    ELSE IF parent[n] = None THEN BaseValue
                                    ELSE Last(Levels[parent[n]]).value
<1>1. IsLevels(Levels[n]) /\ IsLevels(Above(n))
  BY LevelsTrue DEF Levels, Above
<1>2. Levels[n] = OnTop(Above(n), own[n])
  BY LevelsDef DEF Levels, Above
<1>3. own[n] \in Int
  BY DEF Values
<1>4. /\ Len(Levels[n]) = Len(Above(n)) + 1
      /\ Last(Levels[n]).value = IF own[n] # None THEN own[n] ELSE Last(Above(n)).value
  <2>1. PICK a, l, v : a = Above(n) /\ l = Levels[n] /\ v = own[n]
    OBVIOUS
  <2>2. IsLevels(a) /\ v \in Int /\ l = OnTop(a, v)
    BY <2>1, <1>1, <1>2, <1>3
  <2>3. /\ Len(OnTop(a, v)) = Len(a) + 1
        /\ Last(OnTop(a, v)).value = IF v # None THEN v ELSE Last(a).value
    BY <2>2, OnTopLevels
  <2> QED
    BY <2>1, <2>2, <2>3
<1>5. Above(n) = IF parent[n] = None THEN BaseConfig.slots ELSE Levels[parent[n]]
  BY DEF Above, Under, Levels
<1>6. Len(Levels[n]) \in Nat /\ Last(Levels[n]).value \in Int
  BY <1>1, LevelsFacts
<1>7. parent[n] # None => parent[n] \in Nodes /\ parent[n] \in Nat /\ parent[n] < n
  BY NodesAre DEF Climbs
<1> HIDE DEF Levels, Above
<1>8. Len(Levels[n]) = IF parent[n] = None THEN 3 ELSE Len(Levels[parent[n]]) + 1
  <2>1. CASE parent[n] = None
    <3>1. Len(Above(n)) = 2
      BY <2>1, <1>5, BaseLevels
    <3> QED
      BY <3>1, <2>1, <1>4
  <2>2. CASE parent[n] # None
    BY <2>2, <1>4, <1>5
  <2> QED
    BY <2>1, <2>2
<1>9. Last(Levels[n]).value = IF own[n] # None THEN own[n]
                              ELSE IF parent[n] = None THEN BaseValue
                              ELSE Last(Levels[parent[n]]).value
  BY <1>4, <1>5, BaseLevels
<1> QED
  BY <1>6, <1>7, <1>8, <1>9

LEMMA DepthIs ==
  ASSUME Climbs(parent), Values(own)
  PROVE  \A n \in Nodes : Depth[n] = Len(Levels[n]) - 3
<1> DEFINE g == [n \in Nodes |-> Len(Levels[n]) - 3]
           T == {m \in Nodes : Depth[m] # Len(Levels[m]) - 3}
<1>1. DepthEq(g)
  <2>1. ASSUME NEW n \in Nodes PROVE g[n] = IF parent[n] = None THEN 0 ELSE 1 + g[parent[n]]
    <3>1. parent[n] # None => parent[n] \in Nodes /\ Len(Levels[parent[n]]) \in Nat
      BY LevelsHave
    <3> QED
      BY <3>1, LevelsHave
  <2>2. g = [n \in Nodes |-> g[n]]
    OBVIOUS
  <2> HIDE DEF g
  <2> QED
    BY <2>1, <2>2 DEF DepthEq
<1>2. DepthEq(Depth)
  <2>1. Depth = CHOOSE f : DepthEq(f)
    BY DEF Depth, DepthEq
  <2> HIDE DEF g
  <2> QED
    BY <1>1, <2>1
<1>3. T = {}
  <2> SUFFICES ASSUME T # {} PROVE FALSE
    OBVIOUS
  <2>1. PICK m \in T : \A y \in T : m <= y
    <3>1. T \subseteq Nat
      BY NodesAre
    <3> HIDE DEF T
    <3> QED
      BY <3>1, LeastOf
  <2>2. m \in Nodes /\ m \in Nat
    BY NodesAre
  <2>3. parent[m] # None => parent[m] \in Nodes /\ parent[m] \in Nat /\ parent[m] < m
    BY <2>2, LevelsHave
  <2>4. parent[m] # None => Depth[parent[m]] = Len(Levels[parent[m]]) - 3 /\ Len(Levels[parent[m]]) \in Nat
    BY <2>1, <2>2, <2>3, LevelsHave
  <2>5. Depth[m] = IF parent[m] = None THEN 0 ELSE 1 + Depth[parent[m]]
    BY <1>2, <2>2 DEF DepthEq
  <2>6. Len(Levels[m]) = IF parent[m] = None THEN 3 ELSE Len(Levels[parent[m]]) + 1
    BY <2>2, LevelsHave
  <2>7. Depth[m] = Len(Levels[m]) - 3
    BY <2>4, <2>5, <2>6
  <2> QED
    BY <2>1, <2>7
<1> QED
  BY <1>3

LEMMA EffectiveIs ==
  ASSUME Climbs(parent), Values(own)
  PROVE  \A n \in Nodes : Effective[n] = Last(Levels[n]).value
<1> DEFINE g == [n \in Nodes |-> Last(Levels[n]).value]
           T == {m \in Nodes : Effective[m] # Last(Levels[m]).value}
<1>1. EffectiveEq(g)
  <2>1. ASSUME NEW n \in Nodes
        PROVE  g[n] = IF own[n] # None THEN own[n]
                      ELSE IF parent[n] = None THEN BaseValue ELSE g[parent[n]]
    <3>1. parent[n] # None => parent[n] \in Nodes
      BY LevelsHave
    <3> QED
      BY <3>1, LevelsHave
  <2>2. g = [n \in Nodes |-> g[n]]
    OBVIOUS
  <2> HIDE DEF g
  <2> QED
    BY <2>1, <2>2 DEF EffectiveEq
<1>2. EffectiveEq(Effective)
  <2>1. Effective = CHOOSE f : EffectiveEq(f)
    BY DEF Effective, EffectiveEq
  <2> HIDE DEF g
  <2> QED
    BY <1>1, <2>1
<1>3. T = {}
  <2> SUFFICES ASSUME T # {} PROVE FALSE
    OBVIOUS
  <2>1. PICK m \in T : \A y \in T : m <= y
    <3>1. T \subseteq Nat
      BY NodesAre
    <3> HIDE DEF T
    <3> QED
      BY <3>1, LeastOf
  <2>2. m \in Nodes /\ m \in Nat
    BY NodesAre
  <2>3. parent[m] # None => parent[m] \in Nodes /\ parent[m] \in Nat /\ parent[m] < m
    BY <2>2, LevelsHave
  <2>4. parent[m] # None => Effective[parent[m]] = Last(Levels[parent[m]]).value
    BY <2>1, <2>2, <2>3
  <2>5. Effective[m] = IF own[m] # None THEN own[m]
                       ELSE IF parent[m] = None THEN BaseValue ELSE Effective[parent[m]]
    BY <1>2, <2>2 DEF EffectiveEq
  <2>6. Effective[m] = Last(Levels[m]).value
    BY <2>2, <2>4, <2>5, LevelsHave
  <2> QED
    BY <2>1, <2>6
<1> QED
  BY <1>3

-----------------------------------------------------------------------------
(* Which nodes lead to an entry.  Children have greater numbers.           *)

Descends ==
    /\ kids \in [Nodes -> Seq(Nodes)]
    /\ \A n \in Nodes : \A i \in DOMAIN kids[n] : kids[n][i] \in Nodes /\ kids[n][i] > n

ValidFrom(f, k) ==
    f = [n \in k .. LastNode |-> files[n] > 0 \/ \E i \in DOMAIN kids[n] : f[kids[n][i]]]

\* There is such a function for the last nodes, from j to the end.
ValidTo(j) == \E f : ValidFrom(f, LastNode - j)

LEMMA ValidExists ==
  ASSUME Descends
  PROVE  \A j \in Nodes : ValidTo(j)
<1> DEFINE T == {m \in Nodes : ~ ValidTo(m)}
<1>1. SUFFICES T = {}
  OBVIOUS
<1>2. SUFFICES ASSUME T # {} PROVE FALSE
  OBVIOUS
<1>3. PICK m \in T : \A y \in T : m <= y
  <2>1. T \subseteq Nat
    BY NodesAre
  <2> HIDE DEF T
  <2> QED
    BY <1>2, <2>1, LeastOf
<1>4. m \in Nodes /\ m \in Nat /\ LastNode \in Nat /\ Nodes = 0 .. LastNode /\ m <= LastNode
  BY NodesAre
<1>5. m = 0 \/ \E f : ValidFrom(f, LastNode - m + 1)
  <2>1. CASE m # 0
    <3>1. m - 1 \in Nodes /\ m - 1 \notin T /\ LastNode - (m - 1) = LastNode - m + 1
      BY <1>3, <1>4, <2>1
    <3>2. ValidTo(m - 1)
      BY <3>1
    <3>3. PICK f : ValidFrom(f, LastNode - (m - 1))
      BY <3>2 DEF ValidTo
    <3>4. LastNode - (m - 1) = LastNode - m + 1
      BY <3>1
    <3>5. ValidFrom(f, LastNode - m + 1)
      BY <3>3, <3>4
    <3> QED
      BY <3>5
  <2> QED
    BY <2>1
<1> DEFINE k == LastNode - m
<1>6. k \in Nodes /\ k \in Nat /\ k <= LastNode
  BY <1>4
<1>7. PICK f : \A n \in k + 1 .. LastNode : f[n] = (files[n] > 0 \/ \E i \in DOMAIN kids[n] : f[kids[n][i]])
  <2>1. CASE m = 0
    BY <2>1, <1>4
  <2>2. ASSUME NEW f, ValidFrom(f, k + 1)
        PROVE  \A n \in k + 1 .. LastNode : f[n] = (files[n] > 0 \/ \E i \in DOMAIN kids[n] : f[kids[n][i]])
    BY <2>2 DEF ValidFrom
  <2> QED
    BY <1>5, <2>1, <2>2
<1> HIDE DEF k
<1> DEFINE At(h, n) == files[n] > 0 \/ \E i \in DOMAIN kids[n] : h[kids[n][i]]
           g == [n \in k .. LastNode |-> IF n = k THEN At(f, k) ELSE f[n]]
<1>8. \A n \in k .. LastNode : \A i \in DOMAIN kids[n] : kids[n][i] \in k + 1 .. LastNode
  BY <1>4, <1>6 DEF Descends
<1>9. \A n \in k + 1 .. LastNode : n \in k .. LastNode /\ n # k
  BY <1>4, <1>6
<1>10. \A n \in k + 1 .. LastNode : g[n] = f[n]
  BY <1>9
<1>11. \A n \in k .. LastNode : \A i \in DOMAIN kids[n] : g[kids[n][i]] = f[kids[n][i]]
  BY <1>8, <1>10
<1>12. \A n \in k .. LastNode : At(g, n) = At(f, n)
  <2> SUFFICES ASSUME NEW n \in k .. LastNode
               PROVE  (\E i \in DOMAIN kids[n] : g[kids[n][i]]) = (\E i \in DOMAIN kids[n] : f[kids[n][i]])
    OBVIOUS
  <2> HIDE DEF g
  <2>1. \A i \in DOMAIN kids[n] : g[kids[n][i]] = f[kids[n][i]]
    BY <1>11
  <2> QED
    BY <2>1
<1>13. \A n \in k .. LastNode : g[n] = At(g, n)
  <2> TAKE n \in k .. LastNode
  <2>1. CASE n = k
    <3>1. g[n] = At(f, n)
      BY <2>1
    <3> QED
      BY <3>1, <1>12
  <2>2. CASE n # k
    <3>1. n \in k + 1 .. LastNode
      BY <2>2, <1>4, <1>6
    <3>2. g[n] = f[n] /\ f[n] = At(f, n)
      BY <3>1, <1>7, <1>10
    <3> QED
      BY <3>2, <1>12
  <2> QED
    BY <2>1, <2>2
<1>14. g = [n \in k .. LastNode |-> g[n]]
  OBVIOUS
<1> HIDE DEF g
<1>15. g = [n \in k .. LastNode |-> At(g, n)]
  BY <1>13, <1>14
<1>16. ValidFrom(g, k)
  BY <1>15 DEF ValidFrom
<1>17. ValidTo(m)
  <2>1. ValidFrom(g, LastNode - m)
    BY <1>16 DEF k
  <2> QED
    BY <2>1 DEF ValidTo
<1> QED
  BY <1>3, <1>17

LEMMA ValidDef ==
  ASSUME Descends, NEW n \in Nodes
  PROVE  Valid[n] = (files[n] > 0 \/ \E i \in DOMAIN kids[n] : Valid[kids[n][i]])
<1>1. \E f : ValidFrom(f, 0)
  <2>1. LastNode \in Nodes /\ LastNode - LastNode = 0
    BY NodesAre
  <2>2. ValidTo(LastNode)
    BY <2>1, ValidExists
  <2>3. \E f : ValidFrom(f, LastNode - LastNode)
    BY <2>2 DEF ValidTo
  <2> QED
    BY <2>1, <2>3
<1>2. Valid = CHOOSE f : ValidFrom(f, 0)
  BY NodesAre DEF Valid, ValidFrom
<1>3. ValidFrom(Valid, 0)
  BY <1>1, <1>2
<1> QED
  BY <1>3, NodesAre DEF ValidFrom

\* A set of nodes from which none leads to an entry.
Barren(S) == \A n \in S : files[n] = 0 /\ \A i \in DOMAIN kids[n] : kids[n][i] \in S

LEMMA BarrenIsInvalid ==
  ASSUME Descends, NEW S, S \subseteq Nodes, Barren(S)
  PROVE  \A n \in S : ~ play_tree_is_valid(n)
<1> DEFINE T == {m \in Nodes : LastNode - m \in S /\ Valid[LastNode - m]}
<1>1. T = {}
  <2> SUFFICES ASSUME T # {} PROVE FALSE
    OBVIOUS
  <2>1. PICK m \in T : \A y \in T : m <= y
    <3>1. T \subseteq Nat
      BY NodesAre
    <3> HIDE DEF T
    <3> QED
      BY <3>1, LeastOf
  <2> DEFINE n == LastNode - m
  <2>2. LastNode \in Nat /\ Nodes = 0 .. LastNode /\ m \in 0 .. LastNode
    BY NodesAre
  <2>3. n \in S /\ Valid[n] /\ n \in Nodes
    BY <2>1
  <2>4. files[n] = 0 /\ \A i \in DOMAIN kids[n] : kids[n][i] \in S
    BY <2>3 DEF Barren
  <2>5. Valid[n] = (files[n] > 0 \/ \E i \in DOMAIN kids[n] : Valid[kids[n][i]])
    BY <2>3, ValidDef
  <2>6. ~ files[n] > 0
    BY <2>4
  <2>7. PICK i \in DOMAIN kids[n] : Valid[kids[n][i]]
    BY <2>3, <2>5, <2>6
  <2>8. kids[n][i] \in S /\ kids[n][i] \in Nodes /\ kids[n][i] > n
    BY <2>3, <2>4, <2>7 DEF Descends
  <2>9. LastNode - kids[n][i] \in Nodes /\ LastNode - (LastNode - kids[n][i]) = kids[n][i] /\ LastNode - kids[n][i] < m
    BY <2>2, <2>8
  <2>10. LastNode - kids[n][i] \in T
    BY <2>7, <2>8, <2>9
  <2> QED
    BY <2>1, <2>2, <2>9, <2>10
<1>2. ASSUME NEW n \in S, Valid[n] PROVE FALSE
  <2>0. LastNode \in Nat /\ Nodes = 0 .. LastNode /\ n \in 0 .. LastNode
    BY NodesAre
  <2>1. LastNode - n \in Nodes /\ LastNode - (LastNode - n) = n
    BY <2>0
  <2> QED
    BY <1>1, <1>2, <2>1
<1> QED
  BY <1>2 DEF play_tree_is_valid

-----------------------------------------------------------------------------
(* The inductive invariant, for a tree that is not shuffled.               *)

Standing == pc \in {"step", "up", "down", "returned", "source", "playing"}

IterOf == [tree : Nodes \cup {None}, loop : Int, stack : Seq(Int), entry_pushed : {0, 1},
           mode : {"normal", "rnd"}, file : Int]

TreeTypes ==
    /\ Climbs(parent) /\ Values(own)
    /\ kids \in [Nodes -> Seq(Nodes)] /\ files \in [Nodes -> Nat] /\ loops \in [Nodes -> Int]
    /\ fresh \in Size .. Size + Spare /\ byAlias = {}

IterTypes == iter \in IterOf /\ saved \in IterOf /\ touched \in {0, 1} /\ d \in Int /\ old \in Int

\* Entries have no children, a child knows its parent and is there once, and nodes that are not in
\* use are bare.
TreeInv ==
    /\ \A n \in Nodes : parent[n] # None => n < fresh /\ files[parent[n]] = 0
    /\ \A p \in Nodes : \A i \in DOMAIN kids[p] : parent[kids[p][i]] = p
    /\ \A p \in Nodes : \A i, j \in DOMAIN kids[p] : kids[p][i] = kids[p][j] => i = j
    /\ \A n \in Nodes : n >= fresh => kids[n] = <<>> /\ files[n] = 0
    /\ files[Root] = 0

Linked(n) == parent[n] # None /\ \E i \in DOMAIN kids[parent[n]] : kids[parent[n]][i] = n

\* The nodes that make up the tree: what was freed or removed is not among them.
Whole(S) ==
    /\ S \subseteq Nodes /\ Root \in S
    /\ \A n \in S : n < fresh /\ \A i \in DOMAIN kids[n] : kids[n][i] \in S
    /\ \A n \in S : n = Root \/ (Linked(n) /\ parent[n] \in S)

Stands(it, S) == it.tree \in S /\ Len(it.stack) = Len(Levels[it.tree]) - 3

PlaceInv(S) ==
    /\ Standing => Stands(iter, S)
    /\ Trying => /\ Stands(saved, S) /\ files[saved.tree] > 0
                 /\ saved.entry_pushed = 1 /\ saved.file # -1
    /\ Standing => (Trying <=> then \in {"try", "tryup"})
    /\ then \in {"list", "bad", "badup"} /\ Standing => old \in S /\ files[old] > 0
    /\ then = "unwind" /\ old = Root /\ Standing => fresh \in Nodes

EntryInv ==
    /\ pc \in {"source", "playing", "idle"} => ~Trying
    /\ pc \in {"source", "playing"} => then = "none"
    /\ pc = "source" => (files[iter.tree] > 0 => iter.entry_pushed = 1)
    /\ pc = "playing" => files[iter.tree] > 0 /\ iter.entry_pushed = 1 /\ iter.file # -1
    /\ Standing /\ ~Trying /\ iter.entry_pushed = 0 => iter.file = -1
    /\ pc = "up" /\ ~Trying /\ iter.entry_pushed = 1 => files[iter.tree] > 0
    /\ pc = "down" => kids[iter.tree] # <<>> /\ (~Trying => iter.entry_pushed = 0)

ResultInv ==
    pc = "returned" =>
       /\ res \in {"ENTRY", "NODE", "END", "ERROR"}
       /\ res = "ENTRY" => files[iter.tree] > 0
       /\ ~Trying => /\ iter.entry_pushed = IF res = "ENTRY" THEN 1 ELSE 0
                     /\ iter.file = -1
       /\ res = "NODE" => then = "unwind"
       /\ res = "END" => iter.tree = Root

\* From the head of a new tree the player goes on with what is there.
HeadInv ==
    then = "head" /\ Standing =>
       /\ d = 0 /\ pc \in {"step", "down", "returned"}
       /\ pc = "returned" /\ res # "ENTRY" => files[iter.tree] = 0

\* A group without entries is left in the tree: the iterator may stop inside it.
Dead(S) == S # {} /\ S \subseteq 1 .. fresh - 1 /\ Barren(S)
Lost == \E S \in SUBSET Nodes : Dead(S)

ErrorInv == pc = "returned" /\ res = "ERROR" /\ ~Trying => iter.tree = Root \/ Lost

\* The levels that are there for an iterator: that of the entry, if it was pushed.
Home(it) == IF it.entry_pushed = 1 THEN Levels[it.tree] ELSE Above(it.tree)
Held == IF Trying THEN saved ELSE iter

ConfigHeld ==
    /\ config = ChangedTo(Home(Held), config.value)
    /\ touched = 0 \/ Held.file = -1 => config.value = Last(Home(Held)).value

ConfigInv ==
    /\ Standing => ConfigHeld
    /\ pc = "idle" => config = BaseConfig

Control(S) ==
    /\ IterTypes /\ PlaceInv(S) /\ EntryInv /\ ResultInv /\ HeadInv /\ ErrorInv
    /\ Lost \/ ConfigInv

Inv(S) == TreeTypes /\ TreeInv /\ Whole(S) /\ Control(S)
PlayTreeInv == rnd = {} => \E S \in SUBSET Nodes : Inv(S)

-----------------------------------------------------------------------------
(* What follows from it.                                                   *)

\* The root is below the levels of the base, whatever the tree.
LEMMA RootFactsAre ==
  ASSUME NEW up, Climbs(up), NEW mine, Values(mine)
  PROVE  /\ up[Root] = None /\ Under(up, mine, Root) = BaseConfig.slots
         /\ Len(LevelsOf(up, mine)[Root]) = 3
<1>1. up[Root] = None /\ Root \in Nodes /\ mine[Root] \in Int
  BY NodesAre DEF Climbs, Values
<1>2. Under(up, mine, Root) = BaseConfig.slots
  BY <1>1 DEF Under
<1>3. LevelsOf(up, mine)[Root] = OnTop(BaseConfig.slots, mine[Root])
  BY <1>1, <1>2, LevelsDef
<1>4. Len(OnTop(BaseConfig.slots, mine[Root])) = 2 + 1
  BY <1>1, BaseLevels, OnTopLevels
<1> QED
  BY <1>1, <1>2, <1>3, <1>4

LEMMA RootFacts ==
  ASSUME Climbs(parent), Values(own)
  PROVE  /\ parent[Root] = None /\ Above(Root) = BaseConfig.slots
         /\ Len(Levels[Root]) = 3
  BY RootFactsAre DEF Above, Levels

LEMMA DescendsIs ==
  ASSUME TreeTypes, TreeInv
  PROVE  Descends /\ \A n \in Nodes : \A i \in DOMAIN kids[n] : kids[n][i] < fresh
<1>1. kids \in [Nodes -> Seq(Nodes)]
  BY DEF TreeTypes
<1> SUFFICES ASSUME NEW n \in Nodes, NEW i \in DOMAIN kids[n]
             PROVE  kids[n][i] \in Nodes /\ kids[n][i] > n /\ kids[n][i] < fresh
  BY <1>1 DEF Descends
<1>2. kids[n] \in Seq(Nodes)
  BY <1>1
<1>3. kids[n][i] \in Nodes
  BY <1>2
<1>4. parent[kids[n][i]] = n /\ n # None
  BY NodesAre DEF TreeInv
<1>5. n < kids[n][i]
  BY <1>3, <1>4 DEF TreeTypes, Climbs
<1>6. kids[n][i] < fresh
  BY <1>3, <1>4 DEF TreeInv
<1> QED
  BY <1>3, <1>5, <1>6, NodesAre

\* The siblings of a node of the tree, itself among them, have the same levels above them.
LEMMA SiblingsAre ==
  ASSUME TreeTypes, TreeInv, NEW S, Whole(S), NEW t \in S
  PROVE  /\ Siblings(t) \in Seq(Nodes) /\ Len(Siblings(t)) \in Nat /\ Len(Siblings(t)) > 0
         /\ DOMAIN Siblings(t) = 1 .. Len(Siblings(t))
         /\ PlaceOf(t) \in DOMAIN Siblings(t) /\ Siblings(t)[PlaceOf(t)] = t
         /\ \A i \in DOMAIN Siblings(t) :
              Siblings(t)[i] \in S /\ parent[Siblings(t)[i]] = parent[t]
<1>1. t \in Nodes /\ (parent[t] # None => parent[t] \in Nodes)
  BY DEF Whole, TreeTypes, Climbs
<1>2. kids \in [Nodes -> Seq(Nodes)]
  BY DEF TreeTypes
<1>3. Siblings(t) \in Seq(Nodes)
  BY <1>1, <1>2 DEF Siblings
<1>4. \E i \in DOMAIN Siblings(t) : Siblings(t)[i] = t
  <2>1. CASE parent[t] = None
    BY <2>1 DEF Siblings
  <2>2. CASE parent[t] # None
    <3>1. t # Root
      BY <2>2, RootFacts DEF TreeTypes
    <3> QED
      BY <2>2, <3>1 DEF Siblings, Whole, Linked
  <2> QED
    BY <2>1, <2>2
<1>5. PlaceOf(t) \in DOMAIN Siblings(t) /\ Siblings(t)[PlaceOf(t)] = t
  BY <1>4 DEF PlaceOf
<1>6. Len(Siblings(t)) \in Nat /\ DOMAIN Siblings(t) = 1 .. Len(Siblings(t))
  BY <1>3, LenProperties
<1>7. Len(Siblings(t)) > 0
  BY <1>5, <1>6
<1>8. ASSUME NEW i \in DOMAIN Siblings(t)
      PROVE  Siblings(t)[i] \in S /\ parent[Siblings(t)[i]] = parent[t]
  <2>1. CASE parent[t] = None
    <3>1. Siblings(t) = <<t>>
      BY <2>1 DEF Siblings
    <3>2. i = 1
      BY <3>1
    <3> QED
      BY <3>1, <3>2
  <2>2. CASE parent[t] # None
    <3>1. Siblings(t) = kids[parent[t]] /\ parent[t] \in Nodes
      BY <2>2, <1>1 DEF Siblings
    <3>2. parent[t] \in S
      BY <2>2, RootFacts DEF TreeTypes, Whole
    <3> QED
      BY <3>1, <3>2 DEF TreeInv, Whole
  <2> QED
    BY <2>1, <2>2
<1> QED
  BY <1>3, <1>5, <1>6, <1>7, <1>8

LEMMA SameAbove ==
  ASSUME NEW n, NEW m, parent[n] = parent[m]
  PROVE  Above(n) = Above(m)
  BY DEF Above, Under

LEMMA LevelsOver ==
  ASSUME TreeTypes, NEW n \in Nodes
  PROVE  /\ IsLevels(Levels[n]) /\ IsLevels(Above(n)) /\ own[n] \in Int
         /\ Levels[n] = OnTop(Above(n), own[n])
         /\ Len(Levels[n]) = Len(Above(n)) + 1 /\ Len(Above(n)) \in Nat
         /\ parent[n] # None => Above(n) = Levels[parent[n]] /\ parent[n] \in Nodes
<1>1. IsLevels(Levels[n]) /\ IsLevels(Above(n)) /\ Levels[n] = OnTop(Above(n), own[n])
  BY LevelsTrue, LevelsDef DEF TreeTypes, Levels, Above
<1>2. own[n] \in Int
  BY DEF TreeTypes, Values
<1>3. parent[n] # None => Above(n) = Levels[parent[n]] /\ parent[n] \in Nodes
  BY DEF Above, Under, Levels, TreeTypes, Climbs
<1> HIDE DEF Levels, Above
<1>4. Len(Levels[n]) = Len(Above(n)) + 1
  BY <1>1, <1>2, OnTopLevels
<1>5. Len(Above(n)) \in Nat
  BY <1>1, LevelsFacts
<1> QED
  BY <1>1, <1>2, <1>3, <1>4, <1>5

\* Popping the level of a node leaves those above it; pushing it adds it.
LEMMA PopNode ==
  ASSUME TreeTypes, NEW n \in Nodes, NEW w
  PROVE  m_config_pop(ChangedTo(Levels[n], w)) = ConfigAt(Above(n))
<1>1. IsLevels(Above(n)) /\ own[n] \in Int /\ Levels[n] = OnTop(Above(n), own[n])
  BY LevelsOver
<1> QED
  BY <1>1, PopRestores

LEMMA PushNode ==
  ASSUME TreeTypes, NEW n \in Nodes
  PROVE  play_tree_iter_push_params(ConfigAt(Above(n)), n) = ConfigAt(Levels[n])
<1>1. IsLevels(Above(n)) /\ own[n] \in Int /\ Levels[n] = OnTop(Above(n), own[n])
  BY LevelsOver
<1>2. n \notin byAlias
  BY DEF TreeTypes
<1> QED
  BY <1>1, <1>2, PushAppends

LEMMA ConfigIs ==
  ASSUME NEW s, NEW c
  PROVE  /\ c = ChangedTo(s, c.value) /\ c.value = Last(s).value => c = ConfigAt(s)
         /\ c = ConfigAt(s) => c = ChangedTo(s, c.value) /\ c.value = Last(s).value
  BY DEF ConfigAt, ChangedTo

-----------------------------------------------------------------------------
(* Steps that leave the tree as it is.                                     *)

LEMMA SameTree ==
  ASSUME NEW S, TreeTypes, TreeInv, Whole(S), UNCHANGED tree
  PROVE  /\ TreeTypes' /\ TreeInv' /\ Whole(S)' /\ Levels' = Levels /\ (Lost' = Lost)
         /\ \A n \in Nodes : Above(n)' = Above(n)
<1>1. TreeTypes'
  BY DEF TreeTypes, Climbs, Values, tree
<1>2. TreeInv'
  BY DEF TreeInv, tree
<1>3. Whole(S)'
  BY DEF Whole, Linked, tree
<1>4. Levels' = Levels
  BY DEF Levels, tree
<1>5. Lost' = Lost
  BY DEF Lost, Dead, Barren, tree
<1>6. \A n \in Nodes : Above(n)' = Above(n)
  BY DEF Above, tree
<1> QED
  BY <1>1, <1>2, <1>3, <1>4, <1>5, <1>6

LEMMA InvParts ==
  ASSUME NEW S, Inv(S)
  PROVE  /\ TreeTypes /\ TreeInv /\ Whole(S) /\ Control(S) /\ S \subseteq Nodes
         /\ IterTypes /\ PlaceInv(S) /\ EntryInv /\ ResultInv /\ HeadInv /\ ErrorInv
         /\ Lost \/ ConfigInv
         /\ (Standing => iter.tree \in S /\ iter.tree \in Nodes)
         /\ (Trying => saved.tree \in S /\ saved.tree \in Nodes)
  BY DEF Inv, Control, Whole, PlaceInv, Stands

LEMMA SameHome ==
  ASSUME NEW S, Inv(S), UNCHANGED tree, NEW it, it.tree \in Nodes
  PROVE  /\ Home(it)' = Home(it)
         /\ Stands(it, S) => Stands(it, S)'
<1>1. Levels' = Levels /\ Above(it.tree)' = Above(it.tree)
  BY SameTree, InvParts
<1> QED
  BY <1>1 DEF Home, Stands

LEMMA IterIs ==
  ASSUME iter \in IterOf, rnd = {}, NEW n \in Nodes, NEW l \in Int
  PROVE  /\ Iter(n, l) \in IterOf /\ Iter(n, l).tree = n /\ Iter(n, l).stack = iter.stack
         /\ Iter(n, l).file = -1
         /\ Iter(n, l).entry_pushed = IF Trying THEN iter.entry_pushed ELSE 0
         /\ Mode = "normal"
<1>1. Mode = "normal"
  BY DEF Mode
<1> DEFINE e == IF Trying THEN iter.entry_pushed ELSE 0
           it == [iter EXCEPT !.tree = n, !.loop = l, !.mode = "normal", !.file = -1, !.entry_pushed = e]
<1>2. Iter(n, l) = it
  BY <1>1 DEF Iter
<1>3. e \in {0, 1}
  BY DEF IterOf
<1> HIDE DEF e
<1>6. it \in IterOf /\ it.tree = n /\ it.stack = iter.stack /\ it.file = -1 /\ it.entry_pushed = e
  <2> DEFINE i1 == [iter EXCEPT !.tree = n]
             i2 == [i1 EXCEPT !.loop = l]
             i3 == [i2 EXCEPT !.mode = "normal"]
             i4 == [i3 EXCEPT !.file = -1]
             i5 == [i4 EXCEPT !.entry_pushed = e]
  <2>1. i1 \in IterOf /\ i1.tree = n /\ i1.stack = iter.stack
    BY DEF IterOf
  <2> HIDE DEF i1
  <2>2. i2 \in IterOf /\ i2.tree = n /\ i2.stack = iter.stack
    BY <2>1 DEF IterOf
  <2> HIDE DEF i2
  <2>3. i3 \in IterOf /\ i3.tree = n /\ i3.stack = iter.stack
    BY <2>2 DEF IterOf
  <2> HIDE DEF i3
  <2>4. i4 \in IterOf /\ i4.tree = n /\ i4.stack = iter.stack /\ i4.file = -1
    BY <2>3 DEF IterOf
  <2> HIDE DEF i4
  <2>5. i5 \in IterOf /\ i5.tree = n /\ i5.stack = iter.stack /\ i5.file = -1 /\ i5.entry_pushed = e
    BY <2>4, <1>3 DEF IterOf
  <2>6. it = i5
    BY DEF i1, i2, i3, i4
  <2> QED
    BY <2>5, <2>6
<1> QED
  BY <1>1, <1>2, <1>6 DEF e

\* Once the head of the function has popped the entry, the levels above it are left.
LEMMA PoppedIs ==
  ASSUME NEW S, Inv(S), pc = "step", ConfigInv
  PROVE  IF Trying THEN Popped = config ELSE Popped = ConfigAt(Above(iter.tree))
<1>1. CASE Trying
  BY <1>1 DEF Popped
<1>2. CASE ~ Trying
  <2>1. Standing /\ Held = iter /\ iter.tree \in Nodes /\ iter.entry_pushed \in {0, 1}
    BY <1>2, InvParts DEF Standing, Held, IterTypes, IterOf
  <2>2. config = ChangedTo(Home(iter), config.value)
    BY <2>1 DEF ConfigInv, ConfigHeld
  <2>3. CASE iter.entry_pushed = 1
    <3>1. config = ChangedTo(Levels[iter.tree], config.value)
      BY <2>2, <2>3 DEF Home
    <3>2. m_config_pop(config) = ConfigAt(Above(iter.tree))
      BY <3>1, <2>1, InvParts, PopNode
    <3> QED
      BY <3>2, <2>3, <1>2 DEF Popped
  <2>4. CASE iter.entry_pushed = 0
    <3>1. iter.file = -1
      BY <2>1, <2>4, <1>2, InvParts DEF EntryInv
    <3>2. config = ChangedTo(Above(iter.tree), config.value) /\ config.value = Last(Above(iter.tree)).value
      BY <2>1, <2>2, <2>4, <3>1 DEF Home, ConfigInv, ConfigHeld
    <3>3. config = ConfigAt(Above(iter.tree))
      BY <3>2, ConfigIs
    <3> QED
      BY <3>3, <2>4, <1>2 DEF Popped
  <2> QED
    BY <2>1, <2>3, <2>4
<1> QED
  BY <1>1, <1>2

\* After the head of the function: the iterator is at a sibling, the entry is popped.
LEMMA StepMoves ==
  ASSUME NEW S, Inv(S), rnd = {}, pc = "step",
         NEW n \in S, parent[n] = parent[iter.tree], NEW l \in Int,
         iter' = Iter(n, l), config' = Popped, UNCHANGED <<tree, saved, old, touched>>,
         d' \in Int, then' = then,
         \/ pc' = "step" /\ (then = "head" => d' = 0)
         \/ pc' = "up" /\ then # "head"
         \/ pc' = "down" /\ kids[n] # <<>> /\ (then = "head" => d' = 0)
         \/ pc' \in {"endless", "crashed"}
         \/ pc' = "returned" /\ res' = "NODE" /\ then = "unwind"
         \/ pc' = "returned" /\ res' = "ERROR" /\ files[n] = 0 /\ (n = Root \/ Lost) /\ d' = 0
  PROVE  Inv(S)'
<1>1. UNCHANGED tree /\ saved' = saved /\ old' = old /\ touched' = touched
  OBVIOUS
<1>2. /\ TreeTypes /\ TreeInv /\ Whole(S) /\ S \subseteq Nodes /\ IterTypes /\ PlaceInv(S)
      /\ EntryInv /\ HeadInv /\ iter.tree \in S /\ iter.tree \in Nodes
      /\ Standing /\ (Trying => saved.tree \in Nodes)
  BY InvParts DEF Standing
<1>3. TreeTypes' /\ TreeInv' /\ Whole(S)' /\ Lost' = Lost /\ Levels' = Levels
  BY <1>1, <1>2, SameTree
<1>4. n \in Nodes /\ Trying' = Trying
  BY <1>1, <1>2 DEF Trying
<1>5. /\ iter' \in IterOf /\ iter'.tree = n /\ iter'.stack = iter.stack /\ iter'.file = -1
      /\ ~ Trying => iter'.entry_pushed = 0
  BY <1>2, <1>4, IterIs DEF IterTypes
<1>6. Stands(iter, S)'
  <2>1. Len(iter.stack) = Len(Levels[iter.tree]) - 3
    BY <1>2 DEF PlaceInv, Stands
  <2>2. Above(n) = Above(iter.tree)
    BY SameAbove
  <2>3. Len(Levels[n]) = Len(Levels[iter.tree])
    BY <2>2, <1>2, <1>4, LevelsOver
  <2> QED
    BY <2>1, <2>3, <1>3, <1>5 DEF Stands
<1>7. Trying => Stands(saved, S)'
  BY <1>1, <1>2, SameHome DEF PlaceInv
<1>8. files' = files /\ kids' = kids /\ fresh' = fresh
  BY <1>1 DEF tree
<1>9. IterTypes'
  BY <1>1, <1>2, <1>5 DEF IterTypes
<1>10. PlaceInv(S)'
  <2>1. Standing' => Stands(iter, S)'
    BY <1>6
  <2>2. Trying' => /\ Stands(saved, S)' /\ files'[saved'.tree] > 0
                   /\ saved'.entry_pushed = 1 /\ saved'.file # -1
    BY <1>1, <1>2, <1>4, <1>7, <1>8 DEF PlaceInv
  <2>3. Trying' <=> then' \in {"try", "tryup"}
    BY <1>2, <1>4 DEF PlaceInv
  <2>4. then' \in {"list", "bad", "badup"} => old' \in S /\ files'[old'] > 0
    BY <1>1, <1>2, <1>8 DEF PlaceInv
  <2>5. then' = "unwind" /\ old' = Root => fresh' \in Nodes
    BY <1>1, <1>2, <1>8 DEF PlaceInv
  <2> QED
    BY <2>1, <2>2, <2>3, <2>4, <2>5 DEF PlaceInv
<1>11. EntryInv'
  BY <1>4, <1>5, <1>8 DEF EntryInv, Standing
<1>12. ResultInv'
  BY <1>4, <1>5, <1>8 DEF ResultInv
<1>13. HeadInv'
  BY <1>2, <1>5, <1>8 DEF HeadInv, Standing
<1>14. ErrorInv'
  BY <1>3, <1>4, <1>5 DEF ErrorInv
<1>15. ASSUME ConfigInv PROVE ConfigHeld'
  <2>1. CASE Trying
    <3>1. config' = config /\ ConfigHeld /\ Held = saved
      BY <2>1, <1>2, <1>15, PoppedIs DEF ConfigInv, Held
    <3>2. Held' = saved
      BY <2>1, <1>1, <1>4 DEF Held
    <3>3. Home(saved)' = Home(saved)
      BY <2>1, <1>1, <1>2, SameHome
    <3>4. Home(Held)' = Home(saved)
      BY <3>2, <3>3, <1>1 DEF Home
    <3> QED
      BY <3>1, <3>2, <3>4, <1>1 DEF ConfigHeld
  <2>2. CASE ~ Trying
    <3>1. config' = ConfigAt(Above(n))
      BY <2>2, <1>2, <1>15, PoppedIs, SameAbove
    <3>2. Held' = iter' /\ Above(n)' = Above(n)
      BY <2>2, <1>1, <1>2, <1>4, SameTree DEF Held
    <3>3. Home(Held)' = Above(n)
      BY <3>2, <1>5, <2>2 DEF Home
    <3> QED
      BY <3>1, <3>3, ConfigIs DEF ConfigHeld
  <2> QED
    BY <2>1, <2>2
<1>16. (Lost \/ ConfigInv)'
  <2>1. pc' # "idle"
    OBVIOUS
  <2> QED
    BY <2>1, <1>2, <1>3, <1>15, InvParts DEF ConfigInv
<1> QED
  BY <1>3, <1>9, <1>10, <1>11, <1>12, <1>13, <1>14, <1>16 DEF Inv, Control

-----------------------------------------------------------------------------
(* play_tree_iter_step                                                     *)

LEMMA StepFacts ==
  ASSUME NEW S, Inv(S), rnd = {}, pc = "step"
  PROVE  /\ Mode = "normal" /\ Remaining \in Int /\ (Remaining = 0 <=> d = 0)
         /\ d = 0 => ~ NoTarget
         /\ \A n : Target(n) => n \in S /\ n \in Nodes /\ parent[n] = parent[iter.tree]
         /\ \A n : Target(n) /\ d = 0 => n = iter.tree
<1>1. iter.tree \in S /\ d \in Int /\ TreeTypes /\ TreeInv /\ Whole(S) /\ S \subseteq Nodes
  BY InvParts DEF Standing, IterTypes
<1> DEFINE s == Siblings(iter.tree)
<1>2. /\ Len(s) \in Nat /\ Len(s) > 0 /\ DOMAIN s = 1 .. Len(s)
      /\ Place \in DOMAIN s /\ s[Place] = iter.tree
      /\ \A i \in DOMAIN s : s[i] \in S /\ parent[s[i]] = parent[iter.tree]
  BY <1>1, SiblingsAre DEF Place
<1>3. Mode = "normal"
  BY DEF Mode
<1>4. Place \in Nat /\ Place <= Len(s) /\ Place >= 1
  BY <1>2
<1>5. \A n : Target(n) => Place + d \in DOMAIN s /\ n = s[Place + d]
  BY <1>3 DEF Target
<1>6. NoTarget <=> Place + d \notin DOMAIN s
  BY <1>3 DEF NoTarget
<1>7. Remaining \in Int /\ (Remaining = 0 <=> d = 0)
  <2> DEFINE left == IF d > 0 THEN d - (Len(s) - Place + 1) ELSE d + Place
  <2>1. left \in Int
    BY <1>1, <1>2, <1>4
  <2>2. Remaining = IF d = 0 THEN d ELSE IF NoTarget /\ left # 0 THEN left ELSE IF d > 0 THEN 1 ELSE -1
    BY <1>3 DEF Remaining
  <2> HIDE DEF left
  <2> QED
    BY <1>1, <2>1, <2>2
<1> HIDE DEF s
<1>8. d = 0 => Place + d = Place
  BY <1>4
<1> QED
  BY <1>1, <1>2, <1>3, <1>5, <1>6, <1>7, <1>8

\* A node that leads to no entry is one of those that are left without entries.
LEMMA InvalidIsLost ==
  ASSUME TreeTypes, TreeInv, NEW n \in Nodes, n < fresh, ~ play_tree_is_valid(n)
  PROVE  files[n] = 0 /\ (n = Root \/ Lost)
<1> DEFINE D == {m \in 1 .. fresh - 1 : ~ Valid[m]}
<1>1. Descends /\ \A m \in Nodes : \A i \in DOMAIN kids[m] : kids[m][i] < fresh
  BY DescendsIs
<1>2. fresh \in Nat /\ 1 .. fresh - 1 \subseteq Nodes
  BY NodesAre DEF TreeTypes
<1>3. \A m \in Nodes : ~ Valid[m] => files[m] = 0 /\ \A i \in DOMAIN kids[m] : ~ Valid[kids[m][i]]
  <2> SUFFICES ASSUME NEW m \in Nodes, ~ Valid[m]
               PROVE  files[m] = 0 /\ \A i \in DOMAIN kids[m] : ~ Valid[kids[m][i]]
    OBVIOUS
  <2>1. Valid[m] = (files[m] > 0 \/ \E i \in DOMAIN kids[m] : Valid[kids[m][i]])
    BY <1>1, ValidDef
  <2>2. files[m] \in Nat
    BY DEF TreeTypes
  <2>3. ~ files[m] > 0
    BY <2>1
  <2>4. \A i \in DOMAIN kids[m] : ~ Valid[kids[m][i]]
    BY <2>1
  <2> QED
    BY <2>2, <2>3, <2>4
<1>4. ~ Valid[n]
  BY DEF play_tree_is_valid
<1>5. ASSUME n # Root PROVE Lost
  <2>1. n \in D
    BY <1>2, <1>4, <1>5, NodesAre
  <2>2. ASSUME NEW m \in D PROVE files[m] = 0 /\ \A i \in DOMAIN kids[m] : kids[m][i] \in D
    <3>1. m \in Nodes /\ m \in Nat /\ m >= 1 /\ ~ Valid[m]
      BY <1>2
    <3>2. \A i \in DOMAIN kids[m] : kids[m][i] \in Nodes /\ kids[m][i] > m /\ kids[m][i] < fresh
      BY <1>1, <3>1 DEF Descends
    <3>3. \A i \in DOMAIN kids[m] : kids[m][i] \in 1 .. fresh - 1
      BY <1>2, <3>1, <3>2, NodesAre
    <3> QED
      BY <1>3, <3>1, <3>3
  <2>3. Barren(D)
    BY <2>2 DEF Barren
  <2>4. D # {} /\ D \subseteq 1 .. fresh - 1 /\ D \in SUBSET Nodes
    BY <1>2, <2>1
  <2> HIDE DEF D
  <2> QED
    BY <2>3, <2>4 DEF Lost, Dead
<1> QED
  BY <1>3, <1>4, <1>5

LEMMA StepLoopKeeps ==
  ASSUME NEW S, Inv(S), rnd = {}, StepLoop
  PROVE  Inv(S)'
<1> DEFINE s == Siblings(iter.tree)
<1>1. pc = "step" /\ iter \in IterOf /\ d \in Int /\ iter.tree \in S /\ then' = then
  BY InvParts DEF StepLoop, Step, Standing, IterTypes, Call
<1>2. s \in Seq(Nodes) /\ Len(s) \in Nat /\ Len(s) > 0 /\ DOMAIN s = 1 .. Len(s)
  BY <1>1, InvParts, SiblingsAre
<1>3. \A i \in DOMAIN s : s[i] \in S /\ parent[s[i]] = parent[iter.tree]
  BY <1>1, InvParts, SiblingsAre
<1> HIDE DEF s
<1>4. Head(s) = s[1] /\ Last(s) = s[Len(s)]
  BY <1>2 DEF Last
<1>5. iter.loop \in Int
  BY <1>1 DEF IterOf
<1>6. pc' = "step" /\ d' = 0 /\ config' = Popped /\ UNCHANGED <<tree, saved, old, touched>>
  BY DEF StepLoop, Step, Call, history
<1>7. CASE Remaining > 0
  <2> DEFINE l == IF iter.loop > 0 THEN iter.loop - 1 ELSE iter.loop
  <2>1. l \in Int /\ iter' = Iter(Head(s), l)
    BY <1>5, <1>7 DEF StepLoop, s
  <2> HIDE DEF l
  <2>2. Head(s) \in S /\ parent[Head(s)] = parent[iter.tree]
    BY <1>2, <1>3, <1>4
  <2> QED
    BY <1>1, <1>6, <2>1, <2>2, StepMoves
<1>8. CASE ~ Remaining > 0
  <2> DEFINE l == IF iter.loop >= 0 THEN iter.loop + 1 ELSE iter.loop
  <2>1. l \in Int /\ iter' = Iter(Last(s), l)
    BY <1>5, <1>8 DEF StepLoop, s
  <2> HIDE DEF l
  <2>2. Last(s) \in S /\ parent[Last(s)] = parent[iter.tree]
    BY <1>2, <1>3, <1>4
  <2> QED
    BY <1>1, <1>6, <2>1, <2>2, StepMoves
<1> QED
  BY <1>7, <1>8

LEMMA StepUpKeeps ==
  ASSUME NEW S, Inv(S), rnd = {}, StepUp
  PROVE  Inv(S)'
<1>1. /\ pc = "step" /\ NoTarget /\ iter' = Iter(iter.tree, iter.loop) /\ config' = Popped
      /\ UNCHANGED <<tree, saved, old, touched>> /\ pc' = "up" /\ d' = Remaining /\ then' = then
  BY DEF StepUp, Step, Call, history
<1>2. iter.tree \in S /\ iter.loop \in Int
  BY <1>1, InvParts DEF Standing, IterTypes, IterOf
<1>3. Remaining \in Int /\ d # 0
  BY <1>1, StepFacts
<1>4. then # "head"
  BY <1>1, <1>3, InvParts DEF HeadInv, Standing
<1> QED
  BY <1>1, <1>2, <1>3, <1>4, StepMoves

LEMMA StepGroupKeeps ==
  ASSUME NEW S, Inv(S), rnd = {}, NEW n, StepGroup(n)
  PROVE  Inv(S)'
<1>1. /\ pc = "step" /\ Target(n) /\ iter' = Iter(n, iter.loop) /\ config' = Popped
      /\ UNCHANGED <<tree, saved, old, touched>> /\ kids[n] # <<>> /\ then' = then
      /\ IF then = "unwind" THEN pc' = "returned" /\ res' = "NODE" /\ d' = d
         ELSE pc' = "down" /\ d' = Remaining
  BY DEF StepGroup, Step, Call, Result, history
<1>2. iter.loop \in Int /\ d \in Int
  BY <1>1, InvParts DEF Standing, IterTypes, IterOf
<1>3. Remaining \in Int /\ n \in S /\ parent[n] = parent[iter.tree] /\ (d = 0 => Remaining = 0)
  BY <1>1, StepFacts
<1>4. then = "head" => d = 0
  BY <1>1, InvParts DEF HeadInv, Standing
<1>5. CASE then = "unwind"
  BY <1>1, <1>2, <1>3, <1>5, StepMoves
<1>6. CASE then # "unwind"
  BY <1>1, <1>2, <1>3, <1>4, <1>6, StepMoves
<1> QED
  BY <1>5, <1>6

LEMMA StepInvalidKeeps ==
  ASSUME NEW S, Inv(S), rnd = {}, NEW n, StepInvalid(n)
  PROVE  Inv(S)'
<1>1. /\ pc = "step" /\ Target(n) /\ iter' = Iter(iter.tree, iter.loop) /\ config' = Popped
      /\ UNCHANGED <<tree, saved, old, touched>> /\ ~ play_tree_is_valid(n) /\ then' = then
  BY DEF StepInvalid, Step, Call, Result, history
<1>2. iter.loop \in Int /\ d \in Int /\ iter.tree \in S
  BY <1>1, InvParts DEF Standing, IterTypes, IterOf
<1>3. Remaining \in Int /\ n \in Nodes /\ n \in S /\ (d = 0 <=> Remaining = 0) /\ (d = 0 => n = iter.tree)
  BY <1>1, StepFacts
<1>4. then = "head" => d = 0
  BY <1>1, InvParts DEF HeadInv, Standing
<1>5. CASE Remaining = 0
  <2>1. pc' = "returned" /\ res' = "ERROR" /\ d' = d /\ n = iter.tree
    BY <1>3, <1>5 DEF StepInvalid, Result
  <2>2. files[n] = 0 /\ (n = Root \/ Lost)
    BY <1>1, <1>3, InvalidIsLost, InvParts DEF Whole
  <2> QED
    BY <1>1, <1>2, <1>3, <1>5, <2>1, <2>2, StepMoves
<1>6. CASE Remaining # 0
  <2>1. (pc' = "endless" /\ d' = d) \/ (pc' = "step" /\ d' = Remaining)
    BY <1>6 DEF StepInvalid, Call
  <2> QED
    BY <1>1, <1>2, <1>3, <1>4, <1>6, <2>1, StepMoves
<1> QED
  BY <1>5, <1>6

LEMMA StepNoFilesKeeps ==
  ASSUME NEW S, Inv(S), rnd = {}, NEW n, StepNoFiles(n)
  PROVE  Inv(S)'
<1>1. /\ pc = "step" /\ Target(n) /\ iter' = Iter(n, iter.loop) /\ config' = Popped
      /\ UNCHANGED <<tree, saved, old, touched>> /\ pc' = "crashed" /\ d' = d /\ then' = then
  BY DEF StepNoFiles, Step, Call, history
<1>2. iter.loop \in Int /\ d \in Int
  BY <1>1, InvParts DEF Standing, IterTypes, IterOf
<1>3. n \in S /\ parent[n] = parent[iter.tree]
  BY <1>1, StepFacts
<1> QED
  BY <1>1, <1>2, <1>3, StepMoves

\* An entry is found: its level is pushed, unless the step is only tried.
LEMMA StepEntryKeeps ==
  ASSUME NEW S, Inv(S), rnd = {}, NEW n, StepEntry(n)
  PROVE  Inv(S)'
<1> DEFINE e == IF Trying THEN iter.entry_pushed ELSE 1
<1>1. /\ pc = "step" /\ Target(n) /\ files[n] > 0
      /\ iter' = [Iter(n, iter.loop) EXCEPT !.entry_pushed = e]
      /\ config' = IF Trying THEN config ELSE play_tree_iter_push_params(Popped, n)
      /\ UNCHANGED <<tree, saved, old, touched>>
      /\ pc' = "returned" /\ res' = "ENTRY" /\ d' = d /\ then' = then
  BY DEF StepEntry, Enter, Step, Result, history
<1>2. /\ TreeTypes /\ TreeInv /\ Whole(S) /\ S \subseteq Nodes /\ IterTypes /\ PlaceInv(S)
      /\ EntryInv /\ HeadInv /\ iter.tree \in S /\ iter.tree \in Nodes
      /\ Standing /\ (Trying => saved.tree \in Nodes)
  BY <1>1, InvParts DEF Standing
<1>3. UNCHANGED tree /\ saved' = saved /\ old' = old /\ touched' = touched
  BY <1>1
<1>4. TreeTypes' /\ TreeInv' /\ Whole(S)' /\ Lost' = Lost /\ Levels' = Levels
  BY <1>2, <1>3, SameTree
<1>5. n \in S /\ n \in Nodes /\ parent[n] = parent[iter.tree] /\ Trying' = Trying
  BY <1>1, <1>3, StepFacts DEF Trying
<1>6. /\ iter' \in IterOf /\ iter'.tree = n /\ iter'.stack = iter.stack /\ iter'.file = -1
      /\ iter'.entry_pushed = e
  <2> DEFINE it == Iter(n, iter.loop)
  <2>1. iter.loop \in Int /\ e \in {0, 1}
    BY <1>2 DEF IterTypes, IterOf
  <2>2. it \in IterOf /\ it.tree = n /\ it.stack = iter.stack /\ it.file = -1
    BY <1>2, <1>5, <2>1, IterIs DEF IterTypes
  <2> HIDE DEF it, e
  <2>3. iter' = [it EXCEPT !.entry_pushed = e]
    BY <1>1 DEF it
  <2> QED
    BY <2>1, <2>2, <2>3 DEF IterOf
<1>7. Stands(iter, S)'
  <2>1. Len(iter.stack) = Len(Levels[iter.tree]) - 3
    BY <1>2 DEF PlaceInv, Stands
  <2>2. Above(n) = Above(iter.tree)
    BY <1>5, SameAbove
  <2>3. Len(Levels[n]) = Len(Levels[iter.tree])
    BY <2>2, <1>2, <1>5, LevelsOver
  <2> QED
    BY <2>1, <2>3, <1>4, <1>5, <1>6 DEF Stands
<1>8. Trying => Stands(saved, S)'
  BY <1>2, <1>3, SameHome DEF PlaceInv
<1>9. files' = files /\ kids' = kids /\ fresh' = fresh
  BY <1>3 DEF tree
<1>10. IterTypes'
  BY <1>1, <1>2, <1>6 DEF IterTypes
<1>11. PlaceInv(S)'
  <2>1. Standing' => Stands(iter, S)'
    BY <1>7
  <2>2. Trying' => /\ Stands(saved, S)' /\ files'[saved'.tree] > 0
                   /\ saved'.entry_pushed = 1 /\ saved'.file # -1
    BY <1>2, <1>3, <1>5, <1>8, <1>9 DEF PlaceInv
  <2>3. Trying' <=> then' \in {"try", "tryup"}
    BY <1>1, <1>2, <1>5 DEF PlaceInv
  <2>4. then' \in {"list", "bad", "badup"} => old' \in S /\ files'[old'] > 0
    BY <1>1, <1>2, <1>9 DEF PlaceInv
  <2>5. then' = "unwind" /\ old' = Root => fresh' \in Nodes
    BY <1>1, <1>2, <1>9 DEF PlaceInv
  <2> QED
    BY <2>1, <2>2, <2>3, <2>4, <2>5 DEF PlaceInv
<1>12. EntryInv'
  BY <1>1, <1>5, <1>6 DEF EntryInv, Standing
<1>13. ResultInv'
  BY <1>1, <1>5, <1>6, <1>9 DEF ResultInv
<1>14. HeadInv'
  BY <1>1, <1>2 DEF HeadInv, Standing
<1>15. ErrorInv'
  BY <1>1 DEF ErrorInv
<1>16. ASSUME ConfigInv PROVE ConfigHeld'
  <2>1. CASE Trying
    <3>1. config' = config /\ ConfigHeld /\ Held = saved
      BY <2>1, <1>1, <1>2, <1>16 DEF ConfigInv, Held
    <3>2. Held' = saved
      BY <2>1, <1>3, <1>5 DEF Held
    <3>3. Home(saved)' = Home(saved)
      BY <2>1, <1>2, <1>3, SameHome
    <3>4. Home(Held)' = Home(saved)
      BY <3>2, <3>3, <1>3 DEF Home
    <3> QED
      BY <3>1, <3>2, <3>4, <1>3 DEF ConfigHeld
  <2>2. CASE ~ Trying
    <3>1. Popped = ConfigAt(Above(n))
      BY <2>2, <1>1, <1>5, <1>16, PoppedIs, SameAbove
    <3>2. config' = ConfigAt(Levels[n])
      BY <2>2, <3>1, <1>1, <1>2, <1>5, PushNode
    <3>3. Held' = iter'
      BY <2>2, <1>5 DEF Held
    <3>4. Home(Held)' = Levels[n]
      BY <3>3, <1>4, <1>6, <2>2 DEF Home
    <3> QED
      BY <3>2, <3>4, ConfigIs DEF ConfigHeld
  <2> QED
    BY <2>1, <2>2
<1>17. (Lost \/ ConfigInv)'
  BY <1>1, <1>2, <1>4, <1>16, InvParts DEF ConfigInv
<1> QED
  BY <1>4, <1>10, <1>11, <1>12, <1>13, <1>14, <1>15, <1>17 DEF Inv, Control

-----------------------------------------------------------------------------
(* play_tree_iter_up_step and play_tree_iter_down_step                     *)

\* What does not depend on where the iterator is.
LEMMA Unmoved ==
  ASSUME NEW S, Inv(S), UNCHANGED tree, saved' = saved
  PROVE  /\ TreeTypes' /\ TreeInv' /\ Whole(S)' /\ Lost' = Lost /\ Levels' = Levels
         /\ Trying' = Trying
         /\ Trying' => /\ Stands(saved, S)' /\ files'[saved'.tree] > 0
                       /\ saved'.entry_pushed = 1 /\ saved'.file # -1
         /\ files' = files /\ kids' = kids /\ fresh' = fresh
         /\ parent' = parent /\ own' = own
         /\ Trying => Home(saved)' = Home(saved)
<1>1. UNCHANGED tree /\ saved' = saved
  OBVIOUS
<1>2. TreeTypes /\ TreeInv /\ Whole(S) /\ PlaceInv(S) /\ (Trying => saved.tree \in Nodes)
  BY InvParts
<1>3. TreeTypes' /\ TreeInv' /\ Whole(S)' /\ Lost' = Lost /\ Levels' = Levels
  BY <1>1, <1>2, SameTree
<1>4. Trying' = Trying
  BY <1>1 DEF Trying
<1>5. files' = files /\ kids' = kids /\ fresh' = fresh /\ parent' = parent /\ own' = own
  BY <1>1 DEF tree
<1>6. Trying => Home(saved)' = Home(saved) /\ Stands(saved, S)'
  <2>1. Trying => saved.tree \in Nodes /\ Stands(saved, S)
    BY <1>2 DEF PlaceInv
  <2> QED
    BY <2>1, <1>1, SameHome
<1>7. Trying' => /\ Stands(saved, S)' /\ files'[saved'.tree] > 0
                 /\ saved'.entry_pushed = 1 /\ saved'.file # -1
  BY <1>1, <1>2, <1>4, <1>5, <1>6 DEF PlaceInv
<1> QED
  BY <1>3, <1>4, <1>5, <1>6, <1>7

LEMMA PlacedStill ==
  ASSUME NEW S, Inv(S), UNCHANGED tree, saved' = saved, old' = old, then' = then, Standing,
         Stands(iter, S)'
  PROVE  PlaceInv(S)'
<1>1. PlaceInv(S) /\ Trying' = Trying
  BY InvParts DEF Trying
<1>2. files' = files /\ fresh' = fresh
  BY DEF tree
<1>3. Trying' => /\ Stands(saved, S)' /\ files'[saved'.tree] > 0
                 /\ saved'.entry_pushed = 1 /\ saved'.file # -1
  BY Unmoved
<1>4. Trying' <=> then' \in {"try", "tryup"}
  BY <1>1 DEF PlaceInv
<1>5. then' \in {"list", "bad", "badup"} => old' \in S /\ files'[old'] > 0
  BY <1>1, <1>2 DEF PlaceInv
<1>6. then' = "unwind" /\ old' = Root => fresh' \in Nodes
  BY <1>1, <1>2 DEF PlaceInv
<1> QED
  BY <1>3, <1>4, <1>5, <1>6 DEF PlaceInv

LEMMA UpEndKeeps ==
  ASSUME NEW S, Inv(S), rnd = {}, UpEnd
  PROVE  Inv(S)'
<1>1. /\ pc = "up" /\ parent[iter.tree] = None /\ iter' = [iter EXCEPT !.file = -1]
      /\ UNCHANGED tree /\ saved' = saved /\ config' = config /\ old' = old /\ touched' = touched
      /\ pc' = "returned" /\ res' = "END" /\ d' = d /\ then' = then
  BY DEF UpEnd, Result, history
<1>2. /\ TreeTypes /\ TreeInv /\ Whole(S) /\ S \subseteq Nodes /\ IterTypes /\ PlaceInv(S)
      /\ EntryInv /\ HeadInv /\ iter.tree \in S /\ iter.tree \in Nodes /\ Standing
  BY <1>1, InvParts DEF Standing
<1>3. iter.tree = Root /\ files[Root] = 0
  BY <1>1, <1>2 DEF Whole, Linked, TreeInv
<1>4. ~ Trying => iter.entry_pushed = 0 /\ iter.file = -1
  BY <1>1, <1>2, <1>3 DEF EntryInv, IterTypes, IterOf
<1>5. /\ iter' \in IterOf /\ iter'.tree = iter.tree /\ iter'.stack = iter.stack /\ iter'.file = -1
      /\ iter'.entry_pushed = iter.entry_pushed
  <2>1. iter \in IterOf /\ -1 \in Int
    BY <1>2 DEF IterTypes
  <2> QED
    BY <1>1, <2>1 DEF IterOf
<1>6. /\ TreeTypes' /\ TreeInv' /\ Whole(S)' /\ Lost' = Lost /\ Levels' = Levels /\ Trying' = Trying
      /\ Trying' => /\ Stands(saved, S)' /\ files'[saved'.tree] > 0
                    /\ saved'.entry_pushed = 1 /\ saved'.file # -1
      /\ files' = files /\ fresh' = fresh /\ Trying => Home(saved)' = Home(saved)
      /\ parent' = parent /\ own' = own
  BY <1>1, Unmoved
<1>7. Stands(iter, S)'
  BY <1>2, <1>5, <1>6 DEF PlaceInv, Stands
<1>8. PlaceInv(S)'
  BY <1>1, <1>2, <1>7, PlacedStill
<1>9. IterTypes' /\ EntryInv' /\ ErrorInv'
  BY <1>1, <1>2, <1>4, <1>5, <1>6 DEF IterTypes, EntryInv, ErrorInv, Standing
<1>10. ResultInv'
  BY <1>1, <1>3, <1>4, <1>5, <1>6 DEF ResultInv
<1>11. HeadInv'
  BY <1>1, <1>2 DEF HeadInv, Standing
<1>12. ASSUME ConfigInv PROVE ConfigHeld'
  <2>1. ConfigHeld
    BY <1>2, <1>12 DEF ConfigInv
  <2>2. CASE Trying
    <3>1. Held = saved /\ Held' = saved /\ saved' = saved
      BY <2>2, <1>1, <1>6 DEF Held
    <3>2. Home(Held)' = Home(saved)
      BY <3>1, <1>6, <2>2 DEF Home
    <3> QED
      BY <3>1, <3>2, <2>1, <1>1 DEF ConfigHeld
  <2>3. CASE ~ Trying
    <3>1. Held = iter /\ Held' = iter'
      BY <2>3, <1>6 DEF Held
    <3>3. Home(Held)' = Home(iter)
      BY <3>1, <1>5, <1>6 DEF Home, Above
    <3>4. touched' = 0 \/ Held'.file = -1 => config.value = Last(Home(iter)).value
      BY <3>1, <2>1, <2>3, <1>4 DEF ConfigHeld
    <3> QED
      BY <3>1, <3>3, <3>4, <2>1, <1>1 DEF ConfigHeld
  <2> QED
    BY <2>2, <2>3
<1>13. (Lost \/ ConfigInv)'
  BY <1>1, <1>6, <1>12, InvParts DEF ConfigInv
<1> QED
  BY <1>6, <1>8, <1>9, <1>10, <1>11, <1>13 DEF Inv, Control

\* One level up, whether the level of an entry below has been popped or not.
LEMMA UpKeeps ==
  ASSUME NEW S, Inv(S), rnd = {}, Up
  PROVE  Inv(S)'
<1> DEFINE p == parent[iter.tree]
<1>1. /\ pc = "up" /\ p # None
      /\ iter' = [iter EXCEPT !.tree = p, !.loop = Last(iter.stack),
                              !.stack = Front(iter.stack), !.file = -1]
      /\ UNCHANGED tree /\ saved' = saved /\ old' = old /\ touched' = touched
      /\ config' = IF Trying THEN config ELSE m_config_pop(config)
      /\ pc' = "step" /\ res' = "none" /\ d' = d /\ then' = then
  BY DEF Up, Call, history
<1>2. /\ TreeTypes /\ TreeInv /\ Whole(S) /\ S \subseteq Nodes /\ IterTypes /\ PlaceInv(S)
      /\ EntryInv /\ HeadInv /\ iter.tree \in S /\ iter.tree \in Nodes /\ Standing
  BY <1>1, InvParts DEF Standing
<1>3. p \in S /\ p \in Nodes /\ iter.tree # Root
  BY <1>1, <1>2, RootFacts DEF Whole, TreeTypes
<1>4. /\ Len(Levels[iter.tree]) = Len(Levels[p]) + 1 /\ Above(iter.tree) = Levels[p]
      /\ Len(Levels[p]) = Len(Above(p)) + 1 /\ Len(Above(p)) \in Nat /\ Len(Above(p)) >= 2
  <2>1. IsLevels(Above(p))
    BY <1>2, <1>3, LevelsOver
  <2> QED
    BY <2>1, <1>1, <1>2, <1>3, LevelsOver, LevelsFacts
<1>5. /\ iter.stack \in Seq(Int) /\ Len(iter.stack) = Len(Levels[iter.tree]) - 3
      /\ Len(iter.stack) \in Nat /\ Len(iter.stack) > 0
  <2>1. iter.stack \in Seq(Int) /\ Len(iter.stack) = Len(Levels[iter.tree]) - 3
    BY <1>2 DEF IterTypes, IterOf, PlaceInv, Stands
  <2> QED
    BY <2>1, <1>4, LenProperties
<1>6. Last(iter.stack) \in Int /\ Front(iter.stack) \in Seq(Int)
      /\ Len(Front(iter.stack)) = Len(iter.stack) - 1
  BY <1>5 DEF Last, Front
<1>7. /\ iter' \in IterOf /\ iter'.tree = p /\ iter'.stack = Front(iter.stack) /\ iter'.file = -1
      /\ iter'.entry_pushed = iter.entry_pushed
  <2> DEFINE i1 == [iter EXCEPT !.tree = p]
             i2 == [i1 EXCEPT !.loop = Last(iter.stack)]
             i3 == [i2 EXCEPT !.stack = Front(iter.stack)]
             i4 == [i3 EXCEPT !.file = -1]
  <2>1. i1 \in IterOf /\ i1.tree = p /\ i1.entry_pushed = iter.entry_pushed
    BY <1>2, <1>3 DEF IterTypes, IterOf
  <2> HIDE DEF i1
  <2>2. i2 \in IterOf /\ i2.tree = p /\ i2.entry_pushed = iter.entry_pushed
    BY <1>6, <2>1 DEF IterOf
  <2> HIDE DEF i2
  <2>3. /\ i3 \in IterOf /\ i3.tree = p /\ i3.entry_pushed = iter.entry_pushed
        /\ i3.stack = Front(iter.stack)
    BY <1>6, <2>2 DEF IterOf
  <2> HIDE DEF i3
  <2>4. /\ i4 \in IterOf /\ i4.tree = p /\ i4.entry_pushed = iter.entry_pushed
        /\ i4.stack = Front(iter.stack) /\ i4.file = -1
    BY <2>3 DEF IterOf
  <2>5. iter' = i4
    BY <1>1 DEF i1, i2, i3
  <2> QED
    BY <2>4, <2>5
<1>8. /\ TreeTypes' /\ TreeInv' /\ Whole(S)' /\ Lost' = Lost /\ Levels' = Levels /\ Trying' = Trying
      /\ Trying' => /\ Stands(saved, S)' /\ files'[saved'.tree] > 0
                    /\ saved'.entry_pushed = 1 /\ saved'.file # -1
      /\ files' = files /\ fresh' = fresh /\ Trying => Home(saved)' = Home(saved)
      /\ parent' = parent /\ own' = own
  BY <1>1, Unmoved
<1>9. Stands(iter, S)'
  <2>1. Len(iter'.stack) = Len(Levels[p]) - 3
    <3>1. PICK k, l, m : k = Len(iter.stack) /\ l = Len(Levels[p]) /\ m = Len(Above(p))
      OBVIOUS
    <3>2. m \in Nat /\ l = m + 1 /\ k = l + 1 - 3
      BY <3>1, <1>4, <1>5
    <3>3. Len(iter'.stack) = k - 1
      BY <3>1, <1>6, <1>7
    <3> QED
      BY <3>1, <3>2, <3>3
  <2> QED
    BY <2>1, <1>3, <1>7, <1>8 DEF Stands
<1>10. PlaceInv(S)'
  BY <1>1, <1>2, <1>9, PlacedStill
<1>11. IterTypes' /\ EntryInv' /\ ErrorInv' /\ ResultInv'
  BY <1>1, <1>2, <1>7, <1>8 DEF IterTypes, EntryInv, ErrorInv, ResultInv, Standing
<1>12. HeadInv'
  BY <1>1, <1>2 DEF HeadInv, Standing
<1>13. ASSUME ConfigInv PROVE ConfigHeld'
  <2>1. ConfigHeld
    BY <1>2, <1>13 DEF ConfigInv
  <2>2. CASE Trying
    <3>1. Held = saved /\ Held' = saved /\ saved' = saved /\ config' = config
      BY <2>2, <1>1, <1>8 DEF Held
    <3>2. Home(Held)' = Home(saved)
      BY <3>1, <1>8, <2>2 DEF Home
    <3> QED
      BY <3>1, <3>2, <2>1, <1>1 DEF ConfigHeld
  <2>3. CASE ~ Trying
    <3>1. Held = iter /\ Held' = iter' /\ config' = m_config_pop(config)
      BY <2>3, <1>1, <1>8 DEF Held
    <3>3. Home(Held)' = IF iter.entry_pushed = 1 THEN Levels[p] ELSE Above(p)
      BY <3>1, <1>7, <1>8 DEF Home, Above
    <3>4. config = ChangedTo(Home(iter), config.value)
      BY <3>1, <2>1 DEF ConfigHeld
    <3>5. Home(iter) = IF iter.entry_pushed = 1 THEN Levels[iter.tree] ELSE Levels[p]
      BY <1>4 DEF Home
    <3>6. config' = ConfigAt(Home(Held)')
      <4>1. CASE iter.entry_pushed = 1
        <5>1. config = ChangedTo(Levels[iter.tree], config.value)
          BY <3>4, <3>5, <4>1
        <5>2. m_config_pop(config) = ConfigAt(Above(iter.tree))
          BY <5>1, <1>2, PopNode
        <5> QED
          BY <5>2, <4>1, <3>1, <3>3, <1>4
      <4>2. CASE iter.entry_pushed # 1
        <5>1. config = ChangedTo(Levels[p], config.value)
          BY <3>4, <3>5, <4>2
        <5>2. m_config_pop(config) = ConfigAt(Above(p))
          BY <5>1, <1>2, <1>3, PopNode
        <5> QED
          BY <5>2, <4>2, <3>1, <3>3
      <4> QED
        BY <4>1, <4>2
    <3> QED
      BY <3>6, ConfigIs DEF ConfigHeld
  <2> QED
    BY <2>2, <2>3
<1>14. (Lost \/ ConfigInv)'
  BY <1>1, <1>2, <1>8, <1>13, InvParts DEF ConfigInv
<1> QED
  BY <1>8, <1>10, <1>11, <1>12, <1>14 DEF Inv, Control

\* One level down: the options of the group are pushed.
LEMMA DownKeeps ==
  ASSUME NEW S, Inv(S), rnd = {}, Down
  PROVE  Inv(S)'
<1> DEFINE t == iter.tree
           n == IF d >= 0 THEN Head(kids[t]) ELSE Last(kids[t])
<1>1. /\ pc = "down"
      /\ iter' = [iter EXCEPT !.tree = n, !.stack = Append(iter.stack, iter.loop),
                              !.loop = loops[t] - 1, !.file = -1]
      /\ UNCHANGED tree /\ saved' = saved /\ old' = old /\ touched' = touched
      /\ config' = IF Trying THEN config ELSE play_tree_iter_push_params(config, t)
      /\ pc' = "step" /\ res' = "none" /\ d' = 0 /\ then' = then
  BY DEF Down, Call, history
<1>2. /\ TreeTypes /\ TreeInv /\ Whole(S) /\ S \subseteq Nodes /\ IterTypes /\ PlaceInv(S)
      /\ EntryInv /\ HeadInv /\ t \in S /\ t \in Nodes /\ Standing
  BY <1>1, InvParts DEF Standing
<1>3. \E i \in DOMAIN kids[t] : n = kids[t][i]
  <2>1. kids[t] \in Seq(Nodes) /\ kids[t] # <<>>
    BY <1>1, <1>2 DEF TreeTypes, EntryInv
  <2>2. Len(kids[t]) \in Nat /\ Len(kids[t]) > 0 /\ DOMAIN kids[t] = 1 .. Len(kids[t])
    BY <2>1, LenProperties, EmptySeq
  <2>3. Head(kids[t]) = kids[t][1] /\ Last(kids[t]) = kids[t][Len(kids[t])]
    BY <2>1, <2>2 DEF Last
  <2>4. 1 \in DOMAIN kids[t] /\ Len(kids[t]) \in DOMAIN kids[t]
    BY <2>2
  <2> QED
    BY <2>3, <2>4
<1>4. n \in S /\ n \in Nodes /\ parent[n] = t /\ t # None
  <2>1. PICK i \in DOMAIN kids[t] : n = kids[t][i]
    BY <1>3
  <2> HIDE DEF n
  <2>2. n \in S /\ n \in Nodes
    BY <2>1, <1>2 DEF Whole
  <2>3. parent[n] = t
    BY <2>1, <1>2 DEF TreeInv
  <2> QED
    BY <2>2, <2>3, <1>2, NodesAre
<1> HIDE DEF n
<1>5. /\ Len(Levels[n]) = Len(Levels[t]) + 1 /\ Above(n) = Levels[t] /\ Len(Levels[t]) \in Nat
  <2>1. Above(n) = Levels[t] /\ Len(Levels[n]) = Len(Above(n)) + 1 /\ Len(Above(n)) \in Nat
    BY <1>2, <1>4, LevelsOver
  <2> QED
    BY <2>1
<1>6. iter.stack \in Seq(Int) /\ Len(iter.stack) = Len(Levels[t]) - 3 /\ iter.loop \in Int
  BY <1>2 DEF IterTypes, IterOf, PlaceInv, Stands
<1>7. Append(iter.stack, iter.loop) \in Seq(Int) /\ Len(Append(iter.stack, iter.loop)) = Len(iter.stack) + 1
  BY <1>6
<1>8. /\ iter' \in IterOf /\ iter'.tree = n /\ iter'.stack = Append(iter.stack, iter.loop)
      /\ iter'.file = -1 /\ iter'.entry_pushed = iter.entry_pushed
  <2> DEFINE i1 == [iter EXCEPT !.tree = n]
             i2 == [i1 EXCEPT !.stack = Append(iter.stack, iter.loop)]
             i3 == [i2 EXCEPT !.loop = loops[t] - 1]
             i4 == [i3 EXCEPT !.file = -1]
  <2>1. i1 \in IterOf /\ i1.tree = n /\ i1.entry_pushed = iter.entry_pushed
    BY <1>2, <1>4 DEF IterTypes, IterOf
  <2> HIDE DEF i1
  <2>2. /\ i2 \in IterOf /\ i2.tree = n /\ i2.entry_pushed = iter.entry_pushed
        /\ i2.stack = Append(iter.stack, iter.loop)
    BY <1>7, <2>1 DEF IterOf
  <2> HIDE DEF i2
  <2>3. loops[t] - 1 \in Int
    BY <1>2 DEF TreeTypes
  <2>4. /\ i3 \in IterOf /\ i3.tree = n /\ i3.entry_pushed = iter.entry_pushed
        /\ i3.stack = Append(iter.stack, iter.loop)
    BY <2>2, <2>3 DEF IterOf
  <2> HIDE DEF i3
  <2>5. /\ i4 \in IterOf /\ i4.tree = n /\ i4.entry_pushed = iter.entry_pushed
        /\ i4.stack = Append(iter.stack, iter.loop) /\ i4.file = -1
    BY <2>4 DEF IterOf
  <2>6. iter' = i4
    BY <1>1 DEF i1, i2, i3
  <2> QED
    BY <2>5, <2>6
<1>9. /\ TreeTypes' /\ TreeInv' /\ Whole(S)' /\ Lost' = Lost /\ Levels' = Levels /\ Trying' = Trying
      /\ Trying' => /\ Stands(saved, S)' /\ files'[saved'.tree] > 0
                    /\ saved'.entry_pushed = 1 /\ saved'.file # -1
      /\ files' = files /\ fresh' = fresh /\ Trying => Home(saved)' = Home(saved)
      /\ parent' = parent /\ own' = own
  BY <1>1, Unmoved
<1>10. Stands(iter, S)'
  <2>1. Len(iter'.stack) = Len(Levels[n]) - 3
    BY <1>5, <1>6, <1>7, <1>8
  <2> QED
    BY <2>1, <1>4, <1>8, <1>9 DEF Stands
<1>11. PlaceInv(S)'
  BY <1>1, <1>2, <1>10, PlacedStill
<1>12. IterTypes' /\ EntryInv' /\ ErrorInv' /\ ResultInv'
  BY <1>1, <1>2, <1>8, <1>9 DEF IterTypes, EntryInv, ErrorInv, ResultInv, Standing
<1>13. HeadInv'
  BY <1>1, <1>2 DEF HeadInv, Standing
<1>14. ASSUME ConfigInv PROVE ConfigHeld'
  <2>1. ConfigHeld
    BY <1>2, <1>14 DEF ConfigInv
  <2>2. CASE Trying
    <3>1. Held = saved /\ Held' = saved /\ saved' = saved /\ config' = config
      BY <2>2, <1>1, <1>9 DEF Held
    <3>2. Home(Held)' = Home(saved)
      BY <3>1, <1>9, <2>2 DEF Home
    <3> QED
      BY <3>1, <3>2, <2>1, <1>1 DEF ConfigHeld
  <2>3. CASE ~ Trying
    <3>1. Held = iter /\ Held' = iter' /\ config' = play_tree_iter_push_params(config, t)
      BY <2>3, <1>1, <1>9 DEF Held
    <3>2. iter.entry_pushed = 0 /\ iter.file = -1
      BY <2>3, <1>1, <1>2 DEF EntryInv
    <3>3. config = ConfigAt(Above(t))
      BY <3>1, <3>2, <2>1, ConfigIs DEF ConfigHeld, Home
    <3>4. config' = ConfigAt(Levels[t])
      BY <3>1, <3>3, <1>2, PushNode
    <3>6. Home(Held)' = Levels[t]
      BY <3>1, <3>2, <1>5, <1>8, <1>9 DEF Home, Above
    <3> QED
      BY <3>4, <3>6, ConfigIs DEF ConfigHeld
  <2> QED
    BY <2>2, <2>3
<1>15. (Lost \/ ConfigInv)'
  BY <1>1, <1>2, <1>9, <1>14, InvParts DEF ConfigInv
<1> QED
  BY <1>9, <1>11, <1>12, <1>13, <1>15 DEF Inv, Control

-----------------------------------------------------------------------------
(* The player and the commands, where they leave the tree as it is.        *)

\* The iterator stays where it is, and so do the options.
LEMMA Stays ==
  ASSUME NEW S, Inv(S), Standing, UNCHANGED tree, iter' = iter, saved' = saved, config' = config,
         touched' = touched, d' \in Int, old' \in Int, pc' # "idle",
         Standing' => (Trying <=> then' \in {"try", "tryup"}),
         then' \in {"list", "bad", "badup"} /\ Standing' => old' \in S /\ files[old'] > 0,
         then' = "unwind" /\ old' = Root /\ Standing' => fresh \in Nodes,
         EntryInv', ResultInv', HeadInv', ErrorInv'
  PROVE  Inv(S)'
<1>1. /\ TreeTypes' /\ TreeInv' /\ Whole(S)' /\ Lost' = Lost /\ Levels' = Levels /\ Trying' = Trying
      /\ Trying' => /\ Stands(saved, S)' /\ files'[saved'.tree] > 0
                    /\ saved'.entry_pushed = 1 /\ saved'.file # -1
      /\ files' = files /\ fresh' = fresh /\ parent' = parent /\ own' = own
  BY Unmoved
<1>2. IterTypes /\ PlaceInv(S) /\ iter.tree \in Nodes /\ (Lost \/ ConfigInv)
  BY InvParts
<1>3. Stands(iter, S)'
  BY <1>1, <1>2 DEF PlaceInv, Stands
<1>4. PlaceInv(S)'
  BY <1>1, <1>3 DEF PlaceInv
<1>5. IterTypes'
  BY <1>2 DEF IterTypes
<1>6. ASSUME ConfigInv PROVE ConfigHeld'
  <2>1. ConfigHeld
    BY <1>6 DEF ConfigInv
  <2>2. Held' = Held
    BY <1>1 DEF Held
  <2>3. Home(Held)' = Home(Held)
    BY <2>2, <1>1 DEF Home, Above
  <2> QED
    BY <2>1, <2>2, <2>3 DEF ConfigHeld
<1>7. (Lost \/ ConfigInv)'
  BY <1>1, <1>2, <1>6 DEF ConfigInv
<1> QED
  BY <1>1, <1>4, <1>5, <1>7 DEF Inv, Control

\* At the end of the tree the options are what they were before it.
LEMMA FreeKeeps ==
  ASSUME NEW S, Inv(S), pc = "returned", ~ Trying, res \in {"END", "ERROR"},
         UNCHANGED tree, saved' = saved, config' = config, touched' = touched, old' \in Int, Free_iter
  PROVE  Inv(S)'
<1>1. iter' = NoIter /\ pc' = "idle" /\ d' = 0 /\ then' = "none" /\ res' = "none"
  BY DEF Free_iter
<1>2. /\ TreeTypes' /\ TreeInv' /\ Whole(S)' /\ Lost' = Lost /\ Trying' = Trying
  BY Unmoved
<1>3. IterTypes /\ iter.tree \in Nodes /\ (Lost \/ ConfigInv) /\ ResultInv /\ ErrorInv /\ Standing /\ TreeTypes
  BY InvParts DEF Standing
<1>4. IterTypes'
  <2>1. NoIter \in IterOf
    <3>1. <<>> \in Seq(Int) /\ -1 \in Int
      OBVIOUS
    <3> QED
      BY <3>1 DEF NoIter, IterOf
  <2> QED
    BY <1>1, <1>3, <2>1 DEF IterTypes
<1>5. PlaceInv(S)' /\ EntryInv' /\ ResultInv' /\ HeadInv' /\ ErrorInv'
  BY <1>1, <1>2 DEF PlaceInv, EntryInv, ResultInv, HeadInv, ErrorInv, Standing
<1>6. ASSUME ConfigInv PROVE Lost \/ config = BaseConfig
  <2>1. iter.tree = Root \/ Lost
    BY <1>3 DEF ResultInv, ErrorInv
  <2>2. ASSUME iter.tree = Root PROVE config = BaseConfig
    <3>1. iter.entry_pushed = 0 /\ iter.file = -1
      BY <1>3 DEF ResultInv
    <3>2. ConfigHeld /\ Held = iter
      BY <1>3, <1>6 DEF ConfigInv, Held
    <3>3. config = ConfigAt(Above(Root))
      BY <2>2, <3>1, <3>2, ConfigIs DEF ConfigHeld, Home
    <3>4. Above(Root) = BaseConfig.slots
      BY <1>3, RootFacts DEF TreeTypes
    <3> QED
      BY <3>3, <3>4, BaseLevels
  <2> QED
    BY <2>1, <2>2
<1>7. (Lost \/ ConfigInv)'
  BY <1>1, <1>2, <1>3, <1>6 DEF ConfigInv, Standing
<1> QED
  BY <1>2, <1>4, <1>5, <1>7 DEF Inv, Control

LEMMA FirstEntryKeeps ==
  ASSUME NEW S, Inv(S), FirstEntry
  PROVE  Inv(S)'
<1>1. /\ pc = "returned" /\ then \in {"start", "head", "next", "up"} /\ UNCHANGED tree
      /\ saved' = saved /\ config' = config /\ touched' = touched /\ old' = old
  BY DEF FirstEntry, Returned
<1>2. Standing /\ IterTypes /\ ResultInv /\ HeadInv /\ ~ Trying
  BY <1>1, InvParts DEF Standing, PlaceInv
<1>3. CASE res = "ENTRY" \/ then = "head"
  <2>1. iter' = iter /\ pc' = "source" /\ d' = 1 /\ then' = "none" /\ res' = "none"
    BY <1>3 DEF FirstEntry, NextFile, Call
  <2>2. Trying' = Trying /\ files' = files
    BY <1>1 DEF Trying, tree
  <2>3. files[iter.tree] > 0 => iter.entry_pushed = 1
    BY <1>1, <1>2, <1>3 DEF ResultInv, HeadInv
  <2>4. EntryInv' /\ ResultInv' /\ HeadInv' /\ ErrorInv'
    <3>1. iter.entry_pushed = 0 => iter.file = -1
      BY <1>1, <1>2 DEF ResultInv
    <3> QED
      BY <1>2, <2>1, <2>2, <2>3, <3>1 DEF EntryInv, ResultInv, HeadInv, ErrorInv
  <2>5. old' \in Int
    BY <1>1, <1>2 DEF IterTypes
  <2> QED
    BY <1>1, <1>2, <2>1, <2>4, <2>5, Stays
<1>4. CASE ~ (res = "ENTRY" \/ then = "head")
  <2>1. Free_iter
    BY <1>4 DEF FirstEntry
  <2>2. res \in {"END", "ERROR"}
    BY <1>1, <1>2, <1>4 DEF ResultInv
  <2>3. old' \in Int
    BY <1>1, <1>2 DEF IterTypes
  <2> QED
    BY <1>1, <1>2, <2>1, <2>2, <2>3, FreeKeeps
<1> QED
  BY <1>3, <1>4

LEMMA SourceSteppedKeeps ==
  ASSUME NEW S, Inv(S), SourceStepped
  PROVE  Inv(S)'
<1>1. /\ pc = "returned" /\ then \in {"source", "sourceback"} /\ UNCHANGED tree
      /\ saved' = saved /\ config' = config /\ touched' = touched /\ old' = old
  BY DEF SourceStepped, Returned, history
<1>2. Standing /\ IterTypes /\ ResultInv /\ HeadInv /\ ~ Trying /\ old' \in Int
  BY <1>1, InvParts DEF Standing, PlaceInv, IterTypes
<1>3. CASE res = "ENTRY"
  <2>1. /\ iter' = iter /\ pc' = "source" /\ d' \in Int /\ then' = "none" /\ res' = "none"
    BY <1>3 DEF SourceStepped, NextFile, Call
  <2>2. Trying' = Trying /\ files' = files
    BY <1>1 DEF Trying, tree
  <2>3. iter.entry_pushed = 1
    BY <1>1, <1>2, <1>3 DEF ResultInv
  <2>4. EntryInv' /\ ResultInv' /\ HeadInv' /\ ErrorInv'
    BY <1>2, <2>1, <2>2, <2>3 DEF EntryInv, ResultInv, HeadInv, ErrorInv
  <2> QED
    BY <1>1, <1>2, <2>1, <2>4, Stays
<1>4. CASE res # "ENTRY"
  <2>1. Free_iter /\ res \in {"END", "ERROR"}
    BY <1>1, <1>2, <1>4 DEF SourceStepped, ResultInv
  <2> QED
    BY <1>1, <1>2, <2>1, FreeKeeps
<1> QED
  BY <1>3, <1>4

LEMMA NoFileKeeps ==
  ASSUME NEW S, Inv(S), NoFile
  PROVE  Inv(S)'
<1>1. /\ pc = "source" /\ UNCHANGED tree /\ iter' = iter /\ saved' = saved /\ config' = config
      /\ touched' = touched /\ old' = old /\ pc' = "step" /\ d' = d /\ res' = "none"
      /\ then' \in {"source", "sourceback"}
  BY DEF NoFile, Call, history
<1>2. Standing /\ IterTypes /\ EntryInv /\ ~ Trying /\ d' \in Int /\ old' \in Int
  BY <1>1, InvParts DEF Standing, EntryInv, IterTypes
<1>3. EntryInv' /\ ResultInv' /\ HeadInv' /\ ErrorInv'
  BY <1>1, <1>2 DEF EntryInv, ResultInv, HeadInv, ErrorInv, Standing, Trying
<1> QED
  BY <1>1, <1>2, <1>3, Stays

\* What every command at an entry finds.
LEMMA PlayingFacts ==
  ASSUME NEW S, Inv(S), pc = "playing"
  PROVE  /\ Standing /\ ~ Trying /\ IterTypes /\ then = "none" /\ iter.tree \in S /\ iter.tree \in Nodes
         /\ files[iter.tree] > 0 /\ iter.entry_pushed = 1 /\ iter.file # -1 /\ Held = iter
         /\ Stands(iter, S) /\ iter.tree # Root
<1>1. /\ Standing /\ ~ Trying /\ IterTypes /\ then = "none" /\ iter.tree \in S /\ iter.tree \in Nodes
      /\ files[iter.tree] > 0 /\ iter.entry_pushed = 1 /\ iter.file # -1
  BY InvParts DEF Standing, EntryInv
<1>2. Held = iter /\ Stands(iter, S)
  BY <1>1, InvParts DEF Held, PlaceInv
<1>3. iter.tree # Root
  BY <1>1, InvParts DEF TreeInv
<1> QED
  BY <1>1, <1>2, <1>3

\* A call of the iterator from an entry that is playing.
LEMMA CallKeeps ==
  ASSUME NEW S, Inv(S), pc = "playing", UNCHANGED tree, iter' = iter, saved' = saved,
         config' = config, touched' = touched, d' \in Int, old' \in Int,
         pc' \in {"step", "up", "source", "quit"}, then' \notin {"try", "tryup", "head"},
         pc' = "source" => then' = "none",
         then' \in {"list", "bad", "badup"} => old' = iter.tree,
         then' = "unwind" /\ old' = Root => fresh \in Nodes
  PROVE  Inv(S)'
<1>1. /\ Standing /\ ~ Trying /\ iter.tree \in S /\ files[iter.tree] > 0 /\ iter.entry_pushed = 1
  BY PlayingFacts
<1>2. Trying' = Trying /\ files' = files
  BY DEF Trying, tree
<1>3. EntryInv' /\ ResultInv' /\ HeadInv' /\ ErrorInv'
  BY <1>1, <1>2 DEF EntryInv, ResultInv, HeadInv, ErrorInv
<1> QED
  BY <1>1, <1>3, Stays

LEMMA EndOfFileKeeps ==
  ASSUME NEW S, Inv(S), EndOfFile
  PROVE  Inv(S)'
<1>1. /\ pc = "playing" /\ UNCHANGED tree /\ iter' = iter /\ saved' = saved /\ config' = config
      /\ touched' = touched /\ old' = old /\ pc' = "step" /\ d' = 1 /\ then' = "next"
  BY DEF EndOfFile, Call, history
<1>2. old' \in Int
  BY <1>1, InvParts DEF IterTypes
<1> QED
  BY <1>1, <1>2, CallKeeps

LEMMA QuitKeeps ==
  ASSUME NEW S, Inv(S), Quit
  PROVE  Inv(S)'
<1>1. /\ pc = "playing" /\ UNCHANGED tree /\ iter' = iter /\ saved' = saved /\ config' = config
      /\ touched' = touched /\ old' = old /\ pc' = "quit" /\ d' = d /\ then' = then
  BY DEF Quit, history
<1>2. old' \in Int /\ d' \in Int /\ then = "none"
  BY <1>1, PlayingFacts DEF IterTypes
<1> QED
  BY <1>1, <1>2, CallKeeps

LEMMA StepForcedKeeps ==
  ASSUME NEW S, Inv(S), NEW function \in {"step", "up"}, NEW n \in Int, StepForced(function, n)
  PROVE  Inv(S)'
<1>1. /\ pc = "playing" /\ UNCHANGED tree /\ iter' = iter /\ saved' = saved /\ config' = config
      /\ touched' = touched /\ old' = old /\ pc' = function /\ d' = n /\ then' \in {"next", "up"}
  BY DEF StepForced, Command, Call
<1>2. old' \in Int
  BY <1>1, InvParts DEF IterTypes
<1> QED
  BY <1>1, <1>2, CallKeeps

LEMMA SourceStepKeeps ==
  ASSUME NEW S, Inv(S), NEW n \in Int, SourceStep(n)
  PROVE  Inv(S)'
<1>1. /\ pc = "playing" /\ UNCHANGED tree /\ iter' = iter /\ saved' = saved /\ config' = config
      /\ touched' = touched /\ old' = old /\ pc' = "source" /\ d' = n /\ then' = "none"
  BY DEF SourceStep, Command, Call
<1>2. old' \in Int
  BY <1>1, InvParts DEF IterTypes
<1> QED
  BY <1>1, <1>2, CallKeeps

LEMMA UnwindKeeps ==
  ASSUME NEW S, Inv(S), NEW what, Unwind(what)
  PROVE  Inv(S)'
<1>1. /\ pc = "playing" /\ UNCHANGED tree /\ iter' = iter /\ saved' = saved /\ config' = config
      /\ touched' = touched /\ pc' = "up" /\ d' = 0 /\ then' = "unwind"
      /\ old' = IF what = "load" THEN Root ELSE None
      /\ what = "load" => fresh \in Nodes
  BY DEF Unwind, Command, Call
<1>2. old' \in Int /\ (old' = Root => fresh \in Nodes)
  BY <1>1, NodesAre
<1> QED
  BY <1>1, <1>2, CallKeeps

LEMMA BadListKeeps ==
  ASSUME NEW S, Inv(S), BadList
  PROVE  Inv(S)'
<1>1. /\ pc = "playing" /\ UNCHANGED tree /\ iter' = iter /\ saved' = saved /\ config' = config
      /\ touched' = touched /\ old' = iter.tree /\ pc' = "step" /\ d' = 1 /\ then' = "bad"
  BY DEF BadList, Command, Call
<1>2. old' \in Int
  BY <1>1, PlayingFacts, NodesAre
<1> QED
  BY <1>1, <1>2, CallKeeps

LEMMA UnwindingKeeps ==
  ASSUME NEW S, Inv(S), Unwinding
  PROVE  Inv(S)'
<1>1. /\ pc = "returned" /\ then = "unwind" /\ UNCHANGED tree /\ iter' = iter /\ saved' = saved
      /\ config' = config /\ touched' = touched /\ old' = old /\ pc' = "up" /\ d' = 0
      /\ then' = "unwind"
  BY DEF Unwinding, Returned, Call, history
<1>2. Standing /\ ~ Trying /\ ResultInv /\ old' \in Int /\ (old = Root => fresh \in Nodes)
  BY <1>1, InvParts DEF Standing, PlaceInv, IterTypes
<1>3. Trying' = Trying /\ files' = files
  BY <1>1 DEF Trying, tree
<1>4. EntryInv' /\ ResultInv' /\ HeadInv' /\ ErrorInv'
  BY <1>1, <1>2, <1>3 DEF EntryInv, ResultInv, HeadInv, ErrorInv
<1> QED
  BY <1>1, <1>2, <1>4, Stays

\* The first file starts the entry: until then nothing has changed its options.
LEMMA PlayFileKeeps ==
  ASSUME NEW S, Inv(S), PlayFile
  PROVE  Inv(S)'
<1> DEFINE f == play_tree_iter_get_file(d)
<1>1. /\ pc = "source" /\ f >= 0 /\ UNCHANGED tree /\ saved' = saved /\ config' = config
      /\ old' = old /\ pc' = "playing" /\ d' = 0 /\ then' = "none" /\ res' = res
      /\ iter' = [iter EXCEPT !.file = f]
      /\ touched' = IF iter.file = -1 THEN 0 ELSE touched
  BY DEF PlayFile
<1>2. /\ Standing /\ IterTypes /\ EntryInv /\ PlaceInv(S) /\ ~ Trying /\ iter.tree \in Nodes
      /\ TreeTypes /\ (Lost \/ ConfigInv)
  BY <1>1, InvParts DEF Standing, EntryInv
<1>3. f \in Int /\ f # -1 /\ files[iter.tree] > 0
  <2>1. iter.file \in Int /\ files[iter.tree] \in Nat
    BY <1>2 DEF IterTypes, IterOf, TreeTypes
  <2> QED
    BY <2>1, <1>1 DEF play_tree_iter_get_file
<1> HIDE DEF f
<1>4. /\ iter' \in IterOf /\ iter'.tree = iter.tree /\ iter'.stack = iter.stack /\ iter'.file = f
      /\ iter'.entry_pushed = iter.entry_pushed
  <2>1. iter \in IterOf
    BY <1>2 DEF IterTypes
  <2> QED
    BY <1>1, <1>3, <2>1 DEF IterOf
<1>5. iter.entry_pushed = 1
  BY <1>1, <1>2, <1>3 DEF EntryInv
<1>6. /\ TreeTypes' /\ TreeInv' /\ Whole(S)' /\ Lost' = Lost /\ Levels' = Levels /\ Trying' = Trying
      /\ files' = files /\ fresh' = fresh /\ parent' = parent /\ own' = own
  BY <1>1, Unmoved
<1>7. PlaceInv(S)'
  <2>1. Stands(iter, S)'
    BY <1>2, <1>4, <1>6 DEF PlaceInv, Stands
  <2> QED
    BY <2>1, <1>1, <1>2, <1>6 DEF PlaceInv
<1>8. IterTypes'
  BY <1>1, <1>2, <1>4 DEF IterTypes
<1>9. EntryInv' /\ ResultInv' /\ HeadInv' /\ ErrorInv'
  BY <1>1, <1>2, <1>3, <1>4, <1>5, <1>6 DEF EntryInv, ResultInv, HeadInv, ErrorInv
<1>10. ASSUME ConfigInv PROVE ConfigHeld'
  <2>1. ConfigHeld /\ Held = iter /\ Held' = iter'
    BY <1>2, <1>6, <1>10 DEF ConfigInv, Held
  <2>2. Home(Held)' = Home(iter)
    BY <2>1, <1>4, <1>6 DEF Home, Above
  <2>3. touched' = 0 \/ Held'.file = -1 => config.value = Last(Home(iter)).value
    BY <2>1, <1>1, <1>3, <1>4 DEF ConfigHeld
  <2> QED
    BY <2>1, <2>2, <2>3, <1>1 DEF ConfigHeld
<1>11. (Lost \/ ConfigInv)'
  BY <1>1, <1>2, <1>6, <1>10 DEF ConfigInv
<1> QED
  BY <1>6, <1>7, <1>8, <1>9, <1>11 DEF Inv, Control

LEMMA SetOptionKeeps ==
  ASSUME NEW S, Inv(S), SetOption
  PROVE  Inv(S)'
<1>1. /\ pc = "playing" /\ UNCHANGED tree /\ iter' = iter /\ saved' = saved
      /\ config' = [config EXCEPT !.value = Touch] /\ touched' = 1
      /\ pc' = pc /\ d' = d /\ then' = then /\ res' = res /\ old' = old
  BY DEF SetOption, Command
<1>2. /\ Standing /\ ~ Trying /\ IterTypes /\ iter.tree \in Nodes /\ iter.file # -1 /\ Held = iter
      /\ Stands(iter, S) /\ then = "none"
  BY <1>1, PlayingFacts
<1>3. EntryInv /\ ResultInv /\ HeadInv /\ ErrorInv /\ (Lost \/ ConfigInv)
  BY InvParts
<1>4. /\ TreeTypes' /\ TreeInv' /\ Whole(S)' /\ Lost' = Lost /\ Levels' = Levels /\ Trying' = Trying
      /\ files' = files /\ fresh' = fresh /\ parent' = parent /\ own' = own /\ kids' = kids
  BY <1>1, Unmoved
<1>5. PlaceInv(S)'
  <2>1. Stands(iter, S)'
    BY <1>1, <1>2, <1>4 DEF Stands
  <2> QED
    BY <2>1, <1>1, <1>2, PlacedStill
<1>6. IterTypes' /\ EntryInv' /\ ResultInv' /\ HeadInv' /\ ErrorInv'
  BY <1>1, <1>2, <1>3, <1>4 DEF IterTypes, EntryInv, ResultInv, HeadInv, ErrorInv, Standing
<1>7. ASSUME ConfigInv PROVE ConfigHeld'
  <2>1. ConfigHeld /\ Held' = iter
    BY <1>1, <1>2, <1>4, <1>7 DEF ConfigInv, Held
  <2>2. Home(Held)' = Home(iter)
    BY <2>1, <1>1, <1>4 DEF Home, Above
  <2>3. config = ChangedTo(Home(iter), config.value)
    BY <2>1, <1>2 DEF ConfigHeld
  <2>4. config' = ChangedTo(Home(iter), Touch) /\ config'.value = Touch
    BY <2>3, <1>1 DEF ChangedTo
  <2> QED
    BY <2>1, <2>2, <2>4, <1>1, <1>2 DEF ConfigHeld
<1>8. (Lost \/ ConfigInv)'
  BY <1>1, <1>3, <1>4, <1>7 DEF ConfigInv
<1> QED
  BY <1>4, <1>5, <1>6, <1>8 DEF Inv, Control

\* A command tries its step on a copy of the iterator; the options stay with the original.
LEMMA StepTriedKeeps ==
  ASSUME NEW S, Inv(S), NEW function \in {"step", "up"}, NEW n \in Int, StepTried(function, n)
  PROVE  Inv(S)'
<1>1. /\ pc = "playing" /\ UNCHANGED tree /\ iter' = iter /\ saved' = iter /\ config' = config
      /\ touched' = touched /\ old' = n /\ pc' = function /\ d' = n /\ then' \in {"try", "tryup"}
  BY DEF StepTried, Command, Call
<1>2. /\ Standing /\ ~ Trying /\ IterTypes /\ iter.tree \in Nodes /\ files[iter.tree] > 0
      /\ iter.entry_pushed = 1 /\ iter.file # -1 /\ Held = iter /\ Stands(iter, S)
  BY <1>1, PlayingFacts
<1>3. /\ TreeTypes /\ TreeInv /\ Whole(S) /\ (Lost \/ ConfigInv)
  BY InvParts
<1>4. /\ TreeTypes' /\ TreeInv' /\ Whole(S)' /\ Lost' = Lost /\ Levels' = Levels
      /\ files' = files /\ parent' = parent /\ own' = own
  BY <1>1, <1>3, SameTree DEF tree
<1>5. Trying'
  BY <1>1, <1>2, NodesAre DEF Trying, NoIter
<1>6. Stands(iter, S)' /\ Stands(saved, S)'
  BY <1>1, <1>2, <1>4 DEF Stands
<1>7. PlaceInv(S)'
  BY <1>1, <1>2, <1>4, <1>5, <1>6 DEF PlaceInv
<1>8. IterTypes'
  BY <1>1, <1>2 DEF IterTypes
<1>9. EntryInv' /\ ResultInv' /\ HeadInv' /\ ErrorInv'
  BY <1>1, <1>2, <1>4, <1>5 DEF EntryInv, ResultInv, HeadInv, ErrorInv
<1>10. ASSUME ConfigInv PROVE ConfigHeld'
  <2>1. ConfigHeld /\ Held' = iter
    BY <1>1, <1>2, <1>5, <1>10 DEF ConfigInv, Held
  <2>2. Home(Held)' = Home(iter)
    BY <2>1, <1>4 DEF Home, Above
  <2> QED
    BY <2>1, <2>2, <1>1, <1>2 DEF ConfigHeld
<1>11. (Lost \/ ConfigInv)'
  BY <1>1, <1>3, <1>4, <1>10 DEF ConfigInv
<1> QED
  BY <1>4, <1>7, <1>8, <1>9, <1>11 DEF Inv, Control

LEMMA TriedKeeps ==
  ASSUME NEW S, Inv(S), Tried
  PROVE  Inv(S)'
<1>1. /\ pc = "returned" /\ then \in {"try", "tryup"} /\ UNCHANGED tree
      /\ iter' = saved /\ saved' = NoIter /\ old' = None /\ config' = config /\ touched' = touched
      /\ \/ pc' = "step" /\ d' = old /\ then' = "next"
         \/ pc' = "up" /\ d' = old /\ then' = "up"
         \/ pc' = "playing" /\ d' = 0 /\ then' = "none"
  BY DEF Tried, Returned, Call
<1>2. /\ Standing /\ IterTypes /\ PlaceInv(S) /\ TreeTypes /\ TreeInv /\ Whole(S) /\ (Lost \/ ConfigInv)
  BY <1>1, InvParts DEF Standing
<1>3. /\ Trying /\ Held = saved /\ Stands(saved, S) /\ files[saved.tree] > 0
      /\ saved.entry_pushed = 1 /\ saved.file # -1
  BY <1>1, <1>2 DEF PlaceInv, Held
<1>4. /\ TreeTypes' /\ TreeInv' /\ Whole(S)' /\ Lost' = Lost /\ Levels' = Levels
      /\ files' = files /\ parent' = parent /\ own' = own
  BY <1>1, <1>2, SameTree DEF tree
<1>5. ~ Trying'
  BY <1>1 DEF Trying, NoIter
<1>6. Stands(iter, S)'
  BY <1>1, <1>3, <1>4 DEF Stands
<1>7. PlaceInv(S)'
  BY <1>1, <1>5, <1>6 DEF PlaceInv
<1>8. IterTypes'
  <2>1. NoIter \in IterOf
    <3>1. <<>> \in Seq(Int) /\ -1 \in Int
      OBVIOUS
    <3> QED
      BY <3>1 DEF NoIter, IterOf
  <2>2. old' \in Int
    BY <1>1, NodesAre
  <2> QED
    BY <1>1, <1>2, <2>1, <2>2 DEF IterTypes
<1>9. EntryInv' /\ ResultInv' /\ HeadInv' /\ ErrorInv'
  BY <1>1, <1>3, <1>4, <1>5 DEF EntryInv, ResultInv, HeadInv, ErrorInv
<1>10. ASSUME ConfigInv PROVE ConfigHeld'
  <2>1. ConfigHeld /\ Held' = saved
    BY <1>1, <1>2, <1>5, <1>10 DEF ConfigInv, Held
  <2>2. Home(Held)' = Home(saved)
    BY <2>1, <1>4 DEF Home, Above
  <2> QED
    BY <2>1, <2>2, <1>1, <1>3 DEF ConfigHeld
<1>11. (Lost \/ ConfigInv)'
  BY <1>1, <1>2, <1>4, <1>10 DEF ConfigInv
<1> QED
  BY <1>4, <1>7, <1>8, <1>9, <1>11 DEF Inv, Control

-----------------------------------------------------------------------------
(* Commands that change the tree.                                          *)

LEMMA LevelsKept ==
  ASSUME TreeTypes, TreeTypes', NEW K, K \subseteq Nodes,
         \A n \in K : parent'[n] = parent[n] /\ own'[n] = own[n] /\ (parent[n] # None => parent[n] \in K)
  PROVE  \A n \in K : Levels'[n] = Levels[n] /\ Under(parent', own', n) = Above(n)
<1>1. Climbs(parent) /\ Climbs(parent')
  BY DEF TreeTypes, Climbs
<1> QED
  BY <1>1, LevelsFrame DEF Levels, Above

\* Where the tree changed elsewhere, the iterator and the options are still right.
LEMMA TreeChanged ==
  ASSUME NEW S, Inv(S), NEW T, Whole(T)', TreeTypes', Lost => Lost',
         Standing, ~ Trying, iter' = iter, saved' = saved, config' = config, touched' = touched,
         NEW K, K \subseteq Nodes,
         \A n \in K : parent'[n] = parent[n] /\ own'[n] = own[n] /\ (parent[n] # None => parent[n] \in K),
         iter.tree \in K, iter.tree \in T
  PROVE  ~ Trying' /\ Stands(iter, T)' /\ (Lost' \/ ConfigHeld')
<1>1. TreeTypes /\ PlaceInv(S) /\ (Lost \/ ConfigInv)
  BY InvParts
<1>2. Levels'[iter.tree] = Levels[iter.tree] /\ Under(parent', own', iter.tree) = Above(iter.tree)
  BY <1>1, LevelsKept
<1>3. ~ Trying'
  BY DEF Trying
<1>4. Stands(iter, T)'
  BY <1>1, <1>2 DEF PlaceInv, Stands
<1>5. ASSUME ConfigInv PROVE ConfigHeld'
  <2>1. ConfigHeld /\ Held = iter /\ Held' = iter
    BY <1>3, <1>5 DEF ConfigInv, Held
  <2>2. Home(Held)' = Home(iter)
    BY <2>1, <1>2 DEF Home, Above
  <2> QED
    BY <2>1, <2>2 DEF ConfigHeld
<1> QED
  BY <1>1, <1>3, <1>4, <1>5

\* The root gets other children, one of them a new entry.
RootKids(s) ==
    /\ kids' = [kids EXCEPT ![Root] = s]
    /\ parent' = [parent EXCEPT ![fresh] = Root]
    /\ files' = [files EXCEPT ![fresh] = 1]
    /\ fresh' = fresh + 1 /\ loops' = loops /\ own' = own /\ byAlias' = byAlias

\* With these children the nodes of T, some of those of S, make up the tree.
MakesUp(s, S, T) ==
    /\ T \subseteq Nodes /\ Root \in T /\ fresh \in T
    /\ \A i, j \in DOMAIN s : s[i] = s[j] => i = j
    /\ \A i \in DOMAIN s : s[i] \in T /\ (s[i] = fresh \/ parent[s[i]] = Root)
    /\ \E i \in DOMAIN s : s[i] = fresh
    /\ \A n \in T : \/ n \in {Root, fresh}
                    \/ /\ n \in S /\ parent[n] \in T
                       /\ \A i \in DOMAIN kids[n] : kids[n][i] \in T
                       /\ parent[n] = Root => \E i \in DOMAIN s : s[i] = n

LEMMA RootGrows ==
  ASSUME NEW S, TreeTypes, TreeInv, Whole(S), fresh \in Nodes,
         NEW s \in Seq(Nodes), RootKids(s), NEW T, MakesUp(s, S, T)
  PROVE  TreeTypes' /\ TreeInv' /\ Whole(T)' /\ (Lost => Lost')
<1>a. /\ kids' = [kids EXCEPT ![Root] = s]
      /\ parent' = [parent EXCEPT ![fresh] = Root]
      /\ files' = [files EXCEPT ![fresh] = 1]
      /\ fresh' = fresh + 1 /\ loops' = loops /\ own' = own /\ byAlias' = byAlias
  BY DEF RootKids
<1>b. /\ T \subseteq Nodes /\ Root \in T /\ fresh \in T
      /\ \A i, j \in DOMAIN s : s[i] = s[j] => i = j
      /\ \A i \in DOMAIN s : s[i] \in T /\ (s[i] = fresh \/ parent[s[i]] = Root)
      /\ \E i \in DOMAIN s : s[i] = fresh
  BY DEF MakesUp
<1>c. \A n \in T : n # Root /\ n # fresh =>
         /\ n \in S /\ parent[n] \in T
         /\ \A i \in DOMAIN kids[n] : kids[n][i] \in T
         /\ parent[n] = Root => \E i \in DOMAIN s : s[i] = n
  BY DEF MakesUp
<1>1. fresh \in Nat /\ fresh >= Size /\ fresh # Root /\ Root \in Nodes /\ Size >= 2 /\ None \notin Nodes
  BY NodesAre DEF TreeTypes
<1>2. \A n \in Nodes : /\ kids'[n] = IF n = Root THEN s ELSE kids[n]
                       /\ parent'[n] = IF n = fresh THEN Root ELSE parent[n]
                       /\ files'[n] = IF n = fresh THEN 1 ELSE files[n]
                       /\ own'[n] = own[n]
  BY <1>1, <1>a DEF TreeTypes, Climbs
<1>3. TreeTypes'
  <2>1. Climbs(parent')
    <3>1. parent' \in [Nodes -> Nodes \cup {None}]
      BY <1>1, <1>a DEF TreeTypes, Climbs
    <3>2. \A n \in Nodes : parent'[n] # None => parent'[n] < n
      <4> SUFFICES ASSUME NEW n \in Nodes, parent'[n] # None PROVE parent'[n] < n
        OBVIOUS
      <4>1. CASE n = fresh
        BY <4>1, <1>1, <1>2, NodesAre
      <4>2. CASE n # fresh
        BY <4>2, <1>2 DEF TreeTypes, Climbs
      <4> QED
        BY <4>1, <4>2
    <3> QED
      BY <3>1, <3>2 DEF Climbs
  <2>2. kids' \in [Nodes -> Seq(Nodes)] /\ files' \in [Nodes -> Nat] /\ loops' \in [Nodes -> Int]
    BY <1>1, <1>a DEF TreeTypes
  <2>3. fresh' \in Size .. Size + Spare
    BY <1>1, <1>a, NodesAre
  <2>4. Values(own)' /\ byAlias' = {} /\ Climbs(parent)'
    BY <2>1, <1>a DEF TreeTypes, Values, Climbs
  <2> QED
    BY <2>2, <2>3, <2>4 DEF TreeTypes
<1>4. TreeInv'
  <2>1. \A n \in Nodes : parent'[n] # None => n < fresh' /\ files'[parent'[n]] = 0
    <3> SUFFICES ASSUME NEW n \in Nodes, parent'[n] # None
                 PROVE  n < fresh' /\ files'[parent'[n]] = 0
      OBVIOUS
    <3>1. CASE n = fresh
      BY <3>1, <1>1, <1>2, <1>a DEF TreeInv
    <3>2. CASE n # fresh
      <4>1. parent[n] # None /\ parent'[n] = parent[n] /\ parent[n] \in Nodes /\ parent[n] < n
        BY <3>2, <1>2 DEF TreeTypes, Climbs
      <4>2. n < fresh /\ files[parent[n]] = 0 /\ n \in Nat /\ parent[n] \in Nat
        BY <4>1, NodesAre DEF TreeInv
      <4> QED
        BY <4>1, <4>2, <1>1, <1>2, <1>a
    <3> QED
      BY <3>1, <3>2
  <2>2. \A p \in Nodes : \A i \in DOMAIN kids'[p] : parent'[kids'[p][i]] = p
    <3> SUFFICES ASSUME NEW p \in Nodes, NEW i \in DOMAIN kids'[p]
                 PROVE  parent'[kids'[p][i]] = p
      OBVIOUS
    <3>1. CASE p = Root
      BY <3>1, <1>1, <1>2, <1>b
    <3>2. CASE p # Root
      <4>1. i \in DOMAIN kids[p] /\ kids'[p][i] = kids[p][i]
        BY <3>2, <1>2
      <4>2. kids[p][i] \in Nodes /\ kids[p][i] < fresh /\ parent[kids[p][i]] = p
        BY <4>1, DescendsIs DEF Descends, TreeInv
      <4> QED
        BY <4>1, <4>2, <1>1, <1>2, <1>a
    <3> QED
      BY <3>1, <3>2
  <2>3. \A p \in Nodes : \A i, j \in DOMAIN kids'[p] : kids'[p][i] = kids'[p][j] => i = j
    BY <1>2, <1>b DEF TreeInv
  <2>4. \A n \in Nodes : n >= fresh' => kids'[n] = <<>> /\ files'[n] = 0
    <3> SUFFICES ASSUME NEW n \in Nodes, n >= fresh'
                 PROVE  kids'[n] = <<>> /\ files'[n] = 0
      OBVIOUS
    <3>1. n \in Nat /\ n # Root /\ n # fresh /\ n >= fresh
      BY <1>1, <1>a, NodesAre
    <3> QED
      BY <3>1, <1>2 DEF TreeInv
  <2>5. files'[Root] = 0
    BY <1>1, <1>2 DEF TreeInv
  <2> QED
    BY <2>1, <2>2, <2>3, <2>4, <2>5 DEF TreeInv
<1>5. Whole(T)'
  <2>1. \A n \in T : n < fresh' /\ \A i \in DOMAIN kids'[n] : kids'[n][i] \in T
    <3> SUFFICES ASSUME NEW n \in T
                 PROVE  n < fresh' /\ \A i \in DOMAIN kids'[n] : kids'[n][i] \in T
      OBVIOUS
    <3>1. CASE n = Root
      BY <3>1, <1>1, <1>2, <1>a, <1>b, NodesAre
    <3>2. CASE n = fresh
      <4>1. kids'[n] = <<>>
        BY <3>2, <1>1, <1>2 DEF TreeInv
      <4>2. DOMAIN kids'[n] = {}
        BY <4>1
      <4> QED
        BY <3>2, <4>2, <1>1, <1>a
    <3>3. CASE n # Root /\ n # fresh
      <4>1. n \in S /\ n < fresh /\ kids'[n] = kids[n] /\ n \in Nat
        BY <3>3, <1>2, <1>b, <1>c, NodesAre DEF Whole
      <4> QED
        BY <3>3, <4>1, <1>1, <1>a, <1>c
    <3> QED
      BY <3>1, <3>2, <3>3
  <2>2. \A n \in T : n = Root \/ (Linked(n)' /\ parent'[n] \in T)
    <3> SUFFICES ASSUME NEW n \in T, n # Root
                 PROVE  Linked(n)' /\ parent'[n] \in T
      OBVIOUS
    <3>1. CASE n = fresh
      <4>1. n \in Nodes /\ Root # None
        BY <1>b, NodesAre
      <4>2. parent'[n] = Root /\ kids'[Root] = s
        BY <3>1, <4>1, <1>1, <1>2
      <4>3. \E i \in DOMAIN s : s[i] = n
        BY <3>1, <1>b
      <4> QED
        BY <4>1, <4>2, <4>3, <1>b DEF Linked
    <3>2. CASE n # fresh
      <4>1. n \in S /\ parent[n] \in T /\ Linked(n) /\ parent'[n] = parent[n]
        BY <3>2, <1>2, <1>b, <1>c DEF Whole
      <4>2. parent[n] # None /\ \E i \in DOMAIN kids'[parent[n]] : kids'[parent[n]][i] = n
        <5>1. CASE parent[n] = Root
          BY <5>1, <3>2, <1>1, <1>2, <1>c, NodesAre
        <5>2. CASE parent[n] # Root
          BY <5>2, <4>1, <1>2, <1>b DEF Linked
        <5> QED
          BY <5>1, <5>2
      <4> QED
        BY <4>1, <4>2 DEF Linked
    <3> QED
      BY <3>1, <3>2
  <2> QED
    BY <2>1, <2>2, <1>b DEF Whole
<1>6. ASSUME NEW D \in SUBSET Nodes, Dead(D) PROVE Dead(D)'
  <2>1. D # {} /\ D \subseteq 1 .. fresh - 1 /\ Barren(D)
    BY <1>6 DEF Dead
  <2>2. D \subseteq 1 .. fresh' - 1
    BY <2>1, <1>1, <1>a
  <2>3. \A n \in D : n # Root /\ n # fresh /\ n \in Nodes
    BY <2>1, <1>1, NodesAre
  <2>4. \A n \in D : files'[n] = files[n] /\ kids'[n] = kids[n]
    BY <2>3, <1>2
  <2>5. Barren(D)'
    BY <2>1, <2>4 DEF Barren
  <2> QED
    BY <2>1, <2>2, <2>5 DEF Dead
<1>7. Lost => Lost'
  BY <1>6 DEF Lost
<1> QED
  BY <1>3, <1>4, <1>5, <1>7

LEMMA LoadFileAppendKeeps ==
  ASSUME NEW S, Inv(S), LoadFileAppend
  PROVE  \E T \in SUBSET Nodes : Inv(T)'
<1> DEFINE s == Append(kids[Root], fresh)
<1>a. PICK T : T = S \cup {fresh}
  OBVIOUS
<1>b. PICK K : K = 0 .. fresh - 1
  OBVIOUS
<1>1. /\ pc = "playing" /\ fresh \in Nodes
      /\ kids' = [kids EXCEPT ![Root] = s] /\ parent' = [parent EXCEPT ![fresh] = Root]
      /\ files' = [files EXCEPT ![fresh] = 1] /\ fresh' = fresh + 1
      /\ loops' = loops /\ own' = own /\ byAlias' = byAlias
      /\ config' = config /\ iter' = iter /\ saved' = saved
      /\ pc' = pc /\ d' = d /\ then' = then /\ res' = res /\ old' = old /\ touched' = touched
  <2>1. kids' = [kids EXCEPT ![Root] = s]
    BY DEF LoadFileAppend
  <2> QED
    BY <2>1 DEF LoadFileAppend, Command
<1>2. TreeTypes /\ TreeInv /\ Whole(S) /\ S \subseteq Nodes /\ IterTypes
  BY InvParts
<1>3. /\ Standing /\ ~ Trying /\ then = "none" /\ iter.tree \in S /\ files[iter.tree] > 0
      /\ iter.entry_pushed = 1 /\ iter.file # -1
  BY <1>1, PlayingFacts
<1>4. kids[Root] \in Seq(Nodes) /\ fresh \in Nat /\ fresh >= Size
  BY <1>2, NodesAre DEF TreeTypes
<1>5. /\ s \in Seq(Nodes) /\ Len(s) = Len(kids[Root]) + 1 /\ Len(kids[Root]) \in Nat
      /\ DOMAIN s = 1 .. Len(kids[Root]) + 1 /\ DOMAIN kids[Root] = 1 .. Len(kids[Root])
      /\ \A i \in 1 .. Len(kids[Root]) : s[i] = kids[Root][i]
      /\ s[Len(kids[Root]) + 1] = fresh
  BY <1>1, <1>4, AppendProperties, LenProperties
<1>6. \A i \in DOMAIN kids[Root] : kids[Root][i] \in S /\ kids[Root][i] < fresh
                                   /\ parent[kids[Root][i]] = Root
  BY <1>2, NodesAre, DescendsIs DEF Whole, TreeInv
<1> HIDE DEF s
<1>7. \A i, j \in DOMAIN s : s[i] = s[j] => i = j
  <2> SUFFICES ASSUME NEW i \in DOMAIN s, NEW j \in DOMAIN s, s[i] = s[j] PROVE i = j
    OBVIOUS
  <2>1. \A k \in 1 .. Len(kids[Root]) : s[k] < fresh
    BY <1>5, <1>6
  <2>2. i \in 1 .. Len(kids[Root]) \/ i = Len(kids[Root]) + 1
    BY <1>5
  <2>3. j \in 1 .. Len(kids[Root]) \/ j = Len(kids[Root]) + 1
    BY <1>5
  <2>4. CASE i \in 1 .. Len(kids[Root]) /\ j \in 1 .. Len(kids[Root])
    <3>1. i \in DOMAIN kids[Root] /\ j \in DOMAIN kids[Root]
      BY <2>4, <1>5
    <3>2. kids[Root][i] = kids[Root][j]
      BY <2>4, <1>5
    <3>3. Root \in Nodes
      BY NodesAre
    <3> QED
      BY <3>1, <3>2, <3>3, <1>2 DEF TreeInv
  <2>5. CASE i = Len(kids[Root]) + 1 /\ j \in 1 .. Len(kids[Root])
    BY <2>1, <2>5, <1>4, <1>5
  <2>6. CASE j = Len(kids[Root]) + 1 /\ i \in 1 .. Len(kids[Root])
    BY <2>1, <2>6, <1>4, <1>5
  <2> QED
    BY <2>2, <2>3, <2>4, <2>5, <2>6
<1>8. \A i \in DOMAIN s : s[i] \in T /\ (s[i] = fresh \/ parent[s[i]] = Root)
  BY <1>5, <1>6, <1>a
<1>9. \E i \in DOMAIN s : s[i] = fresh
  BY <1>5
<1>10. ASSUME NEW n \in T, n # Root, n # fresh
       PROVE  /\ n \in S /\ parent[n] \in T
              /\ \A i \in DOMAIN kids[n] : kids[n][i] \in T
              /\ parent[n] = Root => \E i \in DOMAIN s : s[i] = n
  <2>1. n \in S /\ Linked(n) /\ parent[n] \in S /\ \A i \in DOMAIN kids[n] : kids[n][i] \in S
    BY <1>2, <1>10, <1>a DEF Whole
  <2>2. ASSUME parent[n] = Root PROVE \E i \in DOMAIN s : s[i] = n
    <3>1. PICK i \in DOMAIN kids[Root] : kids[Root][i] = n
      BY <2>1, <2>2 DEF Linked
    <3>2. i \in DOMAIN s /\ s[i] = n
      BY <3>1, <1>5
    <3> QED
      BY <3>2
  <2> QED
    BY <2>1, <2>2, <1>a
<1>11. T \subseteq Nodes /\ Root \in T /\ fresh \in T
  BY <1>1, <1>2, <1>a DEF Whole
<1>12. TreeTypes' /\ TreeInv' /\ Whole(T)' /\ (Lost => Lost')
  <2>1. RootKids(s)
    BY <1>1 DEF RootKids
  <2>2. MakesUp(s, S, T)
    BY <1>7, <1>8, <1>9, <1>10, <1>11 DEF MakesUp
  <2> QED
    BY <2>1, <2>2, <1>1, <1>2, <1>5, RootGrows
<1>13. K \subseteq Nodes /\ iter.tree \in K /\ iter.tree \in T
  <2>1. iter.tree \in Nat /\ iter.tree < fresh
    BY <1>2, <1>3, NodesAre DEF Whole
  <2>2. K \subseteq Nodes
    BY <1>1, <1>b, NodesAre
  <2> QED
    BY <2>1, <2>2, <1>3, <1>4, <1>a, <1>b
<1>14. \A n \in K : parent'[n] = parent[n] /\ own'[n] = own[n] /\ (parent[n] # None => parent[n] \in K)
  <2> SUFFICES ASSUME NEW n \in K
               PROVE  parent'[n] = parent[n] /\ own'[n] = own[n] /\ (parent[n] # None => parent[n] \in K)
    OBVIOUS
  <2>1. n \in Nodes /\ n < fresh /\ n # fresh /\ n \in Nat
    BY <1>4, <1>13, <1>b
  <2>2. parent[n] # None => parent[n] \in Nat /\ parent[n] < n
    BY <2>1, <1>2, NodesAre DEF TreeTypes, Climbs
  <2>3. parent'[n] = parent[n]
    BY <2>1, <1>1, <1>2 DEF TreeTypes, Climbs
  <2> QED
    BY <2>1, <2>2, <2>3, <1>1, <1>4, <1>b
<1>15. ~ Trying' /\ Stands(iter, T)' /\ (Lost' \/ ConfigHeld')
  BY <1>1, <1>3, <1>12, <1>13, <1>14, TreeChanged
<1>16. files'[iter.tree] > 0
  BY <1>1, <1>2, <1>3 DEF TreeTypes
<1>17. PlaceInv(T)' /\ EntryInv' /\ ResultInv' /\ HeadInv' /\ ErrorInv' /\ IterTypes'
  BY <1>1, <1>2, <1>3, <1>15, <1>16 DEF PlaceInv, EntryInv, ResultInv, HeadInv, ErrorInv, IterTypes
<1>18. (Lost \/ ConfigInv)'
  BY <1>1, <1>15 DEF ConfigInv
<1>19. Inv(T)' /\ T \in SUBSET Nodes
  BY <1>11, <1>12, <1>17, <1>18 DEF Inv, Control
<1> QED
  BY <1>19

\* The root is left with a new entry only.
LEMMA NewTreeIs ==
  ASSUME NEW S, TreeTypes, TreeInv, Whole(S), fresh \in Nodes, NewTree, NEW T, T = {Root, fresh}
  PROVE  TreeTypes' /\ TreeInv' /\ Whole(T)' /\ (Lost => Lost')
<1>1. PICK s : s = <<fresh>>
  OBVIOUS
<1>2. RootKids(s)
  BY <1>1 DEF NewTree, RootKids
<1>3. s \in Seq(Nodes) /\ DOMAIN s = {1} /\ s[1] = fresh
  BY <1>1
<1>4. MakesUp(s, S, T)
  <2>1. T \subseteq Nodes /\ Root \in T /\ fresh \in T
    BY NodesAre
  <2> QED
    BY <2>1, <1>3 DEF MakesUp
<1> QED
  BY <1>2, <1>3, <1>4, RootGrows

LEMMA UnwoundKeeps ==
  ASSUME NEW S, Inv(S), Unwound
  PROVE  \E T \in SUBSET Nodes : Inv(T)'
<1>1. /\ pc = "returned" /\ then = "unwind" /\ res = "END" /\ old' = None /\ config' = config
      /\ saved' = saved /\ touched' = touched
  BY DEF Unwound, Returned, history
<1>2. /\ TreeTypes /\ TreeInv /\ Whole(S) /\ S \subseteq Nodes /\ IterTypes /\ PlaceInv(S) /\ ResultInv
      /\ Standing /\ ~ Trying /\ old' \in Int
  BY <1>1, InvParts, NodesAre DEF Standing, PlaceInv
<1>3. iter.tree = Root /\ iter.entry_pushed = 0 /\ iter.file = -1
  BY <1>1, <1>2 DEF ResultInv
<1>4. CASE old # Root
  <2>1. Free_iter /\ UNCHANGED tree
    BY <1>4 DEF Unwound
  <2>2. Inv(S)'
    BY <2>1, <1>1, <1>2, FreeKeeps
  <2> QED
    BY <2>2, <1>2
<1>5. CASE old = Root
  <2>a. PICK T : T = {Root, fresh}
    OBVIOUS
  <2>b. PICK K : K = {Root}
    OBVIOUS
  <2>1. /\ NewTree /\ pc' = "step" /\ d' = 0 /\ then' = "head" /\ res' = "none"
        /\ iter' = [iter EXCEPT !.tree = Root]
    BY <1>5 DEF Unwound, Call
  <2>2. iter' = iter
    <3>1. iter \in IterOf
      BY <1>2 DEF IterTypes
    <3>2. [iter EXCEPT !.tree = iter.tree] = iter
      BY <3>1 DEF IterOf
    <3> QED
      BY <3>2, <2>1, <1>3
  <2>3. fresh \in Nodes
    BY <1>1, <1>2, <1>5 DEF PlaceInv
  <2>4. TreeTypes' /\ TreeInv' /\ Whole(T)' /\ (Lost => Lost')
    BY <1>2, <2>a, <2>1, <2>3, NewTreeIs
  <2>5. \A n \in K : parent'[n] = parent[n] /\ own'[n] = own[n] /\ (parent[n] # None => parent[n] \in K)
    <3>1. parent[Root] = None /\ Root \in Nodes /\ fresh # Root
      BY <1>2, RootFacts, NodesAre DEF TreeTypes
    <3>2. parent'[Root] = parent[Root] /\ own' = own
      BY <3>1, <2>1, <1>2 DEF NewTree, TreeTypes, Climbs
    <3> QED
      BY <3>1, <3>2, <2>b
  <2>6. K \subseteq Nodes /\ iter.tree \in K /\ iter.tree \in T
    BY <2>a, <2>b, <1>3, NodesAre
  <2>7. ~ Trying' /\ Stands(iter, T)' /\ (Lost' \/ ConfigHeld')
    BY <1>1, <1>2, <2>2, <2>4, <2>5, <2>6, TreeChanged
  <2>8. PlaceInv(T)' /\ EntryInv' /\ ResultInv' /\ HeadInv' /\ ErrorInv' /\ IterTypes'
    BY <1>1, <1>2, <1>3, <2>1, <2>2, <2>7
    DEF PlaceInv, EntryInv, ResultInv, HeadInv, ErrorInv, IterTypes
  <2>9. (Lost \/ ConfigInv)'
    BY <2>1, <2>7 DEF ConfigInv
  <2>10. Inv(T)' /\ T \in SUBSET Nodes
    BY <2>a, <2>3, <2>4, <2>8, <2>9, NodesAre DEF Inv, Control
  <2> QED
    BY <2>10
<1> QED
  BY <1>4, <1>5

\* The iterator of a new list starts where the options of the base hold.
LEMMA NewIterIs ==
  ASSUME TreeTypes
  PROVE  /\ play_tree_iter_new \in IterOf /\ NoIter \in IterOf
         /\ play_tree_iter_new.tree = Root /\ play_tree_iter_new.entry_pushed = 0
         /\ play_tree_iter_new.file = -1 /\ play_tree_iter_new.stack = <<>>
         /\ Len(play_tree_iter_new.stack) = Len(Levels[Root]) - 3
         /\ Home(play_tree_iter_new) = BaseConfig.slots
<1>1. NoIter \in IterOf /\ NoIter.stack = <<>> /\ NoIter.entry_pushed = 0 /\ NoIter.file = -1
  <2>1. <<>> \in Seq(Int) /\ -1 \in Int
    OBVIOUS
  <2> QED
    BY <2>1 DEF NoIter, IterOf
<1>2. /\ play_tree_iter_new \in IterOf /\ play_tree_iter_new.tree = Root
      /\ play_tree_iter_new.stack = <<>> /\ play_tree_iter_new.entry_pushed = 0
      /\ play_tree_iter_new.file = -1
  BY <1>1, NodesAre DEF play_tree_iter_new, IterOf
<1>3. Len(Levels[Root]) = 3 /\ Above(Root) = BaseConfig.slots
  BY RootFacts DEF TreeTypes
<1>4. Len(<<>>) = 3 - 3
  OBVIOUS
<1> QED
  BY <1>1, <1>2, <1>3, <1>4 DEF Home

LEMMA LoadFileIdleKeeps ==
  ASSUME NEW S, Inv(S), LoadFileIdle
  PROVE  \E T \in SUBSET Nodes : Inv(T)'
<1>a. PICK T : T = {Root, fresh}
  OBVIOUS
<1>1. /\ pc = "idle" /\ fresh \in Nodes /\ NewTree /\ iter' = play_tree_iter_new
      /\ pc' = "step" /\ d' = 0 /\ then' = "start" /\ res' = "none"
      /\ config' = config /\ saved' = saved /\ old' = old /\ touched' = touched
  BY DEF LoadFileIdle, Call
<1>2. /\ TreeTypes /\ TreeInv /\ Whole(S) /\ S \subseteq Nodes /\ IterTypes /\ EntryInv
      /\ (Lost \/ ConfigInv)
  BY InvParts
<1>3. TreeTypes' /\ TreeInv' /\ Whole(T)' /\ (Lost => Lost')
  BY <1>a, <1>1, <1>2, NewTreeIs
<1>4. ~ Trying /\ ~ Trying'
  BY <1>1, <1>2 DEF EntryInv, Trying
<1>5. /\ parent'[Root] = None /\ Under(parent', own', Root) = BaseConfig.slots
      /\ Len(Levels'[Root]) = 3
  BY <1>3, RootFactsAre DEF TreeTypes, Levels, Climbs, Values
<1>6. /\ iter' \in IterOf /\ iter'.tree = Root /\ iter'.entry_pushed = 0 /\ iter'.file = -1
      /\ iter'.stack = <<>>
  BY <1>1, <1>2, NewIterIs
<1>7. Stands(iter, T)'
  <2>1. Len(<<>>) = 3 - 3
    OBVIOUS
  <2> QED
    BY <2>1, <1>a, <1>5, <1>6 DEF Stands
<1>8. PlaceInv(T)' /\ EntryInv' /\ ResultInv' /\ HeadInv' /\ ErrorInv' /\ IterTypes'
  BY <1>1, <1>2, <1>4, <1>6, <1>7
  DEF PlaceInv, EntryInv, ResultInv, HeadInv, ErrorInv, IterTypes
<1>9. ASSUME ConfigInv PROVE ConfigHeld'
  <2>1. config' = ConfigAt(BaseConfig.slots)
    BY <1>1, <1>9, BaseLevels DEF ConfigInv
  <2>2. Held' = iter'
    BY <1>4 DEF Held
  <2>3. Home(Held)' = BaseConfig.slots
    BY <2>2, <1>5, <1>6 DEF Home, Above
  <2> QED
    BY <2>1, <2>3, ConfigIs DEF ConfigHeld
<1>10. (Lost \/ ConfigInv)'
  BY <1>1, <1>2, <1>3, <1>9 DEF ConfigInv
<1>11. Inv(T)' /\ T \in SUBSET Nodes
  BY <1>a, <1>1, <1>3, <1>8, <1>10, NodesAre DEF Inv, Control
<1> QED
  BY <1>11

-----------------------------------------------------------------------------
(* Lists: a group is put behind the entry, and the entry removed.          *)

LEMMA PartIs ==
  ASSUME NEW V, NEW s \in Seq(V), NEW m \in 1 .. Len(s) + 1, NEW n \in 0 .. Len(s), m <= n + 1
  PROVE  /\ SubSeq(s, m, n) \in Seq(V) /\ Len(SubSeq(s, m, n)) = n - m + 1
         /\ \A i \in 1 .. n - m + 1 : SubSeq(s, m, n)[i] = s[m + i - 1]
<1>1. Len(s) \in Nat /\ \A i \in 1 .. Len(s) : s[i] \in V
  BY LenProperties, ElementOfSeq
<1>2. m \in Int /\ n \in Int /\ \A i \in m .. n : i \in 1 .. Len(s)
  BY <1>1
<1>3. \A i \in m .. n : s[i] \in V
  BY <1>1, <1>2
<1>4. /\ SubSeq(s, m, n) \in Seq(V)
      /\ Len(SubSeq(s, m, n)) = IF m <= n THEN n - m + 1 ELSE 0
      /\ \A i \in 1 .. n - m + 1 : SubSeq(s, m, n)[i] = s[m + i - 1]
  BY <1>2, <1>3, SubSeqProperties
<1> QED
  BY <1>2, <1>4

LEMMA InsertIs ==
  ASSUME NEW V, NEW s \in Seq(V), NEW k \in 1 .. Len(s) + 1, NEW e \in V
  PROVE  /\ InsertAt(s, k, e) \in Seq(V) /\ Len(InsertAt(s, k, e)) = Len(s) + 1
         /\ \A i \in 1 .. Len(s) + 1 :
              InsertAt(s, k, e)[i] = IF i < k THEN s[i] ELSE IF i = k THEN e ELSE s[i - 1]
<1> DEFINE a == SubSeq(s, 1, k - 1)
           b == SubSeq(s, k, Len(s))
           c == a \o <<e>>
           r == c \o b
<1>1. Len(s) \in Nat /\ k \in Nat /\ k >= 1 /\ k <= Len(s) + 1
  BY LenProperties
<1>2. /\ a \in Seq(V) /\ Len(a) = k - 1
      /\ \A i \in 1 .. k - 1 : a[i] = s[i]
  <2>1. 1 \in 1 .. Len(s) + 1 /\ k - 1 \in 0 .. Len(s) /\ 1 <= k - 1 + 1 /\ k - 1 - 1 + 1 = k - 1
    BY <1>1
  <2>2. /\ a \in Seq(V) /\ Len(a) = k - 1 - 1 + 1
        /\ \A i \in 1 .. k - 1 - 1 + 1 : a[i] = s[1 + i - 1]
    BY <2>1, PartIs
  <2>3. \A i \in 1 .. k - 1 : 1 + i - 1 = i
    BY <1>1
  <2> QED
    BY <2>1, <2>2, <2>3
<1>3. /\ b \in Seq(V) /\ Len(b) = Len(s) - k + 1
      /\ \A i \in 1 .. Len(s) - k + 1 : b[i] = s[k + i - 1]
  <2>1. Len(s) \in 0 .. Len(s) /\ k <= Len(s) + 1
    BY <1>1
  <2> QED
    BY <2>1, PartIs
<1> HIDE DEF a, b
<1>4. <<e>> \in Seq(V) /\ Len(<<e>>) = 1 /\ <<e>>[1] = e
  OBVIOUS
<1>5. /\ c \in Seq(V) /\ Len(c) = k
      /\ \A i \in 1 .. k : c[i] = IF i < k THEN s[i] ELSE e
  <2>1. /\ c \in Seq(V) /\ Len(c) = Len(a) + 1
        /\ \A i \in 1 .. Len(a) + 1 : c[i] = IF i <= Len(a) THEN a[i] ELSE <<e>>[i - Len(a)]
    BY <1>2, <1>4, ConcatProperties
  <2> HIDE DEF c
  <2>2. ASSUME NEW i \in 1 .. k PROVE c[i] = IF i < k THEN s[i] ELSE e
    <3>1. CASE i < k
      <4>1. i \in 1 .. k - 1 /\ i \in 1 .. Len(a) + 1 /\ i <= Len(a)
        BY <3>1, <1>1, <1>2
      <4> QED
        BY <4>1, <3>1, <2>1, <1>2
    <3>2. CASE i = k
      <4>1. i \in 1 .. Len(a) + 1 /\ ~ i <= Len(a) /\ i - Len(a) = 1
        BY <3>2, <1>1, <1>2
      <4> QED
        BY <4>1, <3>2, <2>1, <1>1, <1>4
    <3> QED
      BY <3>1, <3>2, <1>1
  <2> QED
    BY <2>1, <2>2, <1>1, <1>2
<1> HIDE DEF c
<1>6. /\ r \in Seq(V) /\ Len(r) = Len(c) + Len(b)
      /\ \A i \in 1 .. Len(c) + Len(b) : r[i] = IF i <= Len(c) THEN c[i] ELSE b[i - Len(c)]
  BY <1>3, <1>5, ConcatProperties
<1> HIDE DEF r
<1>7. Len(r) = Len(s) + 1 /\ Len(c) + Len(b) = Len(s) + 1
  BY <1>1, <1>3, <1>5, <1>6
<1>8. ASSUME NEW i \in 1 .. Len(s) + 1
      PROVE  r[i] = IF i < k THEN s[i] ELSE IF i = k THEN e ELSE s[i - 1]
  <2>1. CASE i <= k
    <3>1. i \in 1 .. k /\ r[i] = c[i]
      BY <2>1, <1>1, <1>5, <1>6, <1>7
    <3> QED
      BY <3>1, <1>1, <1>5
  <2>2. CASE i > k
    <3>1. i - k \in 1 .. Len(s) - k + 1 /\ k + (i - k) - 1 = i - 1 /\ k + (i - k - 1) = i - 1 /\ ~ i <= k /\ i # k /\ ~ i < k
      BY <2>2, <1>1
    <3>2. r[i] = b[i - k]
      BY <3>1, <1>5, <1>6, <1>7
    <3>3. b[i - k] = s[k + (i - k) - 1]
      BY <3>1, <1>3
    <3> QED
      BY <3>1, <3>2, <3>3
  <2> QED
    BY <2>1, <2>2, <1>1
<1>9. InsertAt(s, k, e) = r
  BY DEF InsertAt, r, a, b, c
<1> QED
  BY <1>6, <1>7, <1>8, <1>9

LEMMA RemoveIs ==
  ASSUME NEW V, NEW s \in Seq(V), NEW k \in 1 .. Len(s)
  PROVE  /\ RemoveAt(s, k) \in Seq(V) /\ Len(RemoveAt(s, k)) = Len(s) - 1
         /\ \A i \in 1 .. Len(s) - 1 : RemoveAt(s, k)[i] = IF i < k THEN s[i] ELSE s[i + 1]
<1> DEFINE a == SubSeq(s, 1, k - 1)
           b == SubSeq(s, k + 1, Len(s))
           r == a \o b
<1>1. Len(s) \in Nat /\ k \in Nat /\ k >= 1 /\ k <= Len(s)
  BY LenProperties
<1>2. /\ a \in Seq(V) /\ Len(a) = k - 1
      /\ \A i \in 1 .. k - 1 : a[i] = s[i]
  <2>1. 1 \in 1 .. Len(s) + 1 /\ k - 1 \in 0 .. Len(s) /\ 1 <= k - 1 + 1 /\ k - 1 - 1 + 1 = k - 1
    BY <1>1
  <2>2. /\ a \in Seq(V) /\ Len(a) = k - 1 - 1 + 1
        /\ \A i \in 1 .. k - 1 - 1 + 1 : a[i] = s[1 + i - 1]
    BY <2>1, PartIs
  <2>3. \A i \in 1 .. k - 1 : 1 + i - 1 = i
    BY <1>1
  <2> QED
    BY <2>1, <2>2, <2>3
<1>3. /\ b \in Seq(V) /\ Len(b) = Len(s) - k
      /\ \A i \in 1 .. Len(s) - k : b[i] = s[k + i]
  <2>1. k + 1 \in 1 .. Len(s) + 1 /\ Len(s) \in 0 .. Len(s) /\ k + 1 <= Len(s) + 1
        /\ Len(s) - (k + 1) + 1 = Len(s) - k
    BY <1>1
  <2>2. /\ b \in Seq(V) /\ Len(b) = Len(s) - (k + 1) + 1
        /\ \A i \in 1 .. Len(s) - (k + 1) + 1 : b[i] = s[(k + 1) + i - 1]
    BY <2>1, PartIs
  <2>3. \A i \in 1 .. Len(s) - k : (k + 1) + i - 1 = k + i
    BY <1>1
  <2> QED
    BY <2>1, <2>2, <2>3
<1> HIDE DEF a, b
<1>4. /\ r \in Seq(V) /\ Len(r) = Len(a) + Len(b)
      /\ \A i \in 1 .. Len(a) + Len(b) : r[i] = IF i <= Len(a) THEN a[i] ELSE b[i - Len(a)]
  BY <1>2, <1>3, ConcatProperties
<1> HIDE DEF r
<1>5. Len(r) = Len(s) - 1 /\ Len(a) + Len(b) = Len(s) - 1
  BY <1>1, <1>2, <1>3, <1>4
<1>6. ASSUME NEW i \in 1 .. Len(s) - 1
      PROVE  r[i] = IF i < k THEN s[i] ELSE s[i + 1]
  <2>1. CASE i < k
    <3>1. i \in 1 .. k - 1 /\ i <= Len(a)
      BY <2>1, <1>1, <1>2
    <3> QED
      BY <3>1, <2>1, <1>2, <1>4, <1>5
  <2>2. CASE ~ i < k
    <3>1. /\ i - (k - 1) \in 1 .. Len(s) - k /\ k + (i - (k - 1)) = i + 1 /\ ~ i <= Len(a)
          /\ i - Len(a) = i - (k - 1)
      BY <2>2, <1>1, <1>2
    <3>2. r[i] = b[i - (k - 1)]
      BY <3>1, <1>4, <1>5
    <3>3. b[i - (k - 1)] = s[k + (i - (k - 1))]
      BY <3>1, <1>3
    <3> QED
      BY <3>1, <3>2, <3>3, <2>2
  <2> QED
    BY <2>1, <2>2
<1>7. RemoveAt(s, k) = r
  BY DEF RemoveAt, r, a, b
<1> QED
  BY <1>4, <1>5, <1>6, <1>7

LEMMA AddListKeeps ==
  ASSUME NEW S, Inv(S), NEW entries \in 1 .. 2, AddList(entries)
  PROVE  \E T \in SUBSET Nodes : Inv(T)'
<1>0. PICK t, p, k, e : t = iter.tree /\ p = parent[iter.tree] /\ k = fresh /\ e = fresh + entries
  OBVIOUS
<1>a. PICK T : T = S \cup (k .. e)
  OBVIOUS
<1>b. PICK K : K = 0 .. k - 1
  OBVIOUS
<1>c. PICK s : s = InsertAt(kids[p], Place + 1, k)
  OBVIOUS
<1>d. PICK new : new = [i \in 1 .. entries |-> k + i]
  OBVIOUS
<1>1. /\ pc = "playing" /\ e \in Nodes
      /\ kids' = [kids EXCEPT ![p] = s, ![k] = new]
      /\ parent' = [n \in Nodes |-> IF n = k THEN p ELSE IF n > k /\ n <= e THEN k ELSE parent[n]]
      /\ files' = [n \in Nodes |-> IF n > k /\ n <= e THEN 1 ELSE files[n]]
      /\ own' = [own EXCEPT ![k] = own[t]]
      /\ byAlias' = IF t \in byAlias THEN byAlias \cup {k} ELSE byAlias
      /\ fresh' = e + 1 /\ old' = t /\ pc' = "step" /\ d' = 1 /\ then' = "list" /\ res' = "none"
      /\ loops' = loops /\ config' = config /\ iter' = iter /\ saved' = saved /\ touched' = touched
  BY <1>0, <1>c, <1>d DEF AddList, Command, Call
<1>2. TreeTypes /\ TreeInv /\ Whole(S) /\ S \subseteq Nodes /\ IterTypes
  BY InvParts
<1>3. /\ Standing /\ ~ Trying /\ t \in S /\ t \in Nodes /\ files[t] > 0 /\ t # Root
      /\ iter.entry_pushed = 1 /\ iter.file # -1
  BY <1>0, <1>1, PlayingFacts
<1>4. p \in S /\ p \in Nodes /\ p # None /\ files[p] = 0 /\ parent[t] = p
  BY <1>0, <1>2, <1>3 DEF Whole, Linked, TreeInv
<1>5. /\ k \in Nat /\ e \in Nat /\ k >= Size /\ Size >= 2 /\ k <= e - 1 /\ entries \in Nat /\ entries >= 1
      /\ e = k + entries /\ k \in Nodes /\ p \in Nat /\ t \in Nat /\ p < t /\ t < k /\ p < k /\ p # k
      /\ e + 1 <= Size + Spare /\ k # Root /\ fresh = k
  <2>1. k \in Nat /\ k >= Size /\ Size >= 2
    BY <1>0, <1>2, NodesAre DEF TreeTypes
  <2>2. t < k /\ p < t
    BY <1>0, <1>2, <1>3, <1>4 DEF Whole, TreeTypes, Climbs
  <2>3. e = k + entries /\ entries \in Nat /\ entries >= 1 /\ e \in 0 .. LastNode /\ LastNode + 1 = Size + Spare
    BY <1>0, <1>1, NodesAre
  <2>4. p \in Nat /\ t \in Nat /\ LastNode \in Nat /\ Nodes = 0 .. LastNode
    BY <1>3, <1>4, NodesAre
  <2>5. k \in Nodes /\ e + 1 <= Size + Spare /\ k <= e - 1
    BY <2>1, <2>3, <2>4
  <2> QED
    BY <2>1, <2>2, <2>3, <2>4, <2>5, <1>0, NodesAre
<1>6. /\ Siblings(t) = kids[p] /\ kids[p] \in Seq(Nodes) /\ Len(kids[p]) \in Nat
      /\ DOMAIN kids[p] = 1 .. Len(kids[p])
      /\ Place \in 1 .. Len(kids[p]) /\ kids[p][Place] = t
  <2>1. Siblings(t) = kids[p]
    BY <1>4 DEF Siblings
  <2> QED
    BY <2>1, <1>0, <1>2, <1>3, SiblingsAre DEF Place
<1>e. PICK w : w = Place
  OBVIOUS
<1>7. /\ s \in Seq(Nodes) /\ Len(s) = Len(kids[p]) + 1 /\ DOMAIN s = 1 .. Len(kids[p]) + 1
      /\ \A i \in 1 .. Len(kids[p]) + 1 :
           s[i] = IF i < w + 1 THEN kids[p][i] ELSE IF i = w + 1 THEN k ELSE kids[p][i - 1]
      /\ w \in 1 .. Len(kids[p])
  <2>1. w \in 1 .. Len(kids[p]) /\ w + 1 \in 1 .. Len(kids[p]) + 1 /\ s = InsertAt(kids[p], w + 1, k)
    BY <1>6, <1>c, <1>e
  <2>2. /\ s \in Seq(Nodes) /\ Len(s) = Len(kids[p]) + 1
        /\ \A i \in 1 .. Len(kids[p]) + 1 :
             s[i] = IF i < w + 1 THEN kids[p][i] ELSE IF i = w + 1 THEN k ELSE kids[p][i - 1]
    <3>1. PICK v : v = w + 1
      OBVIOUS
    <3>2. v \in 1 .. Len(kids[p]) + 1 /\ s = InsertAt(kids[p], v, k)
      BY <2>1, <3>1
    <3>3. PICK c : c = kids[p]
      OBVIOUS
    <3>4. c \in Seq(Nodes) /\ v \in 1 .. Len(c) + 1 /\ k \in Nodes
      BY <3>2, <3>3, <1>5, <1>6
    <3>5. /\ InsertAt(c, v, k) \in Seq(Nodes) /\ Len(InsertAt(c, v, k)) = Len(c) + 1
          /\ \A i \in 1 .. Len(c) + 1 :
               InsertAt(c, v, k)[i] = IF i < v THEN c[i] ELSE IF i = v THEN k ELSE c[i - 1]
      BY <3>4, InsertIs
    <3>6. s = InsertAt(c, v, k)
      BY <3>2, <3>3
    <3>7. /\ s \in Seq(Nodes) /\ Len(s) = Len(c) + 1
          /\ \A i \in 1 .. Len(c) + 1 :
               s[i] = IF i < v THEN c[i] ELSE IF i = v THEN k ELSE c[i - 1]
      BY <3>5, <3>6
    <3> QED
      BY <3>1, <3>3, <3>7
  <2>3. DOMAIN s = 1 .. Len(s)
    BY <2>2, LenProperties
  <2> QED
    BY <2>1, <2>2, <2>3
<1>8. \A q \in Nodes : \A i \in DOMAIN kids[q] : /\ kids[q][i] \in Nodes /\ kids[q][i] < k
                                                /\ parent[kids[q][i]] = q
  BY <1>2, <1>5, DescendsIs DEF Descends, TreeInv
<1>9. \A n \in Nodes : /\ kids'[n] = IF n = k THEN new ELSE IF n = p THEN s ELSE kids[n]
                       /\ parent'[n] = IF n = k THEN p ELSE IF n > k /\ n <= e THEN k ELSE parent[n]
                       /\ files'[n] = IF n > k /\ n <= e THEN 1 ELSE files[n]
                       /\ n # k => own'[n] = own[n]
  BY <1>1, <1>2, <1>4, <1>5 DEF TreeTypes, Values
<1>10. /\ new \in Seq(Nodes) /\ DOMAIN new = 1 .. entries
       /\ \A i \in 1 .. entries : new[i] = k + i /\ new[i] \in Nodes /\ new[i] > k /\ new[i] <= e
  <2>1. \A i \in 1 .. entries : k + i \in Nodes /\ k + i > k /\ k + i <= e
    <3>1. e \in 0 .. LastNode /\ LastNode \in Nat /\ Nodes = 0 .. LastNode
      BY <1>1, NodesAre
    <3>2. \A i \in 1 .. entries : k + i \in 0 .. LastNode /\ k + i > k /\ k + i <= e
      BY <3>1, <1>5
    <3> QED
      BY <3>1, <3>2
  <2>2. new \in [1 .. entries -> Nodes] /\ DOMAIN new = 1 .. entries /\ \A i \in 1 .. entries : new[i] = k + i
    BY <2>1, <1>d
  <2> QED
    BY <2>1, <2>2, <1>5
<1>11. ASSUME NEW i \in DOMAIN s
       PROVE  s[i] = k \/ \E j \in DOMAIN kids[p] : s[i] = kids[p][j]
  <2>1. CASE i < w + 1
    BY <2>1, <1>6, <1>7
  <2>2. CASE i > w + 1
    <3>1. i - 1 \in DOMAIN kids[p] /\ s[i] = kids[p][i - 1]
      BY <2>2, <1>6, <1>7
    <3> QED
      BY <3>1
  <2>3. CASE i = w + 1
    BY <2>3, <1>7
  <2> QED
    BY <2>1, <2>2, <2>3, <1>7
<1>12. ASSUME NEW j \in DOMAIN kids[p]
       PROVE  \E i \in DOMAIN s : s[i] = kids[p][j]
  <2>1. CASE j < w + 1
    BY <2>1, <1>6, <1>7
  <2>2. CASE ~ j < w + 1
    <3>1. j + 1 \in DOMAIN s /\ ~ j + 1 < w + 1 /\ j + 1 # w + 1 /\ j + 1 - 1 = j
      BY <2>2, <1>6, <1>7
    <3>2. s[j + 1] = kids[p][j + 1 - 1]
      BY <3>1, <1>7
    <3> QED
      BY <3>1, <3>2
  <2> QED
    BY <2>1, <2>2
<1>13. ASSUME NEW i \in DOMAIN s, NEW j \in DOMAIN s, s[i] = s[j] PROVE i = j
  <2>1. \A u, v \in 1 .. Len(kids[p]) : kids[p][u] = kids[p][v] => u = v
    BY <1>2, <1>4, <1>6 DEF TreeInv
  <2>2. \A u \in 1 .. Len(kids[p]) : kids[p][u] # k
    BY <1>4, <1>5, <1>6, <1>8
  <2>3. i \in 1 .. Len(kids[p]) + 1 /\ j \in 1 .. Len(kids[p]) + 1
    BY <1>7
  <2>4. CASE i < w + 1 /\ j < w + 1
    BY <2>1, <2>3, <2>4, <1>6, <1>7, <1>13
  <2>5. CASE i < w + 1 /\ j > w + 1
    <3>1. j - 1 \in 1 .. Len(kids[p]) /\ i \in 1 .. Len(kids[p]) /\ i # j - 1
      BY <2>3, <2>5, <1>6, <1>7
    <3>2. s[i] = kids[p][i] /\ s[j] = kids[p][j - 1]
      BY <2>3, <2>5, <1>7
    <3> QED
      BY <3>1, <3>2, <2>1, <1>13
  <2>6. CASE i > w + 1 /\ j < w + 1
    <3>1. i - 1 \in 1 .. Len(kids[p]) /\ j \in 1 .. Len(kids[p]) /\ j # i - 1
      BY <2>3, <2>6, <1>6, <1>7
    <3>2. s[j] = kids[p][j] /\ s[i] = kids[p][i - 1]
      BY <2>3, <2>6, <1>7
    <3> QED
      BY <3>1, <3>2, <2>1, <1>13
  <2>7. CASE i > w + 1 /\ j > w + 1
    <3>1. i - 1 \in 1 .. Len(kids[p]) /\ j - 1 \in 1 .. Len(kids[p])
      BY <2>3, <2>7, <1>6, <1>7
    <3>2. s[j] = kids[p][j - 1] /\ s[i] = kids[p][i - 1]
      BY <2>3, <2>7, <1>7
    <3>3. i - 1 = j - 1
      BY <3>1, <3>2, <2>1, <1>13
    <3> QED
      BY <3>3, <2>3
  <2>8. CASE i = w + 1
    <3>1. s[j] = k /\ s[i] = k
      BY <2>3, <2>8, <1>7, <1>13
    <3>2. j < w + 1 => FALSE
      BY <3>1, <2>2, <2>3, <1>6, <1>7
    <3>3. j > w + 1 => j - 1 \in 1 .. Len(kids[p]) /\ s[j] = kids[p][j - 1]
      BY <2>3, <1>7
    <3> QED
      BY <3>1, <3>2, <3>3, <2>2, <2>3, <2>8, <1>7
  <2>9. CASE j = w + 1
    <3>1. s[j] = k /\ s[i] = k
      BY <2>3, <2>9, <1>7, <1>13
    <3>2. i < w + 1 => FALSE
      BY <3>1, <2>2, <2>3, <1>6, <1>7
    <3>3. i > w + 1 => i - 1 \in 1 .. Len(kids[p]) /\ s[i] = kids[p][i - 1]
      BY <2>3, <1>7
    <3> QED
      BY <3>1, <3>2, <3>3, <2>2, <2>3, <2>9, <1>7
  <2> QED
    BY <2>3, <2>4, <2>5, <2>6, <2>7, <2>8, <2>9, <1>7
<1>14. TreeTypes'
  <2>1. parent' \in [Nodes -> Nodes \cup {None}]
    BY <1>1, <1>2, <1>4, <1>5 DEF TreeTypes, Climbs
  <2>2. \A n \in Nodes : parent'[n] # None => parent'[n] < n
    <3> SUFFICES ASSUME NEW n \in Nodes, parent'[n] # None PROVE parent'[n] < n
      OBVIOUS
    <3>1. CASE n = k
      BY <3>1, <1>5, <1>9
    <3>2. CASE n > k /\ n <= e
      BY <3>2, <1>5, <1>9, NodesAre
    <3>3. CASE n # k /\ ~ (n > k /\ n <= e)
      BY <3>3, <1>2, <1>9 DEF TreeTypes, Climbs
    <3> QED
      BY <3>1, <3>2, <3>3
  <2>3. kids' \in [Nodes -> Seq(Nodes)]
    BY <1>1, <1>2, <1>7, <1>10 DEF TreeTypes
  <2>4. files' \in [Nodes -> Nat] /\ loops' \in [Nodes -> Int]
    BY <1>1, <1>2 DEF TreeTypes
  <2>5. own' \in [Nodes -> Int] /\ byAlias' = {}
    BY <1>1, <1>2, <1>3 DEF TreeTypes, Values
  <2>6. fresh' \in Size .. Size + Spare
    <3>1. fresh' = e + 1
      BY <1>1
    <3>2. Size \in Nat /\ Spare \in Nat
      BY NodesAre
    <3>3. e + 1 \in Size .. Size + Spare
      BY <3>2, <1>5
    <3> QED
      BY <3>1, <3>3
  <2> QED
    BY <2>1, <2>2, <2>3, <2>4, <2>5, <2>6 DEF TreeTypes, Climbs, Values
<1>15. TreeInv'
  <2>1. \A n \in Nodes : parent'[n] # None => n < fresh' /\ files'[parent'[n]] = 0
    <3> SUFFICES ASSUME NEW n \in Nodes, parent'[n] # None
                 PROVE  n < fresh' /\ files'[parent'[n]] = 0
      OBVIOUS
    <3>1. CASE n = k
      BY <3>1, <1>1, <1>4, <1>5, <1>9
    <3>2. CASE n > k /\ n <= e
      <4>1. parent'[n] = k /\ files'[k] = files[k]
        BY <3>2, <1>5, <1>9
      <4>2. files[k] = 0
        BY <1>2, <1>5 DEF TreeInv
      <4> QED
        BY <4>1, <4>2, <3>2, <1>1, <1>5, NodesAre
    <3>3. CASE n # k /\ ~ (n > k /\ n <= e)
      <4>1. parent[n] # None /\ parent'[n] = parent[n] /\ parent[n] \in Nodes /\ parent[n] < n
        BY <3>3, <1>2, <1>9 DEF TreeTypes, Climbs
      <4>2. n < k /\ files[parent[n]] = 0 /\ n \in Nat /\ parent[n] \in Nat
        BY <4>1, <1>2, <1>5, NodesAre DEF TreeInv
      <4>3. ~ (parent[n] > k /\ parent[n] <= e)
        BY <4>1, <4>2, <1>5
      <4> QED
        BY <4>1, <4>2, <4>3, <1>1, <1>5, <1>9
    <3> QED
      BY <3>1, <3>2, <3>3
  <2>2. \A q \in Nodes : \A i \in DOMAIN kids'[q] : parent'[kids'[q][i]] = q
    <3> SUFFICES ASSUME NEW q \in Nodes, NEW i \in DOMAIN kids'[q]
                 PROVE  parent'[kids'[q][i]] = q
      OBVIOUS
    <3>0. \A j \in DOMAIN kids[q] : parent'[kids[q][j]] = q
      <4> TAKE j \in DOMAIN kids[q]
      <4>1. kids[q][j] \in Nodes /\ kids[q][j] < k /\ parent[kids[q][j]] = q /\ kids[q][j] \in Nat
        BY <1>8, NodesAre
      <4> QED
        BY <4>1, <1>5, <1>9
    <3>1. CASE q = k
      <4>1. i \in 1 .. entries /\ kids'[q][i] = new[i]
        BY <3>1, <1>9, <1>10
      <4>2. new[i] \in Nodes /\ new[i] > k /\ new[i] <= e /\ new[i] # k
        BY <4>1, <1>5, <1>10, NodesAre
      <4> QED
        BY <4>1, <4>2, <3>1, <1>9
    <3>2. CASE q = p
      <4>1. i \in DOMAIN s /\ kids'[q][i] = s[i]
        BY <3>2, <1>5, <1>9
      <4>2. CASE s[i] = k
        BY <4>1, <4>2, <3>2, <1>5, <1>9
      <4>3. CASE \E j \in DOMAIN kids[p] : s[i] = kids[p][j]
        BY <4>1, <4>3, <3>0, <3>2
      <4> QED
        BY <4>1, <4>2, <4>3, <1>11
    <3>3. CASE q # k /\ q # p
      BY <3>0, <3>3, <1>9
    <3> QED
      BY <3>1, <3>2, <3>3
  <2>3. \A q \in Nodes : \A i, j \in DOMAIN kids'[q] : kids'[q][i] = kids'[q][j] => i = j
    <3> SUFFICES ASSUME NEW q \in Nodes, NEW i \in DOMAIN kids'[q], NEW j \in DOMAIN kids'[q],
                        kids'[q][i] = kids'[q][j]
                 PROVE  i = j
      OBVIOUS
    <3>1. CASE q = k
      <4>1. kids'[q] = new
        BY <3>1, <1>9
      <4>2. i \in 1 .. entries /\ j \in 1 .. entries /\ k + i = k + j
        BY <4>1, <1>10
      <4> QED
        BY <4>2, <1>5
    <3>2. CASE q = p
      BY <3>2, <1>5, <1>9, <1>13
    <3>3. CASE q # k /\ q # p
      BY <3>3, <1>2, <1>9 DEF TreeInv
    <3> QED
      BY <3>1, <3>2, <3>3
  <2>4. \A n \in Nodes : n >= fresh' => kids'[n] = <<>> /\ files'[n] = 0
    <3> SUFFICES ASSUME NEW n \in Nodes, n >= fresh'
                 PROVE  kids'[n] = <<>> /\ files'[n] = 0
      OBVIOUS
    <3>1. n \in Nat /\ n >= e + 1
      BY <1>1, NodesAre
    <3>2. n # p /\ n # k /\ n >= k /\ ~ n <= e
      BY <3>1, <1>5
    <3> QED
      BY <3>2, <1>2, <1>5, <1>9 DEF TreeInv
  <2>5. files'[Root] = 0
    <3>1. Root \in Nodes /\ ~ Root > k
      BY <1>5, NodesAre
    <3> QED
      BY <3>1, <1>2, <1>9 DEF TreeInv
  <2> QED
    BY <2>1, <2>2, <2>3, <2>4, <2>5 DEF TreeInv
<1>16. T \subseteq Nodes /\ Root \in T /\ S \subseteq T /\ \A n \in k .. e : n \in T /\ n \in Nodes
  <2>1. k .. e \subseteq Nodes
    <3>1. e \in 0 .. LastNode /\ LastNode \in Nat /\ Nodes = 0 .. LastNode
      BY <1>1, NodesAre
    <3>2. \A n \in k .. e : n \in 0 .. LastNode
      BY <3>1, <1>5
    <3> QED
      BY <3>1, <3>2
  <2> QED
    BY <2>1, <1>a, <1>2 DEF Whole
<1>17. Whole(T)'
  <2>1. ASSUME NEW n \in T
        PROVE  n < fresh' /\ \A i \in DOMAIN kids'[n] : kids'[n][i] \in T
    <3>0. n \in Nodes /\ n \in Nat
      BY <1>16, NodesAre
    <3>1. CASE n = k
      <4>1. \A i \in 1 .. entries : new[i] \in k .. e
        BY <1>5, <1>10, NodesAre
      <4>2. kids'[n] = new /\ \A i \in DOMAIN new : new[i] \in T
        BY <4>1, <3>0, <3>1, <1>9, <1>10, <1>16
      <4>3. n < fresh'
        BY <3>1, <1>1, <1>5
      <4> QED
        BY <4>2, <4>3
    <3>2. CASE n > k /\ n <= e
      <4>1. kids'[n] = <<>>
        BY <3>0, <3>2, <1>2, <1>5, <1>9 DEF TreeInv
      <4>2. DOMAIN kids'[n] = {}
        BY <4>1
      <4> QED
        BY <4>2, <3>0, <3>2, <1>1, <1>5
    <3>3. CASE n \in S
      <4>1. n < k /\ \A i \in DOMAIN kids[n] : kids[n][i] \in S
        BY <3>3, <1>2, <1>5 DEF Whole
      <4>2. CASE n = p
        <5>1. kids'[n] = s
          BY <4>2, <1>5, <1>9, <3>0
        <5>2. \A i \in DOMAIN s : s[i] \in T
          BY <4>1, <4>2, <1>5, <1>11, <1>16
        <5> QED
          BY <5>1, <5>2, <4>1, <3>0, <1>1, <1>5
      <4>3. CASE n # p
        <5>1. kids'[n] = kids[n]
          BY <4>1, <4>3, <1>5, <1>9, <3>0
        <5> QED
          BY <5>1, <4>1, <3>0, <1>1, <1>5, <1>16
      <4> QED
        BY <4>2, <4>3
    <3> QED
      BY <3>0, <3>1, <3>2, <3>3, <1>a, <1>5
  <2>2. ASSUME NEW n \in T, n # Root
        PROVE  Linked(n)' /\ parent'[n] \in T
    <3>0. n \in Nodes /\ n \in Nat
      BY <1>16, NodesAre
    <3>1. CASE n = k
      <4>1. parent'[n] = p /\ kids'[p] = s /\ p # None
        BY <3>1, <1>4, <1>5, <1>9
      <4>2. w + 1 \in DOMAIN s /\ s[w + 1] = k
        BY <1>7, <1>6
      <4> QED
        BY <3>1, <4>1, <4>2, <1>4, <1>16 DEF Linked
    <3>2. CASE n > k /\ n <= e
      <4>1. parent'[n] = k /\ kids'[k] = new /\ k # None
        BY <3>0, <3>2, <1>5, <1>9, NodesAre
      <4>2. n - k \in 1 .. entries /\ k + (n - k) = n
        BY <3>0, <3>2, <1>5
      <4>3. n - k \in DOMAIN new /\ new[n - k] = n
        BY <4>2, <1>10
      <4>4. k \in k .. e
        BY <1>5
      <4> QED
        BY <4>1, <4>3, <4>4, <1>16 DEF Linked
    <3>3. CASE n \in S
      <4>1. n < k /\ Linked(n) /\ parent[n] \in S
        BY <3>3, <2>2, <1>2, <1>5 DEF Whole
      <4>2. parent'[n] = parent[n] /\ parent[n] \in Nodes /\ parent[n] # k
        <5>1. parent[n] \in Nodes /\ parent[n] < k /\ parent[n] \in Nat
          BY <4>1, <1>2, <1>5, NodesAre DEF Whole
        <5>2. n # k /\ ~ n > k
          BY <4>1, <3>0, <1>5
        <5> QED
          BY <5>1, <5>2, <3>0, <1>5, <1>9
      <4>3. PICK j \in DOMAIN kids[parent[n]] : kids[parent[n]][j] = n
        BY <4>1 DEF Linked
      <4>4. \E i \in DOMAIN kids'[parent[n]] : kids'[parent[n]][i] = n
        <5>1. CASE parent[n] = p
          <6>1. kids'[p] = s
            BY <1>4, <1>5, <1>9
          <6> QED
            BY <5>1, <6>1, <4>3, <1>12
        <5>2. CASE parent[n] # p
          BY <5>2, <4>2, <4>3, <1>9
        <5> QED
          BY <5>1, <5>2
      <4> QED
        BY <4>1, <4>2, <4>4, <1>16 DEF Linked
    <3> QED
      BY <3>0, <3>1, <3>2, <3>3, <1>a, <1>5
  <2> QED
    BY <2>1, <2>2, <1>16 DEF Whole
<1>18. ASSUME NEW D \in SUBSET Nodes, Dead(D) PROVE Dead(D)'
  <2>1. D # {} /\ D \subseteq 1 .. k - 1 /\ Barren(D)
    BY <1>5, <1>18 DEF Dead
  <2>2. D \subseteq 1 .. fresh' - 1
    BY <2>1, <1>1, <1>5
  <2>3. p \notin D
    <3>1. t \notin D
      BY <2>1, <1>3 DEF Barren
    <3>2. PICK i \in DOMAIN kids[p] : kids[p][i] = t
      BY <1>6
    <3> QED
      BY <3>1, <3>2, <2>1 DEF Barren
  <2>4. \A n \in D : n \in Nodes /\ n < k /\ n # k /\ ~ n > k /\ n # p
    BY <2>1, <2>3, <1>5
  <2>5. \A n \in D : files'[n] = files[n] /\ kids'[n] = kids[n]
    BY <2>4, <1>9
  <2>6. Barren(D)'
    BY <2>1, <2>5 DEF Barren
  <2> QED
    BY <2>1, <2>2, <2>6 DEF Dead
<1>19. Lost => Lost'
  BY <1>18 DEF Lost
<1>20. K \subseteq Nodes /\ t \in K /\ t \in T
  BY <1>b, <1>3, <1>5, <1>16, NodesAre
<1>21. \A n \in K : parent'[n] = parent[n] /\ own'[n] = own[n] /\ (parent[n] # None => parent[n] \in K)
  <2> SUFFICES ASSUME NEW n \in K
               PROVE  parent'[n] = parent[n] /\ own'[n] = own[n] /\ (parent[n] # None => parent[n] \in K)
    OBVIOUS
  <2>1. n \in Nodes /\ n < k /\ n # k /\ n \in Nat /\ ~ n > k
    BY <1>b, <1>5, <1>20
  <2>2. parent[n] # None => parent[n] \in Nat /\ parent[n] < n
    BY <2>1, <1>2, NodesAre DEF TreeTypes, Climbs
  <2>3. parent'[n] = parent[n] /\ own'[n] = own[n]
    BY <2>1, <1>9
  <2> QED
    BY <2>1, <2>2, <2>3, <1>b, <1>5
<1>22. ~ Trying' /\ Stands(iter, T)' /\ (Lost' \/ ConfigHeld')
  BY <1>0, <1>1, <1>3, <1>14, <1>17, <1>19, <1>20, <1>21, TreeChanged
<1>23. files'[t] > 0 /\ old' = t /\ t \in Int /\ t # Root /\ iter'.tree = t
  BY <1>0, <1>1, <1>3, <1>5, <1>9
<1>24. PlaceInv(T)' /\ EntryInv' /\ ResultInv' /\ HeadInv' /\ ErrorInv' /\ IterTypes'
  BY <1>1, <1>2, <1>3, <1>20, <1>22, <1>23
  DEF PlaceInv, EntryInv, ResultInv, HeadInv, ErrorInv, IterTypes
<1>25. (Lost \/ ConfigInv)'
  BY <1>1, <1>22 DEF ConfigInv
<1>26. Inv(T)' /\ T \in SUBSET Nodes
  BY <1>14, <1>15, <1>16, <1>17, <1>24, <1>25 DEF Inv, Control
<1> QED
  BY <1>26

LEMMA ListedKeeps ==
  ASSUME NEW S, Inv(S), Listed
  PROVE  \E T \in SUBSET Nodes : Inv(T)'
<1>1. /\ pc = "returned" /\ then \in {"list", "bad", "badup"}
      /\ config' = config /\ iter' = iter /\ saved' = saved /\ touched' = touched
  BY DEF Listed, Returned, history
<1>2. /\ TreeTypes /\ TreeInv /\ Whole(S) /\ S \subseteq Nodes /\ IterTypes /\ ResultInv /\ PlaceInv(S)
      /\ Standing /\ ~ Trying /\ iter.tree \in S
  BY <1>1, InvParts DEF Standing, PlaceInv
<1>3. old \in S /\ files[old] > 0 /\ old \in Nodes
  BY <1>1, <1>2 DEF PlaceInv
<1>4. Trying' = Trying
  BY <1>1 DEF Trying
<1>5. CASE res # "ENTRY"
  <2>1. UNCHANGED tree /\ pc' = "step" /\ d' = 1 /\ then' = "next" /\ res' = "none" /\ old' = None
    BY <1>5 DEF Listed, Call
  <2>2. EntryInv' /\ ResultInv' /\ HeadInv' /\ ErrorInv'
    BY <1>1, <1>2, <1>4, <1>5, <2>1 DEF EntryInv, ResultInv, HeadInv, ErrorInv
  <2>3. old' \in Int
    BY <2>1, NodesAre
  <2>4. Inv(S)'
    BY <1>1, <1>2, <2>1, <2>2, <2>3, Stays
  <2> QED
    BY <2>4, <1>2
<1>6. CASE res = "ENTRY" /\ then = "bad" /\ iter.tree = old
  <2>1. UNCHANGED tree /\ pc' = "up" /\ d' = 1 /\ then' = "badup" /\ res' = "none" /\ old' = old
    BY <1>6 DEF Listed, Call
  <2>2. EntryInv' /\ ResultInv' /\ HeadInv' /\ ErrorInv'
    <3>1. files' = files
      BY <2>1 DEF tree
    <3> QED
      BY <1>1, <1>2, <1>3, <1>4, <1>6, <2>1, <3>1 DEF EntryInv, ResultInv, HeadInv, ErrorInv
  <2>3. old' \in Int
    BY <2>1, <1>2 DEF IterTypes
  <2>4. Inv(S)'
    BY <1>1, <1>2, <1>3, <2>1, <2>2, <2>3, Stays
  <2> QED
    BY <2>4, <1>2
<1>7. CASE res = "ENTRY" /\ ~ (then = "bad" /\ iter.tree = old)
  <2>0. PICK o, p : o = old /\ p = parent[old]
    OBVIOUS
  <2>a. PICK T : T = S \ {o}
    OBVIOUS
  <2>b. PICK K : K = Nodes \ {o}
    OBVIOUS
  <2>c. PICK x, c : x = PlaceOf(o) /\ c = kids[p]
    OBVIOUS
  <2>d. PICK s : s = RemoveAt(c, x)
    OBVIOUS
  <2>1. /\ kids' = [kids EXCEPT ![p] = s] /\ parent' = [parent EXCEPT ![o] = None]
        /\ files' = files /\ loops' = loops /\ own' = own /\ byAlias' = byAlias /\ fresh' = fresh
        /\ old' = None /\ then' = "none" /\ res' = "none" /\ d' \in Int
        /\ pc' = IF iter.tree = o THEN "dangling" ELSE "source"
    BY <1>7, <2>0, <2>c, <2>d DEF Listed, play_tree_remove, Call
  <2>2. /\ o \in S /\ o \in Nodes /\ files[o] > 0 /\ o # Root /\ parent[o] = p /\ p \in S /\ p \in Nodes
        /\ p # None /\ files[p] = 0 /\ p # o
    BY <2>0, <1>2, <1>3 DEF Whole, Linked, TreeInv
  <2>3. /\ c \in Seq(Nodes) /\ Len(c) \in Nat /\ DOMAIN c = 1 .. Len(c)
        /\ x \in 1 .. Len(c) /\ c[x] = o
    <3>1. Siblings(o) = c
      BY <2>2, <2>c DEF Siblings
    <3> QED
      BY <3>1, <2>2, <2>c, <1>2, SiblingsAre
  <2>4. /\ s \in Seq(Nodes) /\ Len(s) = Len(c) - 1 /\ DOMAIN s = 1 .. Len(c) - 1
        /\ \A i \in 1 .. Len(c) - 1 : s[i] = IF i < x THEN c[i] ELSE c[i + 1]
    <3>1. /\ RemoveAt(c, x) \in Seq(Nodes) /\ Len(RemoveAt(c, x)) = Len(c) - 1
          /\ \A i \in 1 .. Len(c) - 1 : RemoveAt(c, x)[i] = IF i < x THEN c[i] ELSE c[i + 1]
      BY <2>3, RemoveIs
    <3>2. DOMAIN s = 1 .. Len(s)
      BY <3>1, <2>d, LenProperties
    <3> QED
      BY <3>1, <3>2, <2>d
  <2>5. \A q \in Nodes : \A i \in DOMAIN kids[q] :
           kids[q][i] \in Nodes /\ parent[kids[q][i]] = q /\ (kids[q][i] = o => q = p)
    BY <1>2, <2>2, DescendsIs DEF Descends, TreeInv
  <2>6. \A i, j \in 1 .. Len(c) : c[i] = c[j] => i = j
    BY <1>2, <2>2, <2>3, <2>c DEF TreeInv
  <2>7. \A n \in Nodes : /\ kids'[n] = IF n = p THEN s ELSE kids[n]
                         /\ parent'[n] = IF n = o THEN None ELSE parent[n]
    BY <2>1, <2>2, <1>2 DEF TreeTypes, Climbs
  <2>8. ASSUME NEW i \in DOMAIN s
        PROVE  \E j \in 1 .. Len(c) : j # x /\ s[i] = c[j]
    <3>1. CASE i < x
      BY <3>1, <2>3, <2>4
    <3>2. CASE ~ i < x
      <4>1. i + 1 \in 1 .. Len(c) /\ i + 1 # x /\ s[i] = c[i + 1]
        BY <3>2, <2>3, <2>4
      <4> QED
        BY <4>1
    <3> QED
      BY <3>1, <3>2
  <2>9. ASSUME NEW j \in 1 .. Len(c), j # x
        PROVE  \E i \in DOMAIN s : s[i] = c[j]
    <3>1. CASE j < x
      BY <3>1, <2>3, <2>4
    <3>2. CASE ~ j < x
      <4>1. j - 1 \in 1 .. Len(c) - 1 /\ ~ j - 1 < x /\ j - 1 + 1 = j
        BY <3>2, <2>3, <2>9
      <4>2. s[j - 1] = c[j - 1 + 1]
        BY <4>1, <2>4
      <4> QED
        BY <4>1, <4>2, <2>4
    <3> QED
      BY <3>1, <3>2
  <2>10. ASSUME NEW i \in DOMAIN s, NEW j \in DOMAIN s, s[i] = s[j] PROVE i = j
    <3>1. i \in 1 .. Len(c) - 1 /\ j \in 1 .. Len(c) - 1
      BY <2>4
    <3>2. CASE i < x /\ j < x
      BY <3>1, <3>2, <2>3, <2>4, <2>6, <2>10
    <3>3. CASE ~ i < x /\ ~ j < x
      <4>1. i + 1 \in 1 .. Len(c) /\ j + 1 \in 1 .. Len(c) /\ c[i + 1] = c[j + 1]
        BY <3>1, <3>3, <2>3, <2>4, <2>10
      <4>2. i + 1 = j + 1
        BY <4>1, <2>6
      <4> QED
        BY <4>2, <3>1
    <3>4. CASE i < x /\ ~ j < x
      <4>1. i \in 1 .. Len(c) /\ j + 1 \in 1 .. Len(c) /\ c[i] = c[j + 1] /\ i # j + 1
        BY <3>1, <3>4, <2>3, <2>4, <2>10
      <4> QED
        BY <4>1, <2>6
    <3>5. CASE ~ i < x /\ j < x
      <4>1. j \in 1 .. Len(c) /\ i + 1 \in 1 .. Len(c) /\ c[j] = c[i + 1] /\ j # i + 1
        BY <3>1, <3>5, <2>3, <2>4, <2>10
      <4> QED
        BY <4>1, <2>6
    <3> QED
      BY <3>2, <3>3, <3>4, <3>5
  <2>11. TreeTypes'
    <3>1. parent' \in [Nodes -> Nodes \cup {None}]
      BY <2>1, <1>2 DEF TreeTypes, Climbs
    <3>2. \A n \in Nodes : parent'[n] # None => parent'[n] < n
      BY <2>7, <1>2 DEF TreeTypes, Climbs
    <3>3. kids' \in [Nodes -> Seq(Nodes)]
      BY <2>1, <2>4, <1>2 DEF TreeTypes
    <3> QED
      BY <3>1, <3>2, <3>3, <2>1, <1>2 DEF TreeTypes, Climbs, Values
  <2>12. TreeInv'
    <3>1. \A n \in Nodes : parent'[n] # None => n < fresh' /\ files'[parent'[n]] = 0
      BY <2>1, <2>7, <1>2 DEF TreeInv
    <3>2. \A q \in Nodes : \A i \in DOMAIN kids'[q] : parent'[kids'[q][i]] = q
      <4> SUFFICES ASSUME NEW q \in Nodes, NEW i \in DOMAIN kids'[q]
                   PROVE  parent'[kids'[q][i]] = q
        OBVIOUS
      <4>1. CASE q = p
        <5>1. i \in DOMAIN s /\ kids'[q][i] = s[i]
          BY <4>1, <2>7
        <5>2. PICK j \in 1 .. Len(c) : j # x /\ s[i] = c[j]
          BY <5>1, <2>8
        <5>3. c[j] # o /\ c[j] \in Nodes /\ parent[c[j]] = p
          <6>1. j \in 1 .. Len(c) /\ x \in 1 .. Len(c) /\ j # x /\ j \in DOMAIN c
            BY <5>2, <2>3
          <6>2. c[j] # c[x]
            BY <6>1, <2>6
          <6>3. j \in DOMAIN kids[p] /\ kids[p][j] = c[j] /\ p \in Nodes
            BY <6>1, <2>2, <2>c
          <6>4. kids[p][j] \in Nodes /\ parent[kids[p][j]] = p
            BY <6>3, <2>5
          <6> QED
            BY <6>2, <6>3, <6>4, <2>3
        <5> QED
          BY <4>1, <5>1, <5>2, <5>3, <2>7
      <4>2. CASE q # p
        <5>1. kids'[q] = kids[q] /\ i \in DOMAIN kids[q]
          BY <4>2, <2>7
        <5>2. PICK m : m = kids[q][i]
          OBVIOUS
        <5>3. m \in Nodes /\ parent[m] = q /\ m # o
          BY <5>1, <5>2, <4>2, <2>5
        <5>4. parent'[m] = q
          BY <5>3, <2>7
        <5> QED
          BY <5>1, <5>2, <5>4
      <4> QED
        BY <4>1, <4>2
    <3>3. \A q \in Nodes : \A i, j \in DOMAIN kids'[q] : kids'[q][i] = kids'[q][j] => i = j
      BY <2>7, <2>10, <1>2 DEF TreeInv
    <3>4. \A n \in Nodes : n >= fresh' => kids'[n] = <<>> /\ files'[n] = 0
      <4>1. p < fresh /\ fresh' = fresh /\ files' = files /\ p \in Nat /\ fresh \in Nat
        BY <1>2, <2>1, <2>2, NodesAre DEF Whole, TreeTypes
      <4>2. \A n \in Nodes : n >= fresh => n # p
        BY <4>1, NodesAre
      <4> QED
        BY <4>1, <4>2, <2>7, <1>2 DEF TreeInv
    <3>5. files'[Root] = 0
      BY <2>1, <1>2 DEF TreeInv
    <3> QED
      BY <3>1, <3>2, <3>3, <3>4, <3>5 DEF TreeInv
  <2>13. Whole(T)'
    <3>1. T \subseteq Nodes /\ Root \in T /\ \A n \in T : n \in S /\ n # o /\ n \in Nodes
      BY <2>a, <2>2, <1>2 DEF Whole
    <3>2. ASSUME NEW n \in T
          PROVE  n < fresh' /\ \A i \in DOMAIN kids'[n] : kids'[n][i] \in T
      <4>1. n < fresh /\ (\A i \in DOMAIN kids[n] : kids[n][i] \in S) /\ n \in Nodes
        BY <3>1, <1>2 DEF Whole
      <4>2. CASE n = p
        <5>1. \A i \in DOMAIN s : s[i] \in S /\ s[i] # o
          BY <4>1, <4>2, <2>3, <2>6, <2>8, <2>c
        <5> QED
          BY <5>1, <4>1, <4>2, <2>1, <2>7, <2>a
      <4>3. CASE n # p
        <5>1. kids'[n] = kids[n] /\ fresh' = fresh
          BY <4>1, <4>3, <2>1, <2>7
        <5>2. ASSUME NEW i \in DOMAIN kids[n] PROVE kids[n][i] \in T
          <6>1. kids[n][i] \in S /\ kids[n][i] # o
            BY <4>1, <4>3, <5>2, <2>5
          <6> QED
            BY <6>1, <2>a
        <5> QED
          BY <5>1, <5>2, <4>1
      <4> QED
        BY <4>2, <4>3
    <3>3. ASSUME NEW n \in T, n # Root
          PROVE  Linked(n)' /\ parent'[n] \in T
      <4>1. Linked(n) /\ parent[n] \in S /\ n \in Nodes /\ n # o
        BY <3>1, <3>3, <1>2 DEF Whole
      <4>2. files[parent[n]] = 0 /\ parent[n] # None
        BY <4>1, <1>2 DEF Linked, TreeInv
      <4>3. parent[n] \in T /\ parent'[n] = parent[n] /\ parent[n] \in Nodes
        BY <4>1, <4>2, <2>2, <2>7, <2>a, <1>2
      <4>4. PICK j \in DOMAIN kids[parent[n]] : kids[parent[n]][j] = n
        BY <4>1 DEF Linked
      <4>5. \E i \in DOMAIN kids'[parent[n]] : kids'[parent[n]][i] = n
        <5>1. CASE parent[n] = p
          <6>1. kids'[p] = s /\ j \in 1 .. Len(c) /\ c[j] = n /\ j # x
            BY <5>1, <4>1, <4>4, <2>2, <2>3, <2>7, <2>c
          <6> QED
            BY <5>1, <6>1, <2>9
        <5>2. CASE parent[n] # p
          BY <5>2, <4>3, <4>4, <2>7
        <5> QED
          BY <5>1, <5>2
      <4> QED
        BY <4>2, <4>3, <4>5 DEF Linked
    <3> QED
      BY <3>1, <3>2, <3>3 DEF Whole
  <2>14. ASSUME NEW D \in SUBSET Nodes, Dead(D) PROVE Dead(D)'
    <3>1. D # {} /\ D \subseteq 1 .. fresh' - 1 /\ Barren(D)
      BY <2>1, <2>14 DEF Dead
    <3>2. ASSUME NEW n \in D PROVE files'[n] = 0 /\ \A i \in DOMAIN kids'[n] : kids'[n][i] \in D
      <4>1. files[n] = 0 /\ (\A i \in DOMAIN kids[n] : kids[n][i] \in D) /\ n \in Nodes
        BY <3>1 DEF Barren
      <4>2. CASE n = p
        BY <4>1, <4>2, <2>1, <2>3, <2>7, <2>8, <2>c
      <4>3. CASE n # p
        BY <4>1, <4>3, <2>1, <2>7
      <4> QED
        BY <4>2, <4>3
    <3>3. Barren(D)'
      BY <3>2 DEF Barren
    <3> QED
      BY <3>1, <3>3 DEF Dead
  <2>15. Lost => Lost'
    BY <2>14 DEF Lost
  <2>16. ~ Trying'
    BY <1>2, <1>4
  <2>17. IterTypes'
    BY <1>1, <1>2, <2>1, NodesAre DEF IterTypes
  <2>18. CASE iter.tree = o
    <3>1. pc' = "dangling"
      BY <2>1, <2>18
    <3>2. PlaceInv(T)' /\ EntryInv' /\ ResultInv' /\ HeadInv' /\ ErrorInv' /\ ConfigInv'
      BY <3>1, <2>16 DEF PlaceInv, EntryInv, ResultInv, HeadInv, ErrorInv, ConfigInv, Standing
    <3>3. Inv(T)' /\ T \in SUBSET Nodes
      BY <3>2, <2>11, <2>12, <2>13, <2>17, <2>a, <1>2 DEF Inv, Control
    <3> QED
      BY <3>3
  <2>19. CASE iter.tree # o
    <3>1. pc' = "source"
      BY <2>1, <2>19
    <3>2. K \subseteq Nodes /\ iter.tree \in K /\ iter.tree \in T
      BY <2>a, <2>b, <2>19, <1>2
    <3>3. \A n \in K : parent'[n] = parent[n] /\ own'[n] = own[n] /\ (parent[n] # None => parent[n] \in K)
      <4> SUFFICES ASSUME NEW n \in K
                   PROVE  parent'[n] = parent[n] /\ own'[n] = own[n] /\ (parent[n] # None => parent[n] \in K)
        OBVIOUS
      <4>1. n \in Nodes /\ n # o
        BY <2>b
      <4>2. parent[n] # None => parent[n] \in Nodes /\ files[parent[n]] = 0
        BY <4>1, <1>2 DEF TreeTypes, Climbs, TreeInv
      <4> QED
        BY <4>1, <4>2, <2>1, <2>2, <2>7, <2>b
    <3>4. Stands(iter, T)' /\ (Lost' \/ ConfigHeld')
      BY <1>1, <1>2, <2>11, <2>13, <2>15, <3>2, <3>3, TreeChanged
    <3>5. iter.entry_pushed = 1
      BY <1>1, <1>2, <1>7 DEF ResultInv
    <3>6. PlaceInv(T)' /\ EntryInv' /\ ResultInv' /\ HeadInv' /\ ErrorInv'
      BY <3>1, <3>4, <3>5, <2>1, <2>16, <1>1
      DEF PlaceInv, EntryInv, ResultInv, HeadInv, ErrorInv
    <3>7. (Lost \/ ConfigInv)'
      BY <3>1, <3>4 DEF ConfigInv
    <3>8. Inv(T)' /\ T \in SUBSET Nodes
      BY <3>6, <3>7, <2>11, <2>12, <2>13, <2>17, <2>a, <1>2 DEF Inv, Control
    <3> QED
      BY <3>8
  <2> QED
    BY <2>18, <2>19
<1> QED
  BY <1>5, <1>6, <1>7

-----------------------------------------------------------------------------
(* The tree of the command line: the children of a node are numbered one   *)
(* after the other, because parents do not decrease.                       *)

Numbered ==
    /\ parent \in [Nodes -> -1 .. Size - 2]
    /\ \A n \in Nodes : IF n \in 1 .. Size - 1 THEN 0 <= parent[n] /\ parent[n] < n
                                                ELSE parent[n] = None
    /\ \A n \in 2 .. Size - 1 : parent[n - 1] <= parent[n]

LEMMA ParentsIncrease ==
  ASSUME Numbered, NEW a \in 1 .. Size - 1, NEW b \in 1 .. Size - 1, a <= b
  PROVE  parent[a] <= parent[b]
<1> DEFINE T == {m \in 1 .. Size - 1 : a <= m /\ parent[m] < parent[a]}
<1>0. Size \in Nat /\ \A m \in 1 .. Size - 1 : m \in Nodes /\ m \in Nat /\ parent[m] \in Int
  BY NodesAre DEF Numbered
<1>1. T = {}
  <2> SUFFICES ASSUME T # {} PROVE FALSE
    OBVIOUS
  <2>1. T \subseteq Nat
    BY <1>0
  <2>2. PICK m \in T : \A y \in T : m <= y
    <3> HIDE DEF T
    <3> QED
      BY <2>1, LeastOf
  <2>3. m # a /\ m \in 2 .. Size - 1 /\ m - 1 \in 1 .. Size - 1 /\ a <= m - 1
    BY <1>0
  <2>4. m - 1 \notin T
    <3> HIDE DEF T
    <3> QED
      BY <2>1, <2>2, <2>3
  <2>5. ~ (parent[m - 1] < parent[a])
    BY <2>3, <2>4
  <2>6. parent[m - 1] <= parent[m]
    BY <2>3 DEF Numbered
  <2>7. parent[m] < parent[a]
    BY <2>2
  <2>8. parent[m] \in Int /\ parent[a] \in Int /\ parent[m - 1] \in Int
    BY <1>0, <2>3
  <2> QED
    BY <2>5, <2>6, <2>7, <2>8
<1>2. ~ (parent[b] < parent[a])
  BY <1>1
<1> QED
  BY <1>0, <1>2

LEMMA KidsOfAre ==
  ASSUME Numbered, NEW n \in Nodes
  PROVE  /\ KidsOf(n) \in Seq(1 .. Size - 1)
         /\ \A i \in DOMAIN KidsOf(n) : parent[KidsOf(n)[i]] = n
         /\ \A i, j \in DOMAIN KidsOf(n) : KidsOf(n)[i] = KidsOf(n)[j] => i = j
         /\ \A m \in 1 .. Size - 1 :
              parent[m] = n => \E i \in DOMAIN KidsOf(n) : KidsOf(n)[i] = m
<1> DEFINE of == {m \in 1 .. Size - 1 : parent[m] = n}
<1>0. Size \in Nat /\ \A m \in 1 .. Size - 1 : m \in Nodes /\ m \in Nat /\ parent[m] \in Int
  BY NodesAre DEF Numbered
<1>1. CASE of = {}
  <2>1. KidsOf(n) = <<>>
    BY <1>1 DEF KidsOf
  <2>2. <<>> \in Seq(1 .. Size - 1) /\ DOMAIN <<>> = {}
    OBVIOUS
  <2> QED
    BY <1>1, <2>1, <2>2
<1>2. CASE of # {}
  <2>1. PICK lo \in of : \A y \in of : lo <= y
    <3>1. of \subseteq Nat
      BY <1>0
    <3> HIDE DEF of
    <3> QED
      BY <1>2, <3>1, LeastOf
  <2>2. PICK hi \in of : \A y \in of : y <= hi
    <3> DEFINE U == {Size - m : m \in of}
    <3>1. U \subseteq Nat /\ U # {}
      BY <1>0, <1>2
    <3>2. PICK u \in U : \A y \in U : u <= y
      <4> HIDE DEF U
      <4> QED
        BY <3>1, LeastOf
    <3>3. PICK m \in of : u = Size - m
      OBVIOUS
    <3>4. \A y \in of : Size - m <= Size - y
      BY <3>2, <3>3
    <3>5. \A y \in of : y \in Nat
      BY <1>0
    <3>6. \A y \in of : y <= m
      <4> HIDE DEF of
      <4> QED
        BY <3>4, <3>5, <1>0
    <3> QED
      BY <3>6
  <2>3. lo \in 1 .. Size - 1 /\ hi \in 1 .. Size - 1 /\ lo <= hi /\ parent[lo] = n /\ parent[hi] = n
    BY <2>1, <2>2
  <2>4. Min(of) = lo /\ Max(of) = hi
    <3>1. of \subseteq Int
      BY <1>0
    <3> HIDE DEF of
    <3> QED
      BY <2>1, <2>2, <3>1, MinOf, MaxOf
  <2>5. KidsOf(n) = [i \in 1 .. hi - lo + 1 |-> lo + i - 1]
    BY <1>2, <2>4 DEF KidsOf
  <2>6. hi - lo + 1 \in Nat /\ \A i \in 1 .. hi - lo + 1 : lo + i - 1 \in lo .. hi
    BY <1>0, <2>3
  <2>7. lo .. hi \subseteq 1 .. Size - 1
    BY <1>0, <2>3
  <2>8. ASSUME NEW m \in lo .. hi PROVE parent[m] = n
    <3>1. m \in 1 .. Size - 1 /\ lo <= m /\ m <= hi
      BY <1>0, <2>3, <2>7
    <3>2. parent[lo] <= parent[m] /\ parent[m] <= parent[hi]
      BY <2>3, <3>1, ParentsIncrease
    <3>3. parent[m] \in Int /\ n \in Int
      BY <1>0, <3>1, NodesAre
    <3> QED
      BY <2>3, <3>2, <3>3
  <2>9. KidsOf(n) \in Seq(1 .. Size - 1) /\ DOMAIN KidsOf(n) = 1 .. hi - lo + 1
        /\ \A i \in 1 .. hi - lo + 1 : KidsOf(n)[i] = lo + i - 1
    BY <2>5, <2>6, <2>7
  <2>10. \A i \in DOMAIN KidsOf(n) : parent[KidsOf(n)[i]] = n
    BY <2>6, <2>8, <2>9
  <2>11. \A i, j \in DOMAIN KidsOf(n) : KidsOf(n)[i] = KidsOf(n)[j] => i = j
    <3> SUFFICES ASSUME NEW i \in 1 .. hi - lo + 1, NEW j \in 1 .. hi - lo + 1, lo + i - 1 = lo + j - 1
                 PROVE  i = j
      BY <2>9
    <3> QED
      BY <1>0, <2>3
  <2>12. ASSUME NEW m \in 1 .. Size - 1, parent[m] = n
         PROVE  \E i \in DOMAIN KidsOf(n) : KidsOf(n)[i] = m
    <3>1. m \in of
      BY <2>12
    <3>2. lo <= m /\ m <= hi
      BY <3>1, <2>1, <2>2
    <3>3. m - lo + 1 \in 1 .. hi - lo + 1 /\ lo + (m - lo + 1) - 1 = m
      BY <1>0, <2>3, <3>2
    <3> QED
      BY <2>9, <3>3
  <2> QED
    BY <2>9, <2>10, <2>11, <2>12
<1> QED
  BY <1>1, <1>2

\* The tree the command line makes.
Planted ==
    /\ Climbs(parent) /\ kids \in [Nodes -> Seq(Nodes)] /\ files \in [Nodes -> Nat] /\ loops \in [Nodes -> Int]
    /\ \A n \in Nodes : \A i \in DOMAIN kids[n] : kids[n][i] \in 1 .. Size - 1 /\ parent[kids[n][i]] = n
    /\ \A n \in Nodes : \A i, j \in DOMAIN kids[n] : kids[n][i] = kids[n][j] => i = j
    /\ \A n \in Nodes : parent[n] # None => n \in 1 .. Size - 1 /\ Linked(n) /\ files[parent[n]] = 0
    /\ \A n \in 1 .. Size - 1 : parent[n] # None
    /\ \A n \in Nodes : n >= Size => kids[n] = <<>> /\ files[n] = 0
    /\ \A n \in 0 .. Size - 1 : files[n] > 0 <=> kids[n] = <<>>
    /\ parent[1] = Root

LEMMA InitTree ==
  ASSUME Init
  PROVE  Planted
<1> DEFINE S == 0 .. Size - 1
<1>1. Numbered /\ fresh = Size /\ kids = [n \in Nodes |-> KidsOf(n)]
      /\ files = [n \in Nodes |-> IF kids[n] # <<>> \/ n >= Size THEN 0
                                  ELSE IF n \in Sources THEN 2 ELSE 1]
  BY DEF Init, Numbered
<1>2. /\ Size \in Nat /\ Size >= 2 /\ S \subseteq Nodes /\ Root \in S /\ 1 \in S
      /\ 1 .. Size - 1 \subseteq S /\ \A m \in S : m = Root \/ m \in 1 .. Size - 1
  BY NodesAre
<1>3. \A n \in Nodes : /\ kids[n] = KidsOf(n) /\ kids[n] \in Seq(1 .. Size - 1)
                       /\ \A i \in DOMAIN kids[n] : kids[n][i] \in 1 .. Size - 1 /\ parent[kids[n][i]] = n
                       /\ \A i, j \in DOMAIN kids[n] : kids[n][i] = kids[n][j] => i = j
                       /\ \A m \in 1 .. Size - 1 :
                            parent[m] = n => \E i \in DOMAIN kids[n] : kids[n][i] = m
  <2> SUFFICES ASSUME NEW n \in Nodes
               PROVE  /\ kids[n] = KidsOf(n) /\ KidsOf(n) \in Seq(1 .. Size - 1)
                      /\ \A i \in DOMAIN KidsOf(n) : KidsOf(n)[i] \in 1 .. Size - 1 /\ parent[KidsOf(n)[i]] = n
                      /\ \A i, j \in DOMAIN KidsOf(n) : KidsOf(n)[i] = KidsOf(n)[j] => i = j
                      /\ \A m \in 1 .. Size - 1 :
                            parent[m] = n => \E i \in DOMAIN KidsOf(n) : KidsOf(n)[i] = m
    BY <1>1
  <2>1. kids[n] = KidsOf(n)
    BY <1>1
  <2>2. PICK k : k = KidsOf(n)
    OBVIOUS
  <2>3. /\ k \in Seq(1 .. Size - 1)
        /\ \A i \in DOMAIN k : parent[k[i]] = n
        /\ \A i, j \in DOMAIN k : k[i] = k[j] => i = j
        /\ \A m \in 1 .. Size - 1 : parent[m] = n => \E i \in DOMAIN k : k[i] = m
    BY <1>1, <2>2, KidsOfAre
  <2>4. \A i \in DOMAIN k : k[i] \in 1 .. Size - 1
    <3>1. PICK R : R = 1 .. Size - 1
      OBVIOUS
    <3>2. k \in Seq(R)
      BY <2>3, <3>1
    <3>3. \A i \in DOMAIN k : k[i] \in R
      BY <3>2
    <3> QED
      BY <3>1, <3>3
  <2> QED
    BY <2>1, <2>2, <2>3, <2>4
<1>4. \A n \in Nodes : /\ parent[n] \in -1 .. Size - 2
                       /\ parent[n] # None => /\ n \in 1 .. Size - 1 /\ parent[n] \in S /\ parent[n] < n
                                              /\ parent[n] \in Nodes
                       /\ n \in 1 .. Size - 1 => parent[n] # None
  BY <1>1, NodesAre DEF Numbered
<1>5. \A n \in Nodes : files[n] \in Nat /\ (kids[n] # <<>> \/ n >= Size => files[n] = 0)
  BY <1>1
<1>6. ASSUME NEW n \in Nodes, NEW m \in 1 .. Size - 1, parent[m] = n
      PROVE  files[n] = 0 /\ \E i \in DOMAIN kids[n] : kids[n][i] = m
  <2>1. PICK i \in DOMAIN kids[n] : kids[n][i] = m
    BY <1>3, <1>6
  <2>2. kids[n] # <<>>
    BY <2>1
  <2> QED
    BY <2>1, <2>2, <1>5
<1>7. ASSUME NEW n \in Nodes, n >= Size PROVE kids[n] = <<>> /\ files[n] = 0
  <2>1. ASSUME kids[n] # <<>> PROVE FALSE
    <3>1. 1 \in DOMAIN kids[n]
      BY <2>1, <1>3
    <3>2. kids[n][1] \in 1 .. Size - 1 /\ parent[kids[n][1]] = n
      BY <3>1, <1>3
    <3>3. kids[n][1] \in Nodes
      BY <3>2, <1>2
    <3>4. n \in -1 .. Size - 2
      BY <3>2, <3>3, <1>4
    <3> QED
      BY <3>4, <1>2, <1>7
  <2> QED
    BY <2>1, <1>5, <1>7
<1>8. loops \in [Nodes -> Int]
  <2>1. PICK l \in [0 .. Size - 2 -> Loops \cup {0, Forever}] :
          loops = [n \in Nodes |-> IF kids[n] # <<>> THEN l[n] ELSE 0]
    BY DEF Init
  <2>2. ASSUME NEW n \in Nodes, kids[n] # <<>> PROVE l[n] \in Int
    <3>1. 1 \in DOMAIN kids[n]
      BY <2>2, <1>3
    <3>2. kids[n][1] \in 1 .. Size - 1 /\ parent[kids[n][1]] = n
      BY <3>1, <1>3
    <3>3. kids[n][1] \in Nodes
      BY <3>2, <1>2
    <3>4. n \in -1 .. Size - 2 /\ n \in Nat
      BY <3>2, <3>3, <1>4, NodesAre
    <3>5. n \in 0 .. Size - 2
      BY <3>4, <1>2
    <3>6. l[n] \in Loops \cup {0, Forever}
      BY <2>1, <3>5
    <3> QED
      <4>1. Loops \subseteq Nat
        BY TreeAssumption
      <4>2. Forever \in Int /\ 0 \in Int
        BY DEF Forever
      <4>3. PICK v : v = l[n]
        OBVIOUS
      <4>4. v \in Loops \/ v = 0 \/ v = Forever
        BY <3>6, <4>3
      <4>5. v \in Loops => v \in Int
        BY <4>1
      <4>6. v \in Int
        BY <4>2, <4>4, <4>5
      <4> QED
        BY <4>3, <4>6
  <2> QED
    BY <2>1, <2>2
<1>9. Climbs(parent)
  <2>1. parent \in [Nodes -> -1 .. Size - 2]
    BY <1>1 DEF Numbered
  <2>2. \A n \in Nodes : parent[n] \in Nodes \cup {None}
    BY <1>4
  <2>3. parent \in [Nodes -> Nodes \cup {None}]
    BY <2>1, <2>2
  <2> QED
    BY <2>3, <1>4 DEF Climbs
<1>10. kids \in [Nodes -> Seq(Nodes)]
  <2>1. \A n \in Nodes : kids[n] \in Seq(Nodes)
    <3> SUFFICES ASSUME NEW n \in Nodes PROVE kids[n] \in Seq(Nodes)
      OBVIOUS
    <3>1. kids[n] \in Seq(1 .. Size - 1) /\ 1 .. Size - 1 \subseteq Nodes
      BY <1>2, <1>3
    <3>2. PICK R, k : R = 1 .. Size - 1 /\ k = kids[n]
      OBVIOUS
    <3>3. k \in Seq(R) /\ R \subseteq Nodes
      BY <3>1, <3>2
    <3>4. k \in Seq(Nodes)
      BY <3>3
    <3> QED
      BY <3>2, <3>4
  <2> QED
    BY <1>1, <2>1
<1>11. files \in [Nodes -> Nat]
  BY <1>1
<1>12. ASSUME NEW n \in Nodes, parent[n] # None PROVE n \in 1 .. Size - 1 /\ Linked(n) /\ files[parent[n]] = 0
  <2>1. n \in 1 .. Size - 1 /\ parent[n] \in Nodes
    BY <1>4, <1>12
  <2>2. files[parent[n]] = 0 /\ \E i \in DOMAIN kids[parent[n]] : kids[parent[n]][i] = n
    BY <1>6, <2>1
  <2> QED
    BY <1>12, <2>1, <2>2 DEF Linked
<1>13. ASSUME NEW n \in 1 .. Size - 1 PROVE parent[n] # None
  BY <1>2, <1>4
<1>14. ASSUME NEW n \in 0 .. Size - 1 PROVE files[n] > 0 <=> kids[n] = <<>>
  <2>1. n \in Nodes /\ ~ (n >= Size)
    BY <1>2
  <2> QED
    BY <1>1, <2>1
<1>15. parent[1] = Root
  <2>1. 1 \in Nodes /\ 1 \in 1 .. Size - 1
    BY <1>2
  <2>2. 0 <= parent[1] /\ parent[1] < 1 /\ parent[1] \in -1 .. Size - 2
    BY <2>1, <1>1, <1>4 DEF Numbered
  <2> QED
    BY <2>2, <1>2, NodesAre
<1> QED
  BY <1>3, <1>7, <1>8, <1>9, <1>10, <1>11, <1>12, <1>13, <1>14, <1>15 DEF Planted

LEMMA InitKeeps ==
  ASSUME Init, Aliases = {}, rnd = {}
  PROVE  \E S \in SUBSET Nodes : Inv(S)
<1> DEFINE S == 0 .. Size - 1
<1>1. /\ fresh = Size /\ own = [n \in Nodes |-> IF n \in Params THEN n ELSE None] /\ byAlias = {}
      /\ config = BaseConfig /\ iter = play_tree_iter_new /\ saved = NoIter
      /\ pc = "step" /\ d = 0 /\ then = "start" /\ res = "none" /\ old = None /\ touched = 0
  BY DEF Init
<1>2. /\ Size \in Nat /\ Size >= 2 /\ S \subseteq Nodes /\ Root \in S /\ 1 \in Nodes
      /\ 1 .. Size - 1 \subseteq S /\ \A m \in S : m = Root \/ m \in 1 .. Size - 1
  BY NodesAre
<1>3. Planted
  BY InitTree
<1>9. TreeTypes
  <2>1. Values(own)
    BY <1>1, NodesAre DEF Values
  <2>2. fresh \in Size .. Size + Spare
    BY <1>1, NodesAre
  <2> QED
    BY <1>1, <1>3, <2>1, <2>2 DEF TreeTypes, Planted
<1>10. TreeInv
  <2>1. ASSUME NEW n \in Nodes, parent[n] # None PROVE n < fresh /\ files[parent[n]] = 0
    <3>1. n \in 1 .. Size - 1 /\ files[parent[n]] = 0
      BY <1>3, <2>1 DEF Planted
    <3> QED
      BY <1>1, <1>2, <3>1
  <2>2. files[Root] = 0
    <3>1. parent[1] = Root
      BY <1>3 DEF Planted
    <3>2. Root # None
      BY NodesAre
    <3>3. files[parent[1]] = 0
      BY <1>2, <1>3, <3>1, <3>2 DEF Planted
    <3> QED
      BY <3>1, <3>3
  <2>3. \A n \in Nodes : n >= fresh => kids[n] = <<>> /\ files[n] = 0
    BY <1>1, <1>3 DEF Planted
  <2> QED
    BY <1>3, <2>1, <2>2, <2>3 DEF TreeInv, Planted
<1>11. Whole(S)
  <2>1. ASSUME NEW n \in S PROVE n < fresh /\ \A i \in DOMAIN kids[n] : kids[n][i] \in S
    <3>1. n \in Nodes /\ n < fresh
      BY <1>1, <1>2
    <3>2. \A i \in DOMAIN kids[n] : kids[n][i] \in 1 .. Size - 1
      BY <1>3, <3>1 DEF Planted
    <3> QED
      BY <1>2, <3>1, <3>2
  <2>2. ASSUME NEW n \in S PROVE n = Root \/ (Linked(n) /\ parent[n] \in S)
    <3>1. SUFFICES ASSUME n # Root PROVE Linked(n) /\ parent[n] \in S
      OBVIOUS
    <3>2. n \in 1 .. Size - 1 /\ n \in Nodes
      BY <3>1, <1>2
    <3>3. Linked(n) /\ parent[n] # None /\ parent[n] \in Nodes /\ parent[n] < n
      BY <3>2, <1>3 DEF Planted, Climbs
    <3>4. parent[n] \in S
      BY <1>2, <3>2, <3>3, NodesAre
    <3> QED
      BY <3>3, <3>4
  <2> QED
    BY <1>2, <2>1, <2>2 DEF Whole
<1>12. Control(S)
  <2>1. /\ play_tree_iter_new \in IterOf /\ NoIter \in IterOf
        /\ iter.tree = Root /\ iter.entry_pushed = 0 /\ iter.file = -1
        /\ Len(iter.stack) = Len(Levels[Root]) - 3
        /\ Home(iter) = BaseConfig.slots
    BY <1>1, <1>9, NewIterIs
  <2>2. ~ Trying
    BY <1>1 DEF Trying
  <2>3. IterTypes
    BY <1>1, <2>1, NodesAre DEF IterTypes
  <2>4. Stands(iter, S)
    BY <2>1, <1>2 DEF Stands
  <2>5. PlaceInv(S)
    BY <1>1, <2>2, <2>4 DEF PlaceInv
  <2>6. EntryInv /\ ResultInv /\ HeadInv /\ ErrorInv
    BY <1>1, <2>1, <2>2 DEF EntryInv, ResultInv, HeadInv, ErrorInv
  <2>7. ConfigInv
    <3>1. Held = iter
      BY <2>2 DEF Held
    <3>2. config = ConfigAt(BaseConfig.slots)
      BY <1>1, BaseLevels
    <3>3. config = ChangedTo(Home(Held), config.value) /\ config.value = Last(Home(Held)).value
      <4>1. PICK s : s = BaseConfig.slots
        OBVIOUS
      <4>2. config = ConfigAt(s) /\ Home(Held) = s
        BY <4>1, <3>1, <3>2, <2>1
      <4> QED
        BY <4>2, ConfigIs
    <3> QED
      BY <1>1, <3>3 DEF ConfigInv, ConfigHeld
  <2> QED
    BY <2>3, <2>5, <2>6, <2>7 DEF Control
<1> HIDE DEF S
<1>13. Inv(S)
  BY <1>9, <1>10, <1>11, <1>12 DEF Inv
<1> QED
  BY <1>13, <1>2

LEMMA StutterKeeps ==
  ASSUME NEW S, Inv(S), UNCHANGED vars
  PROVE  Inv(S)'
<1>1. /\ UNCHANGED tree /\ config' = config /\ iter' = iter /\ saved' = saved /\ pc' = pc /\ d' = d
      /\ then' = then /\ res' = res /\ old' = old /\ touched' = touched
  BY DEF vars, history
<1>2. /\ TreeTypes /\ TreeInv /\ Whole(S) /\ Control(S)
      /\ (Standing => iter.tree \in S /\ iter.tree \in Nodes)
  BY InvParts
<1>3. TreeTypes' /\ TreeInv' /\ Whole(S)' /\ Levels' = Levels /\ Lost' = Lost
  BY <1>1, <1>2, SameTree
<1>4. parent' = parent /\ kids' = kids /\ files' = files /\ own' = own /\ fresh' = fresh
  BY <1>1 DEF tree
<1>5. IterTypes' /\ Trying' = Trying /\ Standing' = Standing /\ Held' = Held
  BY <1>1, <1>2 DEF Control, IterTypes, Trying, Standing, Held
<1>6. Stands(iter, S)' = Stands(iter, S) /\ Stands(saved, S)' = Stands(saved, S)
  BY <1>1, <1>3 DEF Stands
<1>7. PlaceInv(S)'
  BY <1>1, <1>2, <1>4, <1>5, <1>6 DEF Control, PlaceInv
<1>8. EntryInv'
  BY <1>1, <1>2, <1>4, <1>5 DEF Control, EntryInv
<1>9. ResultInv' /\ HeadInv'
  BY <1>1, <1>2, <1>4, <1>5 DEF Control, ResultInv, HeadInv
<1>10. ErrorInv'
  BY <1>1, <1>2, <1>3, <1>5 DEF Control, ErrorInv
<1>11. Home(Held)' = Home(Held)
  BY <1>3, <1>4, <1>5 DEF Home, Above, Under, Levels
<1>12. Lost' \/ ConfigInv'
  BY <1>1, <1>2, <1>3, <1>5, <1>11 DEF Control, ConfigInv, ConfigHeld
<1> QED
  BY <1>3, <1>5, <1>7, <1>8, <1>9, <1>10, <1>12 DEF Inv, Control

-----------------------------------------------------------------------------
(* Every step keeps the invariant.                                         *)

LEMMA NoShuffle ==
  ASSUME Next
  PROVE  rnd' = rnd
<1>1. CASE Iterating
  BY <1>1 DEF Iterating, StepRandomEnd, StepRandomAgain, StepLoop, StepUp, StepGroup, StepInvalid,
     StepNoFiles, StepEntry, Enter, UpEnd, Up, Down, tree
<1>2. CASE Player
  BY <1>2 DEF Player, FirstEntry, PlayFile, NoFile, SourceStepped, Tried, Unwinding, Unwound,
     NewTree, Listed, tree
<1>3. CASE \/ EndOfFile \/ Quit \/ SetOption \/ Unwind("load") \/ Unwind("stop") \/ BadList
           \/ \E n \in {-1, 1, 2} : StepForced("step", n) \/ StepTried("step", n)
           \/ \E n \in {-1, 1} : StepForced("up", n) \/ StepTried("up", n) \/ SourceStep(n)
  BY <1>3 DEF EndOfFile, Quit, SetOption, Unwind, BadList, StepForced, StepTried, SourceStep, tree
<1>4. CASE LoadFileAppend \/ LoadFileIdle \/ AddList(1) \/ AddList(2)
  BY <1>4 DEF LoadFileAppend, LoadFileIdle, NewTree, AddList
<1>5. CASE UNCHANGED vars
  BY <1>5 DEF vars, tree
<1> QED
  BY <1>1, <1>2, <1>3, <1>4, <1>5 DEF Next

LEMMA NextKeeps ==
  ASSUME NEW S \in SUBSET Nodes, Inv(S), rnd = {}, Next
  PROVE  \E T \in SUBSET Nodes : Inv(T)'
<1>0. SUFFICES ASSUME ~ \E T \in SUBSET Nodes : Inv(T)' PROVE Inv(S)'
  OBVIOUS
<1>1. CASE Iterating
  <2>2. CASE StepRandomEnd \/ StepRandomAgain
    BY <2>2 DEF StepRandomEnd, StepRandomAgain, Mode
  <2>3. CASE StepLoop \/ StepUp
    BY <2>3, StepLoopKeeps, StepUpKeeps
  <2>4. CASE \E n \in Nodes : StepGroup(n) \/ StepInvalid(n) \/ StepNoFiles(n) \/ StepEntry(n)
    BY <2>4, StepGroupKeeps, StepInvalidKeeps, StepNoFilesKeeps, StepEntryKeeps
  <2>5. CASE UpEnd \/ Up \/ Down
    BY <2>5, UpEndKeeps, UpKeeps, DownKeeps
  <2> QED
    BY <1>1, <2>2, <2>3, <2>4, <2>5 DEF Iterating
<1>2. CASE Player
  <2>1. CASE FirstEntry \/ PlayFile \/ NoFile \/ SourceStepped \/ Tried \/ Unwinding
    BY <2>1, FirstEntryKeeps, PlayFileKeeps, NoFileKeeps, SourceSteppedKeeps, TriedKeeps,
       UnwindingKeeps
  <2>2. CASE Unwound
    BY <2>2, <1>0, UnwoundKeeps
  <2>3. CASE Listed
    BY <2>3, <1>0, ListedKeeps
  <2> QED
    BY <1>2, <2>1, <2>2, <2>3 DEF Player
<1>3. CASE EndOfFile \/ Quit \/ SetOption \/ Unwind("load") \/ Unwind("stop") \/ BadList
  BY <1>3, EndOfFileKeeps, QuitKeeps, SetOptionKeeps, UnwindKeeps, BadListKeeps
<1>4. CASE \E n \in {-1, 1, 2} : StepForced("step", n) \/ StepTried("step", n)
  <2>1. PICK n \in Int : StepForced("step", n) \/ StepTried("step", n)
    BY <1>4
  <2>2. "step" \in {"step", "up"}
    OBVIOUS
  <2> QED
    BY <2>1, <2>2, StepForcedKeeps, StepTriedKeeps
<1>5. CASE \E n \in {-1, 1} : StepForced("up", n) \/ StepTried("up", n) \/ SourceStep(n)
  <2>1. PICK n \in Int : StepForced("up", n) \/ StepTried("up", n) \/ SourceStep(n)
    BY <1>5
  <2>2. "up" \in {"step", "up"}
    OBVIOUS
  <2> QED
    BY <2>1, <2>2, StepForcedKeeps, StepTriedKeeps, SourceStepKeeps
<1>6. CASE LoadFileAppend \/ LoadFileIdle \/ AddList(1) \/ AddList(2)
  <2>1. 1 \in 1 .. 2 /\ 2 \in 1 .. 2
    OBVIOUS
  <2> QED
    BY <1>0, <1>6, <2>1, LoadFileAppendKeeps, LoadFileIdleKeeps, AddListKeeps
<1>7. CASE UNCHANGED vars
  BY <1>7, StutterKeeps
<1> QED
  BY <1>1, <1>2, <1>3, <1>4, <1>5, <1>6, <1>7 DEF Next

-----------------------------------------------------------------------------
(* The theorems.                                                           *)

LEMMA LostIsEmptied ==
  ASSUME TreeTypes, TreeInv, Lost
  PROVE  Emptied
<1>1. PICK D \in SUBSET Nodes : Dead(D)
  BY DEF Lost
<1>2. Descends
  BY DescendsIs
<1>3. PICK n : n \in D /\ n \in 1 .. fresh - 1
  BY <1>1 DEF Dead
<1>4. ~ play_tree_is_valid(n)
  BY <1>1, <1>2, <1>3, BarrenIsInvalid DEF Dead
<1>5. n \in 0 .. fresh - 1
  <2>1. fresh \in Int
    BY NodesAre DEF TreeTypes
  <2> QED
    BY <2>1, <1>3
<1> QED
  BY <1>4, <1>5 DEF Emptied

LEMMA OptionsFollow ==
  ASSUME NEW S, Inv(S)
  PROVE  OptionsInEffect /\ OptionsRestored
<1>1. TreeTypes /\ TreeInv /\ (Lost \/ ConfigInv)
  BY InvParts
<1>2. ~ Emptied => ConfigInv
  BY <1>1, LostIsEmptied
<1>3. ASSUME pc = "playing", ~ Emptied
      PROVE  /\ touched = 0 => config.value = Effective[iter.tree]
             /\ config.lvl = Depth[iter.tree] + 2
             /\ Len(iter.stack) = Depth[iter.tree]
  <2>1. /\ Standing /\ iter.tree \in Nodes /\ Held = iter /\ iter.entry_pushed = 1 /\ Stands(iter, S)
    BY <1>3, PlayingFacts
  <2>2. PICK n : n = iter.tree
    OBVIOUS
  <2>3. Home(Held) = Levels[n]
    BY <2>1, <2>2 DEF Home
  <2>4. /\ config = ChangedTo(Levels[n], config.value)
        /\ touched = 0 => config.value = Last(Levels[n]).value
    BY <1>2, <1>3, <2>1, <2>3 DEF ConfigInv, ConfigHeld
  <2>5. n \in Nodes /\ Climbs(parent) /\ Values(own)
    BY <1>1, <2>1, <2>2 DEF TreeTypes
  <2>6. Depth[n] = Len(Levels[n]) - 3 /\ Effective[n] = Last(Levels[n]).value
        /\ Len(Levels[n]) \in Nat
    BY <2>5, DepthIs, EffectiveIs, LevelsHave
  <2>7. config.lvl = Len(Levels[n]) - 1
    BY <2>4 DEF ChangedTo
  <2>8. Len(iter.stack) = Len(Levels[n]) - 3
    BY <2>1, <2>2 DEF Stands
  <2> QED
    BY <2>2, <2>4, <2>6, <2>7, <2>8
<1> QED
  BY <1>2, <1>3 DEF OptionsInEffect, OptionsRestored, ConfigInv

\* The invariant holds in every state.
THEOREM PlayTreeInvariant ==
  ASSUME Aliases = {}
  PROVE  Spec => []PlayTreeInv
<1>1. Init => PlayTreeInv
  BY InitKeeps DEF PlayTreeInv
<1>2. PlayTreeInv /\ [Next]_vars => PlayTreeInv'
  <2> SUFFICES ASSUME PlayTreeInv, [Next]_vars, rnd' = {}
               PROVE  \E T \in SUBSET Nodes : Inv(T)'
    BY DEF PlayTreeInv
  <2>1. rnd' = rnd
    BY NoShuffle DEF vars, tree
  <2>2. PICK S \in SUBSET Nodes : Inv(S)
    BY <2>1 DEF PlayTreeInv
  <2>3. CASE Next
    BY <2>1, <2>2, <2>3, NextKeeps
  <2>4. CASE UNCHANGED vars
    BY <2>2, <2>4, StutterKeeps
  <2> QED
    BY <2>3, <2>4
<1> QED
  BY <1>1, <1>2, PTL DEF Spec

\* However the player came to an entry of a tree that is not shuffled - by steps, loops, commands
\* or lists - its options and those of the groups around it hold, at one level each: what
\* play_tree_iter_step, up_step and down_step push and pop.  Options are set by their first names.
THEOREM OptionsHold ==
  ASSUME Aliases = {}
  PROVE  Spec => []OptionsInEffect
<1>1. PlayTreeInv => OptionsInEffect
  BY OptionsFollow DEF PlayTreeInv, OptionsInEffect
<1> QED
  BY <1>1, PlayTreeInvariant, PTL

\* "Pop the current context restoring the previous context state": when the tree is left, every
\* level that was pushed has been popped and the option is what it was.
THEOREM OptionsAreRestored ==
  ASSUME Aliases = {}
  PROVE  Spec => []OptionsRestored
<1>1. PlayTreeInv => OptionsRestored
  BY OptionsFollow DEF PlayTreeInv, OptionsRestored
<1> QED
  BY <1>1, PlayTreeInvariant, PTL

-----------------------------------------------------------------------------
(* What sequences of sequences amount to.                                  *)

\* What FlattenSeq computes: f[i] are the first i of the sequences, one after the other.
Flattens(f, s, m) == f = [i \in 1 .. m |-> IF i = 1 THEN s[i] ELSE f[i - 1] \o s[i]]
FlatTo(s, m) == \E f \in [1 .. m -> Seq(Nodes)] : Flattens(f, s, m)

LEMMA FlattenExists ==
  ASSUME NEW m \in Nat, NEW s \in [1 .. m -> Seq(Nodes)]
  PROVE  FlatTo(s, m)
<1> DEFINE T == {k \in 0 .. m : ~ FlatTo(s, k)}
<1>1. SUFFICES ASSUME T # {} PROVE FALSE
  <2>1. m \in 0 .. m
    OBVIOUS
  <2> QED
    BY <2>1
<1>2. PICK k \in T : \A y \in T : k <= y
  <2>1. T \subseteq Nat
    OBVIOUS
  <2> HIDE DEF T
  <2> QED
    BY <1>1, <2>1, LeastOf
<1>3. k \in Nat /\ k <= m /\ ~ FlatTo(s, k)
  BY <1>2
<1>4. CASE k = 0
  <2> DEFINE f == [i \in 1 .. k |-> <<>>]
  <2>1. f \in [1 .. k -> Seq(Nodes)] /\ Flattens(f, s, k)
    BY <1>4 DEF Flattens
  <2> QED
    BY <1>3, <2>1 DEF FlatTo
<1>5. CASE k # 0
  <2>1. k - 1 \in 0 .. m /\ k - 1 \notin T
    BY <1>2, <1>3, <1>5
  <2>2. PICK f \in [1 .. k - 1 -> Seq(Nodes)] : Flattens(f, s, k - 1)
    BY <2>1 DEF FlatTo
  <2> DEFINE At(h, i) == IF i = 1 THEN s[i] ELSE h[i - 1] \o s[i]
             g == [i \in 1 .. k |-> At(f, i)]
  <2>3. \A i \in 1 .. k - 1 : f[i] = At(f, i)
    BY <2>2 DEF Flattens
  <2>4. \A i \in 1 .. k - 1 : i \in 1 .. k /\ g[i] = f[i]
    <3>1. \A i \in 1 .. k - 1 : i \in 1 .. k
      BY <1>3
    <3> HIDE DEF At
    <3>2. \A i \in 1 .. k : g[i] = At(f, i)
      OBVIOUS
    <3> QED
      BY <2>3, <3>1, <3>2
  <2>5. \A i \in 1 .. k : i # 1 => i - 1 \in 1 .. k - 1
    BY <1>3
  <2>6. \A i \in 1 .. k : s[i] \in Seq(Nodes)
    BY <1>3
  <2>7. \A i \in 1 .. k : At(f, i) = At(g, i) /\ At(f, i) \in Seq(Nodes)
    <3> SUFFICES ASSUME NEW i \in 1 .. k PROVE At(f, i) = At(g, i) /\ At(f, i) \in Seq(Nodes)
      OBVIOUS
    <3>1. CASE i = 1
      BY <3>1, <2>6
    <3>2. CASE i # 1
      <4>1. i - 1 \in 1 .. k - 1
        BY <3>2, <2>5
      <4>2. f[i - 1] \in Seq(Nodes) /\ g[i - 1] = f[i - 1]
        BY <4>1, <2>2, <2>4
      <4>3. f[i - 1] \o s[i] \in Seq(Nodes)
        BY <4>2, <2>6, ConcatProperties
      <4> HIDE DEF g
      <4> QED
        BY <3>2, <4>2, <4>3
    <3> QED
      BY <3>1, <3>2
  <2>8. \A i \in 1 .. k : g[i] = At(f, i)
    OBVIOUS
  <2>9. g \in [1 .. k -> Seq(Nodes)]
    BY <2>7
  <2> HIDE DEF g
  <2>10. g = [i \in 1 .. k |-> At(g, i)]
    BY <2>7, <2>8, <2>9
  <2>11. Flattens(g, s, k)
    BY <2>10 DEF Flattens
  <2> QED
    BY <1>3, <2>9, <2>11 DEF FlatTo
<1> QED
  BY <1>4, <1>5

\* Its function is there, and there is only one.
LEMMA FlattenHas ==
  ASSUME NEW m \in Nat, NEW s \in [1 .. m -> Seq(Nodes)]
  PROVE  /\ m = 0 => FlattenSeq(s) = <<>>
         /\ m > 0 => \E f \in [1 .. m -> Seq(Nodes)] : 
                       /\ FlattenSeq(s) = f[m] /\ f[1] = s[1]
                       /\ \A i \in 2 .. m : f[i] = f[i - 1] \o s[i]
<1>1. s \in Seq(Seq(Nodes)) /\ Len(s) = m
  BY IsASeq
<1>2. CASE m = 0
  <2>1. s = <<>>
    BY <1>1, <1>2, EmptySeq
  <2>2. FlattenSeq(s) = s
    BY <1>1, <1>2 DEF FlattenSeq
  <2> QED
    BY <1>2, <2>1, <2>2
<1>3. CASE m > 0
  <2> DEFINE f == CHOOSE f : Flattens(f, s, m)
  <2>1. PICK g \in [1 .. m -> Seq(Nodes)] : Flattens(g, s, m)
    BY FlattenExists DEF FlatTo
  <2>2. Flattens(f, s, m)
    BY <2>1
  <2>3. FlattenSeq(s) = f[m]
    <3>1. Len(s) # 0
      BY <1>1, <1>3
    <3> QED
      BY <3>1, <1>1 DEF FlattenSeq, Flattens
  <2> HIDE DEF f
  <2>4. \A i \in 1 .. m : f[i] = IF i = 1 THEN s[i] ELSE f[i - 1] \o s[i]
    BY <2>2 DEF Flattens
  <2>5. f[1] = s[1] /\ \A i \in 2 .. m : f[i] = f[i - 1] \o s[i]
    <3>1. 1 \in 1 .. m /\ \A i \in 2 .. m : i \in 1 .. m /\ i # 1
      BY <1>3
    <3> QED
      BY <2>4, <3>1
  <2>6. f \in [1 .. m -> Seq(Nodes)]
    <3> DEFINE T == {i \in 1 .. m : f[i] \notin Seq(Nodes)}
    <3>1. T = {}
      <4> SUFFICES ASSUME T # {} PROVE FALSE
        OBVIOUS
      <4>1. PICK k \in T : \A y \in T : k <= y
        <5>1. T \subseteq Nat
          OBVIOUS
        <5> HIDE DEF T
        <5> QED
          BY <5>1, LeastOf
      <4>2. k \in 1 .. m /\ f[k] \notin Seq(Nodes) /\ s[k] \in Seq(Nodes)
        OBVIOUS
      <4>3. k # 1
        BY <2>5, <4>2
      <4>4. k - 1 \in 1 .. m /\ k - 1 \notin T /\ k \in 2 .. m
        BY <4>1, <4>2, <4>3
      <4>5. f[k - 1] \in Seq(Nodes) /\ f[k] = f[k - 1] \o s[k]
        BY <2>5, <4>4
      <4> QED
        BY <4>2, <4>5, ConcatProperties
    <3>2. \A i \in 1 .. m : f[i] \in Seq(Nodes)
      BY <3>1
    <3>3. f = [i \in 1 .. m |-> f[i]]
      BY <2>2 DEF Flattens
    <3> QED
      BY <3>2, <3>3
  <2>7. m # 0
    BY <1>3
  <2> QED
    BY <2>3, <2>5, <2>6, <2>7
<1> QED
  BY <1>2, <1>3

LEMMA Assoc ==
  ASSUME NEW S, NEW a \in Seq(S), NEW b \in Seq(S), NEW c \in Seq(S)
  PROVE  (a \o b) \o c = a \o (b \o c) /\ a \o b \in Seq(S)
  BY ConcatAssociative

LEMMA Joined == \A a, b, c \in Seq(Nodes) : (a \o b) \o c = a \o (b \o c)
  BY Assoc

LEMMA FlattenTypes ==
  ASSUME NEW m \in Nat, NEW s \in [1 .. m -> Seq(Nodes)]
  PROVE  FlattenSeq(s) \in Seq(Nodes) /\ (m = 0 => FlattenSeq(s) = <<>>)
<1>1. CASE m = 0
  <2>1. FlattenSeq(s) = <<>>
    BY <1>1, FlattenHas
  <2> QED
    BY <2>1
<1>2. CASE m > 0
  <2>1. PICK f \in [1 .. m -> Seq(Nodes)] : FlattenSeq(s) = f[m]
    BY <1>2, FlattenHas
  <2>2. m \in 1 .. m /\ m # 0
    BY <1>2
  <2> QED
    BY <2>1, <2>2
<1> QED
  BY <1>1, <1>2

\* The first of the sequences, and the others after it.
LEMMA FlattenFirst ==
  ASSUME NEW m \in Nat, m > 0, NEW s \in [1 .. m -> Seq(Nodes)],
         NEW t \in [1 .. m - 1 -> Seq(Nodes)], \A i \in 1 .. m - 1 : t[i] = s[i + 1]
  PROVE  FlattenSeq(s) = s[1] \o FlattenSeq(t)
<1>1. m - 1 \in Nat /\ 1 \in 1 .. m
  OBVIOUS
<1>2. PICK f \in [1 .. m -> Seq(Nodes)] : /\ FlattenSeq(s) = f[m] /\ f[1] = s[1]
                                         /\ \A i \in 2 .. m : f[i] = f[i - 1] \o s[i]
  BY FlattenHas
<1>3. PICK first : first = s[1]
  OBVIOUS
<1>4. first \in Seq(Nodes)
  BY <1>1, <1>3
<1>5. CASE m = 1
  <2>1. FlattenSeq(t) = <<>>
    <3>1. PICK z : z = m - 1
      OBVIOUS
    <3>2. z \in Nat /\ z = 0 /\ t \in [1 .. z -> Seq(Nodes)]
      BY <1>5, <3>1
    <3> QED
      BY <3>2, FlattenTypes
  <2>2. first \o <<>> = first
    BY <1>4, ConcatEmptySeq
  <2>3. FlattenSeq(s) = first
    BY <1>2, <1>3, <1>5
  <2> QED
    BY <1>3, <2>1, <2>2, <2>3
<1>6. CASE m # 1
  <2>1. m - 1 > 0 /\ m - 1 \in 1 .. m - 1
    BY <1>6
  <2>2. PICK g \in [1 .. m - 1 -> Seq(Nodes)] :
           /\ FlattenSeq(t) = g[m - 1] /\ g[1] = t[1]
           /\ \A i \in 2 .. m - 1 : g[i] = g[i - 1] \o t[i]
    BY <1>1, <2>1, FlattenHas
  <2> DEFINE T == {i \in 1 .. m - 1 : f[i + 1] # first \o g[i]}
  <2>3. T = {}
    <3> SUFFICES ASSUME T # {} PROVE FALSE
      OBVIOUS
    <3>1. PICK k \in T : \A y \in T : k <= y
      <4>1. T \subseteq Nat
        OBVIOUS
      <4> HIDE DEF T
      <4> QED
        BY <4>1, LeastOf
    <3>2. k \in 1 .. m - 1 /\ f[k + 1] # first \o g[k]
      OBVIOUS
    <3>3. k + 1 \in 2 .. m /\ k + 1 - 1 = k /\ t[k] = s[k + 1]
      BY <3>2
    <3>4. f[k + 1] = f[k] \o t[k]
      <4>1. PICK j : j = k + 1
        OBVIOUS
      <4>2. j \in 2 .. m /\ j - 1 = k /\ t[k] = s[j]
        BY <3>3, <4>1
      <4>3. f[j] = f[j - 1] \o s[j]
        BY <1>2, <4>2
      <4> QED
        BY <4>1, <4>2, <4>3
    <3>5. CASE k = 1
      BY <1>2, <1>3, <2>2, <3>2, <3>4, <3>5
    <3>6. CASE k # 1
      <4>1. k - 1 \in 1 .. m - 1 /\ k \in 2 .. m - 1 /\ k - 1 + 1 = k
        BY <3>2, <3>6
      <4>2. k - 1 \notin T
        <5> HIDE DEF T
        <5>1. ~ (k <= k - 1)
          BY <3>2
        <5> QED
          BY <3>1, <5>1
      <4>3. f[k] = first \o g[k - 1]
        BY <4>1, <4>2
      <4>4. g[k] = g[k - 1] \o t[k]
        BY <2>2, <4>1
      <4>5. g[k - 1] \in Seq(Nodes) /\ t[k] \in Seq(Nodes)
        BY <2>2, <3>2, <4>1
      <4>6. (first \o g[k - 1]) \o t[k] = first \o (g[k - 1] \o t[k])
        <5>1. PICK a, b, c : a = g[k - 1] /\ b = t[k] /\ c = first
          OBVIOUS
        <5>2. a \in Seq(Nodes) /\ b \in Seq(Nodes) /\ c \in Seq(Nodes)
          BY <1>4, <4>5, <5>1
        <5> HIDE DEF T
        <5>3. (c \o a) \o b = c \o (a \o b)
          BY <5>2, Joined
        <5> QED
          BY <5>1, <5>3
      <4> QED
        BY <3>2, <3>4, <4>3, <4>4, <4>6
    <3> QED
      BY <3>5, <3>6
  <2>4. f[m - 1 + 1] = first \o g[m - 1]
    BY <2>1, <2>3
  <2>5. m - 1 + 1 = m
    OBVIOUS
  <2> QED
    BY <1>2, <1>3, <2>2, <2>4, <2>5
<1> QED
  BY <1>5, <1>6

LEMMA RepeatedIs ==
  ASSUME NEW s \in Seq(Nodes), NEW k \in Nat
  PROVE  /\ Repeated(s, k) \in Seq(Nodes)
         /\ k = 0 => Repeated(s, k) = <<>>
         /\ k > 0 => Repeated(s, k) = s \o Repeated(s, k - 1)
<1>1. PICK f : f = [i \in 1 .. k |-> s]
  OBVIOUS
<1>2. Repeated(s, k) = FlattenSeq(f) /\ f \in [1 .. k -> Seq(Nodes)]
  BY <1>1 DEF Repeated
<1>3. FlattenSeq(f) \in Seq(Nodes) /\ (k = 0 => FlattenSeq(f) = <<>>)
  BY <1>2, FlattenTypes
<1>4. ASSUME k > 0 PROVE Repeated(s, k) = s \o Repeated(s, k - 1)
  <2>1. PICK h : h = [i \in 1 .. k - 1 |-> s]
    OBVIOUS
  <2>2. Repeated(s, k - 1) = FlattenSeq(h) /\ h \in [1 .. k - 1 -> Seq(Nodes)]
    BY <2>1 DEF Repeated
  <2>3. \A i \in 1 .. k - 1 : h[i] = f[i + 1]
    BY <1>1, <2>1
  <2>4. FlattenSeq(f) = f[1] \o FlattenSeq(h)
    BY <1>2, <1>4, <2>2, <2>3, FlattenFirst
  <2>5. f[1] = s
    BY <1>1, <1>4
  <2> QED
    BY <1>2, <2>2, <2>4, <2>5
<1> QED
  BY <1>2, <1>3, <1>4

-----------------------------------------------------------------------------
(* What a node plays, from what its children play.                         *)

Times(n) == IF loops[n] < 0 THEN MaxPlays ELSE IF loops[n] = 0 THEN 1 ELSE loops[n]
PlayedBy(f, n) ==
    IF kids[n] = <<>> THEN <<n>>
    ELSE Repeated(FlattenSeq([i \in DOMAIN kids[n] |-> f[kids[n][i]]]), Times(n))

PlayingFrom(f, k) == f = [n \in k .. LastNode |-> PlayedBy(f, n)]
PlayingTo(j) == \E f : PlayingFrom(f, LastNode - j)

LEMMA SamePlayed ==
  ASSUME NEW f, NEW g, NEW n, \A i \in DOMAIN kids[n] : f[kids[n][i]] = g[kids[n][i]]
  PROVE  PlayedBy(f, n) = PlayedBy(g, n)
<1>1. [i \in DOMAIN kids[n] |-> f[kids[n][i]]] = [i \in DOMAIN kids[n] |-> g[kids[n][i]]]
  OBVIOUS
<1> QED
  BY <1>1 DEF PlayedBy

LEMMA PlayingExists ==
  ASSUME Descends
  PROVE  \A j \in Nodes : PlayingTo(j)
<1> DEFINE T == {m \in Nodes : ~ PlayingTo(m)}
<1>1. SUFFICES T = {}
  OBVIOUS
<1>2. SUFFICES ASSUME T # {} PROVE FALSE
  OBVIOUS
<1>3. PICK m \in T : \A y \in T : m <= y
  <2>1. T \subseteq Nat
    BY NodesAre
  <2> HIDE DEF T
  <2> QED
    BY <1>2, <2>1, LeastOf
<1>4. m \in Nodes /\ m \in Nat /\ LastNode \in Nat /\ Nodes = 0 .. LastNode /\ m <= LastNode
  BY NodesAre
<1>5. PICK k : k = LastNode - m
  OBVIOUS
<1>6. k \in Nodes /\ k \in Nat /\ k <= LastNode
  BY <1>4, <1>5
<1>7. PICK f : \A n \in k + 1 .. LastNode : f[n] = PlayedBy(f, n)
  <2>1. CASE m = 0
    BY <2>1, <1>4, <1>5
  <2>2. CASE m # 0
    <3>1. m - 1 \in Nodes /\ ~ (m <= m - 1) /\ LastNode - (m - 1) = k + 1
      BY <1>4, <1>5, <2>2
    <3>2. m - 1 \notin T
      <4> HIDE DEF T
      <4> QED
        BY <1>3, <3>1
    <3>3. PlayingTo(m - 1)
      BY <3>1, <3>2
    <3>4. PICK f : PlayingFrom(f, LastNode - (m - 1))
      BY <3>3 DEF PlayingTo
    <3>5. PlayingFrom(f, k + 1)
      BY <3>1, <3>4
    <3> QED
      BY <3>5 DEF PlayingFrom
  <2> QED
    BY <2>1, <2>2
<1> DEFINE g == [n \in k .. LastNode |-> IF n = k THEN PlayedBy(f, k) ELSE f[n]]
<1>8. \A n \in k .. LastNode : \A i \in DOMAIN kids[n] : kids[n][i] \in k + 1 .. LastNode
  BY <1>4, <1>6 DEF Descends
<1>9. \A n \in k + 1 .. LastNode : n \in k .. LastNode /\ n # k
  BY <1>4, <1>6
<1>10. \A n \in k + 1 .. LastNode : g[n] = f[n]
  BY <1>9
<1>11. \A n \in k .. LastNode : \A i \in DOMAIN kids[n] : f[kids[n][i]] = g[kids[n][i]]
  BY <1>8, <1>10
<1>12. \A n \in k .. LastNode : PlayedBy(f, n) = PlayedBy(g, n)
  <2> HIDE DEF g
  <2> QED
    BY <1>11, SamePlayed
<1>13. \A n \in k .. LastNode : g[n] = PlayedBy(f, n)
  <2> TAKE n \in k .. LastNode
  <2>1. CASE n = k
    BY <2>1
  <2>2. CASE n # k
    <3>1. n \in k + 1 .. LastNode
      BY <2>2, <1>4, <1>6
    <3> QED
      BY <3>1, <1>7, <1>10
  <2> QED
    BY <2>1, <2>2
<1>14. g = [n \in k .. LastNode |-> g[n]]
  OBVIOUS
<1> HIDE DEF g
<1>15. g = [n \in k .. LastNode |-> PlayedBy(g, n)]
  BY <1>12, <1>13, <1>14
<1>16. PlayingTo(m)
  BY <1>5, <1>15 DEF PlayingFrom, PlayingTo
<1> QED
  BY <1>3, <1>16

LEMMA PlayingDef ==
  ASSUME Descends, NEW n \in Nodes
  PROVE  Playing[n] = PlayedBy(Playing, n)
<1>1. \E f : PlayingFrom(f, 0)
  <2>1. LastNode \in Nodes /\ LastNode - LastNode = 0
    BY NodesAre
  <2>2. PlayingTo(LastNode)
    BY <2>1, PlayingExists
  <2>3. \E f : PlayingFrom(f, LastNode - LastNode)
    BY <2>2 DEF PlayingTo
  <2> QED
    BY <2>1, <2>3
<1>2. Playing = CHOOSE f : PlayingFrom(f, 0)
  BY NodesAre DEF Playing, PlayingFrom, PlayedBy, Times
<1>3. PlayingFrom(Playing, 0)
  BY <1>1, <1>2
<1> QED
  BY <1>3, NodesAre DEF PlayingFrom

\* What the children of a node play from the one behind place i on.
Later(n, i) == FlattenSeq([j \in 1 .. Len(kids[n]) - i |-> Playing[kids[n][i + j]]])
Body(n) == FlattenSeq([i \in DOMAIN kids[n] |-> Playing[kids[n][i]]])

LEMMA PlayingTypes ==
  ASSUME Descends, loops \in [Nodes -> Int]
  PROVE  \A n \in Nodes : Playing[n] \in Seq(Nodes)
<1> DEFINE T == {m \in Nodes : Playing[LastNode - m] \notin Seq(Nodes)}
<1>0. LastNode \in Nat /\ Nodes = 0 .. LastNode
  BY NodesAre
<1>1. T = {}
  <2> SUFFICES ASSUME T # {} PROVE FALSE
    OBVIOUS
  <2>1. PICK m \in T : \A y \in T : m <= y
    <3>1. T \subseteq Nat
      BY NodesAre
    <3> HIDE DEF T
    <3> QED
      BY <3>1, LeastOf
  <2>2. PICK n : n = LastNode - m
    OBVIOUS
  <2>3. m \in Nodes /\ n \in Nodes /\ Playing[n] \notin Seq(Nodes)
    BY <1>0, <2>1, <2>2
  <2>4. Playing[n] = PlayedBy(Playing, n)
    BY <2>3, PlayingDef
  <2>5. CASE kids[n] = <<>>
    BY <2>3, <2>4, <2>5 DEF PlayedBy
  <2>6. CASE kids[n] # <<>>
    <3>1. kids[n] \in Seq(Nodes) /\ Len(kids[n]) \in Nat /\ DOMAIN kids[n] = 1 .. Len(kids[n])
      BY <2>3, LenProperties DEF Descends
    <3>2. ASSUME NEW i \in DOMAIN kids[n] PROVE Playing[kids[n][i]] \in Seq(Nodes)
      <4>1. PICK c : c = kids[n][i]
        OBVIOUS
      <4>2. c \in Nodes /\ c > n
        BY <2>3, <3>2, <4>1 DEF Descends
      <4>3. LastNode - c \in Nodes /\ LastNode - (LastNode - c) = c /\ ~ (m <= LastNode - c)
        BY <1>0, <2>2, <2>3, <4>2
      <4>4. LastNode - c \notin T
        <5> HIDE DEF T
        <5> QED
          BY <2>1, <4>3
      <4> QED
        BY <4>1, <4>3, <4>4
    <3>3. PICK s : s = [i \in DOMAIN kids[n] |-> Playing[kids[n][i]]]
      OBVIOUS
    <3>4. s \in [1 .. Len(kids[n]) -> Seq(Nodes)]
      BY <3>1, <3>2, <3>3
    <3>5. PICK t : t = FlattenSeq(s)
      OBVIOUS
    <3>6. t \in Seq(Nodes)
      BY <3>1, <3>4, <3>5, FlattenTypes
    <3>7. Times(n) \in Nat
      BY <2>3, TreeAssumption DEF Times
    <3>8. Repeated(t, Times(n)) \in Seq(Nodes)
      BY <3>6, <3>7, RepeatedIs
    <3> QED
      BY <2>3, <2>4, <2>6, <3>3, <3>5, <3>8 DEF PlayedBy
  <2> QED
    BY <2>5, <2>6
<1>2. ASSUME NEW n \in Nodes PROVE Playing[n] \in Seq(Nodes)
  <2>1. LastNode - n \in Nodes /\ LastNode - (LastNode - n) = n
    BY <1>0
  <2>2. LastNode - n \notin T
    BY <1>1
  <2> QED
    BY <2>1, <2>2
<1> QED
  BY <1>2

LEMMA LaterIs ==
  ASSUME Descends, loops \in [Nodes -> Int], NEW n \in Nodes
  PROVE  /\ Body(n) \in Seq(Nodes) /\ Later(n, 0) = Body(n) /\ Later(n, Len(kids[n])) = <<>>
         /\ \A i \in 0 .. Len(kids[n]) : Later(n, i) \in Seq(Nodes)
         /\ \A i \in DOMAIN kids[n] :
              Later(n, i - 1) = Playing[kids[n][i]] \o Later(n, i) /\ i - 1 \in 0 .. Len(kids[n])
<1>1. PICK m : m = Len(kids[n])
  OBVIOUS
<1>2. m \in Nat /\ DOMAIN kids[n] = 1 .. m /\ \A i \in 1 .. m : kids[n][i] \in Nodes
  BY <1>1, LenProperties DEF Descends
<1> DEFINE s(i) == [j \in 1 .. m - i |-> Playing[kids[n][i + j]]]
<1>3. \A i \in 0 .. m : Later(n, i) = FlattenSeq(s(i))
  BY <1>1 DEF Later
<1>4. \A i \in 0 .. m : m - i \in Nat /\ s(i) \in [1 .. m - i -> Seq(Nodes)]
  <2> SUFFICES ASSUME NEW i \in 0 .. m PROVE m - i \in Nat /\ s(i) \in [1 .. m - i -> Seq(Nodes)]
    OBVIOUS
  <2>1. m - i \in Nat /\ \A j \in 1 .. m - i : i + j \in 1 .. m
    BY <1>2
  <2>2. \A j \in 1 .. m - i : Playing[kids[n][i + j]] \in Seq(Nodes)
    BY <1>2, <2>1, PlayingTypes
  <2> QED
    BY <2>1, <2>2
<1>5. ASSUME NEW i \in 0 .. m
      PROVE  /\ Later(n, i) \in Seq(Nodes) /\ (i = m => Later(n, i) = <<>>)
  <2>1. PICK z, t : z = m - i /\ t = s(i)
    OBVIOUS
  <2>2. z \in Nat /\ t \in [1 .. z -> Seq(Nodes)] /\ Later(n, i) = FlattenSeq(t) /\ (i = m => z = 0)
    <3> HIDE DEF s
    <3>1. i = m => z = 0
      BY <1>2, <2>1
    <3>2. z \in Nat /\ t \in [1 .. z -> Seq(Nodes)]
      BY <1>4, <2>1
    <3>3. Later(n, i) = FlattenSeq(t)
      BY <1>3, <2>1
    <3> QED
      BY <3>1, <3>2, <3>3
  <2> QED
    BY <2>2, FlattenTypes
<1>6. Later(n, 0) = Body(n)
  <2>1. 0 \in 0 .. m /\ m - 0 = m
    BY <1>2
  <2>2. s(0) = [j \in DOMAIN kids[n] |-> Playing[kids[n][j]]]
    <3>1. \A j \in 1 .. m : 0 + j = j
      OBVIOUS
    <3> QED
      BY <1>2, <2>1, <3>1
  <2> QED
    BY <1>3, <2>1, <2>2 DEF Body
<1>7. ASSUME NEW i \in 1 .. m
      PROVE  Later(n, i - 1) = Playing[kids[n][i]] \o Later(n, i) /\ i - 1 \in 0 .. m
  <2>1. i - 1 \in 0 .. m /\ i \in 0 .. m
    BY <1>2
  <2>2. PICK z, a, b : z = m - (i - 1) /\ a = s(i - 1) /\ b = s(i)
    OBVIOUS
  <2>3. z - 1 = m - i /\ z \in Nat /\ z > 0
    BY <1>2, <2>2
  <2>4. a \in [1 .. z -> Seq(Nodes)] /\ b \in [1 .. z - 1 -> Seq(Nodes)]
    BY <1>4, <2>1, <2>2, <2>3
  <2>5. \A j \in 1 .. z - 1 : b[j] = a[j + 1]
    <3> SUFFICES ASSUME NEW j \in 1 .. z - 1 PROVE b[j] = a[j + 1]
      OBVIOUS
    <3>1. j \in 1 .. m - i /\ j + 1 \in 1 .. m - (i - 1) /\ i + j = i - 1 + (j + 1)
      BY <1>2, <2>2, <2>3
    <3>2. b[j] = Playing[kids[n][i + j]] /\ a[j + 1] = Playing[kids[n][i - 1 + (j + 1)]]
      BY <2>2, <3>1
    <3> QED
      BY <3>1, <3>2
  <2>6. a[1] = Playing[kids[n][i]]
    <3>1. 1 \in 1 .. m - (i - 1) /\ i - 1 + 1 = i
      BY <1>2
    <3>2. a[1] = Playing[kids[n][i - 1 + 1]]
      BY <2>2, <3>1
    <3> QED
      BY <3>1, <3>2
  <2>7. FlattenSeq(a) = a[1] \o FlattenSeq(b)
    <3> HIDE DEF s
    <3> QED
      BY <2>3, <2>4, <2>5, FlattenFirst
  <2>8. Later(n, i - 1) = FlattenSeq(a) /\ Later(n, i) = FlattenSeq(b)
    <3> HIDE DEF s
    <3> QED
      BY <1>3, <2>1, <2>2
  <2> QED
    BY <2>1, <2>6, <2>7, <2>8
<1>8. m \in 0 .. m /\ 0 \in 0 .. m
  BY <1>2
<1> QED
  BY <1>1, <1>2, <1>5, <1>6, <1>7, <1>8

\* The tree the command line makes: a child knows its parent, is there once and leads to an entry.
Orderly ==
    /\ Climbs(parent) /\ kids \in [Nodes -> Seq(Nodes)] /\ files \in [Nodes -> Nat]
    /\ \A n \in Nodes : \A i \in DOMAIN kids[n] : parent[kids[n][i]] = n /\ Valid[kids[n][i]]
    /\ \A n \in Nodes : \A i, j \in DOMAIN kids[n] : kids[n][i] = kids[n][j] => i = j
    /\ \A n \in Nodes : parent[n] # None => Linked(n)
    /\ \A n \in Nodes : files[n] > 0 => kids[n] = <<>>
    /\ Valid[Root]

LEMMA OrderlyIs ==
  ASSUME Orderly
  PROVE  /\ Descends /\ parent[Root] = None
         /\ \A n \in Nodes : kids[n] \in Seq(Nodes) /\ Len(kids[n]) \in Nat /\ DOMAIN kids[n] = 1 .. Len(kids[n])
         /\ \A n \in Nodes : kids[n] # <<>> => 1 \in DOMAIN kids[n] /\ Head(kids[n]) = kids[n][1]
         /\ \A n \in Nodes : Valid[n] => files[n] > 0 \/ kids[n] # <<>>
         /\ \A n \in Nodes : files[n] > 0 => kids[n] = <<>> /\ Playing[n] = <<n>>
<1>1. \A n \in Nodes : kids[n] \in Seq(Nodes) /\ Len(kids[n]) \in Nat /\ DOMAIN kids[n] = 1 .. Len(kids[n])
  BY LenProperties DEF Orderly
<1>2. Descends
  <2>1. ASSUME NEW n \in Nodes, NEW i \in DOMAIN kids[n] PROVE kids[n][i] \in Nodes /\ kids[n][i] > n
    <3>1. kids[n][i] \in Nodes /\ parent[kids[n][i]] = n /\ n # None
      <4>1. PICK k : k = kids[n]
        OBVIOUS
      <4>2. k \in Seq(Nodes) /\ i \in DOMAIN k
        BY <1>1, <2>1, <4>1
      <4>3. k[i] \in Nodes
        BY <4>2
      <4>4. parent[kids[n][i]] = n
        BY <2>1 DEF Orderly
      <4> QED
        BY <2>1, <4>1, <4>3, <4>4, NodesAre
    <3>2. n < kids[n][i]
      BY <3>1 DEF Orderly, Climbs
    <3> QED
      BY <3>1, <3>2, NodesAre
  <2> QED
    BY <2>1 DEF Orderly, Descends
<1>3. parent[Root] = None
  BY NodesAre DEF Orderly, Climbs
<1>4. ASSUME NEW n \in Nodes, kids[n] # <<>> PROVE 1 \in DOMAIN kids[n] /\ Head(kids[n]) = kids[n][1]
  <2>1. PICK s : s = kids[n]
    OBVIOUS
  <2>2. s \in Seq(Nodes) /\ s # <<>> /\ Len(s) \in Nat /\ DOMAIN s = 1 .. Len(s)
    BY <1>1, <1>4, <2>1
  <2>3. Len(s) # 0
    BY <2>2, EmptySeq
  <2> QED
    BY <2>1, <2>2, <2>3
<1>5. ASSUME NEW n \in Nodes, Valid[n] PROVE files[n] > 0 \/ kids[n] # <<>>
  <2>1. files[n] > 0 \/ \E i \in DOMAIN kids[n] : Valid[kids[n][i]]
    BY <1>2, <1>5, ValidDef
  <2> QED
    BY <2>1
<1>6. ASSUME NEW n \in Nodes, files[n] > 0 PROVE kids[n] = <<>> /\ Playing[n] = <<n>>
  BY <1>2, <1>6, PlayingDef DEF Orderly, PlayedBy
<1> QED
  BY <1>1, <1>2, <1>3, <1>4, <1>5, <1>6

LEMMA ChildIs ==
  ASSUME Orderly, NEW n \in Nodes, NEW i \in DOMAIN kids[n]
  PROVE  /\ kids[n][i] \in Nodes /\ parent[kids[n][i]] = n /\ Valid[kids[n][i]]
         /\ Siblings(kids[n][i]) = kids[n] /\ PlaceOf(kids[n][i]) = i
<1>1. PICK c : c = kids[n][i]
  OBVIOUS
<1>2. c \in Nodes /\ parent[c] = n /\ Valid[c] /\ n # None
  <2>1. kids[n][i] \in Nodes
    BY OrderlyIs DEF Descends
  <2>2. parent[kids[n][i]] = n /\ Valid[kids[n][i]]
    BY DEF Orderly
  <2> QED
    BY <1>1, <2>1, <2>2, NodesAre
<1>3. Siblings(c) = kids[n]
  BY <1>2 DEF Siblings
<1>4. PlaceOf(c) \in DOMAIN kids[n] /\ kids[n][PlaceOf(c)] = c
  BY <1>1, <1>3 DEF PlaceOf
<1>5. PlaceOf(c) = i
  BY <1>1, <1>4 DEF Orderly
<1> QED
  BY <1>1, <1>2, <1>3, <1>5

LEMMA PlacedIs ==
  ASSUME Orderly, NEW n \in Nodes, parent[n] # None
  PROVE  /\ parent[n] \in Nodes /\ PlaceOf(n) \in DOMAIN kids[parent[n]] /\ kids[parent[n]][PlaceOf(n)] = n
         /\ Siblings(n) = kids[parent[n]] /\ Valid[n]
<1>1. parent[n] \in Nodes
  BY DEF Orderly, Climbs
<1>2. PICK i \in DOMAIN kids[parent[n]] : kids[parent[n]][i] = n
  BY DEF Orderly, Linked
<1> QED
  BY <1>1, <1>2, ChildIs

-----------------------------------------------------------------------------
(* A level of the iterator: the node it is at, the counter of the loop     *)
(* around it, the passes that are left, and all that is played after it.   *)

LevelSet == [node : Nodes, cnt : Int, left : Nat, rest : Seq(Nodes)]

\* What is played after a child when its group is played so many times more.
Rest(a, i, left) == Later(a.node, i) \o (Repeated(Body(a.node), left) \o a.rest)

\* The counter of a loop that ends says what is left of it.
Counts(total, cnt, left) ==
    /\ total < 0 => cnt < 0
    /\ total = 0 => left = 0
    /\ total > 0 => cnt = left

\* A loop without an end has w passes left at least.
Enough(total, left, w) == total < 0 => left >= w

\* b is a level below a.
Continues(a, b) ==
    /\ parent[b.node] = a.node
    /\ b.rest = Rest(a, PlaceOf(b.node), b.left)
    /\ Counts(loops[a.node], b.cnt, b.left)

LevelAt(a, i, c, l) == [node |-> kids[a.node][i], cnt |-> c, left |-> l, rest |-> Rest(a, i, l)]

LEMMA RestIs ==
  ASSUME Orderly, loops \in [Nodes -> Int], NEW a \in LevelSet, NEW i \in 0 .. Len(kids[a.node]), NEW l \in Nat
  PROVE  /\ Rest(a, i, l) \in Seq(Nodes)
         /\ Repeated(Body(a.node), l) \in Seq(Nodes) /\ a.rest \in Seq(Nodes)
         /\ Repeated(Body(a.node), l) \o a.rest \in Seq(Nodes)
<1>1. a.node \in Nodes /\ a.rest \in Seq(Nodes)
  BY DEF LevelSet
<1>2. Body(a.node) \in Seq(Nodes) /\ Later(a.node, i) \in Seq(Nodes)
  BY <1>1, OrderlyIs, LaterIs
<1>3. Repeated(Body(a.node), l) \in Seq(Nodes)
  BY <1>2, RepeatedIs
<1>4. Repeated(Body(a.node), l) \o a.rest \in Seq(Nodes)
  BY <1>1, <1>3, Assoc
<1>5. Later(a.node, i) \o (Repeated(Body(a.node), l) \o a.rest) \in Seq(Nodes)
  BY <1>2, <1>4, Assoc
<1> QED
  BY <1>1, <1>3, <1>4, <1>5 DEF Rest

\* Behind a child comes the next one, and then what comes behind that.
LEMMA RestStep ==
  ASSUME Orderly, loops \in [Nodes -> Int], NEW a \in LevelSet, NEW i \in DOMAIN kids[a.node], NEW l \in Nat
  PROVE  Rest(a, i - 1, l) = Playing[kids[a.node][i]] \o Rest(a, i, l)
<1>1. a.node \in Nodes
  BY DEF LevelSet
<1>2. Later(a.node, i - 1) = Playing[kids[a.node][i]] \o Later(a.node, i)
  BY <1>1, OrderlyIs, LaterIs
<1>3. i \in 0 .. Len(kids[a.node]) /\ kids[a.node][i] \in Nodes
  BY <1>1, OrderlyIs, ChildIs
<1>4. PICK r, x, y : r = Repeated(Body(a.node), l) \o a.rest /\ x = Playing[kids[a.node][i]] /\ y = Later(a.node, i)
  OBVIOUS
<1>5. r \in Seq(Nodes) /\ x \in Seq(Nodes) /\ y \in Seq(Nodes)
  <2>1. r \in Seq(Nodes)
    BY <1>3, <1>4, RestIs
  <2>2. x \in Seq(Nodes)
    BY <1>3, <1>4, OrderlyIs, PlayingTypes
  <2>3. y \in Seq(Nodes)
    BY <1>1, <1>3, <1>4, OrderlyIs, LaterIs
  <2> QED
    BY <2>1, <2>2, <2>3
<1>6. (x \o y) \o r = x \o (y \o r)
  BY <1>5, Assoc
<1> QED
  BY <1>2, <1>4, <1>6 DEF Rest

\* Behind the last child comes another pass, or what comes behind the group.
LEMMA RestLast ==
  ASSUME Orderly, loops \in [Nodes -> Int], NEW a \in LevelSet, NEW l \in Nat
  PROVE  /\ l = 0 => Rest(a, Len(kids[a.node]), l) = a.rest
         /\ l > 0 => Rest(a, Len(kids[a.node]), l) = Rest(a, 0, l - 1)
<1>1. a.node \in Nodes /\ a.rest \in Seq(Nodes) /\ Len(kids[a.node]) \in Nat
  BY OrderlyIs DEF LevelSet
<1>2. PICK b : b = Body(a.node)
  OBVIOUS
<1>3. b \in Seq(Nodes) /\ Later(a.node, 0) = b /\ Later(a.node, Len(kids[a.node])) = <<>>
  BY <1>1, <1>2, OrderlyIs, LaterIs
<1>4. PICK r : r = Repeated(b, l)
  OBVIOUS
<1>5. r \in Seq(Nodes) /\ r \o a.rest \in Seq(Nodes)
  <2>1. r \in Seq(Nodes)
    BY <1>3, <1>4, RepeatedIs
  <2> QED
    BY <1>1, <2>1, Assoc
<1>6. Rest(a, Len(kids[a.node]), l) = r \o a.rest
  <2>1. Rest(a, Len(kids[a.node]), l) = <<>> \o (r \o a.rest)
    BY <1>2, <1>3, <1>4 DEF Rest
  <2> QED
    BY <1>5, <2>1, ConcatEmptySeq
<1>7. ASSUME l = 0 PROVE r \o a.rest = a.rest
  <2>1. r = <<>>
    BY <1>3, <1>4, <1>7, RepeatedIs
  <2> QED
    BY <1>1, <2>1, ConcatEmptySeq
<1>8. ASSUME l > 0 PROVE r \o a.rest = Rest(a, 0, l - 1)
  <2>1. PICK q : q = Repeated(b, l - 1)
    OBVIOUS
  <2>2. q \in Seq(Nodes) /\ r = b \o q
    <3>1. l - 1 \in Nat
      BY <1>8
    <3> QED
      BY <1>3, <1>4, <1>8, <2>1, <3>1, RepeatedIs
  <2>3. PICK t : t = a.rest
    OBVIOUS
  <2>4. (b \o q) \o t = b \o (q \o t)
    <3>1. b \in Seq(Nodes) /\ q \in Seq(Nodes) /\ t \in Seq(Nodes)
      BY <1>1, <1>3, <2>2, <2>3
    <3> QED
      BY <3>1, Assoc
  <2> QED
    BY <1>2, <1>3, <2>1, <2>2, <2>3, <2>4 DEF Rest
<1> QED
  BY <1>6, <1>7, <1>8

LEMMA LevelAtIs ==
  ASSUME Orderly, loops \in [Nodes -> Int], NEW a \in LevelSet, NEW i \in DOMAIN kids[a.node],
         NEW c \in Int, NEW l \in Nat, Counts(loops[a.node], c, l)
  PROVE  /\ LevelAt(a, i, c, l) \in LevelSet /\ Continues(a, LevelAt(a, i, c, l))
         /\ LevelAt(a, i, c, l).node = kids[a.node][i] /\ LevelAt(a, i, c, l).cnt = c
         /\ LevelAt(a, i, c, l).left = l /\ LevelAt(a, i, c, l).rest = Rest(a, i, l)
<1>1. a.node \in Nodes
  BY DEF LevelSet
<1>2. kids[a.node][i] \in Nodes /\ parent[kids[a.node][i]] = a.node /\ PlaceOf(kids[a.node][i]) = i
      /\ i \in 0 .. Len(kids[a.node])
  BY <1>1, ChildIs, OrderlyIs
<1>3. Rest(a, i, l) \in Seq(Nodes)
  BY <1>2, RestIs
<1>5. LevelAt(a, i, c, l) \in LevelSet
  BY <1>2, <1>3 DEF LevelAt, LevelSet
<1>6. Continues(a, LevelAt(a, i, c, l))
  BY <1>2 DEF Continues, LevelAt
<1> QED
  BY <1>5, <1>6 DEF LevelAt

-----------------------------------------------------------------------------
(* The levels an iterator stands on, and how it moves between them.        *)

\* Levels from the root to level k; loops without an end have w passes left at least.
Chain(p, k, w) ==
    /\ p \in [Nat -> LevelSet] /\ p[1].node = Root /\ p[1].rest = <<>>
    /\ \A i \in 1 .. k - 1 : /\ Continues(p[i], p[i + 1])
                             /\ Enough(loops[p[i].node], p[i + 1].left, w)

\* The levels an iterator stands on.
Follows(p, it, w) ==
    /\ Chain(p, Len(it.stack) + 1, w)
    /\ p[Len(it.stack) + 1].node = it.tree /\ p[Len(it.stack) + 1].cnt = it.loop
    /\ \A i \in 1 .. Len(it.stack) : p[i].cnt = it.stack[i]
Top(p, it) == p[Len(it.stack) + 1]

LEMMA ChainCut ==
  ASSUME NEW p, NEW k \in Nat, NEW w \in Int, Chain(p, k, w), NEW j \in Nat, j <= k, NEW v \in Int, v <= w
  PROVE  Chain(p, j, v)
<1>1. ASSUME NEW i \in 1 .. j - 1
      PROVE  Continues(p[i], p[i + 1]) /\ Enough(loops[p[i].node], p[i + 1].left, v)
  <2>1. i \in 1 .. k - 1 /\ i + 1 \in Nat
    OBVIOUS
  <2>2. Continues(p[i], p[i + 1]) /\ Enough(loops[p[i].node], p[i + 1].left, w)
    BY <2>1 DEF Chain
  <2>3. p[i + 1].left \in Nat
    BY <2>1 DEF Chain, LevelSet
  <2> QED
    BY <2>2, <2>3 DEF Enough
<1> QED
  BY <1>1 DEF Chain

LEMMA ChainPut ==
  ASSUME NEW p, NEW k \in Nat, k > 0, NEW w \in Int, Chain(p, k, w),
         NEW b \in LevelSet, Continues(p[k], b), Enough(loops[p[k].node], b.left, w)
  PROVE  \E q : Chain(q, k + 1, w) /\ q[k + 1] = b /\ \A i \in 1 .. k : q[i] = p[i]
<1> DEFINE q == [p EXCEPT ![k + 1] = b]
<1>1. p \in [Nat -> LevelSet] /\ p[1].node = Root /\ p[1].rest = <<>>
  BY DEF Chain
<1>2. k + 1 \in Nat /\ 1 \in 1 .. k /\ \A i \in 1 .. k : i \in Nat /\ i # k + 1
  OBVIOUS
<1>3. q \in [Nat -> LevelSet] /\ q[k + 1] = b /\ \A i \in 1 .. k : q[i] = p[i]
  BY <1>1, <1>2
<1> HIDE DEF q
<1>4. ASSUME NEW i \in 1 .. k
      PROVE  Continues(q[i], q[i + 1]) /\ Enough(loops[q[i].node], q[i + 1].left, w)
  <2>1. CASE i = k
    BY <2>1, <1>2, <1>3
  <2>2. CASE i # k
    <3>1. i \in 1 .. k - 1 /\ i + 1 \in 1 .. k
      BY <2>2
    <3>2. Continues(p[i], p[i + 1]) /\ Enough(loops[p[i].node], p[i + 1].left, w)
      BY <3>1 DEF Chain
    <3> QED
      BY <1>3, <3>1, <3>2
  <2> QED
    BY <2>1, <2>2
<1>5. k + 1 - 1 = k
  OBVIOUS
<1>6. Chain(q, k + 1, w)
  BY <1>1, <1>2, <1>3, <1>4, <1>5 DEF Chain
<1> QED
  BY <1>3, <1>6

LEMMA FollowsIs ==
  ASSUME NEW p, NEW it, it.stack \in Seq(Int), NEW w \in Int, Follows(p, it, w)
  PROVE  /\ Len(it.stack) \in Nat /\ Top(p, it) \in LevelSet /\ Top(p, it).node = it.tree /\ Top(p, it).cnt = it.loop
         /\ it.tree \in Nodes /\ Top(p, it).rest \in Seq(Nodes)
         /\ Len(it.stack) = 0 => it.tree = Root /\ Top(p, it).rest = <<>>
         /\ Len(it.stack) > 0 => /\ p[Len(it.stack)] \in LevelSet /\ Continues(p[Len(it.stack)], Top(p, it))
                                 /\ p[Len(it.stack)].node \in Nodes
                                 /\ parent[it.tree] = p[Len(it.stack)].node
                                 /\ p[Len(it.stack)].cnt = Last(it.stack)
                                 /\ Enough(loops[p[Len(it.stack)].node], Top(p, it).left, w)
<1>1. PICK m : m = Len(it.stack)
  OBVIOUS
<1>2. m \in Nat /\ m + 1 \in Nat /\ (m > 0 => m \in 1 .. m + 1 - 1 /\ m \in 1 .. m)
  BY <1>1, LenProperties
<1>3. /\ p \in [Nat -> LevelSet] /\ p[1].node = Root /\ p[1].rest = <<>>
      /\ p[m + 1].node = it.tree /\ p[m + 1].cnt = it.loop
      /\ \A i \in 1 .. m : p[i].cnt = it.stack[i]
      /\ \A i \in 1 .. m + 1 - 1 : Continues(p[i], p[i + 1]) /\ Enough(loops[p[i].node], p[i + 1].left, w)
  BY <1>1 DEF Follows, Chain
<1>4. p[m + 1] \in LevelSet /\ p[m + 1] = Top(p, it)
  BY <1>1, <1>2, <1>3 DEF Top
<1>5. it.tree \in Nodes /\ p[m + 1].rest \in Seq(Nodes)
  BY <1>3, <1>4 DEF LevelSet
<1>6. m = 0 => it.tree = Root /\ p[m + 1].rest = <<>>
  BY <1>3
<1>7. ASSUME m > 0
      PROVE  /\ p[m] \in LevelSet /\ Continues(p[m], p[m + 1]) /\ p[m].node \in Nodes
             /\ parent[it.tree] = p[m].node /\ p[m].cnt = Last(it.stack)
             /\ Enough(loops[p[m].node], p[m + 1].left, w)
  <2>1. p[m] \in LevelSet /\ p[m].node \in Nodes
    BY <1>2, <1>3 DEF LevelSet
  <2>2. Continues(p[m], p[m + 1]) /\ Enough(loops[p[m].node], p[m + 1].left, w)
    BY <1>2, <1>3, <1>7
  <2>3. parent[it.tree] = p[m].node
    BY <1>3, <2>2 DEF Continues
  <2>4. p[m].cnt = Last(it.stack)
    BY <1>1, <1>2, <1>3, <1>7 DEF Last
  <2> QED
    BY <2>1, <2>2, <2>3, <2>4
<1> QED
  BY <1>1, <1>2, <1>3, <1>4, <1>5, <1>6, <1>7

\* The iterator stays at its node.
LEMMA FollowsSame ==
  ASSUME NEW p, NEW it, it.stack \in Seq(Int), NEW w \in Int, Follows(p, it, w), NEW v \in Int, v <= w,
         NEW to, to.stack = it.stack, to.tree = it.tree, to.loop = it.loop
  PROVE  Follows(p, to, v) /\ Top(p, to) = Top(p, it)
<1>1. Len(it.stack) + 1 \in Nat
  BY LenProperties
<1>2. Chain(p, Len(it.stack) + 1, v)
  BY <1>1, ChainCut DEF Follows
<1> QED
  BY <1>2 DEF Follows, Top

Within(it)    == it.stack \in Seq(Int) /\ Len(it.stack) > 0
Less(v, w)    == v \in Int /\ w \in Int /\ v <= w
Goes(to, it, n, l) == to.stack = it.stack /\ to.tree = n /\ to.loop = l
Reaches(to, it, b) == Goes(to, it, b.node, b.cnt)
Beside(p, it, b, v) ==
    b \in LevelSet /\ Continues(p[Len(it.stack)], b) /\ Enough(loops[p[Len(it.stack)].node], b.left, v)

\* It goes on to a child of the same group.
LEMMA NextLevel ==
  ASSUME NEW p, NEW it, NEW v, NEW w, NEW b, NEW to, Within(it), Less(v, w), Follows(p, it, w),
         Beside(p, it, b, v), Reaches(to, it, b)
  PROVE  \E q : Follows(q, to, v) /\ Top(q, to) = b
<1>1. it.stack \in Seq(Int) /\ Len(it.stack) > 0
  BY DEF Within
<1>2. v \in Int /\ w \in Int /\ v <= w
  BY DEF Less
<1>3. to.stack = it.stack /\ to.tree = b.node /\ to.loop = b.cnt
  BY DEF Reaches, Goes
<1>4. b \in LevelSet /\ Continues(p[Len(it.stack)], b) /\ Enough(loops[p[Len(it.stack)].node], b.left, v)
  BY DEF Beside
<1>5. PICK m : m = Len(it.stack)
  OBVIOUS
<1>6. m \in Nat /\ m > 0 /\ m <= m + 1
  BY <1>1, <1>5, LenProperties
<1>7. Chain(p, m, v)
  BY <1>2, <1>5, <1>6, ChainCut DEF Follows
<1>8. PICK q : Chain(q, m + 1, v) /\ q[m + 1] = b /\ \A i \in 1 .. m : q[i] = p[i]
  BY <1>2, <1>4, <1>5, <1>6, <1>7, ChainPut
<1>9. Follows(q, to, v) /\ Top(q, to) = b
  BY <1>3, <1>5, <1>8 DEF Follows, Top
<1> QED
  BY <1>9

\* It goes down to a child of its node.
LEMMA FollowsDown ==
  ASSUME NEW p, NEW it, it.stack \in Seq(Int), it.loop \in Int, NEW w \in Int, Follows(p, it, w),
         NEW b \in LevelSet, Continues(Top(p, it), b), Enough(loops[it.tree], b.left, w),
         NEW to, to.stack = Append(it.stack, it.loop), to.tree = b.node, to.loop = b.cnt
  PROVE  \E q : Follows(q, to, w) /\ Top(q, to) = b
<1>1. PICK m : m = Len(it.stack)
  OBVIOUS
<1>2. m \in Nat /\ m + 1 \in Nat /\ m + 1 > 0 /\ m + 1 \in 1 .. m + 1
  BY <1>1, LenProperties
<1>3. Chain(p, m + 1, w) /\ Top(p, it) = p[m + 1] /\ p[m + 1].node = it.tree /\ p[m + 1].cnt = it.loop
  BY <1>1 DEF Follows, Top
<1>4. PICK q : Chain(q, m + 1 + 1, w) /\ q[m + 1 + 1] = b /\ \A i \in 1 .. m + 1 : q[i] = p[i]
  BY <1>2, <1>3, ChainPut
<1>5. Len(to.stack) = m + 1 /\ to.stack[m + 1] = it.loop /\ \A i \in 1 .. m : to.stack[i] = it.stack[i]
  <2>1. PICK s : s = it.stack
    OBVIOUS
  <2>2. s \in Seq(Int) /\ Len(s) = m
    BY <1>1, <2>1
  <2>3. /\ Len(Append(s, it.loop)) = Len(s) + 1 /\ Append(s, it.loop)[Len(s) + 1] = it.loop
        /\ \A i \in 1 .. Len(s) : Append(s, it.loop)[i] = s[i]
    BY <2>2, AppendProperties
  <2> QED
    BY <2>1, <2>2, <2>3
<1>6. \A i \in 1 .. m + 1 : q[i].cnt = to.stack[i]
  <2> TAKE i \in 1 .. m + 1
  <2>1. CASE i = m + 1
    BY <2>1, <1>2, <1>3, <1>4, <1>5
  <2>2. CASE i # m + 1
    <3>1. i \in 1 .. m
      BY <1>2, <2>2
    <3>2. p[i].cnt = it.stack[i]
      BY <1>1, <3>1 DEF Follows
    <3> QED
      BY <1>4, <1>5, <3>1, <3>2
  <2> QED
    BY <2>1, <2>2
<1>7. Follows(q, to, w) /\ Top(q, to) = b
  BY <1>4, <1>5, <1>6 DEF Follows, Top
<1> QED
  BY <1>7

\* It goes up to the group.
LEMMA FollowsUp ==
  ASSUME NEW p, NEW it, it.stack \in Seq(Int), Len(it.stack) > 0, NEW w \in Int, Follows(p, it, w),
         NEW to, to.stack = Front(it.stack), to.tree = parent[it.tree], to.loop = Last(it.stack)
  PROVE  Follows(p, to, w) /\ Top(p, to) = p[Len(it.stack)]
<1>1. PICK m : m = Len(it.stack)
  OBVIOUS
<1>2. m \in Nat /\ m > 0 /\ m <= m + 1 /\ m + 1 \in Nat /\ m - 1 + 1 = m
  BY <1>1, LenProperties
<1>3. Len(to.stack) = m - 1 /\ \A i \in 1 .. m - 1 : to.stack[i] = it.stack[i]
  <2>1. PICK s : s = it.stack
    OBVIOUS
  <2>2. s \in Seq(Int) /\ Len(s) = m
    BY <1>1, <2>1
  <2>3. \A i \in 1 .. m - 1 : s[i] \in Int
    BY <2>2
  <2>4. /\ Len(SubSeq(s, 1, m - 1)) = IF 1 <= m - 1 THEN m - 1 - 1 + 1 ELSE 0
        /\ \A i \in 1 .. m - 1 - 1 + 1 : SubSeq(s, 1, m - 1)[i] = s[1 + i - 1]
    BY <1>2, <2>2, <2>3, SubSeqProperties
  <2>5. \A i \in 1 .. m - 1 : i \in 1 .. m - 1 - 1 + 1 /\ 1 + i - 1 = i
    BY <1>2
  <2>6. Front(s) = SubSeq(s, 1, m - 1)
    BY <2>2 DEF Front
  <2> QED
    BY <1>2, <2>1, <2>4, <2>5, <2>6
<1>4. Chain(p, m, w)
  BY <1>1, <1>2, ChainCut DEF Follows
<1>5. p[m].node = to.tree /\ p[m].cnt = to.loop
  BY <1>1, <1>2, FollowsIs
<1>6. \A i \in 1 .. m - 1 : p[i].cnt = to.stack[i]
  <2> TAKE i \in 1 .. m - 1
  <2>1. i \in 1 .. m
    BY <1>2
  <2> QED
    BY <1>1, <1>3, <2>1 DEF Follows
<1> QED
  BY <1>1, <1>2, <1>3, <1>4, <1>5, <1>6 DEF Follows, Top

-----------------------------------------------------------------------------
(* Going only forward, through a tree that is not shuffled.                *)

\* A player that goes only forward, through a tree that is not shuffled.  What was played, what the
\* node at hand plays and what comes behind it are all the tree plays.
After == pc = "playing" \/ (pc \in {"step", "up"} /\ d = 1)
Bound == MaxPlays - Len(plays) - (IF After THEN 0 ELSE 1)
Coming == IF After \/ (pc = "returned" /\ res = "END") THEN <<>> ELSE Playing[iter.tree]

Steady ==
    /\ Orderly /\ loops \in [Nodes -> Int] /\ plays \in Seq(Nodes) /\ iter \in IterOf /\ ~ Trying

Forward ==
    /\ pc \in {"step", "up", "down", "returned", "source", "playing", "idle", "quit"}
    /\ pc \in {"step", "up", "down", "returned"} => then \in {"start", "next"}
    /\ pc \in {"step", "down"} => d \in {0, 1}
    /\ pc = "up" => d = 1
    /\ pc \in {"step", "up"} /\ d = 1 => Len(plays) < MaxPlays
    /\ pc = "down" => kids[iter.tree] # <<>>
    /\ pc = "returned" => \/ res = "ENTRY" /\ files[iter.tree] > 0 /\ iter.file = -1
                          \/ res = "END" /\ plays = Playing[Root]
    /\ pc = "source" => d = 1 /\ files[iter.tree] > 0 /\ iter.file = -1
    /\ pc = "idle" => plays = Playing[Root]

Through(p) ==
    /\ Follows(p, iter, Bound)
    /\ plays \o (Coming \o Top(p, iter).rest) = Playing[Root]
    /\ pc = "up" /\ Len(iter.stack) > 0 => Top(p, iter).rest = p[Len(iter.stack)].rest

OrderInv == Steady /\ Forward /\ (Standing => \E p : Through(p))

LEMMA SameOrder ==
  ASSUME UNCHANGED tree, NEW p
  PROVE  /\ Orderly' = Orderly /\ Playing' = Playing
         /\ Follows(p, iter, Bound)' = Follows(p, iter', Bound')
<1>1. /\ parent' = parent /\ kids' = kids /\ files' = files /\ loops' = loops
  BY DEF tree
<1>2. Playing' = Playing
  BY <1>1 DEF Playing
<1>3. Valid' = Valid
  BY <1>1 DEF Valid
<1>4. Orderly' = Orderly
  BY <1>1, <1>3 DEF Orderly, Climbs, Linked
<1>5. Follows(p, iter, Bound)' = Follows(p, iter', Bound')
  BY <1>1, <1>2 DEF Follows, Chain, Continues, Counts, Enough, Rest, Later, Body, PlaceOf, Siblings
<1> QED
  BY <1>2, <1>4, <1>5

LEMMA BoundIs ==
  ASSUME plays \in Seq(Nodes)
  PROVE  /\ Len(plays) \in Nat /\ MaxPlays \in Nat /\ MaxPlays > 0 /\ Bound \in Int
         /\ After => Bound = MaxPlays - Len(plays)
         /\ ~ After => Bound = MaxPlays - Len(plays) - 1
<1>1. Len(plays) \in Nat /\ MaxPlays \in Nat \ {0}
  BY LenProperties, TreeAssumption
<1> QED
  BY <1>1 DEF Bound

LEMMA Arrived ==
  ASSUME Steady, UNCHANGED <<tree, saved>>, plays' \in Seq(Nodes), iter' \in IterOf, Forward',
         NEW q, Follows(q, iter', Bound'),
         plays' \o (Coming' \o Top(q, iter').rest) = Playing[Root],
         pc' = "up" /\ Len(iter'.stack) > 0 => Top(q, iter').rest = q[Len(iter'.stack)].rest
  PROVE  OrderInv'
<1>1. Orderly' /\ Playing' = Playing /\ Follows(q, iter, Bound)'
  BY SameOrder DEF Steady
<1>2. Steady'
  BY <1>1 DEF Steady, Trying, tree
<1>3. Through(q)'
  BY <1>1 DEF Through, Top
<1> QED
  BY <1>2, <1>3 DEF OrderInv

LEMMA IterLoop ==
  ASSUME iter \in IterOf, NEW n \in Nodes, NEW l \in Int
  PROVE  Iter(n, l).loop = l
  BY DEF Iter, IterOf

\* Where a step of the iterator goes.
LEMMA Stepping ==
  ASSUME Orderly, rnd = {}, iter.tree \in Nodes, d \in {0, 1}
  PROVE  /\ Mode = "normal"
         /\ d = 0 => ~ NoTarget /\ Remaining = 0
         /\ \A n : Target(n) /\ d = 0 => n = iter.tree
         /\ d = 1 => Remaining = 1
         /\ \A n : Target(n) /\ d = 1 =>
              /\ parent[iter.tree] # None
              /\ Place + 1 \in DOMAIN kids[parent[iter.tree]] /\ n = kids[parent[iter.tree]][Place + 1]
         /\ NoTarget /\ parent[iter.tree] # None => Place = Len(kids[parent[iter.tree]])
<1>1. Mode = "normal"
  BY DEF Mode
<1>2. PICK s : s = Siblings(iter.tree)
  OBVIOUS
<1>3. s \in Seq(Nodes) /\ Place \in DOMAIN s /\ s[Place] = iter.tree
      /\ (parent[iter.tree] # None => s = kids[parent[iter.tree]])
      /\ (parent[iter.tree] = None => Len(s) = 1)
  <2>1. CASE parent[iter.tree] = None
    <3>1. s = <<iter.tree>>
      BY <1>2, <2>1 DEF Siblings
    <3>2. s \in Seq(Nodes) /\ Len(s) = 1 /\ \E i \in DOMAIN s : s[i] = iter.tree
      BY <3>1
    <3>3. Place \in DOMAIN s /\ s[Place] = iter.tree
      BY <1>2, <3>2 DEF Place, PlaceOf
    <3> QED
      BY <2>1, <3>2, <3>3
  <2>2. CASE parent[iter.tree] # None
    <3>1. PICK t : t = iter.tree
      OBVIOUS
    <3>2. /\ parent[t] \in Nodes /\ PlaceOf(t) \in DOMAIN kids[parent[t]] /\ kids[parent[t]][PlaceOf(t)] = t
          /\ Siblings(t) = kids[parent[t]]
      BY <2>2, <3>1, PlacedIs
    <3>3. kids[parent[t]] \in Seq(Nodes)
      BY <3>2, OrderlyIs
    <3> QED
      BY <1>2, <2>2, <3>1, <3>2, <3>3 DEF Place
  <2> QED
    BY <2>1, <2>2
<1>4. Len(s) \in Nat /\ DOMAIN s = 1 .. Len(s) /\ Place \in Nat /\ 1 <= Place /\ Place <= Len(s)
  <2>1. Len(s) \in Nat /\ DOMAIN s = 1 .. Len(s)
    BY <1>3, LenProperties
  <2> QED
    BY <1>3, <2>1
<1>5. /\ \A n : Target(n) => Place + d \in DOMAIN s /\ n = s[Place + d]
      /\ NoTarget <=> Place + d \notin DOMAIN s
  BY <1>1, <1>2 DEF Target, NoTarget
<1>6. d = 0 => ~ NoTarget /\ Remaining = 0
  <2>1. d = 0 => Place + d \in DOMAIN s
    BY <1>4
  <2> QED
    BY <1>1, <1>5, <2>1 DEF Remaining
<1>7. ASSUME NEW n, Target(n), d = 0 PROVE n = iter.tree
  <2>1. Place + d = Place
    BY <1>4, <1>7
  <2> QED
    BY <1>3, <1>5, <1>7, <2>1
<1>8. ASSUME NoTarget PROVE d = 1 /\ Place = Len(s)
  <2>1. PICK x, m : x = Place /\ m = Len(s)
    OBVIOUS
  <2>2. x + d \notin 1 .. m /\ x \in Nat /\ m \in Nat /\ 1 <= x /\ x <= m
    BY <1>4, <1>5, <1>8, <2>1
  <2>3. d # 0
    BY <2>2
  <2>4. d = 1
    BY <2>3
  <2> QED
    BY <2>1, <2>2, <2>4
<1>9. ASSUME d = 1 PROVE Remaining = 1
  <2> DEFINE left == d - (Len(Siblings(iter.tree)) - Place + 1)
  <2>1. NoTarget => left = 0
    BY <1>2, <1>4, <1>8, <1>9
  <2>2. d > 0 /\ d # 0
    BY <1>9
  <2>3. Remaining = IF NoTarget /\ left # 0 THEN left ELSE 1
    <3>1. Mode # "rnd"
      BY <1>1
    <3> QED
      BY <2>2, <3>1 DEF Remaining
  <2> QED
    BY <2>1, <2>3
<1>10. ASSUME NEW n, Target(n), d = 1
       PROVE  /\ parent[iter.tree] # None
              /\ Place + 1 \in DOMAIN kids[parent[iter.tree]] /\ n = kids[parent[iter.tree]][Place + 1]
  <2>1. Place + 1 \in DOMAIN s /\ n = s[Place + 1]
    BY <1>5, <1>10
  <2>2. Len(s) # 1
    BY <1>4, <2>1
  <2> QED
    BY <1>3, <2>1, <2>2
<1> QED
  BY <1>1, <1>3, <1>6, <1>7, <1>8, <1>9, <1>10

LEMMA OrderParts ==
  ASSUME OrderInv, Standing
  PROVE  /\ Steady /\ Forward /\ Orderly /\ loops \in [Nodes -> Int] /\ plays \in Seq(Nodes)
         /\ iter \in IterOf /\ ~ Trying /\ iter.tree \in Nodes /\ iter.stack \in Seq(Int) /\ iter.loop \in Int
         /\ Playing[Root] \in Seq(Nodes) /\ Playing[iter.tree] \in Seq(Nodes)
         /\ Len(iter.stack) \in Nat /\ (parent[iter.tree] = None <=> Len(iter.stack) = 0)
         /\ Valid[iter.tree] /\ \E p : Through(p)
<1>1. Steady /\ Forward /\ Orderly /\ loops \in [Nodes -> Int] /\ plays \in Seq(Nodes) /\ iter \in IterOf /\ ~ Trying
  BY DEF OrderInv, Steady
<1>2. iter.stack \in Seq(Int) /\ iter.loop \in Int /\ Len(iter.stack) \in Nat
  BY <1>1, LenProperties DEF IterOf
<1>3. PICK p : Through(p)
  BY DEF OrderInv
<1>4. Bound \in Int /\ Follows(p, iter, Bound)
  BY <1>1, <1>3, BoundIs DEF Through
<1>5. PICK it : it = iter
  OBVIOUS
<1>6. /\ it.tree \in Nodes /\ (Len(it.stack) = 0 => it.tree = Root)
      /\ (Len(it.stack) > 0 => parent[it.tree] = p[Len(it.stack)].node /\ p[Len(it.stack)].node \in Nodes)
  BY <1>2, <1>4, <1>5, FollowsIs
<1>7. parent[iter.tree] = None <=> Len(iter.stack) = 0
  <2>1. parent[Root] = None /\ None \notin Nodes
    BY <1>1, OrderlyIs, NodesAre
  <2> QED
    BY <1>2, <1>5, <1>6, <2>1
<1>8. Playing[Root] \in Seq(Nodes) /\ Playing[iter.tree] \in Seq(Nodes)
  BY <1>1, <1>5, <1>6, OrderlyIs, PlayingTypes, NodesAre
<1>9. Valid[iter.tree]
  <2>1. CASE parent[it.tree] = None
    BY <1>5, <1>6, <1>7, <2>1, <1>1, <1>2 DEF Orderly
  <2>2. CASE parent[it.tree] # None
    BY <1>1, <1>5, <1>6, <2>2, PlacedIs
  <2> QED
    BY <2>1, <2>2
<1> QED
  BY <1>1, <1>2, <1>3, <1>5, <1>6, <1>7, <1>8, <1>9

\* The level of the child behind that of b.
LEMMA LevelNext ==
  ASSUME Orderly, loops \in [Nodes -> Int], NEW a \in LevelSet, NEW b \in LevelSet, Continues(a, b),
         NEW i \in DOMAIN kids[a.node], NEW k \in Int, k = i - 1, PlaceOf(b.node) = k
  PROVE  \E c \in LevelSet : /\ Continues(a, c) /\ c.node = kids[a.node][i] /\ c.cnt = b.cnt /\ c.left = b.left
                             /\ b.rest = Playing[kids[a.node][i]] \o c.rest
<1>1. PICK x, y : x = b.cnt /\ y = b.left
  OBVIOUS
<1>2. x \in Int /\ y \in Nat
  BY <1>1 DEF LevelSet
<1>3. Counts(loops[a.node], x, y) /\ b.rest = Rest(a, k, y)
  BY <1>1 DEF Continues
<1>4. PICK c : c = LevelAt(a, i, x, y)
  OBVIOUS
<1>5. c \in LevelSet
  BY <1>2, <1>3, <1>4, LevelAtIs
<1>6. Continues(a, c)
  BY <1>2, <1>3, <1>4, LevelAtIs
<1>7. c.node = kids[a.node][i] /\ c.cnt = x /\ c.left = y /\ c.rest = Rest(a, i, y)
  BY <1>4 DEF LevelAt
<1>8. Rest(a, i - 1, y) = Playing[kids[a.node][i]] \o Rest(a, i, y)
  BY <1>2, RestStep
<1>9. Rest(a, k, y) = Rest(a, i - 1, y)
  OBVIOUS
<1> QED
  BY <1>1, <1>3, <1>5, <1>6, <1>7, <1>8, <1>9

\* n is the child behind t.
Plays(b, n, c) == b.rest = Playing[n] \o c.rest
Behind(t, n) == \E k \in Int : \E i \in DOMAIN kids[parent[t]] : k = i - 1 /\ PlaceOf(t) = k /\ n = kids[parent[t]][i]
ComesAfter(it, n) == Behind(it.tree, n)
Turns(it, g, l, c) ==
    /\ g \in Nodes /\ g = parent[it.tree] /\ kids[g] # <<>> /\ PlaceOf(it.tree) = Len(kids[g])
    /\ l \in Nat /\ l > 0 /\ c \in Int /\ c = (IF it.loop > 0 THEN it.loop - 1 ELSE it.loop)
GoesOn(to, it, n)      == Goes(to, it, n, it.loop)
GoesBack(to, it, g, c) == Goes(to, it, Head(kids[g]), c)

\* The iterator goes on to the next child: it is played, and then what comes behind it.
LEMMA FollowsOn ==
  ASSUME Orderly, loops \in [Nodes -> Int],
         NEW p, NEW it, NEW v, NEW w, NEW n, NEW to, Within(it), Less(v, w), Follows(p, it, w),
         ComesAfter(it, n), GoesOn(to, it, n)
  PROVE  \E q : Follows(q, to, v) /\ Plays(Top(p, it), n, Top(q, to))
<1>0. PICK k \in Int, i \in DOMAIN kids[parent[it.tree]] : k = i - 1 /\ PlaceOf(it.tree) = k /\ n = kids[parent[it.tree]][i]
  BY DEF Behind, ComesAfter
<1>1. PICK a, b : a = p[Len(it.stack)] /\ b = Top(p, it)
  OBVIOUS
<1>2. /\ a \in LevelSet /\ b \in LevelSet /\ Continues(a, b) /\ b.node = it.tree /\ b.cnt = it.loop
      /\ parent[it.tree] = a.node /\ Enough(loops[a.node], b.left, w)
  BY <1>1, FollowsIs DEF Within, Less
<1>3. i \in DOMAIN kids[a.node] /\ PlaceOf(b.node) = k /\ k = i - 1
  BY <1>0, <1>2
<1>4. PICK c \in LevelSet : /\ Continues(a, c) /\ c.node = kids[a.node][i] /\ c.cnt = b.cnt /\ c.left = b.left
                           /\ b.rest = Playing[kids[a.node][i]] \o c.rest
  BY <1>2, <1>3, LevelNext
<1>5. Enough(loops[a.node], c.left, v)
  <2>1. PICK x, y : x = b.left /\ y = loops[a.node]
    OBVIOUS
  <2>2. x \in Nat /\ Enough(y, x, w)
    BY <1>2, <2>1 DEF LevelSet
  <2>3. Enough(y, x, v)
    BY <2>2 DEF Enough, Less
  <2> QED
    BY <1>4, <2>1, <2>3
<1>6. n = kids[a.node][i] /\ n = c.node /\ it.loop = c.cnt
  BY <1>0, <1>2, <1>4
<1>7. Continues(p[Len(it.stack)], c) /\ Enough(loops[p[Len(it.stack)].node], c.left, v)
  BY <1>1, <1>4, <1>5, <1>6
<1>8. Beside(p, it, c, v) /\ Reaches(to, it, c)
  BY <1>6, <1>7 DEF Beside, Reaches, GoesOn
<1>9. PICK q : Follows(q, to, v) /\ Top(q, to) = c
  BY <1>8, NextLevel
<1>10. Plays(Top(p, it), n, c)
  BY <1>1, <1>4, <1>6 DEF Plays
<1> QED
  BY <1>9, <1>10

\* The iterator goes back to the first child: the group is played once more, all of it.
LEMMA FollowsLoop ==
  ASSUME Orderly, loops \in [Nodes -> Int],
         NEW p, NEW it, NEW v, NEW w, NEW g, NEW l, NEW c, NEW to, Within(it), Less(v + 1, w), v \in Int, Follows(p, it, w),
         Turns(it, g, l, c), Top(p, it).left = l, GoesBack(to, it, g, c)
  PROVE  \E q : Follows(q, to, v) /\ Plays(Top(p, it), Head(kids[g]), Top(q, to))
<1>0. /\ g \in Nodes /\ g = parent[it.tree] /\ kids[g] # <<>> /\ PlaceOf(it.tree) = Len(kids[g])
      /\ l \in Nat /\ l > 0 /\ c \in Int /\ c = (IF it.loop > 0 THEN it.loop - 1 ELSE it.loop)
  BY DEF Turns
<1>1. PICK a, b : a = p[Len(it.stack)] /\ b = Top(p, it)
  OBVIOUS
<1>2. /\ a \in LevelSet /\ b \in LevelSet /\ Continues(a, b) /\ b.node = it.tree /\ b.cnt = it.loop
      /\ g = a.node /\ Enough(loops[a.node], b.left, w)
  BY <1>0, <1>1, FollowsIs DEF Within, Less
<1>3. b.rest = Rest(a, Len(kids[g]), l) /\ Counts(loops[g], b.cnt, l) /\ loops[g] \in Int /\ b.cnt \in Int
  BY <1>0, <1>1, <1>2 DEF Continues, LevelSet
<1>4. PICK k : k = l - 1
  OBVIOUS
<1>5. k \in Nat
  BY <1>0, <1>4
<1>6. Counts(loops[g], c, k) /\ Enough(loops[g], k, v)
  <2>1. PICK x, y : x = b.cnt /\ y = loops[g]
    OBVIOUS
  <2>2. /\ x \in Int /\ y \in Int /\ Counts(y, x, l) /\ Enough(y, l, w)
        /\ c = (IF x > 0 THEN x - 1 ELSE x)
    BY <1>0, <1>1, <1>2, <1>3, <2>1
  <2>3. Counts(y, c, k)
    BY <1>0, <1>4, <2>2 DEF Counts
  <2>4. Enough(y, k, v)
    BY <1>0, <1>4, <2>2 DEF Enough, Less
  <2> QED
    BY <2>1, <2>3, <2>4
<1>7. 1 \in DOMAIN kids[a.node] /\ Head(kids[g]) = kids[a.node][1] /\ Counts(loops[a.node], c, k)
  BY <1>0, <1>2, <1>6, OrderlyIs
<1>8. PICK n : n = LevelAt(a, 1, c, k)
  OBVIOUS
<1>9. n \in LevelSet
  BY <1>0, <1>2, <1>5, <1>7, <1>8, LevelAtIs
<1>10. Continues(a, n)
  BY <1>0, <1>2, <1>5, <1>7, <1>8, LevelAtIs
<1>11. n.node = Head(kids[g]) /\ n.cnt = c /\ n.left = k /\ n.rest = Rest(a, 1, k)
  BY <1>7, <1>8 DEF LevelAt
<1>12. b.rest = Rest(a, 0, k)
  <2>1. Rest(a, Len(kids[a.node]), l) = Rest(a, 0, l - 1)
    BY <1>0, <1>2, RestLast
  <2> QED
    BY <1>2, <1>3, <1>4, <2>1
<1>13. Rest(a, 0, k) = Playing[Head(kids[g])] \o Rest(a, 1, k)
  <2>1. Rest(a, 1 - 1, k) = Playing[kids[a.node][1]] \o Rest(a, 1, k)
    BY <1>2, <1>5, <1>7, RestStep
  <2>2. 1 - 1 = 0
    OBVIOUS
  <2> QED
    BY <1>7, <2>1, <2>2
<1>14. Continues(p[Len(it.stack)], n) /\ Enough(loops[p[Len(it.stack)].node], n.left, v)
  BY <1>1, <1>2, <1>6, <1>10, <1>11
<1>15. Less(v, w)
  BY DEF Less
<1>16. Beside(p, it, n, v) /\ Reaches(to, it, n)
  BY <1>9, <1>11, <1>14 DEF Beside, Reaches, GoesBack
<1>17. PICK q : Follows(q, to, v) /\ Top(q, to) = n
  BY <1>15, <1>16, NextLevel
<1>18. Plays(Top(p, it), Head(kids[g]), n)
  BY <1>1, <1>11, <1>12, <1>13 DEF Plays
<1> QED
  BY <1>17, <1>18

\* Whether a loop goes back says whether passes are left.
LEMMA LoopEnds ==
  ASSUME NEW total \in Int, NEW cnt \in Int, NEW left \in Nat, NEW w \in Int, w > 0,
         Counts(total, cnt, left), Enough(total, left, w)
  PROVE  total # 0 /\ cnt # 0 <=> left > 0
  BY DEF Counts, Enough

\* Behind the last child of a group.
LEMMA FollowsEnd ==
  ASSUME Orderly, loops \in [Nodes -> Int],
         NEW p, NEW it, it.stack \in Seq(Int), Len(it.stack) > 0, NEW w \in Int, w > 0, Follows(p, it, w),
         NEW g \in Nodes, g = parent[it.tree], PlaceOf(it.tree) = Len(kids[g])
  PROVE  /\ Top(p, it).left \in Nat
         /\ loops[g] # 0 /\ it.loop # 0 <=> Top(p, it).left > 0
         /\ Top(p, it).left = 0 => Top(p, it).rest = p[Len(it.stack)].rest
<1>1. PICK a, b : a = p[Len(it.stack)] /\ b = Top(p, it)
  OBVIOUS
<1>2. /\ a \in LevelSet /\ b \in LevelSet /\ Continues(a, b) /\ b.node = it.tree /\ b.cnt = it.loop
      /\ g = a.node /\ Enough(loops[a.node], b.left, w)
  BY <1>1, FollowsIs
<1>3. PICK l, c, t : l = b.left /\ c = b.cnt /\ t = loops[g]
  OBVIOUS
<1>4. l \in Nat /\ c \in Int /\ t \in Int
  BY <1>2, <1>3 DEF LevelSet
<1>5. Counts(t, c, l) /\ Enough(t, l, w) /\ b.rest = Rest(a, Len(kids[g]), l)
  BY <1>2, <1>3 DEF Continues
<1>6. t # 0 /\ c # 0 <=> l > 0
  BY <1>4, <1>5, LoopEnds
<1>7. l = 0 => Rest(a, Len(kids[a.node]), l) = a.rest
  BY <1>2, <1>4, RestLast
<1> QED
  BY <1>1, <1>2, <1>3, <1>4, <1>5, <1>6, <1>7

LEMMA StepParts ==
  ASSUME OrderInv, pc = "step"
  PROVE  /\ Standing /\ Steady /\ Forward /\ Orderly /\ loops \in [Nodes -> Int] /\ plays \in Seq(Nodes)
         /\ iter \in IterOf /\ iter.tree \in Nodes /\ iter.stack \in Seq(Int) /\ iter.loop \in Int
         /\ Valid[iter.tree] /\ Len(iter.stack) \in Nat /\ (parent[iter.tree] = None <=> Len(iter.stack) = 0)
         /\ d \in {0, 1} /\ (d = 1 => Len(plays) < MaxPlays) /\ then \in {"start", "next"} /\ ~ Trying
         /\ \E p : Through(p)
<1>1. Standing
  BY DEF Standing
<1>2. Forward
  BY <1>1, OrderParts
<1> QED
  BY <1>1, <1>2, OrderParts DEF Forward

LEMMA ThroughIs ==
  ASSUME plays \in Seq(Nodes), NEW p, Through(p)
  PROVE  /\ Follows(p, iter, Bound) /\ Bound \in Int /\ MaxPlays - Len(plays) - 1 \in Int
         /\ MaxPlays - Len(plays) - 1 <= Bound
         /\ After => MaxPlays - Len(plays) - 1 < Bound /\ Bound = MaxPlays - Len(plays)
         /\ ~ After => Bound = MaxPlays - Len(plays) - 1
<1>1. Follows(p, iter, Bound)
  BY DEF Through
<1>2. PICK n, w : n = Len(plays) /\ w = Bound
  OBVIOUS
<1>3. /\ n \in Nat /\ MaxPlays \in Nat /\ w \in Int
      /\ After => w = MaxPlays - n
      /\ ~ After => w = MaxPlays - n - 1
  BY <1>2, BoundIs
<1>4. /\ MaxPlays - n - 1 \in Int /\ MaxPlays - n - 1 <= w
      /\ After => MaxPlays - n - 1 < w
  BY <1>3
<1> QED
  BY <1>1, <1>2, <1>3, <1>4

\* The node a step goes to: it is played, and then what comes behind it.
LEMMA StepTo ==
  ASSUME OrderInv, rnd = {}, pc = "step", NEW n, Target(n)
  PROVE  /\ n \in Nodes /\ Valid[n]
         /\ \E q : /\ Follows(q, Iter(n, iter.loop), MaxPlays - Len(plays) - 1)
                   /\ plays \o (Playing[n] \o Top(q, Iter(n, iter.loop)).rest) = Playing[Root]
<1>1. /\ Steady /\ Orderly /\ loops \in [Nodes -> Int] /\ plays \in Seq(Nodes)
      /\ iter \in IterOf /\ iter.tree \in Nodes /\ iter.stack \in Seq(Int) /\ iter.loop \in Int
      /\ Valid[iter.tree] /\ Len(iter.stack) \in Nat /\ (parent[iter.tree] = None <=> Len(iter.stack) = 0)
      /\ d \in {0, 1}
  BY StepParts
<1>2. PICK p : Through(p)
  BY StepParts
<1>3. PICK v, w, it : v = MaxPlays - Len(plays) - 1 /\ w = Bound /\ it = iter
  OBVIOUS
<1>4. Follows(p, it, w) /\ w \in Int /\ v \in Int /\ v <= w
  BY <1>1, <1>2, <1>3, ThroughIs
<1>5. plays \o (Coming \o Top(p, it).rest) = Playing[Root]
  BY <1>2, <1>3 DEF Through
<1>6. PICK to : to = Iter(n, iter.loop)
  OBVIOUS
<1>7. n \in Nodes => to.stack = it.stack /\ to.tree = n /\ to.loop = it.loop
  BY <1>1, <1>3, <1>6, IterIs, IterLoop
<1>8. CASE d = 0
  <2>1. n = it.tree
    BY <1>1, <1>3, <1>8, Stepping
  <2>2. to.stack = it.stack /\ to.tree = it.tree /\ to.loop = it.loop /\ it.stack \in Seq(Int)
    BY <1>1, <1>3, <1>7, <2>1
  <2>3. Follows(p, to, v) /\ Top(p, to) = Top(p, it)
    BY <1>4, <2>2, FollowsSame
  <2>4. Coming = Playing[n]
    BY <1>3, <1>8, <2>1 DEF Coming, After
  <2> QED
    BY <1>1, <1>3, <1>5, <1>6, <2>1, <2>3, <2>4
<1>9. CASE d = 1
  <2>1. PICK g, i, k : g = parent[it.tree] /\ i = Place + 1 /\ k = PlaceOf(it.tree)
    OBVIOUS
  <2>2. g # None /\ i \in DOMAIN kids[g] /\ n = kids[g][i]
    BY <1>1, <1>3, <1>9, <2>1, Stepping
  <2>3. g \in Nodes /\ k \in DOMAIN kids[g]
    BY <1>1, <1>3, <2>1, <2>2, PlacedIs
  <2>4. k \in Int /\ DOMAIN kids[g] = 1 .. Len(kids[g]) /\ Len(kids[g]) \in Nat
    BY <1>1, <2>3, OrderlyIs
  <2>5. ComesAfter(it, n)
    <3>1. k = i - 1
      BY <1>3, <2>1, <2>4 DEF Place
    <3> QED
      BY <2>1, <2>2, <2>4, <3>1 DEF Behind, ComesAfter
  <2>6. n \in Nodes /\ Valid[n]
    BY <1>1, <2>2, <2>3, ChildIs
  <2>7. Len(it.stack) > 0 /\ it.stack \in Seq(Int)
    BY <1>1, <1>3, <2>1, <2>2
  <2>8. to.stack = it.stack /\ to.tree = n /\ to.loop = it.loop
    BY <1>7, <2>6
  <2>9. PICK q : Follows(q, to, v) /\ Plays(Top(p, it), n, Top(q, to))
    <3>1. Within(it) /\ Less(v, w) /\ GoesOn(to, it, n)
      BY <1>4, <2>7, <2>8 DEF Within, Less, Goes, GoesOn
    <3> QED
      BY <1>1, <1>4, <2>5, <3>1, FollowsOn
  <2>10. Coming \o Top(p, it).rest = Playing[n] \o Top(q, to).rest
    <3>1. Coming = <<>> /\ Top(p, it).rest \in Seq(Nodes)
      BY <1>4, <1>9, <2>7, FollowsIs DEF Coming, After
    <3>2. <<>> \o Top(p, it).rest = Top(p, it).rest
      BY <3>1, ConcatEmptySeq
    <3> QED
      BY <2>9, <3>1, <3>2 DEF Plays
  <2> QED
    BY <1>3, <1>5, <1>6, <2>6, <2>9, <2>10
<1> QED
  BY <1>1, <1>8, <1>9

\* The end of a group.
LEMMA StepPast ==
  ASSUME OrderInv, rnd = {}, pc = "step", NoTarget
  PROVE  /\ d = 1 /\ Remaining = 1 /\ Len(plays) < MaxPlays
         /\ parent[iter.tree] # None =>
              /\ parent[iter.tree] \in Nodes /\ PlaceOf(iter.tree) = Len(kids[parent[iter.tree]])
              /\ kids[parent[iter.tree]] # <<>> /\ Siblings(iter.tree) = kids[parent[iter.tree]]
              /\ \A p : Through(p) => 
                   /\ Top(p, iter).left \in Nat /\ Bound > 0
                   /\ LoopsBack(iter.loop, Remaining) <=> Top(p, iter).left > 0
                   /\ Top(p, iter).left = 0 => Top(p, iter).rest = p[Len(iter.stack)].rest
<1>1. /\ Steady /\ Orderly /\ loops \in [Nodes -> Int] /\ plays \in Seq(Nodes)
      /\ iter \in IterOf /\ iter.tree \in Nodes /\ iter.stack \in Seq(Int) /\ iter.loop \in Int
      /\ Len(iter.stack) \in Nat /\ (parent[iter.tree] = None <=> Len(iter.stack) = 0)
      /\ d \in {0, 1} /\ (d = 1 => Len(plays) < MaxPlays)
  BY StepParts
<1>2. d = 1 /\ Remaining = 1
  BY <1>1, Stepping
<1>3. ASSUME parent[iter.tree] # None
      PROVE  /\ parent[iter.tree] \in Nodes /\ PlaceOf(iter.tree) = Len(kids[parent[iter.tree]])
             /\ kids[parent[iter.tree]] # <<>> /\ Siblings(iter.tree) = kids[parent[iter.tree]]
  <2>1. PICK t : t = iter.tree
    OBVIOUS
  <2>2. /\ parent[t] \in Nodes /\ PlaceOf(t) \in DOMAIN kids[parent[t]] /\ Siblings(t) = kids[parent[t]]
    BY <1>1, <1>3, <2>1, PlacedIs
  <2>3. Place = Len(kids[parent[iter.tree]])
    BY <1>1, <1>3, Stepping
  <2>4. kids[parent[t]] # <<>>
    BY <2>2
  <2> QED
    BY <2>1, <2>2, <2>3, <2>4 DEF Place
<1>4. ASSUME parent[iter.tree] # None, NEW p, Through(p)
      PROVE  /\ Top(p, iter).left \in Nat /\ Bound > 0
             /\ LoopsBack(iter.loop, Remaining) <=> Top(p, iter).left > 0
             /\ Top(p, iter).left = 0 => Top(p, iter).rest = p[Len(iter.stack)].rest
  <2>1. PICK w, it, g : w = Bound /\ it = iter /\ g = parent[iter.tree]
    OBVIOUS
  <2>2. Follows(p, it, w) /\ w \in Int /\ w > 0
    <3>1. After
      BY <1>2 DEF After
    <3>2. Follows(p, it, w) /\ w \in Int /\ w = MaxPlays - Len(plays)
      BY <1>1, <1>4, <2>1, <3>1, ThroughIs
    <3>3. Len(plays) \in Nat /\ MaxPlays \in Nat
      BY <1>1, BoundIs
    <3> QED
      BY <1>1, <1>2, <3>2, <3>3
  <2>3. /\ Len(it.stack) > 0 /\ it.stack \in Seq(Int) /\ g \in Nodes /\ g = parent[it.tree]
        /\ PlaceOf(it.tree) = Len(kids[g])
    BY <1>1, <1>3, <1>4, <2>1
  <2>4. /\ Top(p, it).left \in Nat
        /\ loops[g] # 0 /\ it.loop # 0 <=> Top(p, it).left > 0
        /\ Top(p, it).left = 0 => Top(p, it).rest = p[Len(it.stack)].rest
    <3> HIDE <2>1
    <3> QED
      BY <1>1, <2>2, <2>3, FollowsEnd
  <2>5. LoopsBack(iter.loop, Remaining) <=> loops[g] # 0 /\ it.loop # 0
    BY <1>2, <1>4, <2>1 DEF LoopsBack
  <2> QED
    BY <2>1, <2>2, <2>4, <2>5
<1> QED
  BY <1>1, <1>2, <1>3, <1>4

Deep(it)         == it.stack \in Seq(Int) /\ it.loop \in Int /\ kids[it.tree] # <<>>
GoesDown(to, it) == /\ to.stack = Append(it.stack, it.loop) /\ to.tree = Head(kids[it.tree])
                    /\ to.loop = loops[it.tree] - 1
GoesUp(to, it)   == to.stack = Front(it.stack) /\ to.tree = parent[it.tree] /\ to.loop = Last(it.stack)
PlaysIn(it, a, b) == Playing[it.tree] \o a.rest = Playing[Head(kids[it.tree])] \o b.rest
GoesNowhere(to, it) == to.stack = it.stack /\ to.tree = it.tree /\ to.loop = it.loop

\* What a group plays is what is played from its first child on.
LEMMA RestFirst ==
  ASSUME Orderly, loops \in [Nodes -> Int], NEW a \in LevelSet, kids[a.node] # <<>>,
         NEW k \in Nat, Times(a.node) = k + 1
  PROVE  Playing[a.node] \o a.rest = Playing[Head(kids[a.node])] \o Rest(a, 1, k)
<1>1. PICK n : n = a.node
  OBVIOUS
<1>2. n \in Nodes /\ a.rest \in Seq(Nodes)
  BY <1>1 DEF LevelSet
<1>3. Descends /\ 1 \in DOMAIN kids[n] /\ Head(kids[n]) = kids[n][1]
  BY <1>1, <1>2, OrderlyIs
<1>4. Playing[n] = Repeated(Body(n), k + 1)
  BY <1>1, <1>2, <1>3, PlayingDef DEF PlayedBy, Body
<1>5. Body(n) \in Seq(Nodes) /\ Later(n, 0) = Body(n)
  BY <1>2, <1>3, LaterIs
<1>6. PICK b, r, z : b = Body(n) /\ r = Repeated(b, k) /\ z = a.rest
  OBVIOUS
<1>7. b \in Seq(Nodes) /\ r \in Seq(Nodes) /\ z \in Seq(Nodes) /\ Repeated(b, k + 1) = b \o r
  <2>1. PICK j : j = k + 1
    OBVIOUS
  <2>2. j \in Nat /\ j > 0 /\ j - 1 = k /\ b \in Seq(Nodes)
    BY <1>5, <1>6, <2>1
  <2>3. Repeated(b, j) = b \o Repeated(b, j - 1)
    BY <2>2, RepeatedIs
  <2>4. Repeated(b, k) \in Seq(Nodes)
    BY <2>2, RepeatedIs
  <2> QED
    BY <1>2, <1>6, <2>1, <2>2, <2>3, <2>4
<1>8. (b \o r) \o z = b \o (r \o z)
  BY <1>7, Assoc
<1>9. Rest(a, 0, k) = b \o (r \o z)
  BY <1>1, <1>5, <1>6 DEF Rest
<1>10. Rest(a, 0, k) = Playing[kids[a.node][1]] \o Rest(a, 1, k)
  <2>1. Rest(a, 1 - 1, k) = Playing[kids[a.node][1]] \o Rest(a, 1, k)
    BY <1>1, <1>3, RestStep
  <2>2. 1 - 1 = 0
    OBVIOUS
  <2> QED
    BY <2>1, <2>2
<1> QED
  BY <1>1, <1>3, <1>4, <1>6, <1>7, <1>8, <1>9, <1>10

\* The iterator goes down: the first child is played, and then what is left of the group.
LEMMA FollowsIn ==
  ASSUME Orderly, loops \in [Nodes -> Int],
         NEW p, NEW it, NEW w, NEW to, Deep(it), Less(w + 1, MaxPlays), w \in Int, Follows(p, it, w), GoesDown(to, it)
  PROVE  \E q : Follows(q, to, w) /\ PlaysIn(it, Top(p, it), Top(q, to))
<1>1. PICK a, n : a = Top(p, it) /\ n = it.tree
  OBVIOUS
<1>2. a \in LevelSet /\ a.node = n /\ n \in Nodes /\ kids[n] # <<>> /\ loops[n] \in Int
  BY <1>1, FollowsIs DEF Deep
<1>3. PICK k, c : k = Times(n) - 1 /\ c = loops[n] - 1
  OBVIOUS
<1>4. /\ k \in Nat /\ Times(n) = k + 1 /\ c \in Int /\ Counts(loops[n], c, k) /\ Enough(loops[n], k, w)
  <2>1. PICK y, t : y = loops[n] /\ t = Times(n)
    OBVIOUS
  <2>2. y \in Int /\ t = (IF y < 0 THEN MaxPlays ELSE IF y = 0 THEN 1 ELSE y) /\ k = t - 1 /\ c = y - 1
    BY <1>2, <1>3, <2>1 DEF Times
  <2>3. MaxPlays \in Nat /\ MaxPlays > 0 /\ w + 1 <= MaxPlays
    BY TreeAssumption DEF Less
  <2>4. k \in Nat /\ t = k + 1 /\ c \in Int
    BY <2>2, <2>3
  <2>5. Counts(y, c, k)
    BY <2>2, <2>3 DEF Counts
  <2>6. Enough(y, k, w)
    BY <2>2, <2>3 DEF Enough
  <2> QED
    BY <2>1, <2>4, <2>5, <2>6
<1>5. 1 \in DOMAIN kids[a.node] /\ Head(kids[n]) = kids[a.node][1] /\ Counts(loops[a.node], c, k)
  BY <1>2, <1>4, OrderlyIs
<1>6. PICK b : b = LevelAt(a, 1, c, k)
  OBVIOUS
<1>7. b \in LevelSet
  BY <1>2, <1>4, <1>5, <1>6, LevelAtIs
<1>8. Continues(a, b)
  BY <1>2, <1>4, <1>5, <1>6, LevelAtIs
<1>9. b.node = Head(kids[n]) /\ b.cnt = c /\ b.left = k /\ b.rest = Rest(a, 1, k)
  BY <1>5, <1>6 DEF LevelAt
<1>10. PICK q : Follows(q, to, w) /\ Top(q, to) = b
  <2>1. Continues(Top(p, it), b) /\ Enough(loops[it.tree], b.left, w)
    BY <1>1, <1>4, <1>8, <1>9
  <2>2. it.stack \in Seq(Int) /\ it.loop \in Int /\ to.stack = Append(it.stack, it.loop)
    BY DEF Deep, GoesDown
  <2>3. to.tree = b.node /\ to.loop = b.cnt
    BY <1>1, <1>3, <1>9 DEF GoesDown
  <2> QED
    BY <1>7, <2>1, <2>2, <2>3, FollowsDown
<1>11. Playing[n] \o a.rest = Playing[Head(kids[n])] \o Rest(a, 1, k)
  BY <1>2, <1>4, RestFirst
<1>12. PlaysIn(it, Top(p, it), Top(q, to))
  BY <1>1, <1>9, <1>10, <1>11 DEF PlaysIn
<1> QED
  BY <1>10, <1>12

LEMMA FollowsOut ==
  ASSUME NEW p, NEW it, NEW w, NEW to, Within(it), w \in Int, Follows(p, it, w), GoesUp(to, it)
  PROVE  Follows(p, to, w) /\ Top(p, to) = p[Len(it.stack)]
<1>1. it.stack \in Seq(Int) /\ Len(it.stack) > 0
  BY DEF Within
<1>2. to.stack = Front(it.stack) /\ to.tree = parent[it.tree] /\ to.loop = Last(it.stack)
  BY DEF GoesUp
<1> QED
  BY <1>1, <1>2, FollowsUp

LEMMA FollowsStill ==
  ASSUME NEW p, NEW it, NEW v, NEW w, NEW to, it.stack \in Seq(Int), Less(v, w), Follows(p, it, w), GoesNowhere(to, it)
  PROVE  Follows(p, to, v) /\ Top(p, to) = Top(p, it)
  BY FollowsSame DEF Less, GoesNowhere

\* The iterator comes to a node, and has not played it yet.
LEMMA ComesTo ==
  ASSUME Steady, UNCHANGED <<tree, saved, plays>>, iter' \in IterOf, Forward', ~ After',
         ~ (pc' = "returned" /\ res' = "END"), pc' # "up",
         NEW q, Follows(q, iter', MaxPlays - Len(plays) - 1),
         plays \o (Playing[iter'.tree] \o Top(q, iter').rest) = Playing[Root]
  PROVE  OrderInv'
<1>1. Playing' = Playing
  BY SameOrder DEF Steady
<1>2. Coming' = Playing[iter'.tree]
  BY <1>1 DEF Coming
<1>3. Bound' = MaxPlays - Len(plays) - 1
  BY DEF Bound
<1>4. plays' \in Seq(Nodes) /\ plays' = plays
  BY DEF Steady
<1>5. Follows(q, iter', Bound')
  BY <1>3
<1>6. plays' \o (Coming' \o Top(q, iter').rest) = Playing[Root]
  BY <1>2, <1>4
<1> QED
  BY <1>4, <1>5, <1>6, Arrived

\* The iterator leaves a node.
LEMMA GoesAway ==
  ASSUME Steady, UNCHANGED <<tree, saved>>, plays' \in Seq(Nodes), iter' \in IterOf, Forward', After',
         NEW q, Follows(q, iter', MaxPlays - Len(plays')), Top(q, iter').rest \in Seq(Nodes),
         plays' \o Top(q, iter').rest = Playing[Root],
         pc' = "up" /\ Len(iter'.stack) > 0 => Top(q, iter').rest = q[Len(iter'.stack)].rest
  PROVE  OrderInv'
<1>1. Coming' = <<>>
  BY DEF Coming
<1>2. Bound' = MaxPlays - Len(plays') - 0
  BY DEF Bound
<1>3. Bound' = MaxPlays - Len(plays')
  <2>1. Len(plays') \in Nat /\ MaxPlays \in Nat
    BY LenProperties, TreeAssumption
  <2> QED
    BY <1>2, <2>1
<1>4. Coming' \o Top(q, iter').rest = Top(q, iter').rest
  BY <1>1, ConcatEmptySeq
<1>5. plays' \o (Coming' \o Top(q, iter').rest) = Playing[Root]
  BY <1>4
<1>6. Follows(q, iter', Bound')
  BY <1>3
<1> QED
  BY <1>5, <1>6, Arrived

LEMMA StepLoopOrder ==
  ASSUME OrderInv, rnd = {}, StepLoop
  PROVE  OrderInv'
<1>1. /\ pc = "step" /\ NoTarget /\ LoopsBack(iter.loop, Remaining)
      /\ pc' = "step" /\ d' = 0 /\ then' = then /\ UNCHANGED <<tree, saved, plays>>
      /\ iter' = IF Remaining > 0
                 THEN Iter(Head(Siblings(iter.tree)), IF iter.loop > 0 THEN iter.loop - 1 ELSE iter.loop)
                 ELSE Iter(Last(Siblings(iter.tree)), IF iter.loop >= 0 THEN iter.loop + 1 ELSE iter.loop)
  BY DEF StepLoop, Step, Call, history
<1>2. /\ Steady /\ Orderly /\ loops \in [Nodes -> Int] /\ plays \in Seq(Nodes)
      /\ iter \in IterOf /\ iter.tree \in Nodes /\ iter.stack \in Seq(Int) /\ iter.loop \in Int
      /\ (parent[iter.tree] = None <=> Len(iter.stack) = 0) /\ Len(iter.stack) \in Nat
      /\ then \in {"start", "next"}
  BY <1>1, StepParts
<1>3. PICK p : Through(p)
  BY <1>1, StepParts
<1>4. parent[iter.tree] # None
  BY <1>1 DEF LoopsBack
<1>5. PICK g : g = parent[iter.tree]
  OBVIOUS
<1>6. /\ d = 1 /\ Remaining = 1 /\ g \in Nodes /\ PlaceOf(iter.tree) = Len(kids[g])
      /\ kids[g] # <<>> /\ Siblings(iter.tree) = kids[g]
  BY <1>1, <1>4, <1>5, StepPast
<1>7. Top(p, iter).left \in Nat /\ Bound > 0 /\ Top(p, iter).left > 0
  BY <1>1, <1>3, <1>4, StepPast
<1>8. PICK c : c = IF iter.loop > 0 THEN iter.loop - 1 ELSE iter.loop
  OBVIOUS
<1>9. c \in Int /\ iter' = Iter(Head(kids[g]), c)
  BY <1>1, <1>2, <1>6, <1>8
<1>10. Head(kids[g]) \in Nodes
  BY <1>2, <1>6, ChildIs, OrderlyIs
<1>11. /\ iter' \in IterOf /\ iter'.tree = Head(kids[g]) /\ iter'.stack = iter.stack /\ iter'.loop = c
  <2>1. Iter(Head(kids[g]), c) \in IterOf /\ Iter(Head(kids[g]), c).tree = Head(kids[g])
        /\ Iter(Head(kids[g]), c).stack = iter.stack
    BY <1>2, <1>9, <1>10, IterIs
  <2>2. Iter(Head(kids[g]), c).loop = c
    BY <1>2, <1>9, <1>10, IterLoop
  <2> QED
    BY <1>9, <2>1, <2>2
<1>12. PICK v, w, it, to, l : /\ v = MaxPlays - Len(plays) - 1 /\ w = Bound /\ it = iter /\ to = iter'
                              /\ l = Top(p, it).left
  OBVIOUS
<1>13. Follows(p, it, w) /\ v \in Int /\ Less(v + 1, w)
  <2>1. After
    BY <1>1, <1>6 DEF After
  <2>2. Follows(p, it, w) /\ w \in Int /\ v \in Int /\ v < w
    BY <1>2, <1>3, <1>12, <2>1, ThroughIs
  <2> QED
    BY <2>2 DEF Less
<1>14. Within(it) /\ GoesBack(to, it, g, c)
  BY <1>2, <1>4, <1>11, <1>12 DEF Within, GoesBack, Goes
<1>15. Turns(it, g, l, c) /\ Top(p, it).left = l
  BY <1>5, <1>6, <1>7, <1>8, <1>9, <1>12 DEF Turns
<1>16. PICK q : Follows(q, to, v) /\ Plays(Top(p, it), Head(kids[g]), Top(q, to))
  BY <1>2, <1>13, <1>14, <1>15, FollowsLoop
<1>17. plays \o (Playing[iter'.tree] \o Top(q, iter').rest) = Playing[Root]
  <2>1. Coming = <<>> /\ Top(p, it).rest \in Seq(Nodes)
    <3>1. Top(p, it).rest \in Seq(Nodes)
      BY <1>13, <1>14, FollowsIs DEF Within, Less
    <3> QED
      BY <1>1, <1>6, <3>1 DEF Coming, After
  <2>2. Coming \o Top(p, it).rest = Top(p, it).rest
    BY <2>1, ConcatEmptySeq
  <2>3. plays \o (Coming \o Top(p, it).rest) = Playing[Root]
    BY <1>3, <1>12 DEF Through
  <2> QED
    BY <1>11, <1>12, <1>16, <2>2, <2>3 DEF Plays
<1>18. Forward' /\ ~ After'
  BY <1>1, <1>2 DEF Forward, After
<1> QED
  BY <1>1, <1>2, <1>11, <1>12, <1>16, <1>17, <1>18, ComesTo

LEMMA StepUpOrder ==
  ASSUME OrderInv, rnd = {}, StepUp
  PROVE  OrderInv'
<1>1. /\ pc = "step" /\ NoTarget /\ ~ LoopsBack(iter.loop, Remaining)
      /\ pc' = "up" /\ d' = Remaining /\ then' = then /\ UNCHANGED <<tree, saved, plays>>
      /\ iter' = Iter(iter.tree, iter.loop)
  BY DEF StepUp, Step, Call, history
<1>2. /\ Steady /\ Orderly /\ loops \in [Nodes -> Int] /\ plays \in Seq(Nodes)
      /\ iter \in IterOf /\ iter.tree \in Nodes /\ iter.stack \in Seq(Int) /\ iter.loop \in Int
      /\ (parent[iter.tree] = None <=> Len(iter.stack) = 0) /\ Len(iter.stack) \in Nat
      /\ then \in {"start", "next"}
  BY <1>1, StepParts
<1>3. PICK p : Through(p)
  BY <1>1, StepParts
<1>4. d = 1 /\ d' = 1 /\ Len(plays) < MaxPlays
  BY <1>1, StepPast
<1>5. /\ iter' \in IterOf /\ iter'.tree = iter.tree /\ iter'.stack = iter.stack /\ iter'.loop = iter.loop
  BY <1>1, <1>2, IterIs, IterLoop
<1>6. PICK v, it, to : v = MaxPlays - Len(plays) /\ it = iter /\ to = iter'
  OBVIOUS
<1>7. After /\ After'
  BY <1>1, <1>4 DEF After
<1>8. Follows(p, it, v) /\ Less(v, v) /\ it.stack \in Seq(Int) /\ v \in Int
  BY <1>2, <1>3, <1>6, <1>7, ThroughIs DEF Less
<1>9. GoesNowhere(to, it)
  BY <1>5, <1>6 DEF GoesNowhere
<1>10. Follows(p, to, v) /\ Top(p, to) = Top(p, it)
  BY <1>8, <1>9, FollowsStill
<1>11. Top(p, it).rest \in Seq(Nodes)
  BY <1>8, FollowsIs
<1>12. plays \o Top(p, it).rest = Playing[Root]
  <2>1. Coming = <<>>
    BY <1>7 DEF Coming
  <2>2. Coming \o Top(p, it).rest = Top(p, it).rest
    BY <1>11, <2>1, ConcatEmptySeq
  <2> QED
    BY <1>3, <1>6, <2>2 DEF Through
<1>13. Len(it.stack) > 0 => Top(p, it).rest = p[Len(it.stack)].rest
  <2>1. SUFFICES ASSUME Len(it.stack) > 0 PROVE Top(p, it).rest = p[Len(it.stack)].rest
    OBVIOUS
  <2>2. parent[iter.tree] # None
    BY <1>2, <1>6, <2>1
  <2>3. /\ Top(p, iter).left \in Nat /\ ~ (Top(p, iter).left > 0)
        /\ Top(p, iter).left = 0 => Top(p, iter).rest = p[Len(iter.stack)].rest
    BY <1>1, <1>3, <2>2, StepPast
  <2>4. Top(p, iter).left = 0
    BY <2>3
  <2> QED
    BY <1>6, <2>3, <2>4
<1>14. Forward'
  BY <1>1, <1>2, <1>4 DEF Forward
<1> QED
  <2>1. plays' = plays /\ plays' \in Seq(Nodes) /\ Follows(p, iter', MaxPlays - Len(plays'))
    BY <1>1, <1>2, <1>6, <1>10
  <2>2. Top(p, iter').rest \in Seq(Nodes) /\ plays' \o Top(p, iter').rest = Playing[Root]
    BY <1>6, <1>10, <1>11, <1>12, <2>1
  <2>3. Len(iter'.stack) > 0 => Top(p, iter').rest = p[Len(iter'.stack)].rest
    BY <1>5, <1>6, <1>10, <1>13
  <2> QED
    BY <1>1, <1>2, <1>5, <1>7, <1>14, <2>1, <2>2, <2>3, GoesAway

LEMMA StepGroupOrder ==
  ASSUME OrderInv, rnd = {}, NEW n \in Nodes, StepGroup(n)
  PROVE  OrderInv'
<1>1. /\ pc = "step" /\ Target(n) /\ kids[n] # <<>> /\ iter' = Iter(n, iter.loop)
      /\ IF then = "unwind" THEN Result("NODE") ELSE Call("down", Remaining, then)
      /\ UNCHANGED <<tree, saved, plays>>
  BY DEF StepGroup, Step, history
<1>2. /\ Steady /\ Orderly /\ iter \in IterOf /\ iter.loop \in Int /\ iter.tree \in Nodes /\ d \in {0, 1}
      /\ (d = 1 => Len(plays) < MaxPlays) /\ then \in {"start", "next"}
  BY <1>1, StepParts
<1>3. pc' = "down" /\ d' = Remaining /\ then' = then
  BY <1>1, <1>2 DEF Call
<1>4. Remaining \in {0, 1}
  BY <1>2, Stepping
<1>5. iter' \in IterOf /\ iter'.tree = n
  BY <1>1, <1>2, IterIs
<1>6. PICK q : /\ Follows(q, iter', MaxPlays - Len(plays) - 1)
               /\ plays \o (Playing[n] \o Top(q, iter').rest) = Playing[Root]
  BY <1>1, StepTo
<1>7. Forward'
  BY <1>1, <1>2, <1>3, <1>4, <1>5 DEF Forward, tree
<1>8. ~ After'
  BY <1>3 DEF After
<1> QED
  BY <1>1, <1>2, <1>3, <1>5, <1>6, <1>7, <1>8, ComesTo

LEMMA StepEntryOrder ==
  ASSUME OrderInv, rnd = {}, NEW n \in Nodes, StepEntry(n)
  PROVE  OrderInv'
<1>1. pc = "step"
  BY DEF StepEntry, Enter, Step
<1>2. /\ Steady /\ Orderly /\ iter \in IterOf /\ iter.loop \in Int /\ iter.tree \in Nodes
      /\ then \in {"start", "next"} /\ ~ Trying
  BY <1>1, StepParts
<1>3. /\ Target(n) /\ files[n] > 0 /\ iter' = [Iter(n, iter.loop) EXCEPT !.entry_pushed = 1]
      /\ pc' = "returned" /\ res' = "ENTRY" /\ then' = then /\ UNCHANGED <<tree, saved, plays>>
  BY <1>2 DEF StepEntry, Enter, Step, Result, history
<1>4. PICK it : it = Iter(n, iter.loop)
  OBVIOUS
<1>5. it \in IterOf /\ it.tree = n /\ it.file = -1
  BY <1>2, <1>4, IterIs
<1>6. /\ iter' \in IterOf /\ iter'.tree = n /\ iter'.file = -1
      /\ iter'.stack = it.stack /\ iter'.tree = it.tree /\ iter'.loop = it.loop
  BY <1>3, <1>4, <1>5 DEF IterOf
<1>7. PICK v : v = MaxPlays - Len(plays) - 1
  OBVIOUS
<1>8. PICK q : Follows(q, it, v) /\ plays \o (Playing[n] \o Top(q, it).rest) = Playing[Root]
  BY <1>1, <1>3, <1>4, <1>7, StepTo
<1>9. Less(v, v) /\ it.stack \in Seq(Int)
  <2>1. v \in Int
    BY <1>2, <1>7, BoundIs DEF Steady
  <2> QED
    BY <1>5, <2>1 DEF Less, IterOf
<1>10. PICK to : to = iter'
  OBVIOUS
<1>11. Follows(q, to, v) /\ Top(q, to) = Top(q, it)
  <2>1. GoesNowhere(to, it)
    BY <1>6, <1>10 DEF GoesNowhere
  <2> QED
    BY <1>8, <1>9, <2>1, FollowsStill
<1>12. plays \o (Playing[iter'.tree] \o Top(q, iter').rest) = Playing[Root]
  BY <1>6, <1>8, <1>10, <1>11
<1>13. Forward' /\ ~ After'
  BY <1>2, <1>3, <1>6 DEF Forward, After, tree
<1> QED
  BY <1>2, <1>3, <1>6, <1>7, <1>10, <1>11, <1>12, <1>13, ComesTo

LEMMA StepNowhereOrder ==
  ASSUME OrderInv, rnd = {}, NEW n \in Nodes
  PROVE  ~ StepInvalid(n) /\ ~ StepNoFiles(n)
<1>1. SUFFICES ASSUME StepInvalid(n) \/ StepNoFiles(n) PROVE FALSE
  OBVIOUS
<1>2. pc = "step" /\ Target(n)
  BY <1>1 DEF StepInvalid, StepNoFiles, Step
<1>3. Valid[n] /\ Orderly
  BY <1>2, StepTo, StepParts
<1>4. kids[n] # <<>> => Valid[Head(kids[n])]
  <2>1. SUFFICES ASSUME kids[n] # <<>> PROVE Valid[Head(kids[n])]
    OBVIOUS
  <2>2. 1 \in DOMAIN kids[n] /\ Head(kids[n]) = kids[n][1]
    BY <1>3, <2>1, OrderlyIs
  <2> QED
    BY <1>3, <2>2, ChildIs
<1> QED
  BY <1>1, <1>3, <1>4 DEF StepInvalid, StepNoFiles, play_tree_is_valid

MovesTo(to, it, n, l, s) ==
    \/ to = [it EXCEPT !.tree = n, !.loop = l, !.stack = s, !.file = -1]
    \/ to = [it EXCEPT !.tree = n, !.stack = s, !.loop = l, !.file = -1]

LEMMA MovedIs ==
  ASSUME NEW it \in IterOf, NEW n \in Nodes, NEW l \in Int, NEW s \in Seq(Int), NEW to, MovesTo(to, it, n, l, s)
  PROVE  to \in IterOf /\ to.tree = n /\ to.stack = s /\ to.loop = l
<1> DEFINE i1 == [it EXCEPT !.file = -1]
           i2 == [i1 EXCEPT !.tree = n]
           i3 == [i2 EXCEPT !.stack = s]
           i4 == [i3 EXCEPT !.loop = l]
<1>1. i1 \in IterOf
  BY DEF IterOf
<1>2. to = i4
  BY DEF MovesTo, IterOf
<1> HIDE DEF i1
<1>3. i2 \in IterOf /\ i2.tree = n
  BY <1>1 DEF IterOf
<1> HIDE DEF i2
<1>4. i3 \in IterOf /\ i3.tree = n /\ i3.stack = s
  BY <1>3 DEF IterOf
<1> HIDE DEF i3
<1>5. i4 \in IterOf /\ i4.tree = n /\ i4.stack = s /\ i4.loop = l
  BY <1>4 DEF IterOf
<1> HIDE DEF i4
<1> QED
  BY <1>2, <1>5

LEMMA UpParts ==
  ASSUME OrderInv, pc = "up" \/ pc = "down"
  PROVE  /\ Steady /\ Forward /\ Orderly /\ loops \in [Nodes -> Int] /\ plays \in Seq(Nodes)
         /\ iter \in IterOf /\ iter.tree \in Nodes /\ iter.stack \in Seq(Int) /\ iter.loop \in Int
         /\ Len(iter.stack) \in Nat /\ (parent[iter.tree] = None <=> Len(iter.stack) = 0)
         /\ then \in {"start", "next"} /\ \E p : Through(p)
<1>1. Standing
  BY DEF Standing
<1>2. Forward
  BY <1>1, OrderParts
<1> QED
  BY <1>1, <1>2, OrderParts DEF Forward

\* After the last of the tree nothing is left to be played.
LEMMA UpEndOrder ==
  ASSUME OrderInv, UpEnd
  PROVE  OrderInv'
<1>1. /\ pc = "up" /\ parent[iter.tree] = None /\ iter' = [iter EXCEPT !.file = -1]
      /\ pc' = "returned" /\ res' = "END" /\ then' = then /\ UNCHANGED <<tree, saved, plays>>
  BY DEF UpEnd, Result, history
<1>2. /\ Steady /\ Forward /\ Orderly /\ plays \in Seq(Nodes) /\ iter \in IterOf /\ iter.stack \in Seq(Int)
      /\ Len(iter.stack) = 0 /\ then \in {"start", "next"}
  BY <1>1, UpParts
<1>3. PICK p : Through(p)
  BY <1>1, UpParts
<1>4. iter' \in IterOf /\ iter'.stack = iter.stack /\ iter'.tree = iter.tree /\ iter'.loop = iter.loop
  BY <1>1, <1>2 DEF IterOf
<1>5. PICK w, v, it, to : w = Bound /\ v = MaxPlays - Len(plays) - 1 /\ it = iter /\ to = iter'
  OBVIOUS
<1>6. Follows(p, it, w) /\ Less(v, w) /\ w \in Int /\ it.stack \in Seq(Int) /\ Len(it.stack) = 0
  BY <1>2, <1>3, <1>5, ThroughIs DEF Less
<1>7. Top(p, it).rest = <<>>
  BY <1>6, FollowsIs
<1>8. Follows(p, to, v) /\ Top(p, to) = Top(p, it)
  <2>1. GoesNowhere(to, it)
    BY <1>4, <1>5 DEF GoesNowhere
  <2> QED
    BY <1>6, <2>1, FollowsStill
<1>9. plays = Playing[Root]
  <2>1. Coming = <<>>
    BY <1>1, <1>2 DEF Coming, After, Forward
  <2>2. plays \o (<<>> \o <<>>) = Playing[Root]
    BY <1>3, <1>5, <1>7, <2>1 DEF Through
  <2>3. <<>> \in Seq(Nodes) /\ <<>> \o <<>> = <<>> /\ plays \o <<>> = plays
    BY <1>2, ConcatEmptySeq
  <2> QED
    BY <2>2, <2>3
<1>10. Playing' = Playing
  BY <1>1, <1>2, SameOrder
<1>11. Forward'
  BY <1>1, <1>2, <1>9, <1>10 DEF Forward
<1>12. Bound' = MaxPlays - Len(plays) - 1 /\ Coming' = <<>>
  BY <1>1 DEF Bound, Coming, After
<1>13. plays' \o (Coming' \o Top(p, iter').rest) = Playing[Root]
  <2>1. plays \o (<<>> \o <<>>) = plays
    BY <1>2, ConcatEmptySeq
  <2> QED
    BY <1>1, <1>5, <1>7, <1>8, <1>9, <1>12, <2>1
<1>14. Follows(p, iter', Bound')
  BY <1>5, <1>8, <1>12
<1>15. plays' \in Seq(Nodes)
  BY <1>1, <1>2
<1> QED
  BY <1>1, <1>2, <1>4, <1>11, <1>13, <1>14, <1>15, Arrived

LEMMA UpOrder ==
  ASSUME OrderInv, Up
  PROVE  OrderInv'
<1>1. /\ pc = "up" /\ parent[iter.tree] # None
      /\ iter' = [iter EXCEPT !.tree = parent[iter.tree], !.loop = Last(iter.stack),
                              !.stack = Front(iter.stack), !.file = -1]
      /\ pc' = "step" /\ d' = d /\ then' = then /\ UNCHANGED <<tree, saved, plays>>
  BY DEF Up, Call, history
<1>2. /\ Steady /\ Forward /\ Orderly /\ plays \in Seq(Nodes) /\ iter \in IterOf /\ iter.stack \in Seq(Int)
      /\ iter.tree \in Nodes /\ Len(iter.stack) > 0 /\ then \in {"start", "next"}
  BY <1>1, UpParts
<1>3. PICK p : Through(p)
  BY <1>1, UpParts
<1>4. d = 1 /\ d' = 1 /\ Len(plays) < MaxPlays
  BY <1>1, <1>2 DEF Forward
<1>5. After /\ After'
  BY <1>1, <1>4 DEF After
<1>6. /\ parent[iter.tree] \in Nodes /\ Last(iter.stack) \in Int /\ Front(iter.stack) \in Seq(Int)
  <2>1. parent[iter.tree] \in Nodes
    BY <1>1, <1>2, PlacedIs
  <2>2. Last(iter.stack) \in Int /\ Front(iter.stack) \in Seq(Int)
    BY <1>2 DEF Last, Front
  <2> QED
    BY <2>1, <2>2
<1>7. /\ iter' \in IterOf /\ iter'.tree = parent[iter.tree] /\ iter'.stack = Front(iter.stack)
      /\ iter'.loop = Last(iter.stack)
  <2>1. PICK n, l, s : n = parent[iter.tree] /\ l = Last(iter.stack) /\ s = Front(iter.stack)
    OBVIOUS
  <2>2. n \in Nodes /\ l \in Int /\ s \in Seq(Int)
    BY <1>6, <2>1
  <2>3. MovesTo(iter', iter, n, l, s)
    BY <1>1, <2>1 DEF MovesTo
  <2>4. iter' \in IterOf /\ iter'.tree = n /\ iter'.stack = s /\ iter'.loop = l
    BY <1>2, <2>2, <2>3, MovedIs
  <2> QED
    BY <2>1, <2>4
<1>8. PICK v, it, to : v = MaxPlays - Len(plays) /\ it = iter /\ to = iter'
  OBVIOUS
<1>9. Follows(p, it, v) /\ v \in Int /\ Within(it) /\ GoesUp(to, it)
  BY <1>2, <1>3, <1>5, <1>7, <1>8, ThroughIs DEF Within, GoesUp
<1>10. Follows(p, to, v) /\ Top(p, to) = p[Len(it.stack)]
  BY <1>9, FollowsOut
<1>11. Top(p, it).rest \in Seq(Nodes)
  BY <1>9, FollowsIs DEF Within
<1>12. Top(p, it).rest = Top(p, to).rest
  BY <1>1, <1>2, <1>3, <1>8, <1>10 DEF Through
<1>13. plays \o Top(p, it).rest = Playing[Root]
  <2>1. Coming = <<>>
    BY <1>5 DEF Coming
  <2>2. Coming \o Top(p, it).rest = Top(p, it).rest
    BY <1>11, <2>1, ConcatEmptySeq
  <2> QED
    BY <1>3, <1>8, <2>2 DEF Through
<1>14. Forward'
  BY <1>1, <1>2, <1>4 DEF Forward
<1> QED
  <2>1. plays' = plays /\ plays' \in Seq(Nodes) /\ Follows(p, iter', MaxPlays - Len(plays')) /\ pc' # "up"
    BY <1>1, <1>2, <1>8, <1>10
  <2>2. Top(p, iter').rest \in Seq(Nodes) /\ plays' \o Top(p, iter').rest = Playing[Root]
    BY <1>8, <1>11, <1>12, <1>13, <2>1
  <2> QED
    BY <1>1, <1>2, <1>5, <1>7, <1>14, <2>1, <2>2, GoesAway

LEMMA DownOrder ==
  ASSUME OrderInv, Down
  PROVE  OrderInv'
<1>1. /\ pc = "down"
      /\ iter' = [iter EXCEPT !.tree = IF d >= 0 THEN Head(kids[iter.tree]) ELSE Last(kids[iter.tree]),
                              !.stack = Append(iter.stack, iter.loop),
                              !.loop = loops[iter.tree] - 1, !.file = -1]
      /\ pc' = "step" /\ d' = 0 /\ then' = then /\ UNCHANGED <<tree, saved, plays>>
  BY DEF Down, Call, history
<1>2. /\ Steady /\ Forward /\ Orderly /\ loops \in [Nodes -> Int] /\ plays \in Seq(Nodes)
      /\ iter \in IterOf /\ iter.stack \in Seq(Int) /\ iter.loop \in Int
      /\ iter.tree \in Nodes /\ then \in {"start", "next"}
  BY <1>1, UpParts
<1>3. PICK p : Through(p)
  BY <1>1, UpParts
<1>4. d >= 0 /\ kids[iter.tree] # <<>>
  BY <1>1, <1>2 DEF Forward
<1>5. /\ Head(kids[iter.tree]) \in Nodes /\ Append(iter.stack, iter.loop) \in Seq(Int)
      /\ loops[iter.tree] - 1 \in Int
  BY <1>2, <1>4, OrderlyIs, ChildIs
<1>6. /\ iter' \in IterOf /\ iter'.tree = Head(kids[iter.tree]) /\ iter'.stack = Append(iter.stack, iter.loop)
      /\ iter'.loop = loops[iter.tree] - 1
  <2>1. PICK n, l, s : n = Head(kids[iter.tree]) /\ l = loops[iter.tree] - 1 /\ s = Append(iter.stack, iter.loop)
    OBVIOUS
  <2>2. n \in Nodes /\ l \in Int /\ s \in Seq(Int)
    BY <1>5, <2>1
  <2>3. MovesTo(iter', iter, n, l, s)
    BY <1>1, <1>4, <2>1 DEF MovesTo
  <2>4. iter' \in IterOf /\ iter'.tree = n /\ iter'.stack = s /\ iter'.loop = l
    BY <1>2, <2>2, <2>3, MovedIs
  <2> QED
    BY <2>1, <2>4
<1>7. PICK w, it, to : w = Bound /\ it = iter /\ to = iter'
  OBVIOUS
<1>8. ~ After /\ Coming = Playing[iter.tree]
  BY <1>1 DEF After, Coming
<1>9. Follows(p, it, w) /\ w \in Int /\ w = MaxPlays - Len(plays) - 1
  BY <1>2, <1>3, <1>7, <1>8, ThroughIs
<1>10. Less(w + 1, MaxPlays)
  <2>1. Len(plays) \in Nat /\ MaxPlays \in Nat
    BY <1>2, BoundIs
  <2> QED
    BY <1>9, <2>1 DEF Less
<1>11. Deep(it) /\ GoesDown(to, it)
  BY <1>2, <1>4, <1>6, <1>7 DEF Deep, GoesDown
<1>12. PICK q : Follows(q, to, w) /\ PlaysIn(it, Top(p, it), Top(q, to))
  BY <1>2, <1>9, <1>10, <1>11, FollowsIn
<1>13. plays \o (Playing[iter'.tree] \o Top(q, iter').rest) = Playing[Root]
  BY <1>3, <1>6, <1>7, <1>8, <1>12 DEF Through, PlaysIn
<1>14. Forward' /\ ~ After'
  BY <1>1, <1>2 DEF Forward, After
<1> QED
  BY <1>1, <1>2, <1>6, <1>7, <1>9, <1>12, <1>13, <1>14, ComesTo

LEMMA NoIterIs == NoIter \in IterOf
  BY DEF NoIter, IterOf

LEMMA FreedOrder ==
  ASSUME Steady, UNCHANGED <<tree, saved, plays>>, iter' \in IterOf, Forward', ~ Standing'
  PROVE  OrderInv'
<1>1. Orderly' /\ loops' = loops
  BY SameOrder DEF Steady, tree
<1> QED
  BY <1>1 DEF OrderInv, Steady, Trying

LEMMA FirstEntryOrder ==
  ASSUME OrderInv, FirstEntry
  PROVE  OrderInv'
<1>1. /\ pc = "returned" /\ UNCHANGED <<tree, saved, plays>>
      /\ IF res = "ENTRY" \/ then = "head" THEN NextFile(1) ELSE Free_iter
  BY DEF FirstEntry, Returned
<1>2. Standing
  BY <1>1 DEF Standing
<1>3. /\ Steady /\ Forward /\ Orderly /\ plays \in Seq(Nodes) /\ iter \in IterOf
  BY <1>2, OrderParts
<1>4. Playing' = Playing
  BY <1>1, <1>3, SameOrder
<1>5. CASE res = "ENTRY"
  <2>1. pc' = "source" /\ d' = 1 /\ iter' = iter
    BY <1>1, <1>5 DEF NextFile, Call
  <2>2. PICK p : Through(p)
    BY <1>2, OrderParts
  <2>3. ~ After /\ Coming = Playing[iter.tree]
    BY <1>1, <1>5 DEF After, Coming
  <2>4. Follows(p, iter, MaxPlays - Len(plays) - 1)
    BY <1>3, <2>2, <2>3, ThroughIs
  <2>5. Forward'
    BY <1>1, <1>3, <1>5, <2>1 DEF Forward, tree
  <2>6. plays \o (Playing[iter'.tree] \o Top(p, iter').rest) = Playing[Root]
    BY <2>1, <2>2, <2>3 DEF Through
  <2>7. Follows(p, iter', MaxPlays - Len(plays) - 1)
    BY <2>1, <2>4
  <2>8. ~ After' /\ pc' # "up" /\ ~ (pc' = "returned" /\ res' = "END") /\ iter' \in IterOf
    BY <1>3, <2>1 DEF After
  <2> QED
    BY <1>1, <1>3, <2>5, <2>6, <2>7, <2>8, ComesTo
<1>6. CASE res # "ENTRY"
  <2>1. plays = Playing[Root] /\ then \in {"start", "next"}
    BY <1>1, <1>3, <1>6 DEF Forward
  <2>2. pc' = "idle" /\ iter' = NoIter
    BY <1>1, <1>6, <2>1 DEF Free_iter
  <2>3. Forward' /\ ~ Standing'
    BY <1>1, <1>4, <2>1, <2>2 DEF Forward, Standing
  <2> QED
    BY <1>1, <1>3, <2>2, <2>3, NoIterIs, FreedOrder
<1> QED
  BY <1>5, <1>6

\* The entry is played: it has come first of all that was left.
LEMMA PlayFileOrder ==
  ASSUME OrderInv, straight = 1, PlayFile
  PROVE  OrderInv'
<1>1. /\ pc = "source" /\ UNCHANGED <<tree, saved>> /\ plays' = Append(plays, iter.tree)
      /\ iter' = [iter EXCEPT !.file = play_tree_iter_get_file(d)]
      /\ pc' = "playing" /\ then' = "none"
  BY DEF PlayFile
<1>2. Standing
  BY <1>1 DEF Standing
<1>3. /\ Steady /\ Forward /\ Orderly /\ plays \in Seq(Nodes) /\ iter \in IterOf
      /\ iter.tree \in Nodes /\ iter.stack \in Seq(Int)
  BY <1>2, OrderParts
<1>4. PICK p : Through(p)
  BY <1>2, OrderParts
<1>5. iter.file = -1 /\ files[iter.tree] > 0 /\ files[iter.tree] \in Nat
  BY <1>1, <1>3 DEF Forward, Orderly
<1>6. play_tree_iter_get_file(d) \in Int
  BY <1>1, <1>3, <1>5 DEF Forward, play_tree_iter_get_file
<1>7. iter' \in IterOf /\ iter'.tree = iter.tree /\ iter'.stack = iter.stack /\ iter'.loop = iter.loop
  <2>1. PICK f : f = play_tree_iter_get_file(d)
    OBVIOUS
  <2>2. f \in Int /\ iter' = [iter EXCEPT !.file = f]
    BY <1>1, <1>6, <2>1
  <2> QED
    BY <1>3, <2>2 DEF IterOf
<1>8. PICK n : n = iter.tree
  OBVIOUS
<1>9. n \in Nodes /\ Playing[n] = <<n>> /\ Coming = <<n>>
  <2>1. Playing[n] = <<n>>
    BY <1>3, <1>5, <1>8, OrderlyIs
  <2> QED
    BY <1>1, <1>3, <1>8, <2>1 DEF Coming, After
<1>10. ~ After /\ After'
  BY <1>1 DEF After
<1>11. PICK w, it, to : w = Bound /\ it = iter /\ to = iter'
  OBVIOUS
<1>12. Follows(p, it, w) /\ w \in Int /\ w = MaxPlays - Len(plays) - 1 /\ it.stack \in Seq(Int)
  BY <1>3, <1>4, <1>10, <1>11, ThroughIs
<1>13. plays' \in Seq(Nodes) /\ Len(plays') = Len(plays) + 1 /\ plays' = plays \o <<n>>
  <2>1. plays' = Append(plays, n)
    BY <1>1, <1>8
  <2>2. Append(plays, n) \in Seq(Nodes) /\ Len(Append(plays, n)) = Len(plays) + 1
    BY <1>3, <1>9, AppendProperties
  <2>3. Append(plays, n) = plays \o <<n>>
    BY <1>3, <1>9, AppendIsConcat
  <2> QED
    BY <2>1, <2>2, <2>3
<1>14. MaxPlays - Len(plays') = w
  <2>1. Len(plays) \in Nat /\ MaxPlays \in Nat
    BY <1>3, BoundIs
  <2> QED
    BY <1>12, <1>13, <2>1
<1>15. Follows(p, to, w) /\ Top(p, to) = Top(p, it)
  <2>1. GoesNowhere(to, it) /\ Less(w, w)
    BY <1>7, <1>11, <1>12 DEF GoesNowhere, Less
  <2> QED
    BY <1>12, <2>1, FollowsStill
<1>16. Top(p, it).rest \in Seq(Nodes)
  BY <1>12, FollowsIs
<1>17. plays' \o Top(p, it).rest = Playing[Root]
  <2>1. PICK r, e : r = Top(p, it).rest /\ e = <<n>>
    OBVIOUS
  <2>2. (plays \o e) \o r = plays \o (e \o r)
    <3>1. r \in Seq(Nodes) /\ e \in Seq(Nodes)
      BY <1>9, <1>16, <2>1
    <3> QED
      BY <1>3, <3>1, Assoc
  <2>3. plays \o (<<n>> \o r) = Playing[Root]
    BY <1>4, <1>9, <1>11, <2>1 DEF Through
  <2> QED
    BY <1>13, <2>1, <2>2, <2>3
<1>18. Forward'
  BY <1>1 DEF Forward
<1> QED
  <2>1. Follows(p, iter', MaxPlays - Len(plays')) /\ pc' # "up"
    BY <1>1, <1>11, <1>14, <1>15
  <2>2. Top(p, iter').rest \in Seq(Nodes) /\ plays' \o Top(p, iter').rest = Playing[Root]
    BY <1>11, <1>15, <1>16, <1>17
  <2> QED
    BY <1>1, <1>3, <1>7, <1>10, <1>13, <1>18, <2>1, <2>2, GoesAway

LEMMA EndOfFileOrder ==
  ASSUME OrderInv, straight = 1, EndOfFile
  PROVE  OrderInv'
<1>1. /\ pc = "playing" /\ Len(plays) < MaxPlays /\ UNCHANGED <<tree, saved, plays, iter>>
      /\ pc' = "step" /\ d' = 1 /\ then' = "next"
  BY DEF EndOfFile, Call, history
<1>2. Standing
  BY <1>1 DEF Standing
<1>3. /\ Steady /\ Forward /\ Orderly /\ plays \in Seq(Nodes) /\ iter \in IterOf /\ iter.stack \in Seq(Int)
  BY <1>2, OrderParts
<1>4. PICK p : Through(p)
  BY <1>2, OrderParts
<1>5. After /\ After'
  BY <1>1 DEF After
<1>6. PICK w, it : w = MaxPlays - Len(plays) /\ it = iter
  OBVIOUS
<1>7. Follows(p, it, w) /\ w \in Int /\ it.stack \in Seq(Int)
  BY <1>3, <1>4, <1>5, <1>6, ThroughIs
<1>8. Top(p, it).rest \in Seq(Nodes)
  BY <1>7, FollowsIs
<1>9. plays \o Top(p, it).rest = Playing[Root]
  <2>1. Coming = <<>>
    BY <1>5 DEF Coming
  <2>2. Coming \o Top(p, it).rest = Top(p, it).rest
    BY <1>8, <2>1, ConcatEmptySeq
  <2> QED
    BY <1>4, <1>6, <2>2 DEF Through
<1>10. Forward'
  BY <1>1 DEF Forward
<1> QED
  <2>1. Follows(p, iter', MaxPlays - Len(plays')) /\ pc' # "up" /\ plays' \in Seq(Nodes) /\ iter' \in IterOf
    BY <1>1, <1>3, <1>6, <1>7
  <2>2. Top(p, iter').rest \in Seq(Nodes) /\ plays' \o Top(p, iter').rest = Playing[Root]
    BY <1>1, <1>6, <1>8, <1>9
  <2> QED
    BY <1>1, <1>3, <1>5, <1>10, <2>1, <2>2, GoesAway

LEMMA QuitOrder ==
  ASSUME OrderInv, Quit
  PROVE  OrderInv'
<1>1. pc' = "quit" /\ UNCHANGED <<tree, saved, plays, iter>> /\ Steady
  BY DEF Quit, OrderInv, history
<1>2. Forward' /\ ~ Standing' /\ iter' \in IterOf
  BY <1>1 DEF Forward, Standing, Steady
<1> QED
  BY <1>1, <1>2, FreedOrder

\* None of the commands was given.
LEMMA ForwardOnly ==
  ASSUME OrderInv
  PROVE  ~ NoFile /\ ~ SourceStepped /\ ~ Tried /\ ~ Unwinding /\ ~ Unwound /\ ~ Listed
<1>1. Forward /\ Steady
  BY DEF OrderInv
<1>2. pc = "returned" => then \in {"start", "next"}
  BY <1>1 DEF Forward
<1>3. ~ SourceStepped /\ ~ Tried /\ ~ Unwinding /\ ~ Unwound /\ ~ Listed
  BY <1>2 DEF SourceStepped, Tried, Unwinding, Unwound, Listed, Returned
<1>4. ~ NoFile
  <2>1. SUFFICES ASSUME NoFile PROVE FALSE
    OBVIOUS
  <2>2. pc = "source" /\ play_tree_iter_get_file(d) = -1
    BY <2>1 DEF NoFile
  <2>3. d = 1 /\ iter.file = -1 /\ files[iter.tree] > 0 /\ iter.tree \in Nodes /\ Orderly
    <3>1. Standing
      BY <2>2 DEF Standing
    <3> QED
      BY <1>1, <2>2, <3>1, OrderParts DEF Forward
  <2>4. files[iter.tree] \in Nat
    BY <2>3 DEF Orderly
  <2> QED
    BY <2>2, <2>3, <2>4 DEF play_tree_iter_get_file
<1> QED
  BY <1>3, <1>4

LEMMA CommandsTurn ==
  ASSUME \/ SetOption \/ Unwind("load") \/ Unwind("stop") \/ BadList
         \/ \E n \in {-1, 1, 2} : StepForced("step", n) \/ StepTried("step", n)
         \/ \E n \in {-1, 1} : StepForced("up", n) \/ StepTried("up", n) \/ SourceStep(n)
         \/ LoadFileAppend \/ LoadFileIdle \/ AddList(1) \/ AddList(2)
  PROVE  straight' = 0
  BY DEF SetOption, Unwind, BadList, StepForced, StepTried, SourceStep, LoadFileAppend, LoadFileIdle,
     AddList, Command

LoopInv == rnd = {} /\ straight = 1 => OrderInv

LEMMA StraightBefore ==
  ASSUME Next, straight' = 1
  PROVE  straight = 1
<1>1. CASE Iterating
  BY <1>1 DEF Iterating, StepRandomEnd, StepRandomAgain, StepLoop, StepUp, StepGroup, StepInvalid,
     StepNoFiles, StepEntry, Enter, UpEnd, Up, Down, Step, history
<1>2. CASE Player
  BY <1>2 DEF Player, FirstEntry, PlayFile, NoFile, SourceStepped, Tried, Unwinding, Unwound, Listed, history
<1>3. CASE EndOfFile \/ Quit \/ UNCHANGED vars
  BY <1>3 DEF EndOfFile, Quit, history, vars
<1> QED
  BY <1>1, <1>2, <1>3, CommandsTurn DEF Next

LEMMA OrderStutter ==
  ASSUME UNCHANGED vars, OrderInv
  PROVE  OrderInv'
<1>1. /\ UNCHANGED tree /\ pc' = pc /\ d' = d /\ then' = then /\ res' = res /\ iter' = iter /\ saved' = saved
      /\ plays' = plays
  BY DEF vars, history
<1>2. Orderly' = Orderly /\ Playing' = Playing /\ \A p : Follows(p, iter, Bound)' = Follows(p, iter', Bound')
  BY <1>1, SameOrder
<1>3. After' = After /\ Bound' = Bound /\ Standing' = Standing /\ files' = files /\ kids' = kids /\ loops' = loops
  BY <1>1 DEF After, Bound, Standing, tree
<1>4. Coming' = Coming
  BY <1>1, <1>2, <1>3 DEF Coming
<1>5. Steady' = Steady
  BY <1>1, <1>2, <1>3 DEF Steady, Trying
<1>6. Forward' = Forward
  BY <1>1, <1>2, <1>3 DEF Forward
<1>7. ASSUME NEW p PROVE Through(p)' = Through(p)
  BY <1>1, <1>2, <1>3, <1>4 DEF Through, Top
<1> QED
  BY <1>3, <1>5, <1>6, <1>7 DEF OrderInv

LEMMA OrderKept ==
  ASSUME LoopInv, Next
  PROVE  LoopInv'
<1>1. SUFFICES ASSUME rnd' = {}, straight' = 1 PROVE OrderInv'
  BY DEF LoopInv
<1>2. rnd = {} /\ straight = 1 /\ OrderInv
  BY <1>1, NoShuffle, StraightBefore DEF LoopInv
<1>3. CASE Iterating
  <2>1. ~ StepRandomEnd /\ ~ StepRandomAgain
    BY <1>2 DEF StepRandomEnd, StepRandomAgain, Mode
  <2>2. CASE StepLoop \/ StepUp
    BY <1>2, <2>2, StepLoopOrder, StepUpOrder
  <2>3. CASE \E n \in Nodes : StepGroup(n) \/ StepInvalid(n) \/ StepNoFiles(n) \/ StepEntry(n)
    BY <1>2, <2>3, StepGroupOrder, StepEntryOrder, StepNowhereOrder
  <2>4. CASE UpEnd \/ Up \/ Down
    BY <1>2, <2>4, UpEndOrder, UpOrder, DownOrder
  <2> QED
    BY <1>3, <2>1, <2>2, <2>3, <2>4 DEF Iterating
<1>4. CASE Player
  BY <1>2, <1>4, FirstEntryOrder, PlayFileOrder, ForwardOnly DEF Player
<1>5. CASE EndOfFile \/ Quit \/ UNCHANGED vars
  BY <1>2, <1>5, EndOfFileOrder, QuitOrder, OrderStutter
<1> QED
  BY <1>1, <1>3, <1>4, <1>5, CommandsTurn DEF Next

-----------------------------------------------------------------------------
(* The first state, and what the invariant says.                           *)

LEMMA InitOrderly ==
  ASSUME Planted
  PROVE  Orderly
<1>1. /\ Climbs(parent) /\ kids \in [Nodes -> Seq(Nodes)] /\ files \in [Nodes -> Nat]
      /\ \A n \in Nodes : \A i \in DOMAIN kids[n] : kids[n][i] \in 1 .. Size - 1 /\ parent[kids[n][i]] = n
      /\ \A n \in 0 .. Size - 1 : files[n] > 0 <=> kids[n] = <<>>
      /\ \A n \in Nodes : n >= Size => kids[n] = <<>> /\ files[n] = 0
  BY DEF Planted
<1>2. Size \in Nat /\ Size >= 2 /\ 0 .. Size - 1 \subseteq Nodes /\ Root \in 0 .. Size - 1 /\ Nodes \subseteq Nat
  BY NodesAre
<1>3. ASSUME NEW n \in Nodes, NEW i \in DOMAIN kids[n]
      PROVE  kids[n][i] \in Nodes /\ kids[n][i] > n /\ kids[n][i] \in 0 .. Size - 1
  <2>1. PICK c : c = kids[n][i]
    OBVIOUS
  <2>2. c \in 1 .. Size - 1 /\ parent[c] = n
    BY <1>1, <2>1
  <2>3. c \in Nodes /\ c \in 0 .. Size - 1
    BY <1>2, <2>2
  <2>4. n < c
    BY <1>1, <2>2, <2>3, NodesAre DEF Climbs
  <2>5. n \in Int /\ c \in Int
    BY <1>2, <2>3
  <2> QED
    BY <2>1, <2>3, <2>4, <2>5
<1>4. Descends
  BY <1>1, <1>3 DEF Descends
<1> DEFINE T == {m \in 0 .. Size - 1 : ~ Valid[Size - 1 - m]}
<1>5. T = {}
  <2>1. SUFFICES ASSUME T # {} PROVE FALSE
    OBVIOUS
  <2>2. PICK m \in T : \A y \in T : m <= y
    <3>1. T \subseteq Nat
      OBVIOUS
    <3> HIDE DEF T
    <3> QED
      BY <2>1, <3>1, LeastOf
  <2>3. PICK n : n = Size - 1 - m
    OBVIOUS
  <2>4. m \in 0 .. Size - 1 /\ n \in 0 .. Size - 1 /\ n \in Nodes /\ ~ Valid[n]
    BY <1>2, <2>2, <2>3
  <2>5. files[n] = 0 /\ \A i \in DOMAIN kids[n] : ~ Valid[kids[n][i]]
    <3>1. ~ (files[n] > 0) /\ \A i \in DOMAIN kids[n] : ~ Valid[kids[n][i]]
      BY <1>4, <2>4, ValidDef
    <3>2. files[n] \in Nat
      BY <1>1, <2>4
    <3> QED
      BY <3>1, <3>2
  <2>6. kids[n] # <<>> /\ kids[n] \in Seq(Nodes)
    BY <1>1, <2>4, <2>5
  <2>7. 1 \in DOMAIN kids[n]
    BY <2>6
  <2>8. PICK c : c = kids[n][1]
    OBVIOUS
  <2>9. c \in 0 .. Size - 1 /\ c > n /\ ~ Valid[c]
    BY <1>3, <2>4, <2>5, <2>7, <2>8
  <2>10. PICK y : y = Size - 1 - c
    OBVIOUS
  <2>11. y \in 0 .. Size - 1 /\ Size - 1 - y = c /\ y < m
    BY <1>2, <2>3, <2>4, <2>9, <2>10
  <2>12. y \in T
    BY <2>9, <2>11
  <2>13. m <= y
    BY <2>2, <2>12
  <2> QED
    BY <2>4, <2>11, <2>13
<1>6. ASSUME NEW n \in 0 .. Size - 1 PROVE Valid[n]
  <2>1. PICK m : m = Size - 1 - n
    OBVIOUS
  <2>2. m \in 0 .. Size - 1 /\ Size - 1 - m = n
    BY <1>2, <2>1
  <2> QED
    BY <1>5, <2>2
<1>7. \A n \in Nodes : \A i \in DOMAIN kids[n] : parent[kids[n][i]] = n /\ Valid[kids[n][i]]
  BY <1>1, <1>3, <1>6
<1>8. \A n \in Nodes : files[n] > 0 => kids[n] = <<>>
  <2>1. SUFFICES ASSUME NEW n \in Nodes, files[n] > 0 PROVE kids[n] = <<>>
    OBVIOUS
  <2>2. n >= Size \/ n \in 0 .. Size - 1
    BY <1>2
  <2> QED
    BY <1>1, <2>1, <2>2
<1>9. Valid[Root]
  BY <1>2, <1>6
<1>10. /\ \A n \in Nodes : \A i, j \in DOMAIN kids[n] : kids[n][i] = kids[n][j] => i = j
       /\ \A n \in Nodes : parent[n] # None => Linked(n)
  BY DEF Planted
<1> QED
  BY <1>1, <1>7, <1>8, <1>9, <1>10 DEF Orderly

LEMMA InitOrder ==
  ASSUME Init
  PROVE  LoopInv
<1>1. Planted /\ Orderly
  BY InitTree, InitOrderly
<1>2. /\ iter = play_tree_iter_new /\ saved = NoIter /\ pc = "step" /\ d = 0 /\ then = "start" /\ plays = <<>>
  BY DEF Init
<1>3. /\ iter \in IterOf /\ iter.tree = Root /\ iter.stack = <<>> /\ iter.loop = 0
  <2>1. PICK it : it = NoIter
    OBVIOUS
  <2>2. it \in IterOf /\ it.stack = <<>> /\ it.loop = 0 /\ iter = [it EXCEPT !.tree = Root]
    BY <1>2, <2>1, NoIterIs DEF NoIter, play_tree_iter_new
  <2> QED
    BY <2>2, NodesAre DEF IterOf
<1>4. Steady
  BY <1>1, <1>2, <1>3 DEF Steady, Planted, Trying
<1>5. Forward
  BY <1>2 DEF Forward
<1>6. PICK b : b = [node |-> Root, cnt |-> 0, left |-> 0, rest |-> <<>>]
  OBVIOUS
<1>7. b \in LevelSet /\ b.node = Root /\ b.cnt = 0 /\ b.rest = <<>>
  <2>1. Root \in Nodes /\ <<>> \in Seq(Nodes)
    BY NodesAre
  <2> QED
    BY <1>6, <2>1 DEF LevelSet
<1>8. PICK p : p = [i \in Nat |-> b]
  OBVIOUS
<1>9. p \in [Nat -> LevelSet] /\ p[1] = b
  BY <1>7, <1>8
<1>10. PICK it, w : it = iter /\ w = Bound
  OBVIOUS
<1>11. Len(it.stack) = 0
  BY <1>3, <1>10
<1>12. Follows(p, it, w) /\ Top(p, it) = b
  <2>1. Chain(p, 1, w)
    BY <1>7, <1>9 DEF Chain
  <2>2. 0 + 1 = 1 /\ 1 .. 0 = {}
    OBVIOUS
  <2> QED
    BY <1>3, <1>7, <1>9, <1>10, <1>11, <2>1, <2>2 DEF Follows, Top
<1>13. Coming = Playing[Root] /\ Playing[Root] \in Seq(Nodes)
  <2>1. Coming = Playing[Root]
    BY <1>2, <1>3 DEF Coming, After
  <2>2. Playing[Root] \in Seq(Nodes)
    BY <1>1, NodesAre, OrderlyIs, PlayingTypes DEF Planted
  <2> QED
    BY <2>1, <2>2
<1>14. plays \o (Coming \o Top(p, it).rest) = Playing[Root]
  <2>1. PICK s : s = Playing[Root]
    OBVIOUS
  <2>2. s \in Seq(Nodes) /\ s \o <<>> = s /\ <<>> \o s = s
    BY <1>13, <2>1, ConcatEmptySeq
  <2> QED
    BY <1>2, <1>7, <1>12, <1>13, <2>1, <2>2
<1>15. Through(p)
  BY <1>2, <1>10, <1>12, <1>14 DEF Through
<1> QED
  BY <1>4, <1>5, <1>15 DEF LoopInv, OrderInv

LEMMA PrefixIs ==
  ASSUME NEW s \in Seq(Nodes), NEW t \in Seq(Nodes)
  PROVE  IsPrefix(s, s \o t)
<1>1. Len(s) \in Nat /\ Len(t) \in Nat /\ Len(s \o t) = Len(s) + Len(t) /\ s \o t \in Seq(Nodes)
  BY ConcatProperties, LenProperties
<1>2. SubSeq(s \o t, 1, Len(s)) = s /\ SubSeq(s, 1, Len(s)) = s
  BY SubSeqOfConcat1, SubSeqFull
<1> QED
  BY <1>1, <1>2 DEF IsPrefix

LEMMA OrderTold ==
  ASSUME LoopInv, straight = 1, pc \in {"playing", "idle"}
  PROVE  PlayedInOrder
<1>1. SUFFICES ASSUME rnd = {} PROVE IsPrefix(plays, Playing[Root]) /\ (pc = "idle" => plays = Playing[Root])
  BY DEF PlayedInOrder
<1>2. OrderInv
  BY <1>1 DEF LoopInv
<1>3. Steady /\ Forward /\ plays \in Seq(Nodes)
  BY <1>2 DEF OrderInv, Steady
<1>4. CASE pc = "playing"
  <2>1. Standing
    BY <1>4 DEF Standing
  <2>2. PICK p : Through(p)
    BY <1>2, <2>1, OrderParts
  <2>3. Coming = <<>>
    BY <1>4 DEF Coming, After
  <2>4. PICK it, w : it = iter /\ w = Bound
    OBVIOUS
  <2>5. Follows(p, it, w) /\ w \in Int /\ it.stack \in Seq(Int)
    BY <1>2, <1>3, <2>1, <2>2, <2>4, ThroughIs, OrderParts
  <2>6. PICK r : r = Top(p, it).rest
    OBVIOUS
  <2>7. r \in Seq(Nodes) /\ <<>> \o r = r
    BY <2>5, <2>6, FollowsIs, ConcatEmptySeq
  <2>8. plays \o r = Playing[Root]
    BY <2>2, <2>3, <2>4, <2>6, <2>7 DEF Through
  <2>9. IsPrefix(plays, plays \o r)
    BY <1>3, <2>7, PrefixIs
  <2> QED
    BY <1>4, <2>8, <2>9
<1>5. CASE pc = "idle"
  <2>1. plays = Playing[Root]
    BY <1>3, <1>5 DEF Forward
  <2>2. <<>> \in Seq(Nodes) /\ plays \o <<>> = plays
    BY <1>3, ConcatEmptySeq
  <2>3. IsPrefix(plays, plays \o <<>>)
    BY <1>3, <2>2, PrefixIs
  <2> QED
    BY <2>1, <2>2, <2>3
<1> QED
  BY <1>4, <1>5

\* The entries are played in the order of the tree, as often as their groups loop.
THEOREM OrderHolds == Spec => [](straight = 1 /\ pc \in {"playing", "idle"} => PlayedInOrder)
<1>1. Init => LoopInv
  BY InitOrder
<1>2. LoopInv /\ [Next]_vars => LoopInv'
  <2>1. LoopInv /\ UNCHANGED vars => LoopInv'
    BY OrderStutter DEF LoopInv, vars, tree, history
  <2> QED
    BY <2>1, OrderKept
<1>3. LoopInv => (straight = 1 /\ pc \in {"playing", "idle"} => PlayedInOrder)
  BY OrderTold
<1> QED
  BY <1>1, <1>2, <1>3, PTL DEF Spec

-----------------------------------------------------------------------------
(* Rounds of a shuffled list.                                              *)

Aligned(b, m) == \E k \in Nat : b = k * m
\* The rounds that are over end at b, those of P have been played since.
RoundFrom(q, P, b) ==
    /\ b \in Nat /\ IsFiniteSet(P) /\ b + Cardinality(P) = Len(q)
    /\ \A i \in 1 .. Len(q) : i > b => q[i] \in P
SameRound(i, j, m) == (i - 1) \div m = (j - 1) \div m
NoneTwice(q, m) == \A i, j \in 1 .. Len(q) : i < j /\ SameRound(i, j, m) => q[i] # q[j]
Rounds(q, P, m) ==
    q \in Seq(Nodes) /\ NoneTwice(q, m) /\ \E b \in Nat : Aligned(b, m) /\ RoundFrom(q, P, b)

LEMMA RoundsApart ==
  ASSUME NEW m \in Nat \ {0}, NEW b \in Nat, Aligned(b, m), NEW i \in Nat, NEW j \in Nat,
         1 <= i, i <= b, b < j
  PROVE  ~ SameRound(i, j, m)
<1>1. PICK k \in Nat : b = k * m
  BY DEF Aligned
<1>2. PICK x, y : x = i - 1 /\ y = j - 1
  OBVIOUS
<1>3. x \in Nat /\ y \in Nat /\ x < b /\ b <= y
  BY <1>2
<1>4. PICK u, v : u = x \div m /\ v = y \div m
  OBVIOUS
<1>5. u \in Nat /\ u * m <= x
  BY <1>3, <1>4
<1>6. v \in Nat /\ y < (v + 1) * m
  BY <1>3, <1>4
<1>7. u < k
  <2>1. SUFFICES ASSUME k <= u PROVE FALSE
    BY <1>5
  <2>2. k * m <= u * m
    BY <1>5, <2>1
  <2> QED
    BY <1>1, <1>3, <1>5, <2>2
<1>8. k < v + 1
  <2>1. SUFFICES ASSUME v + 1 <= k PROVE FALSE
    BY <1>6
  <2>2. (v + 1) * m <= k * m
    BY <1>6, <2>1
  <2> QED
    BY <1>1, <1>3, <1>6, <2>2
<1> QED
  BY <1>2, <1>4, <1>5, <1>6, <1>7, <1>8 DEF SameRound

LEMMA RoundsNone ==
  ASSUME NEW m \in Nat \ {0}
  PROVE  Rounds(<<>>, {}, m)
<1>1. <<>> \in Seq(Nodes) /\ Len(<<>>) = 0
  OBVIOUS
<1>2. IsFiniteSet({}) /\ Cardinality({}) = 0
  BY FS_EmptySet
<1>3. Aligned(0, m)
  <2>1. 0 = 0 * m /\ 0 \in Nat
    OBVIOUS
  <2> QED
    BY <2>1 DEF Aligned
<1>4. 1 .. 0 = {}
  OBVIOUS
<1>5. RoundFrom(<<>>, {}, 0)
  BY <1>1, <1>2, <1>4 DEF RoundFrom
<1> QED
  BY <1>1, <1>3, <1>4, <1>5 DEF Rounds, NoneTwice

\* What has not been played in this round yet is played.
LEMMA RoundsOn ==
  ASSUME NEW m \in Nat \ {0}, NEW q, NEW P, Rounds(q, P, m), NEW n \in Nodes, n \notin P
  PROVE  Rounds(Append(q, n), P \cup {n}, m)
<1>1. PICK b \in Nat : Aligned(b, m) /\ RoundFrom(q, P, b)
  BY DEF Rounds
<1>2. q \in Seq(Nodes) /\ NoneTwice(q, m) /\ Len(q) \in Nat
  BY LenProperties DEF Rounds
<1>3. PICK t, l : t = Append(q, n) /\ l = Len(q)
  OBVIOUS
<1>4. /\ t \in Seq(Nodes) /\ Len(t) = l + 1 /\ t[l + 1] = n
      /\ \A i \in 1 .. l : t[i] = q[i]
  BY <1>2, <1>3, AppendProperties
<1>5. /\ IsFiniteSet(P) /\ b + Cardinality(P) = l /\ Cardinality(P) \in Nat
      /\ \A i \in 1 .. l : i > b => q[i] \in P
  BY <1>1, <1>3, FS_CardinalityType DEF RoundFrom
<1>6. IsFiniteSet(P \cup {n}) /\ Cardinality(P \cup {n}) = Cardinality(P) + 1
  BY <1>5, FS_AddElement
<1>7. RoundFrom(t, P \cup {n}, b)
  <2>1. ASSUME NEW i \in 1 .. l + 1, i > b PROVE t[i] \in P \cup {n}
    BY <1>2, <1>3, <1>4, <1>5, <2>1
  <2>2. b + Cardinality(P \cup {n}) = l + 1
    BY <1>5, <1>6
  <2> QED
    BY <1>4, <1>6, <2>1, <2>2 DEF RoundFrom
<1>8. NoneTwice(t, m)
  <2>1. SUFFICES ASSUME NEW i \in 1 .. l + 1, NEW j \in 1 .. l + 1, i < j, SameRound(i, j, m)
                 PROVE  t[i] # t[j]
    BY <1>4 DEF NoneTwice
  <2>2. l \in Nat /\ i \in 1 .. l
    BY <1>2, <1>3, <2>1
  <2>3. CASE j \in 1 .. l
    BY <1>2, <1>3, <1>4, <2>1, <2>2, <2>3 DEF NoneTwice
  <2>4. CASE j = l + 1
    <3>1. i > b
      <4>1. SUFFICES ASSUME i <= b PROVE FALSE
        BY <2>2
      <4>2. i \in Nat /\ j \in Nat /\ 1 <= i /\ b < j
        BY <1>5, <2>2, <2>4
      <4> QED
        BY <1>1, <2>1, <4>1, <4>2, RoundsApart
    <3>2. q[i] \in P
      BY <1>5, <2>2, <3>1
    <3> QED
      BY <1>4, <2>2, <2>4, <3>2
  <2> QED
    BY <2>2, <2>3, <2>4
<1> QED
  BY <1>1, <1>3, <1>4, <1>7, <1>8 DEF Rounds

\* All have been played: the next round begins.
LEMMA RoundsAgain ==
  ASSUME NEW m \in Nat \ {0}, NEW q, NEW P, Rounds(q, P, m), Cardinality(P) = m
  PROVE  Rounds(q, {}, m)
<1>1. PICK b \in Nat : Aligned(b, m) /\ RoundFrom(q, P, b)
  BY DEF Rounds
<1>2. q \in Seq(Nodes) /\ NoneTwice(q, m) /\ Len(q) \in Nat
  BY LenProperties DEF Rounds
<1>3. b + m = Len(q)
  BY <1>1 DEF RoundFrom
<1>4. Aligned(b + m, m)
  <2>1. PICK k \in Nat : b = k * m
    BY <1>1 DEF Aligned
  <2>2. b + m = (k + 1) * m /\ k + 1 \in Nat
    BY <2>1
  <2> QED
    BY <2>2 DEF Aligned
<1>5. RoundFrom(q, {}, b + m)
  <2>1. IsFiniteSet({}) /\ Cardinality({}) = 0
    BY FS_EmptySet
  <2>2. b + m \in Nat /\ (b + m) + 0 = Len(q)
    BY <1>3
  <2>3. \A i \in 1 .. Len(q) : ~ (i > b + m)
    BY <1>2, <1>3
  <2> QED
    BY <2>1, <2>2, <2>3 DEF RoundFrom
<1> QED
  BY <1>2, <1>4, <1>5 DEF Rounds

LEMMA RoundsSoFar ==
  ASSUME NEW q \in Seq(Nodes), NEW n \in Nodes, NEW m, NoneTwice(Append(q, n), m)
  PROVE  NoneTwice(q, m)
<1>1. PICK t, l : t = Append(q, n) /\ l = Len(q)
  OBVIOUS
<1>2. l \in Nat /\ Len(t) = l + 1 /\ \A i \in 1 .. l : t[i] = q[i]
  BY <1>1, AppendProperties, LenProperties
<1>3. \A i \in 1 .. l : i \in 1 .. l + 1
  BY <1>2
<1> QED
  BY <1>1, <1>2, <1>3 DEF NoneTwice

\* There are as many nodes in a sequence without repetitions as it is long.
LEMMA CountedOnce ==
  ASSUME NEW s \in Seq(Nodes), \A i, j \in DOMAIN s : s[i] = s[j] => i = j
  PROVE  IsFiniteSet(Range(s)) /\ Cardinality(Range(s)) = Len(s)
<1>1. Len(s) \in Nat /\ DOMAIN s = 1 .. Len(s)
  BY LenProperties
<1>2. IsFiniteSet(1 .. Len(s)) /\ Cardinality(1 .. Len(s)) = Len(s)
  <2>1. IsFiniteSet(1 .. Len(s)) /\ Cardinality(1 .. Len(s)) = IF 1 > Len(s) THEN 0 ELSE Len(s) - 1 + 1
    BY <1>1, FS_Interval
  <2> QED
    BY <1>1, <2>1
<1>3. s \in Bijection(1 .. Len(s), Range(s))
  <2>1. s \in [1 .. Len(s) -> Range(s)]
    BY <1>1 DEF Range
  <2>2. \A y \in Range(s) : \E i \in 1 .. Len(s) : s[i] = y
    BY <1>1 DEF Range
  <2> QED
    BY <1>1, <2>1, <2>2 DEF Bijection, Injection, Surjection, IsInjective
<1>4. ExistsBijection(1 .. Len(s), Range(s))
  BY <1>3 DEF ExistsBijection
<1> QED
  BY <1>2, <1>4, FS_Bijection

\* The list is shuffled, and holds entries only.
Listing == Range(kids[Root])
Flat ==
    /\ Orderly /\ loops \in [Nodes -> Int] /\ Root \in rnd /\ rnd \subseteq Nodes /\ kids[Root] # <<>>
    /\ \A n \in Listing : files[n] > 0

RoundPlace ==
    /\ pc \in {"step", "down", "returned", "source", "playing", "idle", "quit"}
    /\ pc \in {"step", "down", "returned"} => then \in {"start", "next"}
    /\ pc = "step" => (iter.tree = Root /\ d = 0) \/ iter.tree \in Listing
    /\ pc = "down" => iter.tree = Root
    /\ pc = "returned" => res = "END" \/ (res = "ENTRY" /\ iter.tree \in Listing /\ iter.file = -1)
    /\ pc = "source" => d = 1 /\ iter.tree \in Listing /\ iter.file = -1
    /\ pc = "playing" => iter.tree \in Listing

\* What has been played, and what is about to be.
Found == (pc = "returned" /\ res = "ENTRY") \/ pc = "source"
Heard == IF Found THEN Append(plays, iter.tree) ELSE plays

RoundInv ==
    /\ Flat /\ ~ Trying /\ played \subseteq Listing /\ plays \in Seq(Nodes) /\ iter \in IterOf
    /\ RoundPlace /\ Rounds(Heard, played, Len(kids[Root]))

LEMMA FlatIs ==
  ASSUME Flat
  PROVE  /\ Listing \subseteq Nodes /\ IsFiniteSet(Listing) /\ Cardinality(Listing) = Len(kids[Root])
         /\ Len(kids[Root]) \in Nat \ {0}
         /\ Head(kids[Root]) \in Listing /\ Last(kids[Root]) \in Listing
         /\ \A n \in Listing : /\ parent[n] = Root /\ kids[n] = <<>> /\ Valid[n] /\ Siblings(n) = kids[Root]
                               /\ files[n] \in Nat
         /\ ~ (files[Root] > 0) /\ Valid[Root] /\ Siblings(Root) = <<Root>> /\ parent[Root] \notin rnd
<1>1. PICK s : s = kids[Root]
  OBVIOUS
<1>2. Orderly /\ Root \in Nodes /\ None \notin Nodes /\ s # <<>> /\ parent[Root] = None
  BY <1>1, NodesAre, OrderlyIs DEF Flat
<1>3. s \in Seq(Nodes) /\ Len(s) \in Nat /\ DOMAIN s = 1 .. Len(s) /\ 1 \in DOMAIN s /\ Head(s) = s[1]
  BY <1>1, <1>2, OrderlyIs
<1>4. \A i, j \in DOMAIN s : s[i] = s[j] => i = j
  BY <1>1, <1>2 DEF Orderly
<1>5. IsFiniteSet(Range(s)) /\ Cardinality(Range(s)) = Len(s)
  BY <1>3, <1>4, CountedOnce
<1>6. Range(s) = {s[i] : i \in DOMAIN s}
  BY DEF Range
<1>7. Len(s) \in DOMAIN s /\ Last(s) = s[Len(s)]
  BY <1>3 DEF Last
<1>8. Head(s) \in Range(s) /\ Last(s) \in Range(s)
  BY <1>3, <1>6, <1>7
<1>9. ASSUME NEW n \in Range(s)
      PROVE  n \in Nodes /\ parent[n] = Root /\ kids[n] = <<>> /\ Valid[n] /\ Siblings(n) = s /\ files[n] \in Nat
  <2>1. PICK i \in DOMAIN s : n = s[i]
    BY <1>6, <1>9
  <2>2. n \in Nodes /\ parent[n] = Root /\ Valid[n] /\ Siblings(n) = s
    BY <1>1, <1>2, <2>1, ChildIs
  <2>3. files[n] > 0
    BY <1>1, <1>9 DEF Flat, Listing
  <2>4. kids[n] = <<>> /\ files[n] \in Nat
    BY <1>2, <2>2, <2>3 DEF Orderly
  <2> QED
    BY <2>2, <2>4
<1>10. ~ (files[Root] > 0) /\ Valid[Root]
  BY <1>1, <1>2 DEF Orderly
<1>11. Siblings(Root) = <<Root>> /\ parent[Root] \notin rnd
  BY <1>2 DEF Siblings, Flat
<1>12. Len(s) \in Nat \ {0}
  BY <1>3
<1>13. Listing = Range(s)
  BY <1>1 DEF Listing
<1> QED
  BY <1>1, <1>5, <1>8, <1>9, <1>10, <1>11, <1>12, <1>13

LEMMA FlatSame ==
  ASSUME Flat, UNCHANGED <<parent, kids, files, rnd>>, loops' \in [Nodes -> Int]
  PROVE  Flat' /\ Listing' = Listing
<1>1. Valid' = Valid
  BY DEF Valid
<1>2. Orderly' = Orderly
  BY <1>1 DEF Orderly, Climbs, Linked
<1>3. Listing' = Listing
  BY DEF Listing
<1> QED
  BY <1>2, <1>3 DEF Flat

\* The iterator starts at the root.
LEMMA AtRoot ==
  ASSUME Flat, iter.tree = Root, d = 0
  PROVE  /\ Mode = "normal" /\ ~ NoTarget /\ Remaining = 0
         /\ \A n : Target(n) => n = Root
<1>1. Mode = "normal"
  BY FlatIs DEF Mode
<1>2. PICK s : s = Siblings(iter.tree)
  OBVIOUS
<1>3. s = <<Root>> /\ DOMAIN s = 1 .. 1 /\ s[1] = Root
  BY <1>2, FlatIs
<1>4. Place = 1
  BY <1>2, <1>3 DEF Place, PlaceOf
<1>5. Place + d = 1 /\ 1 \in DOMAIN s
  BY <1>3, <1>4
<1>6. ~ NoTarget
  BY <1>1, <1>2, <1>5 DEF NoTarget
<1>7. \A n : Target(n) => n = Root
  BY <1>1, <1>2, <1>3, <1>5 DEF Target
<1>8. Remaining = 0
  BY DEF Remaining
<1> QED
  BY <1>1, <1>6, <1>7, <1>8

\* From an entry it goes to one that has not been played.
LEMMA AtEntry ==
  ASSUME Flat, iter.tree \in Listing
  PROVE  /\ Mode = "rnd" /\ (NoTarget => Listing \subseteq played)
         /\ \A n : Target(n) => n \in Listing /\ n \notin played
<1>1. parent[iter.tree] = Root /\ Siblings(iter.tree) = kids[Root]
  BY FlatIs
<1>2. Mode = "rnd"
  BY <1>1 DEF Mode, Flat
<1>3. Free = {n \in Listing : n \notin played}
  BY <1>1 DEF Free, Listing
<1> QED
  BY <1>2, <1>3 DEF NoTarget, Target

LEMMA IterTo ==
  ASSUME iter \in IterOf, NEW n \in Nodes, NEW l \in Int
  PROVE  Iter(n, l) \in IterOf /\ Iter(n, l).tree = n /\ Iter(n, l).file = -1
<1>1. PICK e, m, f : e = (IF Trying THEN iter.entry_pushed ELSE 0) /\ m = Mode /\ f = -1
  OBVIOUS
<1>2. e \in {0, 1} /\ m \in {"normal", "rnd"} /\ f \in Int
  BY <1>1 DEF IterOf, Mode
<1> DEFINE i1 == [iter EXCEPT !.tree = n]
           i2 == [i1 EXCEPT !.loop = l]
           i3 == [i2 EXCEPT !.mode = m]
           i4 == [i3 EXCEPT !.file = f]
           i5 == [i4 EXCEPT !.entry_pushed = e]
<1>3. Iter(n, l) = i5
  BY <1>1 DEF Iter
<1>4. i1 \in IterOf /\ i1.tree = n
  BY DEF IterOf
<1> HIDE DEF i1
<1>5. i2 \in IterOf /\ i2.tree = n
  BY <1>4 DEF IterOf
<1> HIDE DEF i2
<1>6. i3 \in IterOf /\ i3.tree = n
  BY <1>2, <1>5 DEF IterOf
<1> HIDE DEF i3
<1>7. i4 \in IterOf /\ i4.tree = n /\ i4.file = f
  BY <1>2, <1>6 DEF IterOf
<1> HIDE DEF i4
<1>8. i5 \in IterOf /\ i5.tree = n /\ i5.file = f
  BY <1>2, <1>7 DEF IterOf
<1> HIDE DEF i5
<1> QED
  BY <1>1, <1>3, <1>8

-----------------------------------------------------------------------------
(* The steps through a shuffled list.                                      *)

LEMMA RoundNext ==
  ASSUME RoundInv, UNCHANGED <<parent, kids, files, rnd, saved>>, loops' \in [Nodes -> Int],
         played' \subseteq Listing, plays' \in Seq(Nodes), iter' \in IterOf, RoundPlace',
         Rounds(Heard', played', Len(kids[Root]))
  PROVE  RoundInv'
<1>1. Flat' /\ Listing' = Listing
  BY FlatSame DEF RoundInv
<1>2. Trying' = Trying
  BY DEF Trying
<1>3. Rounds(Heard, played, Len(kids[Root]))' = Rounds(Heard', played', Len(kids[Root]))
  BY DEF Rounds, RoundFrom, Aligned, NoneTwice, SameRound
<1> QED
  BY <1>1, <1>2, <1>3 DEF RoundInv

\* Nothing but the place of the iterator has changed.
LEMMA RoundSame ==
  ASSUME RoundInv, UNCHANGED <<parent, kids, files, loops, rnd, saved, played, plays>>, iter' \in IterOf,
         RoundPlace', Heard' = Heard
  PROVE  RoundInv'
<1>1. /\ loops' \in [Nodes -> Int] /\ played' \subseteq Listing /\ plays' \in Seq(Nodes)
      /\ Rounds(Heard', played', Len(kids[Root]))
  BY DEF RoundInv, Flat
<1> QED
  BY <1>1, RoundNext

LEMMA StepRounds ==
  ASSUME RoundInv, pc = "step"
  PROVE  /\ Flat /\ ~ Trying /\ iter \in IterOf /\ iter.loop \in Int /\ then \in {"start", "next"}
         /\ iter.tree \in Nodes /\ Heard = plays /\ plays \in Seq(Nodes)
         /\ \/ iter.tree = Root /\ d = 0 /\ Mode = "normal" /\ ~ NoTarget /\ Remaining = 0
            \/ iter.tree \in Listing /\ Mode = "rnd"
<1>1. /\ Flat /\ ~ Trying /\ iter \in IterOf /\ RoundPlace /\ plays \in Seq(Nodes)
  BY DEF RoundInv
<1>2. then \in {"start", "next"} /\ ((iter.tree = Root /\ d = 0) \/ iter.tree \in Listing)
  BY <1>1 DEF RoundPlace
<1>3. iter.loop \in Int
  BY <1>1 DEF IterOf
<1>4. iter.tree \in Nodes
  BY <1>1, <1>2, FlatIs, NodesAre
<1>5. Heard = plays
  BY DEF Heard, Found
<1> QED
  BY <1>1, <1>2, <1>3, <1>4, <1>5, AtRoot, AtEntry

LEMMA StepRandomEndRounds ==
  ASSUME RoundInv, StepRandomEnd
  PROVE  RoundInv'
<1>1. /\ pc = "step" /\ iter' = Iter(iter.tree, iter.loop)
      /\ pc' = "returned" /\ res' = "END" /\ then' = then
      /\ UNCHANGED <<parent, kids, files, loops, rnd, saved, played, plays>>
  BY DEF StepRandomEnd, Step, Result, history, tree
<1>2. /\ iter \in IterOf /\ iter.loop \in Int /\ iter.tree \in Nodes /\ then \in {"start", "next"} /\ Heard = plays
  BY <1>1, StepRounds
<1>3. iter' \in IterOf
  BY <1>1, <1>2, IterTo
<1>4. RoundPlace'
  <2>1. pc' = "returned" /\ res' = "END" /\ then' \in {"start", "next"}
    BY <1>1, <1>2
  <2> QED
    BY <2>1 DEF RoundPlace
<1>5. Heard' = Heard
  BY <1>1, <1>2 DEF Heard, Found
<1> QED
  BY <1>1, <1>3, <1>4, <1>5, RoundSame

\* All have been played: a round is over, and the next one begins with none.
LEMMA StepRandomAgainRounds ==
  ASSUME RoundInv, StepRandomAgain
  PROVE  RoundInv'
<1>1. /\ pc = "step" /\ NoTarget /\ Mode = "rnd" /\ iter' = Iter(iter.tree, iter.loop)
      /\ pc' = "step" /\ then' = then /\ played' = {}
      /\ loops' = [loops EXCEPT ![Root] = IF @ > 0 THEN @ - 1 ELSE @]
      /\ UNCHANGED <<parent, kids, files, rnd, saved, plays>>
  BY DEF StepRandomAgain, Step, Call, history
<1>2. /\ Flat /\ iter \in IterOf /\ iter.loop \in Int /\ iter.tree \in Listing /\ iter.tree \in Nodes
      /\ then \in {"start", "next"} /\ Heard = plays /\ plays \in Seq(Nodes)
  BY <1>1, StepRounds
<1>3. PICK n : n = iter.tree
  OBVIOUS
<1>4. iter' \in IterOf /\ iter'.tree = n
  BY <1>1, <1>2, <1>3, IterTo
<1>5. Flat' /\ Listing' = Listing /\ loops' \in [Nodes -> Int]
  <2>1. loops \in [Nodes -> Int] /\ Root \in Nodes
    BY <1>2, NodesAre DEF Flat
  <2>2. loops' \in [Nodes -> Int]
    BY <1>1, <2>1
  <2> QED
    BY <1>1, <1>2, <2>2, FlatSame
<1>6. RoundPlace'
  BY <1>1, <1>2, <1>3, <1>4, <1>5 DEF RoundPlace
<1>7. Heard' = plays
  BY <1>1 DEF Heard, Found
<1>8. played = Listing
  BY <1>1, <1>2, AtEntry DEF RoundInv
<1>9. Rounds(plays, played, Len(kids[Root]))
  BY <1>2 DEF RoundInv
<1>10. Len(kids[Root]) \in Nat \ {0} /\ Cardinality(played) = Len(kids[Root])
  BY <1>2, <1>8, FlatIs
<1>11. Rounds(plays, {}, Len(kids[Root]))
  <2>1. PICK m : m = Len(kids[Root])
    OBVIOUS
  <2> QED
    BY <1>9, <1>10, <2>1, RoundsAgain
<1> QED
  BY <1>1, <1>2, <1>4, <1>5, <1>6, <1>7, <1>11, RoundNext

LEMMA NotStuck ==
  ASSUME RoundInv
  PROVE  /\ ~ StepLoop /\ ~ StepUp /\ ~ UpEnd /\ ~ Up
         /\ \A n \in Nodes : ~ StepInvalid(n) /\ ~ StepNoFiles(n) /\ (StepGroup(n) => n = Root)
         /\ \A n \in Nodes : StepEntry(n) => n \in Listing /\ n \notin played
<1>1. ~ UpEnd /\ ~ Up
  BY DEF UpEnd, Up, RoundInv, RoundPlace
<1>2. SUFFICES ASSUME pc = "step"
               PROVE  /\ ~ StepLoop /\ ~ StepUp
                      /\ \A n \in Nodes : ~ StepInvalid(n) /\ ~ StepNoFiles(n) /\ (StepGroup(n) => n = Root)
                      /\ \A n \in Nodes : StepEntry(n) => n \in Listing /\ n \notin played
  BY <1>1 DEF StepLoop, StepUp, StepInvalid, StepNoFiles, StepGroup, StepEntry, Enter, Step
<1>3. /\ Flat /\ \/ iter.tree = Root /\ d = 0 /\ Mode = "normal" /\ ~ NoTarget
                 \/ iter.tree \in Listing /\ Mode = "rnd"
  BY <1>2, StepRounds
<1>4. ~ StepLoop /\ ~ StepUp
  BY <1>3 DEF StepLoop, StepUp
<1>5. ASSUME NEW n, Target(n) PROVE n = Root \/ (n \in Listing /\ n \notin played)
  <2>1. CASE iter.tree = Root /\ d = 0
    <3>1. Flat /\ iter.tree = Root /\ d = 0
      BY <1>3, <2>1
    <3>2. \A m : Target(m) => m = Root
      BY <3>1, AtRoot
    <3> QED
      BY <1>5, <3>2
  <2>2. CASE iter.tree \in Listing
    BY <1>3, <1>5, <2>2, AtEntry
  <2> QED
    BY <1>3, <2>1, <2>2
<1>6. Valid[Head(kids[Root])] /\ Valid[Root] /\ ~ (files[Root] > 0)
  BY <1>3, FlatIs
<1>7. \A n \in Listing : Valid[n] /\ kids[n] = <<>>
  BY <1>3, FlatIs
<1>8. ASSUME NEW n \in Nodes PROVE ~ StepInvalid(n)
  BY <1>5, <1>6, <1>7 DEF StepInvalid, play_tree_is_valid
<1>9. ASSUME NEW n \in Nodes PROVE ~ StepNoFiles(n)
  BY <1>5, <1>6, <1>7 DEF StepNoFiles, play_tree_is_valid
<1>10. ASSUME NEW n \in Nodes, StepGroup(n) PROVE n = Root
  BY <1>5, <1>7, <1>10 DEF StepGroup
<1>11. ASSUME NEW n \in Nodes, StepEntry(n) PROVE n \in Listing /\ n \notin played
  <2>1. Target(n) /\ files[n] > 0
    BY <1>11 DEF StepEntry, Enter
  <2> QED
    BY <1>5, <1>6, <2>1
<1> QED
  BY <1>4, <1>8, <1>9, <1>10, <1>11

LEMMA StepGroupRounds ==
  ASSUME RoundInv, NEW n \in Nodes, StepGroup(n)
  PROVE  RoundInv'
<1>1. /\ pc = "step" /\ iter' = Iter(n, iter.loop)
      /\ IF then = "unwind" THEN Result("NODE") ELSE Call("down", Remaining, then)
      /\ UNCHANGED <<parent, kids, files, loops, rnd, saved, played, plays>>
  BY DEF StepGroup, Step, history, tree
<1>2. /\ iter \in IterOf /\ iter.loop \in Int /\ then \in {"start", "next"} /\ Heard = plays /\ n = Root
  BY <1>1, StepRounds, NotStuck
<1>3. pc' = "down" /\ then' = then
  BY <1>1, <1>2 DEF Call
<1>4. iter' \in IterOf /\ iter'.tree = Root
  BY <1>1, <1>2, IterTo
<1>5. RoundPlace'
  BY <1>2, <1>3, <1>4 DEF RoundPlace
<1>6. Heard' = Heard
  BY <1>1, <1>2, <1>3 DEF Heard, Found
<1> QED
  BY <1>1, <1>4, <1>5, <1>6, RoundSame

LEMMA StepEntryRounds ==
  ASSUME RoundInv, NEW n \in Nodes, StepEntry(n)
  PROVE  RoundInv'
<1>1. pc = "step"
  BY DEF StepEntry, Enter, Step
<1>2. /\ Flat /\ iter \in IterOf /\ iter.loop \in Int /\ then \in {"start", "next"} /\ Heard = plays
      /\ plays \in Seq(Nodes) /\ ~ Trying
  BY <1>1, StepRounds
<1>3. n \in Listing /\ n \notin played
  BY NotStuck
<1>4. Mode = "rnd"
  <2>1. n # Root
    BY <1>2, <1>3, FlatIs DEF Flat
  <2>2. Target(n)
    BY DEF StepEntry, Enter
  <2> QED
    BY <1>1, <1>2, <2>1, <2>2, StepRounds, AtRoot
<1>5. /\ iter' = [Iter(n, iter.loop) EXCEPT !.entry_pushed = 1] /\ played' = played \cup {n}
      /\ pc' = "returned" /\ res' = "ENTRY" /\ then' = then
      /\ UNCHANGED <<parent, kids, files, loops, rnd, saved, plays>>
  BY <1>2, <1>4 DEF StepEntry, Enter, Step, Result, Marked, history, tree
<1>6. PICK it : it = Iter(n, iter.loop)
  OBVIOUS
<1>7. it \in IterOf /\ it.tree = n /\ it.file = -1
  BY <1>2, <1>6, IterTo
<1>8. iter' \in IterOf /\ iter'.tree = n /\ iter'.file = -1
  BY <1>5, <1>6, <1>7 DEF IterOf
<1>9. loops' \in [Nodes -> Int] /\ Flat' /\ Listing' = Listing
  <2>1. loops' \in [Nodes -> Int]
    BY <1>2, <1>5 DEF Flat
  <2> QED
    BY <1>2, <1>5, <2>1, FlatSame
<1>10. RoundPlace'
  BY <1>2, <1>3, <1>5, <1>8, <1>9 DEF RoundPlace
<1>11. Heard' = Append(plays, n)
  BY <1>5, <1>8 DEF Heard, Found
<1>12. Rounds(Append(plays, n), played \cup {n}, Len(kids[Root]))
  <2>1. PICK m : m = Len(kids[Root])
    OBVIOUS
  <2>2. m \in Nat \ {0} /\ Rounds(plays, played, m)
    BY <1>2, <2>1, FlatIs DEF RoundInv
  <2> QED
    BY <1>3, <2>1, <2>2, RoundsOn
<1>13. played' \subseteq Listing /\ plays' \in Seq(Nodes)
  BY <1>2, <1>3, <1>5 DEF RoundInv
<1> QED
  BY <1>5, <1>8, <1>9, <1>10, <1>11, <1>12, <1>13, RoundNext

LEMMA DownRounds ==
  ASSUME RoundInv, Down
  PROVE  RoundInv'
<1>1. /\ pc = "down"
      /\ iter' = [iter EXCEPT !.tree = IF d >= 0 THEN Head(kids[@]) ELSE Last(kids[@]),
                              !.stack = Append(@, iter.loop),
                              !.loop  = loops[iter.tree] - 1, !.file = -1]
      /\ pc' = "step" /\ then' = then
      /\ UNCHANGED <<parent, kids, files, loops, rnd, saved, played, plays>>
  BY DEF Down, Call, history, tree
<1>2. /\ Flat /\ iter \in IterOf /\ then \in {"start", "next"} /\ iter.tree = Root /\ loops \in [Nodes -> Int]
  BY <1>1 DEF RoundInv, RoundPlace, Flat
<1>3. PICK n, l, s, f : /\ n = (IF d >= 0 THEN Head(kids[Root]) ELSE Last(kids[Root]))
                        /\ l = loops[Root] - 1 /\ s = Append(iter.stack, iter.loop) /\ f = -1
  OBVIOUS
<1>4. n \in Listing /\ n \in Nodes /\ l \in Int /\ s \in Seq(Int) /\ f \in Int
  <2>1. n \in Listing /\ n \in Nodes
    BY <1>2, <1>3, FlatIs
  <2>2. loops[Root] \in Int
    BY <1>2, NodesAre
  <2>3. iter.stack \in Seq(Int) /\ iter.loop \in Int
    BY <1>2 DEF IterOf
  <2>4. s \in Seq(Int)
    BY <1>3, <2>3, AppendProperties
  <2> QED
    BY <1>3, <2>1, <2>2, <2>4
<1>5. iter' = [iter EXCEPT !.tree = n, !.stack = s, !.loop = l, !.file = f]
  BY <1>1, <1>2, <1>3
<1>6. iter' \in IterOf /\ iter'.tree = n
  <2> DEFINE i1 == [iter EXCEPT !.tree = n]
             i2 == [i1 EXCEPT !.stack = s]
             i3 == [i2 EXCEPT !.loop = l]
             i4 == [i3 EXCEPT !.file = f]
  <2>1. iter' = i4
    BY <1>5
  <2>2. i1 \in IterOf /\ i1.tree = n
    BY <1>2, <1>4 DEF IterOf
  <2> HIDE DEF i1
  <2>3. i2 \in IterOf /\ i2.tree = n
    BY <1>4, <2>2 DEF IterOf
  <2> HIDE DEF i2
  <2>4. i3 \in IterOf /\ i3.tree = n
    BY <1>4, <2>3 DEF IterOf
  <2> HIDE DEF i3
  <2>5. i4 \in IterOf /\ i4.tree = n
    BY <1>4, <2>4 DEF IterOf
  <2> HIDE DEF i4
  <2> QED
    BY <2>1, <2>5
<1>7. Listing' = Listing
  BY <1>1 DEF Listing
<1>8. RoundPlace'
  BY <1>1, <1>2, <1>4, <1>6, <1>7 DEF RoundPlace
<1>9. Heard' = Heard
  BY <1>1 DEF Heard, Found
<1> QED
  BY <1>1, <1>6, <1>8, <1>9, RoundSame

LEMMA FirstEntryRounds ==
  ASSUME RoundInv, FirstEntry
  PROVE  RoundInv'
<1>1. /\ pc = "returned" /\ IF res = "ENTRY" \/ then = "head" THEN NextFile(1) ELSE Free_iter
      /\ UNCHANGED <<parent, kids, files, loops, rnd, saved, played, plays>>
  BY DEF FirstEntry, Returned, tree
<1>2. /\ iter \in IterOf /\ then \in {"start", "next"}
      /\ res = "END" \/ (res = "ENTRY" /\ iter.tree \in Listing /\ iter.file = -1)
  BY <1>1 DEF RoundInv, RoundPlace
<1>3. Listing' = Listing
  BY <1>1 DEF Listing
<1>4. CASE res = "ENTRY"
  <2>1. pc' = "source" /\ d' = 1 /\ iter' = iter
    BY <1>1, <1>4 DEF NextFile, Call
  <2>2. RoundPlace'
    BY <1>2, <1>3, <1>4, <2>1 DEF RoundPlace
  <2>3. Heard' = Heard
    BY <1>1, <1>4, <2>1 DEF Heard, Found
  <2> QED
    BY <1>1, <1>2, <2>1, <2>2, <2>3, RoundSame
<1>5. CASE res = "END"
  <2>1. pc' = "idle" /\ iter' = NoIter
    BY <1>1, <1>2, <1>5 DEF Free_iter
  <2>2. RoundPlace'
    BY <2>1 DEF RoundPlace
  <2>3. Heard' = Heard
    BY <1>1, <1>5, <2>1 DEF Heard, Found
  <2> QED
    BY <1>1, <2>1, <2>2, <2>3, NoIterIs, RoundSame
<1> QED
  BY <1>2, <1>4, <1>5

\* The entry that was found is played.
LEMMA PlayFileRounds ==
  ASSUME RoundInv, straight = 1, PlayFile
  PROVE  RoundInv'
<1>1. /\ pc = "source" /\ pc' = "playing" /\ plays' = Append(plays, iter.tree)
      /\ iter' = [iter EXCEPT !.file = play_tree_iter_get_file(d)]
      /\ UNCHANGED <<parent, kids, files, loops, rnd, saved, played>>
  BY DEF PlayFile, tree
<1>2. /\ Flat /\ iter \in IterOf /\ d = 1 /\ iter.tree \in Listing /\ iter.file = -1 /\ plays \in Seq(Nodes)
  BY <1>1 DEF RoundInv, RoundPlace
<1>3. files[iter.tree] \in Nat /\ iter.tree \in Nodes
  BY <1>2, FlatIs
<1>4. play_tree_iter_get_file(d) \in Int
  BY <1>2, <1>3 DEF play_tree_iter_get_file
<1>5. iter' \in IterOf /\ iter'.tree = iter.tree
  <2>1. PICK f : f = play_tree_iter_get_file(d)
    OBVIOUS
  <2>2. f \in Int /\ iter' = [iter EXCEPT !.file = f]
    BY <1>1, <1>4, <2>1
  <2> QED
    BY <1>2, <2>2 DEF IterOf
<1>6. Listing' = Listing
  BY <1>1 DEF Listing
<1>7. RoundPlace'
  BY <1>1, <1>2, <1>5, <1>6 DEF RoundPlace
<1>8. Heard = Append(plays, iter.tree) /\ Heard' = plays'
  BY <1>1 DEF Heard, Found
<1>9. plays' \in Seq(Nodes)
  <2>1. PICK n : n = iter.tree
    OBVIOUS
  <2> QED
    BY <1>1, <1>2, <1>3, <2>1, AppendProperties
<1>10. Rounds(Heard', played', Len(kids[Root])) /\ loops' \in [Nodes -> Int] /\ played' \subseteq Listing
  BY <1>1, <1>8 DEF RoundInv, Flat
<1> QED
  BY <1>1, <1>5, <1>7, <1>9, <1>10, RoundNext

LEMMA EndOfFileRounds ==
  ASSUME RoundInv, EndOfFile
  PROVE  RoundInv'
<1>1. /\ pc = "playing" /\ pc' = "step" /\ d' = 1 /\ then' = "next" /\ iter' = iter
      /\ UNCHANGED <<parent, kids, files, loops, rnd, saved, played, plays>>
  BY DEF EndOfFile, Call, history, tree
<1>2. iter \in IterOf /\ iter.tree \in Listing
  BY <1>1 DEF RoundInv, RoundPlace
<1>3. Listing' = Listing
  BY <1>1 DEF Listing
<1>4. RoundPlace'
  BY <1>1, <1>2, <1>3 DEF RoundPlace
<1>5. Heard' = Heard
  BY <1>1 DEF Heard, Found
<1> QED
  BY <1>1, <1>2, <1>4, <1>5, RoundSame

LEMMA QuitRounds ==
  ASSUME RoundInv, Quit
  PROVE  RoundInv'
<1>1. /\ pc = "playing" /\ pc' = "quit" /\ iter' = iter
      /\ UNCHANGED <<parent, kids, files, loops, rnd, saved, played, plays>>
  BY DEF Quit, history, tree
<1>2. iter \in IterOf /\ RoundPlace' /\ Heard' = Heard
  BY <1>1 DEF RoundInv, RoundPlace, Heard, Found
<1> QED
  BY <1>1, <1>2, RoundSame

LEMMA NothingRounds ==
  ASSUME RoundInv, UNCHANGED vars
  PROVE  RoundInv'
<1>1. /\ pc' = pc /\ d' = d /\ then' = then /\ res' = res /\ iter' = iter
      /\ UNCHANGED <<parent, kids, files, loops, rnd, saved, played, plays>>
  BY DEF vars, history, tree
<1>2. iter \in IterOf /\ RoundPlace
  BY DEF RoundInv
<1>3. Listing' = Listing
  BY <1>1 DEF Listing
<1>4. RoundPlace'
  BY <1>1, <1>2, <1>3 DEF RoundPlace
<1>5. Heard' = Heard
  BY <1>1 DEF Heard, Found
<1> QED
  BY <1>1, <1>2, <1>4, <1>5, RoundSame

LEMMA OthersRounds ==
  ASSUME RoundInv
  PROVE  ~ NoFile /\ ~ SourceStepped /\ ~ Tried /\ ~ Unwinding /\ ~ Unwound /\ ~ Listed
<1>1. RoundPlace /\ Flat
  BY DEF RoundInv
<1>2. pc = "returned" => then \in {"start", "next"}
  BY <1>1 DEF RoundPlace
<1>3. ~ SourceStepped /\ ~ Tried /\ ~ Unwinding /\ ~ Unwound /\ ~ Listed
  BY <1>2 DEF SourceStepped, Tried, Unwinding, Unwound, Listed, Returned
<1>4. ~ NoFile
  <2>1. SUFFICES ASSUME NoFile PROVE FALSE
    OBVIOUS
  <2>2. pc = "source" /\ play_tree_iter_get_file(d) = -1
    BY <2>1 DEF NoFile
  <2>3. d = 1 /\ iter.file = -1 /\ iter.tree \in Listing
    BY <1>1, <2>2 DEF RoundPlace
  <2>4. files[iter.tree] \in Nat /\ files[iter.tree] > 0
    BY <1>1, <2>3, FlatIs DEF Flat
  <2> QED
    BY <2>2, <2>3, <2>4 DEF play_tree_iter_get_file
<1> QED
  BY <1>3, <1>4

LEMMA RoundKept ==
  ASSUME RoundInv, straight = 1, straight' = 1, Next
  PROVE  RoundInv'
<1>1. CASE Iterating
  <2>1. CASE StepRandomEnd \/ StepRandomAgain \/ Down
    BY <2>1, StepRandomEndRounds, StepRandomAgainRounds, DownRounds
  <2>2. CASE \E n \in Nodes : StepGroup(n) \/ StepInvalid(n) \/ StepNoFiles(n) \/ StepEntry(n)
    BY <2>2, NotStuck, StepGroupRounds, StepEntryRounds
  <2> QED
    BY <1>1, <2>1, <2>2, NotStuck DEF Iterating
<1>2. CASE Player
  BY <1>2, FirstEntryRounds, PlayFileRounds, OthersRounds DEF Player
<1>3. CASE EndOfFile \/ Quit \/ UNCHANGED vars
  BY <1>3, EndOfFileRounds, QuitRounds, NothingRounds
<1> QED
  BY <1>1, <1>2, <1>3, CommandsTurn DEF Next

-----------------------------------------------------------------------------
(* As long as no command was given nothing changes the tree.               *)

Uncommanded == straight = 1 => then \in {"start", "next", "none", "source", "sourceback"}

LEMMA UncommandedKept ==
  ASSUME Uncommanded, Next
  PROVE  Uncommanded'
<1>1. SUFFICES ASSUME straight' = 1 PROVE then' \in {"start", "next", "none", "source", "sourceback"}
  BY DEF Uncommanded
<1>2. straight = 1 /\ then \in {"start", "next", "none", "source", "sourceback"}
  BY <1>1, StraightBefore DEF Uncommanded
<1>3. CASE Iterating
  BY <1>2, <1>3 DEF Iterating, StepRandomEnd, StepRandomAgain, StepLoop, StepUp, StepGroup, StepInvalid,
     StepNoFiles, StepEntry, Enter, UpEnd, Up, Down, Call, Result
<1>4. CASE Player
  <2>1. CASE FirstEntry
    BY <2>1 DEF FirstEntry, NextFile, Free_iter, Call
  <2>2. CASE PlayFile \/ NoFile
    BY <2>2 DEF PlayFile, NoFile, Call
  <2>3. CASE SourceStepped
    BY <2>3 DEF SourceStepped, NextFile, Free_iter, Call
  <2>4. ~ Tried /\ ~ Unwinding /\ ~ Unwound /\ ~ Listed
    BY <1>2 DEF Tried, Unwinding, Unwound, Listed, Returned
  <2> QED
    BY <1>4, <2>1, <2>2, <2>3, <2>4 DEF Player
<1>5. CASE EndOfFile \/ Quit \/ UNCHANGED vars
  BY <1>2, <1>5 DEF EndOfFile, Quit, Call, vars
<1> QED
  BY <1>1, <1>3, <1>4, <1>5, CommandsTurn DEF Next

LEMMA TreeKept ==
  ASSUME Uncommanded, Next, straight' = 1
  PROVE  UNCHANGED <<kids, files>>
<1>1. straight = 1 /\ then \in {"start", "next", "none", "source", "sourceback"}
  BY StraightBefore DEF Uncommanded
<1>2. CASE Iterating
  BY <1>2 DEF Iterating, StepRandomEnd, StepRandomAgain, StepLoop, StepUp, StepGroup, StepInvalid,
     StepNoFiles, StepEntry, Enter, UpEnd, Up, Down, tree
<1>3. CASE Player
  <2>1. ~ Tried /\ ~ Unwinding /\ ~ Unwound /\ ~ Listed
    BY <1>1 DEF Tried, Unwinding, Unwound, Listed, Returned
  <2> QED
    BY <1>3, <2>1 DEF Player, FirstEntry, PlayFile, NoFile, SourceStepped, tree
<1>4. CASE EndOfFile \/ Quit \/ UNCHANGED vars
  BY <1>4 DEF EndOfFile, Quit, vars, tree
<1> QED
  BY <1>2, <1>3, <1>4, CommandsTurn DEF Next

Shuffled == Root \in rnd /\ \A i \in DOMAIN kids[Root] : files[kids[Root][i]] > 0

RoundsInv == Uncommanded /\ (straight = 1 /\ Shuffled => RoundInv)

LEMMA RoundsKept ==
  ASSUME RoundsInv, Next
  PROVE  RoundsInv'
<1>1. Uncommanded'
  BY UncommandedKept DEF RoundsInv
<1>2. SUFFICES ASSUME straight' = 1, Shuffled' PROVE RoundInv'
  BY <1>1 DEF RoundsInv
<1>3. straight = 1 /\ UNCHANGED <<kids, files, rnd>>
  BY <1>2, StraightBefore, TreeKept, NoShuffle DEF RoundsInv
<1>4. Shuffled
  BY <1>2, <1>3 DEF Shuffled
<1> QED
  BY <1>2, <1>3, <1>4, RoundKept DEF RoundsInv

LEMMA RoundsStutter ==
  ASSUME RoundsInv, UNCHANGED vars
  PROVE  RoundsInv'
<1>1. straight' = straight /\ then' = then /\ UNCHANGED <<kids, files, rnd>>
  BY DEF vars, tree, history
<1>2. Uncommanded' /\ Shuffled' = Shuffled
  BY <1>1 DEF RoundsInv, Uncommanded, Shuffled
<1> QED
  BY <1>1, <1>2, NothingRounds DEF RoundsInv

LEMMA InitRounds ==
  ASSUME Init
  PROVE  RoundsInv
<1>1. /\ iter = play_tree_iter_new /\ saved = NoIter /\ pc = "step" /\ d = 0 /\ then = "start" /\ plays = <<>>
      /\ played = {} /\ rnd \in IF Shuffles THEN SUBSET Groups ELSE {{}}
  BY DEF Init
<1>2. Uncommanded
  BY <1>1 DEF Uncommanded
<1>3. SUFFICES ASSUME Shuffled PROVE RoundInv
  BY <1>2 DEF RoundsInv
<1>4. Planted /\ Orderly
  BY InitTree, InitOrderly
<1>5. Root \in rnd /\ rnd \subseteq Groups
  BY <1>1, <1>3 DEF Shuffled
<1>6. Flat
  <2>1. rnd \subseteq Nodes /\ kids[Root] # <<>>
    BY <1>5 DEF Groups
  <2>2. loops \in [Nodes -> Int]
    BY <1>4 DEF Planted
  <2>3. PICK s : s = kids[Root]
    OBVIOUS
  <2>4. \A n \in Range(s) : files[n] > 0
    BY <1>3, <2>3 DEF Shuffled, Range
  <2> QED
    BY <1>4, <1>5, <2>1, <2>2, <2>3, <2>4 DEF Flat, Listing
<1>7. iter \in IterOf /\ iter.tree = Root
  <2>1. PICK it : it = NoIter
    OBVIOUS
  <2>2. it \in IterOf /\ iter = [it EXCEPT !.tree = Root]
    BY <1>1, <2>1, NoIterIs DEF play_tree_iter_new
  <2> QED
    BY <2>2, NodesAre DEF IterOf
<1>8. RoundPlace
  BY <1>1, <1>7 DEF RoundPlace
<1>9. Rounds(Heard, played, Len(kids[Root]))
  <2>1. PICK m : m = Len(kids[Root])
    OBVIOUS
  <2>2. m \in Nat \ {0} /\ Heard = <<>>
    BY <1>1, <1>6, <2>1, FlatIs DEF Heard, Found
  <2> QED
    BY <1>1, <2>1, <2>2, RoundsNone
<1>10. ~ Trying /\ played \subseteq Listing /\ plays \in Seq(Nodes)
  BY <1>1 DEF Trying
<1> QED
  BY <1>6, <1>7, <1>8, <1>9, <1>10 DEF RoundInv

LEMMA RoundsTold ==
  ASSUME RoundsInv, straight = 1
  PROVE  RoundsComplete
<1>1. CASE ~ Shuffled
  BY <1>1 DEF Shuffled, RoundsComplete
<1>2. CASE Shuffled
  <2>1. RoundInv
    BY <1>2 DEF RoundsInv
  <2>2. PICK m : m = Len(kids[Root])
    OBVIOUS
  <2>3. /\ Flat /\ plays \in Seq(Nodes) /\ NoneTwice(Heard, m) /\ RoundPlace
    BY <2>1, <2>2 DEF RoundInv, Rounds
  <2>4. NoneTwice(plays, m)
    <3>1. CASE Found
      <4>1. PICK n : n = iter.tree
        OBVIOUS
      <4>2. n \in Nodes /\ Heard = Append(plays, n)
        <5>1. n \in Listing
          BY <2>3, <3>1, <4>1 DEF Found, RoundPlace
        <5> QED
          BY <2>3, <3>1, <4>1, <5>1, FlatIs DEF Heard
      <4> QED
        BY <2>3, <4>2, RoundsSoFar
    <3>2. CASE ~ Found
      BY <2>3, <3>2 DEF Heard
    <3> QED
      BY <3>1, <3>2
  <2>5. DOMAIN plays = 1 .. Len(plays)
    BY <2>3, LenProperties
  <2> QED
    BY <2>2, <2>4, <2>5 DEF RoundsComplete, NoneTwice, SameRound
<1> QED
  BY <1>1, <1>2

\* Played forward, the entries come in the order of the tree, as often as their groups loop, and a
\* shuffled list plays each of its entries once in every round.
THEOREM LoopsHold == Spec => []LoopsAsTold
<1>1. Init => LoopInv /\ RoundsInv
  BY InitOrder, InitRounds
<1>2. LoopInv /\ RoundsInv /\ [Next]_vars => (LoopInv /\ RoundsInv)'
  <2>1. LoopInv /\ UNCHANGED vars => LoopInv'
    BY OrderStutter DEF LoopInv, vars, tree, history
  <2>2. RoundsInv /\ UNCHANGED vars => RoundsInv'
    BY RoundsStutter
  <2> QED
    BY <2>1, <2>2, OrderKept, RoundsKept
<1>3. LoopInv /\ RoundsInv => LoopsAsTold
  BY OrderTold, RoundsTold DEF LoopsAsTold
<1> QED
  BY <1>1, <1>2, <1>3, PTL DEF Spec

=============================================================================
