---------------------------- MODULE OptionLists ----------------------------
(***************************************************************************)
(* Options whose values are lists (m_option.c): of strings (-af), and of    *)
(* objects with arguments (-vf).  Such a value is made of blocks that one   *)
(* owner frees: the variable of the program, or one of the slots m_config.c *)
(* keeps for it, a slot for the default and one for each level.             *)
(*                                                                         *)
(* An element is its block and what is written in it.  A parameter is a     *)
(* sequence of characters, in which "b" is a backslash; "x" is an object    *)
(* that does not exist.                                                    *)
(***************************************************************************)
EXTENDS Integers, Sequences, SequencesExt, FiniteSetsExt

CONSTANTS
    Params,      \* what lists are set to
    Indices,     \* what is deleted: sequences of indices
    MaxOps, MaxLevels
VARIABLES
    type,        \* "strings" or "objects"
    var,         \* the variable
    slots,       \* the slots, the current one last
    live,        \* blocks that are allocated
    bad_free,    \* something was freed that is not
    told,        \* history: what the list should be at each level
    spoilt,      \* history: a list of objects was "refused", or is left with the marker ("marked")
    ops
listVars == <<type, var, slots, live, bad_free, told, spoilt, ops>>

Texts(l) == [i \in DOMAIN l |-> l[i].text]
Blocks(l) == [i \in DOMAIN l |-> l[i].block]
Held == Range(Blocks(var)) \cup UNION {Range(Blocks(slots[i])) : i \in DOMAIN slots}
NoNumber == 1000    \* an index that is not a number
Ascending(S) == [i \in 1..Cardinality(S) |-> CHOOSE n \in S : Cardinality({m \in S : m <= n}) = i]
Marker == [block |-> -1, text |-> <<"removed">>]

-----------------------------------------------------------------------------
(* The heap.  h is what is live and whether something went wrong.           *)

Heap == [live |-> live, bad |-> bad_free]
\* free() of the blocks of a sequence, one after the other
Freed(h, blocks) ==
    FoldLeft(LAMBDA g, b : [live |-> g.live \ {b}, bad |-> g.bad \/ b \notin g.live], h, blocks)
\* n blocks that nobody refers to, a dangling pointer least of all
FreshBlocks(h, n, taken) ==
    LET used == h.live \cup taken
    IN SubSeq(Ascending((1..Cardinality(used) + n) \ used), 1, n)
\* The list with blocks of their own for the elements that have none
Stored(h, l, taken) ==
    LET new   == {i \in DOMAIN l : l[i].block = 0}
        fresh == FreshBlocks(h, Cardinality(new), taken)
    IN [i \in DOMAIN l |-> IF i \notin new THEN l[i]
                           ELSE [l[i] EXCEPT !.block = fresh[Cardinality({j \in new : j <= i})]]]
New(texts) == [i \in DOMAIN texts |-> [block |-> 0, text |-> texts[i]]]
With(h, l) == [h EXCEPT !.live = @ \cup (Range(Blocks(l)) \ {Marker.block})]
\* copy_str_list, copy_obj_settings_list: dst is freed, src duplicated
Copy(h, dst, src, taken) ==
    LET g == Freed(h, Blocks(dst))
        l == Stored(g, New(Texts(src)), taken)
    IN [h |-> With(g, l), l |-> l]

-----------------------------------------------------------------------------
(* Parsing                                                                  *)

\* get_nextsep: a comma behind a backslash is part of the element
Pieces(param) ==
    FoldLeft(LAMBDA p, c :
               LET cur == Last(p)
               IN IF c # "," THEN Append(Front(p), Append(cur, c))
                  ELSE IF cur # <<>> /\ Last(cur) = "b" THEN Append(Front(p), Append(Front(cur), ","))
                  ELSE Append(p, <<>>),
             << <<>> >>, param)
\* A list of objects does not end with an empty one.
Objects(param) == IF Last(Pieces(param)) = <<>> THEN Front(Pieces(param)) ELSE Pieces(param)
Elements(param) == IF type = "strings" THEN Pieces(param) ELSE Objects(param)
Unknown(param) == type = "objects" /\ \E i \in DOMAIN Objects(param) : Objects(param)[i] \in {<<>>, <<"x">>}

\* The place an index stands for, 0 for none; objects are counted from either end
Place(l, idx) ==
    IF idx >= Len(l) THEN 0
    ELSE IF idx >= 0 THEN idx + 1
    ELSE IF type = "objects" /\ idx >= -Len(l) THEN Len(l) + idx + 1 ELSE 0
Without(l, places) == LET kept == Ascending(DOMAIN l \ places) IN [i \in DOMAIN kept |-> l[kept[i]]]
\* str_list_del skips what is no index; obj_settings_list_del stops there, and what it has
\* freed by then stays in the list under the name of a marker
Before(l, idxs) ==
    LET bad == {i \in DOMAIN idxs : idxs[i] = NoNumber}
    IN IF type = "objects" /\ bad # {} THEN SubSeq(idxs, 1, Min(bad) - 1) ELSE idxs
Places(l, idxs) ==
    SelectSeq([i \in DOMAIN Before(l, idxs) |-> Place(l, Before(l, idxs)[i])], LAMBDA p : p # 0)
\* The blocks freed: an object that is deleted twice has the marker for its name the second time
Deleted(l, places) ==
    [i \in DOMAIN places |->
       IF type = "objects" /\ \E j \in 1..i - 1 : places[j] = places[i] THEN Marker.block ELSE l[places[i]].block]
DistinctPlaces(s) == {i \in DOMAIN s : \A j \in 1..i - 1 : s[j] # s[i]}
\* Seeded error: it is not noted that an element is gone.
OnceOrMore(places) == places
\* An element that is gone is not there to be freed again.
Once(places) == LET firsts == Ascending(DistinctPlaces(places))
                IN [i \in DOMAIN firsts |-> places[firsts[i]]]

\* What parse leaves in the slot: the heap, the list, and whether it succeeded
Result(g, l, ok) == [h |-> With(g, l), l |-> l, ok |-> ok, freed |-> {}]
ParseSet(h, l, param) ==
    LET g == Freed(h, Blocks(l))
    IN IF Unknown(param) THEN Result(g, <<>>, FALSE)
       ELSE Result(g, Stored(g, New(Elements(param)), Held), TRUE)
ParseAdd(h, l, param, pre) ==
    LET new == Stored(h, New(Elements(param)), Held)
    IN IF Unknown(param) THEN Result(h, l, FALSE)
       ELSE Result(h, IF pre THEN new \o l ELSE l \o new, TRUE)
ParseDel(h, l, idxs) ==
    LET stopped == type = "objects" /\ l # <<>> /\ NoNumber \in Range(idxs)
        places  == IF type = "strings" THEN Once(Places(l, idxs)) ELSE Places(l, idxs)
        g       == Freed(h, Deleted(l, places))
    IN IF stopped
       THEN Result(g, [i \in DOMAIN l |-> IF i \in Range(places) THEN Marker ELSE l[i]], FALSE)
       ELSE [Result(g, Without(l, Range(places)), TRUE) EXCEPT !.freed = Range(Deleted(l, places))]
ParseClr(h, l) == Result(Freed(h, Blocks(l)), <<>>, TRUE)

-----------------------------------------------------------------------------
(* m_config.c                                                               *)

Slot == Last(slots)
Store(h) == live' = h.live /\ bad_free' = h.bad
\* m_config_parse_option: parsed into the slot, and copied from it when that succeeded
Parse(r, expected) ==
    /\ ops < MaxOps /\ ops' = ops + 1
    /\ slots' = Append(Front(slots), r.l)
    /\ IF r.ok THEN LET c == Copy(r.h, var, r.l, Held \cup Range(Blocks(r.l)))
                    IN var' = c.l /\ Store(c.h)
       ELSE UNCHANGED var /\ Store(r.h)
    /\ told' = (IF r.ok THEN Append(Front(told), expected) ELSE told)
    /\ spoilt' = (IF spoilt = "marked" \/ Marker \in Range(r.l) \/ Marker.block \in r.freed THEN "marked"
                   ELSE IF ~r.ok /\ type = "objects" THEN "refused" ELSE spoilt)
    /\ UNCHANGED type
Now == Last(told)
Set == \E p \in Params : Parse(ParseSet(Heap, Slot, p), Elements(p))
Add == \E p \in Params : Parse(ParseAdd(Heap, Slot, p, FALSE), Now \o Elements(p))
Pre == \E p \in Params : Parse(ParseAdd(Heap, Slot, p, TRUE), Elements(p) \o Now)
Del == \E idxs \in Indices :
         LET places == {i \in 1..Len(Now) : (i - 1) \in Range(idxs)
                           \/ (type = "objects" /\ (i - 1 - Len(Now)) \in Range(idxs))}
         IN Parse(ParseDel(Heap, Slot, idxs), Without(Now, places))
Clr == Parse(ParseClr(Heap, Slot), <<>>)

\* m_config_push: the slot takes the value of the variable, and a new one is a copy of it
m_config_push ==
    /\ Len(slots) < MaxLevels /\ ops < MaxOps /\ ops' = ops + 1
    /\ LET saved == Copy(Heap, Slot, var, Held)
           new   == Copy(saved.h, <<>>, saved.l, Held \cup Range(Blocks(saved.l)))
       IN slots' = Front(slots) \o <<saved.l, new.l>> /\ Store(new.h)
    /\ told' = Append(told, Now)
    /\ UNCHANGED <<type, var, spoilt>>
\* Seeded error: the variable takes over the slot that is left.
PopKeeping == [h |-> Freed(Heap, Blocks(var)), l |-> Slot]
Popped == Copy(Freed(Heap, Blocks(Slot)), var, slots[Len(slots) - 1], Held)
m_config_pop ==
    /\ Len(slots) > 2
    /\ slots' = Front(slots) /\ var' = Popped.l /\ Store(Popped.h)
    /\ told' = Front(told)
    /\ UNCHANGED <<type, spoilt, ops>>

\* m_config_add_option: the default is static; the variable gets a copy that may be freed
Init ==
    /\ type \in {"strings", "objects"}
    /\ \E default \in {<<>>, << <<"a">> >>} :
         LET first  == Stored([live |-> {}, bad |-> FALSE], New(default), {})
             dynamic == Copy([live |-> Range(Blocks(first)), bad |-> FALSE], <<>>, first, {})
             second == Copy(dynamic.h, <<>>, first, {})
         IN /\ slots = <<first, second.l>> /\ var = dynamic.l /\ live = second.h.live
            /\ told = <<default, default>>
    /\ bad_free = FALSE /\ spoilt = "no" /\ ops = 0
Next == Set \/ Add \/ Pre \/ Del \/ Clr \/ m_config_push \/ m_config_pop
Spec == Init /\ [][Next]_listVars

-----------------------------------------------------------------------------
(* Properties                                                               *)

\* However lists are set, changed, saved and restored, each block belongs to one of them and is
\* freed once, by it; of a list of strings none is forgotten either.  Left out are lists of
\* objects where -del was given an index twice or none: the marker is freed like a name.
ListsOwned == spoilt # "marked" =>
    /\ ~bad_free
    /\ Held \subseteq live
    /\ Cardinality(Held) = Len(var) + FoldLeft(LAMBDA n, l : n + Len(l), 0, slots)
    /\ type = "strings" => live = Held
\* At each level the list is what the options given there made of the one outside, and the
\* one outside comes back at the end of the level; unless a list of objects was refused, which
\* empties the slot that the next one adds to.
ListAsTold == spoilt = "no" => Texts(var) = Last(told) /\ Texts(Slot) = Last(told)
\* The two together
ListsTrue == ListsOwned /\ ListAsTold
=============================================================================
