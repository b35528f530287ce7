------------------------------ MODULE PlayTree ------------------------------
(***************************************************************************)
(* The play tree, its iterator (playtree.c) and the levels of option       *)
(* values the iterator pushes and pops (m_config.c), as the player and its *)
(* commands use them (mplayer.c, command.c).                               *)
(*                                                                         *)
(* A tree is made of groups and entries; an entry has files, the sources   *)
(* the player tries in turn.  A group may loop and may be shuffled; groups *)
(* and entries may set options.  The functions of the iterator call each   *)
(* other in tail position: every call is an action, and what the caller    *)
(* does with the result is the action of the caller (then).                *)
(***************************************************************************)
EXTENDS Integers, Sequences, SequencesExt

CONSTANTS
    Size,       \* nodes of the tree the command line makes
    Spare,      \* bound: nodes that commands add
    Loops,      \* how often groups may loop, apart from never and for ever
    Shuffles,   \* may groups be shuffled?
    Sources,    \* entries of the command line with a second file
    Params,     \* nodes of the command line with params that set the option,
    Aliases,    \* those that set it by its second name (as -nofs does for -fs)
    Edits,      \* what changes the tree: "append", "load", "list", "bad"
    MaxMoves,   \* bound: commands of the user
    MaxPlays    \* bound: entries played in a row

ASSUME TreeAssumption ==
    /\ Size \in Nat /\ Size >= 2 /\ Spare \in Nat /\ Loops \subseteq Nat \ {0}
    /\ Shuffles \in BOOLEAN
    /\ Params \subseteq 1 .. Size - 1 /\ Aliases \subseteq Params
    /\ Sources \subseteq 1 .. Size - 1 /\ MaxMoves \in Nat /\ MaxPlays \in Nat \ {0}
    /\ Edits \subseteq {"append", "load", "list", "bad"}

Root  == 0
Nodes == 0 .. Size + Spare - 1
None  == -1
Forever == -1       \* loop, as the parser sets it for "-loop 0"

VARIABLES
    parent, kids,   \* of each node; its children are in order
    files,      \* how many files an entry has, 0 for a group
    loops,      \* the field loop of a node
    rnd,        \* nodes with PLAY_TREE_RND
    played,     \* nodes with PLAY_TREE_RND_PLAYED
    own,        \* the option value among the params of a node, or None
    byAlias,    \* nodes that set it by its second name
    fresh,      \* nodes from here on are not in use yet
    config,     \* m_config_t: the level, the option and its saved values
    iter,       \* mpctx->playtree_iter
    saved,      \* the iterator, while a command tries its step on a copy
    pc, d, then, res, old,
    promised,   \* 1 if a command's trial step found an entry
    plays,      \* the entries played, while the player only went forward
    straight,   \* 1 as long as it did
    touched,    \* 1 if the option was changed since the entry was started
    moves

tree    == <<parent, kids, files, loops, rnd, own, byAlias, fresh>>
history == <<promised, plays, straight, touched, moves>>
vars    == <<tree, played, config, iter, saved, pc, d, then, res, old, history>>

Groups  == {n \in Nodes : kids[n] # <<>>}
Siblings(n) == IF parent[n] = None THEN <<n>> ELSE kids[parent[n]]

\* Does the node lead to an entry?
Valid[n \in Nodes] == files[n] > 0 \/ \E i \in DOMAIN kids[n] : Valid[kids[n][i]]
play_tree_is_valid(n) == Valid[n]

-----------------------------------------------------------------------------
(* m_config.c: an option, its value, and the values saved at each level.   *)

BaseValue == 0
Touch     == Size + Spare   \* the value a command gives the option
Slot(l, v) == [lvl |-> l, value |-> v]

BaseConfig == [lvl   |-> 1, value |-> BaseValue,
               slots |-> <<Slot(0, BaseValue), Slot(1, BaseValue)>>]

m_config_push(c) ==
    [lvl   |-> c.lvl + 1, value |-> c.value,
     slots |-> Append(Front(c.slots) \o <<Slot(Last(c.slots).lvl, c.value)>>,
                      Slot(c.lvl + 1, c.value))]

\* The slots that are left when those of the level are popped.
Below(c) == SubSeq(c.slots, 1, Max({0} \cup {i \in DOMAIN c.slots : c.slots[i].lvl < c.lvl}))

\* Seeded error: the value stays what it was.
m_config_pop_keeping(c) == [lvl |-> c.lvl - 1, value |-> c.value, slots |-> Below(c)]

m_config_pop(c) ==
    LET left == Below(c) IN
    [lvl   |-> c.lvl - 1,
     value |-> IF left = c.slots THEN c.value ELSE Last(left).value,
     slots |-> left]

m_config_set_option(c, v) ==
    [c EXCEPT !.value = v, !.slots = Front(@) \o <<Slot(Last(@).lvl, v)>>]

\* A second name has the slot the option had when the name was registered.
m_config_set_alias(c, v) == [c EXCEPT !.value = v, !.slots[2].value = v]

play_tree_iter_push_params(c, n) ==
    LET pushed == m_config_push(c) IN
    IF own[n] = None THEN pushed
    ELSE IF n \in byAlias THEN m_config_set_alias(pushed, own[n])
    ELSE m_config_set_option(pushed, own[n])

-----------------------------------------------------------------------------
NoIter == [tree |-> None, loop |-> 0, stack |-> <<>>, entry_pushed |-> 0,
           mode |-> "normal", file |-> -1]
play_tree_iter_new == [NoIter EXCEPT !.tree = Root]

\* Children are numbered one after the other.
KidsOf(n) ==
    LET of == {m \in 1 .. Size - 1 : parent[m] = n} IN
    IF of = {} THEN <<>> ELSE [i \in 1 .. Max(of) - Min(of) + 1 |-> Min(of) + i - 1]

\* The trees m_config_parse_mp_command_line makes and play_tree_cleanup leaves:
\* every leaf is an entry, and the root has no params.
Init ==
    /\ parent \in [Nodes -> -1 .. Size - 2]
    /\ \A n \in Nodes : IF n \in 1 .. Size - 1 THEN 0 <= parent[n] /\ parent[n] < n
                                                ELSE parent[n] = None
    /\ \A n \in 2 .. Size - 1 : parent[n - 1] <= parent[n]
    /\ kids = [n \in Nodes |-> KidsOf(n)]
    /\ files = [n \in Nodes |-> IF kids[n] # <<>> \/ n >= Size THEN 0
                                ELSE IF n \in Sources THEN 2 ELSE 1]
    /\ \E l \in [0 .. Size - 2 -> Loops \cup {0, Forever}] :
         loops = [n \in Nodes |-> IF kids[n] # <<>> THEN l[n] ELSE 0]
    /\ rnd \in IF Shuffles THEN SUBSET Groups ELSE {{}}
    /\ own = [n \in Nodes |-> IF n \in Params THEN n ELSE None] /\ byAlias = Aliases
    /\ played = {} /\ fresh = Size
    /\ config = BaseConfig
    /\ iter = play_tree_iter_new /\ saved = NoIter
    /\ pc = "step" /\ d = 0 /\ then = "start" /\ res = "none" /\ old = None
    /\ promised = 0 /\ plays = <<>> /\ straight = 1 /\ touched = 0 /\ moves = 0

Call(function, dir, caller) ==
    pc' = function /\ d' = dir /\ then' = caller /\ res' = "none"

Result(r) == pc' = "returned" /\ res' = r /\ UNCHANGED <<d, then>>

\* A copy of the iterator has no config.
Trying == saved # NoIter

-----------------------------------------------------------------------------
(* play_tree_iter_step *)

Popped == IF iter.entry_pushed = 1 /\ ~Trying THEN m_config_pop(config) ELSE config

Mode == IF parent[iter.tree] \in rnd THEN "rnd" ELSE "normal"

PlaceOf(n) == CHOOSE i \in DOMAIN Siblings(n) : Siblings(n)[i] = n
Place == PlaceOf(iter.tree)

\* Where play_tree_rnd_step may go.
Free == {n \in Range(Siblings(iter.tree)) : n \notin played}

Target(n) ==
    IF Mode = "rnd" THEN n \in Free
    ELSE /\ Place + d \in DOMAIN Siblings(iter.tree)
         /\ n = Siblings(iter.tree)[Place + d]

NoTarget == IF Mode = "rnd" THEN Free = {}
            ELSE Place + d \notin DOMAIN Siblings(iter.tree)

\* What is left of d when the siblings have been counted off, 1 or -1 at least.
Remaining ==
    LET len  == Len(Siblings(iter.tree))
        left == IF d > 0 THEN d - (len - Place + 1) ELSE d + Place
    IN IF d = 0 \/ Mode = "rnd" THEN d
       ELSE IF NoTarget /\ left # 0 THEN left
       ELSE IF d > 0 THEN 1 ELSE -1

\* The iterator after the head of the function, at node n with loop counter l.
Iter(n, l) ==
    [iter EXCEPT !.tree = n, !.loop = l, !.mode = Mode, !.file = -1,
                 !.entry_pushed = IF Trying THEN @ ELSE 0]

Step == pc = "step" /\ UNCHANGED <<saved, old, history>>

StepRandomEnd ==
    /\ Step /\ NoTarget /\ Mode = "rnd" /\ loops[Root] = 0
    /\ iter' = Iter(iter.tree, iter.loop) /\ config' = Popped
    /\ Result("END")
    /\ UNCHANGED <<tree, played>>

\* Seeded error: the flags are not cleared.
StepRandomKept ==
    /\ Step /\ NoTarget /\ Mode = "rnd" /\ loops[Root] # 0
    /\ loops' = [loops EXCEPT ![Root] = IF @ > 0 THEN @ - 1 ELSE @]
    /\ iter' = Iter(iter.tree, iter.loop) /\ config' = Popped
    /\ Call("step", 0, then)
    /\ UNCHANGED <<parent, kids, files, rnd, own, byAlias, fresh, played>>

\* All have been played: they are free again, as often as the root loops.
StepRandomAgain ==
    /\ Step /\ NoTarget /\ Mode = "rnd" /\ loops[Root] # 0
    /\ played' = {}
    /\ loops' = [loops EXCEPT ![Root] = IF @ > 0 THEN @ - 1 ELSE @]
    /\ iter' = Iter(iter.tree, iter.loop) /\ config' = Popped
    /\ Call("step", 0, then)
    /\ UNCHANGED <<parent, kids, files, rnd, own, byAlias, fresh>>

\* Seeded error: a group that has been left is looped once more.
LoopsBackOnce(l, dir) ==
    /\ parent[iter.tree] # None
    /\ LET total == loops[parent[iter.tree]] IN
         /\ total # 0
         /\ \/ dir > 0
            \/ dir < 0 /\ (l < 0 \/ l < total)

LoopsBack(l, dir) ==
    /\ parent[iter.tree] # None
    /\ LET total == loops[parent[iter.tree]] IN
         /\ total # 0
         /\ \/ dir > 0 /\ l # 0
            \/ dir < 0 /\ (l < 0 \/ l < total)

StepLoop ==
    /\ Step /\ NoTarget /\ Mode = "normal"
    /\ LoopsBack(iter.loop, Remaining)
    /\ iter' = IF Remaining > 0
               THEN Iter(Head(Siblings(iter.tree)),
                         IF iter.loop > 0 THEN iter.loop - 1 ELSE iter.loop)
               ELSE Iter(Last(Siblings(iter.tree)),
                         IF iter.loop >= 0 THEN iter.loop + 1 ELSE iter.loop)
    /\ config' = Popped
    /\ Call("step", 0, then)
    /\ UNCHANGED <<tree, played>>

StepUp ==
    /\ Step /\ NoTarget /\ Mode = "normal"
    /\ ~LoopsBack(iter.loop, Remaining)
    /\ iter' = Iter(iter.tree, iter.loop) /\ config' = Popped
    /\ Call("up", Remaining, then)
    /\ UNCHANGED <<tree, played>>

\* Only the loop that goes back to the root stops on groups.
StepGroup(n) ==
    /\ Step /\ Target(n)
    /\ kids[n] # <<>> /\ play_tree_is_valid(Head(kids[n]))
    /\ iter' = Iter(n, iter.loop) /\ config' = Popped
    /\ IF then = "unwind" THEN Result("NODE") ELSE Call("down", Remaining, then)
    /\ UNCHANGED <<tree, played>>

\* "Not a valid entry : go to next one", but from the same place.
StepInvalid(n) ==
    /\ Step /\ Target(n)
    /\ ~play_tree_is_valid(n)
    /\ iter' = Iter(iter.tree, iter.loop) /\ config' = Popped
    /\ IF Remaining = 0 THEN Result("ERROR")
       ELSE IF Remaining = d /\ Mode = "normal" THEN Call("endless", d, then)
       ELSE Call("step", Remaining, then)
    /\ UNCHANGED <<tree, played>>

\* A group that does not begin with a valid child is taken for an entry.
StepNoFiles(n) ==
    /\ Step /\ Target(n)
    /\ play_tree_is_valid(n) /\ kids[n] # <<>> /\ ~play_tree_is_valid(Head(kids[n]))
    /\ iter' = Iter(n, iter.loop) /\ config' = Popped
    /\ Call("crashed", d, then)
    /\ UNCHANGED <<tree, played>>

\* What an entry does to the iterator, the options and the flags.
Enter(n, pushed, options, marks) ==
    /\ Step /\ Target(n) /\ files[n] > 0
    /\ iter' = [Iter(n, iter.loop) EXCEPT !.entry_pushed = pushed]
    /\ config' = options /\ played' = marks
    /\ Result("ENTRY")
    /\ UNCHANGED tree

Marked(n) == IF Mode = "rnd" THEN played \cup {n} ELSE played

\* Seeded error: the level of the entry is not remembered.
StepEntryForgetting(n) ==
    IF Trying THEN Enter(n, iter.entry_pushed, config, played)
    ELSE Enter(n, 0, play_tree_iter_push_params(Popped, n), Marked(n))

\* Seeded error: the entry is not marked as played.
StepEntryUnmarked(n) ==
    IF Trying THEN Enter(n, iter.entry_pushed, config, played)
    ELSE Enter(n, 1, play_tree_iter_push_params(Popped, n), played)

StepEntry(n) ==
    IF Trying THEN Enter(n, iter.entry_pushed, config, played)
    ELSE Enter(n, 1, play_tree_iter_push_params(Popped, n), Marked(n))

-----------------------------------------------------------------------------
(* play_tree_iter_up_step and play_tree_iter_down_step *)

UpEnd ==
    /\ pc = "up" /\ parent[iter.tree] = None
    /\ iter' = [iter EXCEPT !.file = -1]
    /\ Result("END")
    /\ UNCHANGED <<tree, played, config, saved, old, history>>

Up ==
    /\ pc = "up" /\ parent[iter.tree] # None
    /\ iter' = [iter EXCEPT !.tree = parent[@], !.loop = Last(iter.stack),
                            !.stack = Front(@), !.file = -1]
    /\ config' = IF Trying THEN config ELSE m_config_pop(config)
    /\ played' = IF iter.mode = "rnd" /\ ~Trying
                 THEN played \cup {parent[iter.tree]} ELSE played
    /\ Call("step", d, then)
    /\ UNCHANGED <<tree, saved, old, history>>

Down ==
    /\ pc = "down"
    /\ iter' = [iter EXCEPT
                  !.tree  = IF d >= 0 THEN Head(kids[@]) ELSE Last(kids[@]),
                  !.stack = Append(@, iter.loop),
                  !.loop  = loops[iter.tree] - 1, !.file = -1]
    /\ config' = IF Trying THEN config
                 ELSE play_tree_iter_push_params(config, iter.tree)
    /\ Call("step", 0, then)
    /\ UNCHANGED <<tree, played, saved, old, history>>

-----------------------------------------------------------------------------
(* The player: play_tree_iter_get_file and what follows goto_next_file *)

\* Seeded error: the last file is not the end.
play_tree_iter_get_file_past(dir) ==
    LET num == files[iter.tree] f == iter.file IN
    IF f > num - 1 \/ f < -1 THEN -1
    ELSE IF dir > 0 THEN f + 1
    ELSE IF f <= 0 THEN num - 1 ELSE f - 1

\* The file that comes next in direction dir, or -1.
play_tree_iter_get_file(dir) ==
    LET num == files[iter.tree] f == iter.file IN
    IF f >= num - 1 \/ f < -1 THEN -1
    ELSE IF dir > 0 THEN f + 1
    ELSE IF f <= 0 THEN num - 1 ELSE f - 1

Returned(callers) == pc = "returned" /\ then \in callers

\* The iterator is freed: the player is idle, or ends.
Free_iter ==
    /\ iter' = NoIter
    /\ pc' = "idle" /\ d' = 0 /\ then' = "none" /\ res' = "none"

NextFile(dir) == Call("source", dir, "none") /\ UNCHANGED iter

\* At the start the first entry is looked for, later the next one.
FirstEntry ==
    /\ Returned({"start", "head", "next", "up"})
    /\ IF res = "ENTRY" \/ then = "head" THEN NextFile(1) ELSE Free_iter
    /\ promised' = 0
    /\ UNCHANGED <<tree, played, config, saved, old, plays, straight, touched, moves>>

\* The next file of the entry is played; the first one starts the entry.
PlayFile ==
    /\ pc = "source"
    /\ play_tree_iter_get_file(d) >= 0
    /\ iter' = [iter EXCEPT !.file = play_tree_iter_get_file(d)]
    /\ plays' = IF straight = 1 THEN Append(plays, iter.tree) ELSE plays
    /\ pc' = "playing" /\ d' = 0 /\ then' = "none"
    /\ touched' = IF iter.file = -1 THEN 0 ELSE touched
    /\ UNCHANGED <<tree, played, config, saved, res, old, promised, straight, moves>>

NoFile ==
    /\ pc = "source"
    /\ play_tree_iter_get_file(d) = -1
    /\ Call("step", d, IF d > 0 THEN "source" ELSE "sourceback")
    /\ UNCHANGED <<tree, played, config, iter, saved, old, history>>

SourceStepped ==
    /\ Returned({"source", "sourceback"})
    /\ IF res = "ENTRY" THEN NextFile(IF then = "source" THEN 1 ELSE -1) ELSE Free_iter
    /\ UNCHANGED <<tree, played, config, saved, old, history>>

\* The file ends, or cannot be opened: PT_NEXT_ENTRY.
EndOfFile ==
    /\ pc = "playing"
    /\ straight = 1 => Len(plays) < MaxPlays
    /\ Call("step", 1, "next")
    /\ UNCHANGED <<tree, played, config, iter, saved, old, history>>

-----------------------------------------------------------------------------
(* Commands (command.c), and what a blocking call was interrupted with *)

Command ==
    /\ pc = "playing" /\ moves < MaxMoves
    /\ moves' = moves + 1
    /\ straight' = 0 /\ plays' = <<>>

\* PLAY_TREE_STEP and PLAY_TREE_UP_STEP with force, or from
\* libmpdemux_was_interrupted: no trial.
StepForced(function, n) ==
    /\ Command
    /\ Call(function, n, IF function = "step" THEN "next" ELSE "up")
    /\ UNCHANGED <<tree, played, config, iter, saved, old, promised, touched>>

\* Without force the step is first made on a copy of the iterator.
StepTried(function, n) ==
    /\ Command
    /\ saved' = iter /\ old' = n
    /\ Call(function, n, IF function = "step" THEN "try" ELSE "tryup")
    /\ UNCHANGED <<tree, played, config, iter, promised, touched>>

Tried ==
    /\ Returned({"try", "tryup"})
    /\ iter' = saved /\ saved' = NoIter /\ old' = None
    /\ IF res = "ENTRY"
       THEN /\ promised' = 1
            /\ IF then = "try" THEN Call("step", old, "next") ELSE Call("up", old, "up")
       ELSE /\ UNCHANGED promised
            /\ pc' = "playing" /\ d' = 0 /\ then' = "none" /\ res' = "none"
    /\ UNCHANGED <<tree, played, config, plays, straight, touched, moves>>

\* PLAY_ALT_SRC_STEP; libmpdemux_was_interrupted does not ask whether there is
\* another source.
SourceStep(n) ==
    /\ Command
    /\ Call("source", n, "none")
    /\ UNCHANGED <<tree, played, config, iter, saved, old, promised, touched>>

\* An option is changed while an entry is playing.
SetOption ==
    /\ Command
    /\ config' = [config EXCEPT !.value = Touch] /\ touched' = 1
    /\ UNCHANGED <<tree, played, iter, saved, pc, d, then, res, old, promised>>

\* LOADFILE with append: behind the last child of the root.
LoadFileAppend ==
    /\ Command /\ "append" \in Edits /\ fresh \in Nodes
    /\ kids' = [kids EXCEPT ![Root] = Append(@, fresh)]
    /\ parent' = [parent EXCEPT ![fresh] = Root]
    /\ files' = [files EXCEPT ![fresh] = 1]
    /\ fresh' = fresh + 1
    /\ UNCHANGED <<loops, rnd, own, byAlias, played, config, iter, saved, pc, d, then,
                   res, old, promised, touched>>

\* LOADFILE and STOP first go back to the starting point, over the groups.
Unwind(what) ==
    /\ Command
    /\ what = "load" => "load" \in Edits /\ fresh \in Nodes
    /\ Call("up", 0, "unwind") /\ old' = IF what = "load" THEN Root ELSE None
    /\ UNCHANGED <<tree, played, config, iter, saved, promised, touched>>

Unwinding ==
    /\ Returned({"unwind"}) /\ res # "END"
    /\ Call("up", 0, "unwind")
    /\ UNCHANGED <<tree, played, config, iter, saved, old, history>>

\* The children of the root are freed, the new entry is the only one.
NewTree ==
    /\ kids' = [kids EXCEPT ![Root] = <<fresh>>]
    /\ parent' = [parent EXCEPT ![fresh] = Root]
    /\ files' = [files EXCEPT ![fresh] = 1]
    /\ fresh' = fresh + 1
    /\ UNCHANGED <<loops, rnd, own, byAlias>>

Unwound ==
    /\ Returned({"unwind"}) /\ res = "END"
    /\ IF old = Root
       THEN /\ NewTree
            /\ iter' = [iter EXCEPT !.tree = Root]     \* pt_iter_goto_head
            /\ Call("step", 0, "head")
       ELSE Free_iter /\ UNCHANGED tree
    /\ old' = None
    /\ UNCHANGED <<played, config, saved, history>>

\* LOADFILE while the player is idle
LoadFileIdle ==
    /\ pc = "idle" /\ moves < MaxMoves /\ "load" \in Edits /\ fresh \in Nodes
    /\ moves' = moves + 1
    /\ NewTree
    /\ iter' = play_tree_iter_new
    /\ Call("step", 0, "start")
    /\ straight' = 0 /\ plays' = <<>>
    /\ UNCHANGED <<played, config, saved, old, promised, touched>>

-----------------------------------------------------------------------------
(* playtree_add_playlist: the file that was opened is a playlist *)

play_tree_remove(n) ==
    /\ kids' = [kids EXCEPT ![parent[n]] = RemoveAt(@, PlaceOf(n))]
    /\ parent' = [parent EXCEPT ![n] = None]

\* The list becomes a group behind the entry, with its params; the player goes
\* on to it and removes the entry.
AddList(entries) ==
    /\ Command /\ "list" \in Edits /\ fresh + entries \in Nodes
    /\ kids' = [kids EXCEPT ![parent[iter.tree]] = InsertAt(@, Place + 1, fresh),
                            ![fresh] = [i \in 1 .. entries |-> fresh + i]]
    /\ parent' = [n \in Nodes |->
                    IF n = fresh THEN parent[iter.tree]
                    ELSE IF n > fresh /\ n <= fresh + entries THEN fresh ELSE parent[n]]
    /\ files' = [n \in Nodes |-> IF n > fresh /\ n <= fresh + entries THEN 1 ELSE files[n]]
    /\ own' = [own EXCEPT ![fresh] = own[iter.tree]]
    /\ byAlias' = IF iter.tree \in byAlias THEN byAlias \cup {fresh} ELSE byAlias
    /\ fresh' = fresh + entries + 1
    /\ old' = iter.tree
    /\ Call("step", 1, "list")
    /\ UNCHANGED <<loops, rnd, played, config, iter, saved, promised, touched>>

\* The list cannot be parsed, or holds nothing.
BadList ==
    /\ Command /\ "bad" \in Edits
    /\ old' = iter.tree
    /\ Call("step", 1, "bad")
    /\ UNCHANGED <<tree, played, config, iter, saved, promised, touched>>

Listed ==
    /\ Returned({"list", "bad", "badup"})
    /\ IF res # "ENTRY"
       THEN Call("step", 1, "next") /\ old' = None /\ UNCHANGED <<tree, played>>
       ELSE IF then = "bad" /\ iter.tree = old
       THEN Call("up", 1, "badup") /\ UNCHANGED <<tree, played, old>>
       ELSE /\ play_tree_remove(old) /\ played' = played \ {old}
            /\ IF iter.tree = old THEN Call("dangling", 0, "none")
               ELSE Call("source", 1, "none")
            /\ old' = None
            /\ UNCHANGED <<files, loops, rnd, own, byAlias, fresh>>
    /\ UNCHANGED <<config, iter, saved, history>>

-----------------------------------------------------------------------------
Ended == pc \in {"idle", "quit", "endless", "crashed", "dangling"}

\* The user may quit at any time.
Quit == pc = "playing" /\ pc' = "quit"
        /\ UNCHANGED <<tree, played, config, iter, saved, d, then, res, old, history>>

Iterating ==
    \/ StepRandomEnd \/ StepRandomAgain \/ StepLoop \/ StepUp
    \/ \E n \in Nodes : StepGroup(n) \/ StepInvalid(n) \/ StepNoFiles(n) \/ StepEntry(n)
    \/ UpEnd \/ Up \/ Down

Player == FirstEntry \/ PlayFile \/ NoFile \/ SourceStepped \/ Tried
          \/ Unwinding \/ Unwound \/ Listed

Next ==
    \/ Iterating \/ Player
    \/ EndOfFile \/ Quit
    \/ \E n \in {-1, 1, 2} : StepForced("step", n) \/ StepTried("step", n)
    \/ \E n \in {-1, 1} : StepForced("up", n) \/ StepTried("up", n) \/ SourceStep(n)
    \/ SetOption \/ LoadFileAppend \/ Unwind("load") \/ Unwind("stop") \/ LoadFileIdle
    \/ AddList(1) \/ AddList(2) \/ BadList
    \/ Ended /\ UNCHANGED vars

Spec == Init /\ [][Next]_vars

\* The functions of the iterator and their callers run on.
FairSpec == Spec /\ WF_vars(Iterating \/ Player)

-----------------------------------------------------------------------------
(* Properties *)

TypeOK ==
    /\ parent \in [Nodes -> Nodes \cup {None}] /\ kids \in [Nodes -> Seq(Nodes)]
    /\ files \in [Nodes -> 0 .. 2]
    /\ loops \in [Nodes -> Int] /\ rnd \subseteq Nodes /\ played \subseteq Nodes
    /\ own \in [Nodes -> Nodes \cup {None}] /\ byAlias \subseteq Nodes
    /\ fresh \in 0 .. Size + Spare
    /\ config.lvl \in Nat /\ config.value \in Nodes \cup {Touch}
    /\ iter.tree \in Nodes \cup {None} /\ iter.stack \in Seq(Int)
    /\ iter.tree # None => iter.file \in -1 .. files[iter.tree] - 1

\* How deep a node is, the root at 0.
Depth[n \in Nodes] == IF parent[n] = None THEN 0 ELSE 1 + Depth[parent[n]]

\* The value that holds for a node: its own, or that of the group around it.
Effective[n \in Nodes] ==
    IF own[n] # None THEN own[n]
    ELSE IF parent[n] = None THEN BaseValue ELSE Effective[parent[n]]

\* Removing a bad list has left a group without entries: the iterator may end in
\* the middle of the tree.
Emptied == \E n \in 0 .. fresh - 1 : ~play_tree_is_valid(n)

\* However the player came to an entry, by steps, loops, commands or lists, the
\* option has the value of the entry and its groups when it starts, and there
\* is one level for each of them.  (A shuffled list may leave levels behind.)
OptionsInEffect ==
    pc = "playing" /\ rnd = {} /\ ~Emptied =>
        /\ touched = 0 => config.value = Effective[iter.tree]
        /\ config.lvl = Depth[iter.tree] + 2
        /\ Len(iter.stack) = Depth[iter.tree]

\* "Pop the current context restoring the previous context state" (m_config.h):
\* once the tree is left, the option is what it was before.
OptionsRestored == pc = "idle" /\ rnd = {} /\ ~Emptied => config = BaseConfig

\* What a node plays when it is entered, as far as it matters here.
Repeated(s, k) == FlattenSeq([i \in 1 .. k |-> s])
Playing[n \in Nodes] ==
    IF kids[n] = <<>> THEN <<n>>
    ELSE Repeated(FlattenSeq([i \in DOMAIN kids[n] |-> Playing[kids[n][i]]]),
                  IF loops[n] < 0 THEN MaxPlays ELSE IF loops[n] = 0 THEN 1 ELSE loops[n])

\* What a player that only goes forward plays: the entries in order, those of a
\* group as often as it loops, nested loops included, and all of them; of a
\* shuffled list each entry once in every round.
PlayedInOrder ==
    rnd = {} => /\ IsPrefix(plays, Playing[Root])
                /\ pc = "idle" => plays = Playing[Root]
RoundsComplete ==
    Root \in rnd /\ (\A i \in DOMAIN kids[Root] : files[kids[Root][i]] > 0) =>
        LET n == Len(kids[Root]) IN
        \A i, j \in DOMAIN plays :
            i < j /\ (i - 1) \div n = (j - 1) \div n => plays[i] # plays[j]
LoopsAsTold ==
    straight = 1 => /\ pc \in {"playing", "idle"} => PlayedInOrder
                    /\ RoundsComplete

\* When the step a command tried on a copy found an entry, the step itself does:
\* the trial does not use up what it found, and the player does not end.  (In
\* shuffled groups inside the list the trial may use up a round of the list.)
TrialsHold ==
    [][FirstEntry /\ promised = 1 /\ rnd \subseteq {Root} /\ ~Emptied => res = "ENTRY"]_vars

\* Every step of the iterator ends, whatever loops, shuffled groups and lists it
\* meets.  (A bad list that loops lead back to twice is removed all the same:
\* the step has ended, but the iterator stands on freed memory.)
Running  == pc \in {"step", "up", "down", "returned", "source"}
StepsEnd == Running /\ ~Emptied
              ~> pc \in {"playing", "idle", "dangling"} \/ Emptied

=============================================================================
