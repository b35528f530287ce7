----------------------------- MODULE InputQueue -----------------------------
(***************************************************************************)
(* Commands on their way to the player: the ring cmd_queue of              *)
(* input/input.c and its users, the main loop, the pause loop and the      *)
(* waits that poll mp_input_check_interrupt.  A user may look at a command *)
(* in one call and take it in the next; a signal may come in between.      *)
(* No caller of the program registers a command filter.                    *)
(***************************************************************************)
EXTENDS Integers, Sequences

CONSTANTS
    QueueSize,      \* CMD_QUEUE_SIZE
    Kinds,          \* the kinds of commands that come in on the descriptors
    MaxCommands,    \* bound on the commands that come in
    MaxQueued       \* bound on the commands the player queues itself

\* The commands that end a wait; "keep" has pausing == 4, "other" is any other.
Interrupting == {"quit", "step"}
AllKinds     == Interrupting \cup {"pause", "keep", "other"}

VARIABLES
    cmd_queue, cmd_queue_start, cmd_queue_end, cmd_queue_length,
    async_quit_request,
    arrived,    \* the kinds of the commands that came in so far
    events,     \* those of them that are still in the descriptors
    executed,   \* the commands the player has run
    queued,     \* number of commands the player queued itself
    osd_function, \* "pause" from a pause command to the end of the pause loop
    pc          \* what the player does

queueVars == <<cmd_queue, cmd_queue_start, cmd_queue_end, cmd_queue_length>>
inputVars == <<queueVars, async_quit_request, arrived, events, executed, queued,
          osd_function, pc>>

\* A command is its number in the order of arrival and its kind; 0 stands for
\* the commands the player makes.
Cmd(n, kind) == [n |-> n, kind |-> kind]
None  == Cmd(0, "none")
Quit1 == Cmd(0, "quit")
Commands == [n : 0 .. MaxCommands, kind : AllKinds]

QueueInit ==
    /\ cmd_queue = [i \in 0 .. QueueSize - 1 |-> None]
    /\ cmd_queue_start = 0 /\ cmd_queue_end = 0 /\ cmd_queue_length = 0
    /\ async_quit_request = 0 /\ arrived = <<>> /\ events = <<>>
    /\ executed = <<>> /\ queued = 0 /\ osd_function = "play" /\ pc = "main"

-----------------------------------------------------------------------------
(* The environment *)

Arrive(kind) ==
    /\ Len(arrived) < MaxCommands
    /\ arrived' = Append(arrived, kind)
    /\ events' = Append(events, Cmd(Len(arrived) + 1, kind))
    /\ UNCHANGED <<queueVars, async_quit_request, executed, queued, osd_function, pc>>

\* exit_sighandler for SIGINT and SIGTERM
Signal ==
    /\ pc # "exited" /\ async_quit_request = 0
    /\ async_quit_request' = 1
    /\ UNCHANGED <<queueVars, arrived, events, executed, queued, osd_function, pc>>

-----------------------------------------------------------------------------
(* input.c *)

Full == cmd_queue_length >= QueueSize

mp_input_queue_cmd(c) ==
    /\ ~Full
    /\ cmd_queue' = [cmd_queue EXCEPT ![cmd_queue_end] = c]
    /\ cmd_queue_end' = (cmd_queue_end + 1) % QueueSize
    /\ cmd_queue_length' = cmd_queue_length + 1
    /\ UNCHANGED cmd_queue_start

\* Seeded error: a command is taken from the end of the ring.
RemoveQueuedAtEnd ==
    /\ cmd_queue_length' = cmd_queue_length - 1
    /\ cmd_queue_start' = cmd_queue_end
    /\ UNCHANGED <<cmd_queue, cmd_queue_end>>

RemoveQueued ==
    /\ cmd_queue_length' = cmd_queue_length - 1
    /\ cmd_queue_start' = (cmd_queue_start + 1) % QueueSize
    /\ UNCHANGED <<cmd_queue, cmd_queue_end>>

\* Seeded error: the descriptors are read before the queue.
GetCmdEventsFirst(c) ==
    \/ /\ async_quit_request = 1 /\ c = Quit1
       /\ UNCHANGED <<queueVars, events>>
    \/ /\ async_quit_request = 0 /\ events # <<>>
       /\ c = Head(events) /\ events' = Tail(events)
       /\ UNCHANGED queueVars
    \/ /\ async_quit_request = 0 /\ events = <<>> /\ cmd_queue_length > 0
       /\ c = cmd_queue[cmd_queue_start]
       /\ RemoveQueued /\ UNCHANGED events
    \/ /\ async_quit_request = 0 /\ cmd_queue_length = 0 /\ events = <<>>
       /\ c = None
       /\ UNCHANGED <<queueVars, events>>

\* mp_input_get_cmd(.., peek_only = 0) returns c.
GetCmd(c) ==
    \/ /\ async_quit_request = 1 /\ c = Quit1
       /\ UNCHANGED <<queueVars, events>>
    \/ /\ async_quit_request = 0 /\ cmd_queue_length > 0
       /\ c = cmd_queue[cmd_queue_start]
       /\ RemoveQueued /\ UNCHANGED events
    \/ /\ async_quit_request = 0 /\ cmd_queue_length = 0 /\ events # <<>>
       /\ c = Head(events) /\ events' = Tail(events)
       /\ UNCHANGED queueVars
    \/ /\ async_quit_request = 0 /\ cmd_queue_length = 0 /\ events = <<>>
       /\ c = None
       /\ UNCHANGED <<queueVars, events>>

\* Seeded error: a command that was only looked at is not put into the queue.
PeekCmdDropping(c) ==
    \/ /\ async_quit_request = 1 /\ UNCHANGED events
       /\ \/ mp_input_queue_cmd(Quit1) /\ c = Quit1
          \/ Full /\ c = None /\ UNCHANGED queueVars
    \/ /\ async_quit_request = 0 /\ cmd_queue_length > 0
       /\ c = cmd_queue[cmd_queue_start]
       /\ UNCHANGED <<queueVars, events>>
    \/ /\ async_quit_request = 0 /\ cmd_queue_length = 0 /\ events # <<>>
       /\ c = Head(events) /\ events' = Tail(events)
       /\ UNCHANGED queueVars
    \/ /\ async_quit_request = 0 /\ cmd_queue_length = 0 /\ events = <<>>
       /\ c = None
       /\ UNCHANGED <<queueVars, events>>

\* mp_input_get_cmd(.., peek_only = 1) returns c: what was not in the queue is
\* put there, and given up if the queue is full.
PeekCmd(c) ==
    \/ /\ async_quit_request = 1 /\ UNCHANGED events
       /\ \/ mp_input_queue_cmd(Quit1) /\ c = Quit1
          \/ Full /\ c = None /\ UNCHANGED queueVars
    \/ /\ async_quit_request = 0 /\ cmd_queue_length > 0
       /\ c = cmd_queue[cmd_queue_start]
       /\ UNCHANGED <<queueVars, events>>
    \/ /\ async_quit_request = 0 /\ cmd_queue_length = 0 /\ events # <<>>
       /\ c = Head(events) /\ events' = Tail(events)
       /\ mp_input_queue_cmd(c)
    \/ /\ async_quit_request = 0 /\ cmd_queue_length = 0 /\ events = <<>>
       /\ c = None
       /\ UNCHANGED <<queueVars, events>>

-----------------------------------------------------------------------------
(* The player *)

Runs(c) == executed' = IF c = None THEN executed ELSE Append(executed, c)

\* The main loop runs a command; to quit ends the program, to pause ends the turn.
MainLoop ==
    /\ pc = "main" /\ osd_function = "play"
    /\ \E c \in Commands \cup {None} :
        /\ GetCmd(c) /\ Runs(c)
        /\ pc' = IF c.kind = "quit" THEN "exited" ELSE "main"
        /\ osd_function' = IF c.kind = "pause" THEN "pause" ELSE "play"
    /\ UNCHANGED <<async_quit_request, arrived, queued>>

\* The next turn gets to pause_loop before it gets to the commands.
Pause ==
    /\ pc = "main" /\ osd_function = "pause"
    /\ pc' = "paused"
    /\ UNCHANGED <<queueVars, async_quit_request, arrived, events, executed, queued,
                   osd_function>>

\* A command of the player itself: sub_select, or a mouse movement.
QueueCmd ==
    /\ pc = "main" /\ queued < MaxQueued
    /\ queued' = queued + 1
    /\ IF Full THEN UNCHANGED queueVars ELSE mp_input_queue_cmd(Cmd(0, "other"))
    /\ UNCHANGED <<async_quit_request, arrived, events, executed, osd_function,
                   pc>>

\* The player enters a call that may block: opening or reading a stream.
Block ==
    /\ pc = "main"
    /\ pc' = "blocked"
    /\ UNCHANGED <<queueVars, async_quit_request, arrived, events, executed, queued,
                   osd_function>>

\* mp_input_check_interrupt: 1 for a command that ends the wait; another one is
\* to be removed.
CheckInterrupt ==
    /\ pc = "blocked"
    /\ \E c \in Commands \cup {None} :
        /\ PeekCmd(c)
        /\ pc' = IF c = None THEN "blocked"
                 ELSE IF c.kind \in Interrupting THEN "failed" ELSE "removing"
    /\ UNCHANGED <<async_quit_request, arrived, executed, queued, osd_function>>

Remove ==
    /\ pc = "removing"
    /\ \E c \in Commands \cup {None} : GetCmd(c)
    /\ pc' = "blocked"
    /\ UNCHANGED <<async_quit_request, arrived, executed, queued, osd_function>>

\* The call succeeds, or fails without an interruption.
Unblock ==
    /\ pc = "blocked"
    /\ pc' \in {"main", "failed"}
    /\ UNCHANGED <<queueVars, async_quit_request, arrived, events, executed, queued,
                   osd_function>>

\* A call that failed while playing leads back to the main loop; one that
\* opened a file, to libmpdemux_was_interrupted, which drops other commands.
Return ==
    /\ pc = "failed"
    /\ pc' = "main"
    /\ UNCHANGED <<queueVars, async_quit_request, arrived, events, executed, queued,
                   osd_function>>

libmpdemux_was_interrupted ==
    /\ pc = "failed"
    /\ \E c \in Commands \cup {None} :
        /\ GetCmd(c)
        /\ IF c.kind \in Interrupting THEN Runs(c) ELSE UNCHANGED executed
        /\ pc' = IF c.kind = "quit" THEN "exited" ELSE "main"
    /\ UNCHANGED <<async_quit_request, arrived, queued, osd_function>>

\* Seeded error: only the pause command ends the pause.
PauseLoopOnly ==
    /\ pc = "paused"
    /\ \E c \in Commands \cup {None} :
        /\ PeekCmd(c)
        /\ pc' = CASE c.kind = "keep"  -> "running"
                   [] c.kind = "pause" -> "resuming"
                   [] OTHER            -> "paused"
    /\ UNCHANGED <<async_quit_request, arrived, executed, queued, osd_function>>

\* pause_loop looks for a command.  One that keeps the pause is run, the one
\* that ends it taken, any other left to the main loop.
PauseLoop ==
    /\ pc = "paused"
    /\ \E c \in Commands \cup {None} :
        /\ PeekCmd(c)
        /\ pc' = CASE c = None         -> "paused"
                   [] c.kind = "keep"  -> "running"
                   [] c.kind = "pause" -> "resuming"
                   [] OTHER            -> "main"
    /\ osd_function' = IF pc' = "main" THEN "play" ELSE osd_function
    /\ UNCHANGED <<async_quit_request, arrived, executed, queued>>

RunPaused ==
    /\ pc = "running"
    /\ \E c \in Commands \cup {None} :
        /\ GetCmd(c) /\ Runs(c)
        /\ pc' = IF c.kind = "quit" THEN "exited" ELSE "paused"
    /\ UNCHANGED <<async_quit_request, arrived, queued, osd_function>>

Resume ==
    /\ pc = "resuming"
    /\ \E c \in Commands \cup {None} : GetCmd(c) /\ Runs(c)
    /\ pc' = "main" /\ osd_function' = "play"
    /\ UNCHANGED <<async_quit_request, arrived, queued>>

Exited == pc = "exited" /\ UNCHANGED inputVars

Player == MainLoop \/ Pause \/ CheckInterrupt \/ Remove \/ libmpdemux_was_interrupted
          \/ PauseLoop \/ RunPaused \/ Resume

QueueNext ==
    \/ \E kind \in Kinds : Arrive(kind)
    \/ Signal \/ Player \/ QueueCmd \/ Block \/ Unblock \/ Return \/ Exited

QueueSpec == QueueInit /\ [][QueueNext]_inputVars

\* The player goes on; every turn of the main loop gets to pause_loop and to the
\* commands (mplayer.c), however many calls that may block it makes.
QueueFairness == WF_inputVars(Player) /\ SF_inputVars(MainLoop \/ Pause)

QueueFairSpec == QueueSpec /\ QueueFairness

-----------------------------------------------------------------------------
(* Properties *)

PlayerStates == {"main", "blocked", "removing", "failed", "paused", "running",
                 "resuming", "exited"}

QueueTypeOK ==
    /\ cmd_queue \in [0 .. QueueSize - 1 -> Commands \cup {None}]
    /\ cmd_queue_start \in 0 .. QueueSize - 1
    /\ cmd_queue_end \in 0 .. QueueSize - 1
    /\ cmd_queue_length \in 0 .. QueueSize
    /\ async_quit_request \in {0, 1} /\ arrived \in Seq(Kinds)
    /\ events \in Seq(Commands) /\ executed \in Seq(Commands)
    /\ queued \in Nat /\ osd_function \in {"play", "pause"} /\ pc \in PlayerStates

\* The ring as a sequence, head first.
Queue == [i \in 1 .. cmd_queue_length |->
            cmd_queue[(cmd_queue_start + i - 1) % QueueSize]]

\* The three indices of the ring agree: the slot behind the last command is the
\* one that is written next, however often the ring went round.
RingAgrees ==
    cmd_queue_end = (cmd_queue_start + cmd_queue_length) % QueueSize

Holds(s, n) == \E i \in 1 .. Len(s) : s[i].n = n

\* "The cmd will be executed when we are back in the main loop" (input.c): what
\* ends a wait is not lost by the waits, the peeks and the removals, whatever
\* commands are queued around it and whenever a signal arrives.
InterruptsKept ==
    \A n \in 1 .. Len(arrived) :
        arrived[n] \in Interrupting =>
            Holds(events, n) \/ Holds(Queue, n) \/ Holds(executed, n)

\* Commands of the descriptors are run in the order they came in, and once, also
\* those that were looked at and queued first.
InOrder ==
    \A i, j \in 1 .. Len(executed) :
        i < j /\ executed[i].n > 0 /\ executed[j].n > 0 =>
            executed[i].n < executed[j].n

\* A quit that came in is reached: no wait, pause, peek or removal holds the
\* player up.  (For a signal see SignalEndsWait.)
QuitReached ==
    (\E n \in 1 .. Len(arrived) : arrived[n] = "quit")
        ~> pc = "exited" \/ async_quit_request = 1

\* A wait that polls mp_input_check_interrupt ends once the program was told to
\* quit by a signal.
SignalEndsWait == async_quit_request = 1 ~> pc # "blocked"

\* Nothing that ends a wait is lost, and events come in their order.
CommandsKept == InterruptsKept /\ InOrder
=============================================================================
