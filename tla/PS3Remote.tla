------------------------------ MODULE PS3Remote ------------------------------
(***************************************************************************)
(* The remote control of input/ps3remote.c: a thread reads the events of   *)
(* the device and writes them into a pipe, the player reads them from      *)
(* there.  The player ends the thread with the flag thread_exit, waits for *)
(* thread_exited and closes the pipe; the thread is never joined.          *)
(*                                                                         *)
(* The device comes and goes, which inotify tells the thread.  read() of   *)
(* the device does not block; write() to the pipe does when it is full.    *)
(***************************************************************************)
EXTENDS Naturals

CONSTANTS
    PipeSize,       \* how many events the pipe holds
    MaxEvents,      \* bound on the events of the device
    MaxPlugs        \* bound on how often it is plugged or unplugged

VARIABLES
    plugged, pending,   \* the device: is it there, and its events not yet read
    notified,           \* is there something to read from inotify_fd?
    produced, plugs,    \* how often a key was pressed, the device plugged
    tpc,                \* the thread
    input_fd,           \* 1 if it has the device open
    inotify_fd,         \* 1 if it watches /dev/input
    stale,              \* 1 if input_fd is of a device that went away
    pipe,               \* events in the pipe
    pipe_open,
    mpc,                \* the player
    thread_exit, thread_exited

device == <<plugged, pending, notified, produced, plugs>>
thread == <<tpc, input_fd, inotify_fd, stale>>
main   == <<pipe_open, mpc, thread_exit>>
remoteVars   == <<device, thread, pipe, main, thread_exited>>

RemoteInit ==
    /\ plugged \in {0, 1} /\ pending = 0 /\ notified = 0
    /\ produced = 0 /\ plugs = 0
    /\ tpc = "scan" /\ input_fd = 0 /\ inotify_fd = 0 /\ stale = 0
    /\ pipe = 0 /\ pipe_open = 1
    /\ mpc = "playing" /\ thread_exit = 0 /\ thread_exited = 0

-----------------------------------------------------------------------------
(* The device *)

PressKey ==
    /\ plugged = 1 /\ input_fd = 1 /\ stale = 0 /\ produced < MaxEvents
    /\ pending' = pending + 1 /\ produced' = produced + 1
    /\ UNCHANGED <<plugged, notified, plugs, thread, pipe, main, thread_exited>>

\* IN_CREATE or IN_DELETE; an open device is lost with the events it had.
Plug ==
    /\ plugs < MaxPlugs
    /\ plugs' = plugs + 1 /\ plugged' = 1 - plugged /\ pending' = 0
    /\ notified' = inotify_fd
    /\ stale' = IF plugged = 1 THEN input_fd ELSE stale
    /\ UNCHANGED <<produced, tpc, input_fd, inotify_fd, pipe, main, thread_exited>>

-----------------------------------------------------------------------------
(* thread_ps3_remote *)

\* scan_ps3_remote opens the device if it is there.
scan_ps3_remote == input_fd' = plugged /\ stale' = 0 /\ pending' = 0

\* The first scan comes before the watch: a device plugged in between is not seen.
FirstScan ==
    /\ tpc = "scan"
    /\ scan_ps3_remote
    /\ tpc' = "watch"
    /\ UNCHANGED <<plugged, notified, produced, plugs, inotify_fd, pipe, main,
                   thread_exited>>

\* Seeded error: a failure returns from the thread at once.
WatchReturns ==
    /\ tpc = "watch"
    /\ \/ inotify_fd' = 1 /\ tpc' = "loop"
       \/ inotify_fd' \in {0, 1} /\ tpc' = "gone"
    /\ UNCHANGED <<device, input_fd, stale, pipe, main, thread_exited>>

\* inotify_init or inotify_add_watch may fail: the thread ends by itself.
Watch ==
    /\ tpc = "watch"
    /\ \/ inotify_fd' = 1 /\ tpc' = "loop"
       \/ inotify_fd' \in {0, 1} /\ tpc' = "exit"
    /\ UNCHANGED <<device, input_fd, stale, pipe, main, thread_exited>>

Loop ==
    /\ tpc = "loop"
    /\ tpc' = IF thread_exit = 0 THEN "select" ELSE "exit"
    /\ UNCHANGED <<device, input_fd, inotify_fd, stale, pipe, main, thread_exited>>

\* A change of /dev/input: the device is closed and looked for again.
Rescan ==
    /\ tpc = "select"
    /\ notified' = 0
    /\ IF notified = 1 THEN scan_ps3_remote ELSE UNCHANGED <<input_fd, stale, pending>>
    /\ tpc' = "read"
    /\ UNCHANGED <<plugged, produced, plugs, inotify_fd, pipe, main, thread_exited>>

ReadDevice ==
    /\ tpc = "read"
    /\ IF input_fd = 1 /\ stale = 0 /\ pending > 0
       THEN tpc' = "write" /\ pending' = pending - 1
       ELSE tpc' = "loop" /\ UNCHANGED pending
    /\ input_fd' = IF stale = 1 THEN 0 ELSE input_fd
    /\ stale' = 0
    /\ UNCHANGED <<plugged, notified, produced, plugs, inotify_fd, pipe, main,
                   thread_exited>>

\* write() of a whole event: it waits for room in the pipe.
WritePipe ==
    /\ tpc = "write" /\ pipe < PipeSize
    /\ pipe' = pipe + 1
    /\ tpc' = "read"
    /\ UNCHANGED <<device, input_fd, inotify_fd, stale, main, thread_exited>>

\* exit: everything is closed ...
Cleanup ==
    /\ tpc = "exit"
    /\ input_fd' = 0 /\ inotify_fd' = 0 /\ stale' = 0
    /\ pending' = 0 /\ notified' = 0
    /\ tpc' = "cleaned"
    /\ UNCHANGED <<plugged, produced, plugs, pipe, main, thread_exited>>

\* ... and then the player is told.
Ended ==
    /\ tpc = "cleaned"
    /\ thread_exited' = 1
    /\ tpc' = "gone"
    /\ UNCHANGED <<device, input_fd, inotify_fd, stale, pipe, main>>

-----------------------------------------------------------------------------
(* The player *)

\* mp_input_ps3remote_read, when select() reports the pipe.
mp_input_ps3remote_read ==
    /\ mpc = "playing" /\ pipe > 0
    /\ pipe' = pipe - 1
    /\ UNCHANGED <<device, thread, main, thread_exited>>

\* mp_input_ps3remote_close: the flag is set, then the player only waits.
StartClose ==
    /\ mpc = "playing"
    /\ thread_exit' = 1
    /\ mpc' = "closing"
    /\ UNCHANGED <<device, thread, pipe, pipe_open, thread_exited>>

\* Seeded error: the pipe is closed without waiting for the thread.
FinishAtOnce ==
    /\ mpc = "closing"
    /\ pipe_open' = 0 /\ pipe' = 0
    /\ thread_exit' = 0 /\ thread_exited' = 0
    /\ mpc' = "closed"
    /\ UNCHANGED <<device, thread>>

FinishClose ==
    /\ mpc = "closing" /\ thread_exited = 1
    /\ pipe_open' = 0 /\ pipe' = 0
    /\ thread_exit' = 0 /\ thread_exited' = 0
    /\ mpc' = "closed"
    /\ UNCHANGED <<device, thread>>

Closed == mpc = "closed" /\ tpc = "gone" /\ UNCHANGED remoteVars

-----------------------------------------------------------------------------
Thread == FirstScan \/ Watch \/ Loop \/ Rescan \/ ReadDevice \/ WritePipe
          \/ Cleanup \/ Ended

RemoteNext == \/ PressKey \/ Plug
        \/ Thread
        \/ mp_input_ps3remote_read \/ StartClose \/ FinishClose
        \/ Closed

\* The thread and the player's wait go on; nobody has to press keys.
RemoteFairness == WF_remoteVars(Thread) /\ WF_remoteVars(FinishClose)

RemoteSpec == RemoteInit /\ [][RemoteNext]_remoteVars /\ RemoteFairness

-----------------------------------------------------------------------------
(* Properties *)

\* The thread never writes to a descriptor the player has closed (it may have
\* been given to another file since), and leaves none of its own open behind.
ThreadOutlived ==
    pipe_open = 0 => tpc = "gone" /\ input_fd = 0 /\ inotify_fd = 0

\* Closing comes to an end although the flag is only looked at between two
\* sweeps of the device -- unless the thread waits in write() on a full pipe,
\* which the closing player does not empty any more.
CloseReturns ==
    mpc = "closing" ~> mpc = "closed" \/ (tpc = "write" /\ pipe = PipeSize)
=============================================================================
