------------------------------ MODULE KeyInput ------------------------------
(***************************************************************************)
(* From key events to commands: the key fifo of mp_fifo.c and the set of   *)
(* keys that are down in input/input.c (interpret_key, check_autorepeat).  *)
(* A code is a key with the flags MP_KEY_DOWN and MP_KEY_RELEASE_ALL.      *)
(***************************************************************************)
EXTENDS Integers, Sequences

CONSTANTS
    Keys,           \* key codes without flags
    NoKey,          \* the code 0
    FifoSize,       \* key_fifo_size, at least 2 (cfg-mplayer.h)
    MaxKeyDown      \* MP_MAX_KEY_DOWN

ASSUME KeyAssumption ==
    /\ NoKey \notin Keys
    /\ FifoSize \in Nat /\ FifoSize >= 2
    /\ MaxKeyDown \in Nat \ {0}

VARIABLES
    pressed,            \* the keys that are held on the keyboard
    fifo,               \* key_fifo_data from key_fifo_read to key_fifo_write
    previous_down_key,  \* the code of the last down event, or the release flag
    key_down,           \* the keys taken to be down, in the order they went down
    last_key_down,      \* did the last event press a key?
    ar_state,           \* autorepeat: -1 off, 0 waiting for the delay, 1 repeating
    ar_cmd              \* the keys whose command is repeated, <<>> for none

fifoVars == <<fifo, previous_down_key>>
downVars == <<key_down, last_key_down, ar_state, ar_cmd>>
vars     == <<pressed, fifoVars, downVars>>

Codes == [key : Keys \cup {NoKey}, down : {0, 1}, all : {0, 1}]
Code(k, d, a) == [key |-> k, down |-> d, all |-> a]

Init ==
    /\ pressed = {}
    /\ fifo = <<>> /\ previous_down_key = Code(NoKey, 0, 0)
    /\ key_down = <<>> /\ last_key_down = 0 /\ ar_state = -1 /\ ar_cmd = <<>>

-----------------------------------------------------------------------------
(* mp_fifo.c *)

fifo_free == FifoSize - Len(fifo)

\* Space is kept for releases: a down event needs more than half of the fifo.
Refused(code) ==
    \/ fifo_free = 0
    \/ code.down = 1 /\ fifo_free <= FifoSize \div 2
    \/ fifo_free = 1 /\ previous_down_key.all = 1

\* Seeded error: the last slot is used like any other.
StoredAsIs(code) == code

\* The last slot resets the key state; it keeps the code only if that releases
\* the key that went down last.
Stored(code) ==
    IF fifo_free # 1 THEN code
    ELSE Code(IF code = previous_down_key THEN code.key ELSE NoKey, 0, 1)

mplayer_put_key_internal(code) ==
    IF Refused(code) THEN UNCHANGED fifoVars
    ELSE LET c == Stored(code) IN
         /\ fifo' = Append(fifo, c)
         /\ previous_down_key' = IF c.down = 1 THEN Code(c.key, 0, c.all)
                                 ELSE Code(NoKey, 0, c.all)

Press(k) ==
    /\ k \notin pressed
    /\ pressed' = pressed \cup {k}
    /\ mplayer_put_key_internal(Code(k, 1, 0))
    /\ UNCHANGED downVars

Release(k) ==
    /\ k \in pressed
    /\ pressed' = pressed \ {k}
    /\ mplayer_put_key_internal(Code(k, 0, 0))
    /\ UNCHANGED downVars

\* A terminal only ever sends the code of a key, without a down event.
Type(k) ==
    /\ k \notin pressed
    /\ mplayer_put_key_internal(Code(k, 0, 0))
    /\ UNCHANGED <<pressed, downVars>>

-----------------------------------------------------------------------------
(* input/input.c *)

IsDown(k, keys) == \E i \in 1 .. Len(keys) : keys[i] = k

\* Seeded error: the memmove is one key too short.
WithoutLast(i, keys) ==
    [j \in 1 .. Len(keys) - 1 |->
        IF j < i \/ j = Len(keys) - 1 THEN keys[j] ELSE keys[j + 1]]

\* key_down after memmove has closed the gap at i
Without(i, keys) ==
    [j \in 1 .. Len(keys) - 1 |-> IF j < i THEN keys[j] ELSE keys[j + 1]]

\* The keys after the memset of a code that releases all of them.
KeysBefore(code) == IF code.all = 1 THEN <<>> ELSE key_down
LastBefore(code) == IF code.all = 1 THEN 0 ELSE last_key_down

ResetOnly(code) ==
    /\ code.all = 1 /\ code.key = NoKey /\ code.down = 0
    /\ key_down' = <<>> /\ last_key_down' = 0
    /\ UNCHANGED <<ar_state, ar_cmd>>

\* interpret_key for a down event: too many keys, a key that is down, a new one.
KeyDown(code) ==
    /\ code.down = 1
    /\ LET keys == KeysBefore(code) IN
       IF Len(keys) > MaxKeyDown \/ IsDown(code.key, keys)
       THEN /\ key_down' = keys /\ last_key_down' = LastBefore(code)
            /\ UNCHANGED <<ar_state, ar_cmd>>
       ELSE /\ key_down' = Append(keys, code.key) /\ last_key_down' = 1
            /\ ar_state' = 0
            /\ UNCHANGED ar_cmd

\* interpret_key for the release of a key that is down: the first match goes.
KeyUp(code) ==
    /\ code.down = 0
    /\ LET keys == KeysBefore(code) IN
       \E i \in 1 .. Len(keys) :
           /\ keys[i] = code.key /\ \A j \in 1 .. i - 1 : keys[j] # code.key
           /\ key_down' = Without(i, keys)
    /\ last_key_down' = 0 /\ ar_state' = -1 /\ ar_cmd' = <<>>

\* interpret_key for a key that was not down: it was typed, and is down for the
\* length of this call, unless there are too many keys.
KeyTyped(code) ==
    /\ code.down = 0 /\ code.key # NoKey /\ ~IsDown(code.key, KeysBefore(code))
    /\ key_down' = KeysBefore(code)
    /\ IF Len(KeysBefore(code)) >= MaxKeyDown
       THEN last_key_down' = LastBefore(code) /\ UNCHANGED <<ar_state, ar_cmd>>
       ELSE last_key_down' = 0 /\ ar_state' = -1 /\ ar_cmd' = <<>>

\* mplayer_get_key and interpret_key, as read_events calls them.
ReadKey ==
    /\ fifo # <<>>
    /\ fifo' = Tail(fifo)
    /\ \/ ResetOnly(Head(fifo))
       \/ KeyDown(Head(fifo))
       \/ KeyUp(Head(fifo))
       \/ KeyTyped(Head(fifo))
    /\ UNCHANGED <<pressed, previous_down_key>>

\* check_autorepeat after the delay: the combination may have a command or not.
\* Sending it again later changes nothing here.
StartRepeat ==
    /\ ar_state = 0 /\ key_down # <<>>
    /\ \/ ar_state' = 1 /\ ar_cmd' = key_down
       \/ ar_state' = -1 /\ ar_cmd' = <<>>
    /\ UNCHANGED <<pressed, fifoVars, key_down, last_key_down>>

Next ==
    \/ \E k \in Keys : Press(k) \/ Release(k) \/ Type(k)
    \/ ReadKey \/ StartRepeat

Spec == Init /\ [][Next]_vars

-----------------------------------------------------------------------------
(* Properties *)

TypeOK ==
    /\ pressed \subseteq Keys
    /\ fifo \in Seq(Codes) /\ previous_down_key \in Codes
    /\ key_down \in Seq(Keys) /\ last_key_down \in {0, 1}
    /\ ar_state \in {-1, 0, 1} /\ ar_cmd \in Seq(Keys)

\* No stuck keys: however full the fifo ran, once the player has read it every
\* key it takes to be down is being held.
NoStuckKeys ==
    fifo = <<>> => \A i \in 1 .. Len(key_down) : key_down[i] \in pressed

\* A key that is down is down once: its release makes it go.
DownOnce ==
    \A i, j \in 1 .. Len(key_down) : key_down[i] = key_down[j] => i = j

\* What is repeated is the command of the keys that are down now, not of an
\* earlier combination.
RepeatsWhatIsDown == ar_state = 1 /\ key_down # <<>> => ar_cmd = key_down

\* interpret_key never stores behind the end of key_down[MP_MAX_KEY_DOWN].
KeyDownInBounds == Len(key_down) <= MaxKeyDown

\* The player is not told of the same key press twice in a row: between two
\* downs of a key in the fifo there is something that releases it.
DownsSeparated ==
    \A i, j \in 1 .. Len(fifo) :
        i < j /\ fifo[i].down = 1 /\ fifo[j] = fifo[i] =>
            \E m \in i + 1 .. j - 1 :
                fifo[m].all = 1 \/ fifo[m] = Code(fifo[i].key, 0, 0)

=============================================================================
