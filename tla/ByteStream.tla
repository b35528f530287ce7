----------------------------- MODULE ByteStream -----------------------------
(***************************************************************************)
(* What a stream promises to its reader, cached or not: the bytes of the   *)
(* file that follow the position, each once and in order, a sector at most *)
(* per call; a call may also come back with nothing.  A byte is            *)
(* represented by its position in the file.                                *)
(***************************************************************************)
EXTENDS Integers, Sequences

CONSTANTS SectorSize, FileLen

VARIABLES
    pos,        \* stream_t.pos, the position after the sector
    sector,     \* the bytes the last call brought
    status      \* "idle", "busy" (in a call) or "closed"

vars == <<pos, sector, status>>

Init == pos = 0 /\ sector = <<>> /\ status = "idle"

Ask == status = "idle" /\ status' = "busy" /\ sector' = <<>> /\ UNCHANGED pos

\* A seek that leaves the sector at hand starts a call at the new position.
Seek == status = "idle" /\ status' = "busy" /\ sector' = <<>> /\ pos' \in Nat

Deliver ==
    /\ status = "busy" /\ status' = "idle"
    /\ pos' \in pos + 1 .. pos + SectorSize /\ pos' <= FileLen
    /\ sector' = [i \in 1 .. pos' - pos |-> pos + i - 1]

Nothing == status = "busy" /\ status' = "idle" /\ sector' = <<>> /\ UNCHANGED pos

\* A control of the stream moved it: the next sector comes from there.
Moved == status = "idle" /\ pos' \in Nat /\ UNCHANGED <<sector, status>>

Close == status = "idle" /\ status' = "closed" /\ UNCHANGED <<pos, sector>>

Next == Ask \/ Seek \/ Deliver \/ Nothing \/ Moved \/ Close

Spec == Init /\ [][Next]_vars
=============================================================================
