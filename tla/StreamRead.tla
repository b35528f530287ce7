----------------------------- MODULE StreamRead -----------------------------
(***************************************************************************)
(* Streams that are read without the cache (stream/stream.c, stream.h): a  *)
(* buffer that is filled with one read or more, seeks inside of it and     *)
(* beyond it, and what is done when a read fails.  A byte of the file is   *)
(* represented by its position.                                            *)
(***************************************************************************)
EXTENDS Integers, Sequences, FiniteSets

CONSTANTS
  StreamMin, \* STREAM_BUFFER_MIN
  PlainLen,  \* length of the file
  Targets,   \* positions seeked to, lengths read and skipped
  Newlines,  \* bytes that end a line
  MaxCalls, MaxFaults

ASSUME StreamAssumption ==
  /\ StreamMin \in Nat \ {0} /\ PlainLen \in Nat /\ MaxCalls \in Nat /\ MaxFaults \in Nat
  /\ Targets \subseteq Nat /\ Newlines \subseteq 0..PlainLen - 1

Size == 2 * StreamMin   \* STREAM_BUFFER_SIZE
\* seeks: not of type STREAMTYPE_STREAM; sized: end_pos is known; tells: eof is set where the file
\* ends; forward: MP_STREAM_SEEK_FW
File == [seeks |-> TRUE, sized |-> TRUE, tells |-> TRUE, forward |-> TRUE]
Kinds == {File,
          [seeks |-> FALSE, sized |-> FALSE, tells |-> TRUE, forward |-> TRUE],   \* a pipe
          [seeks |-> TRUE, sized |-> TRUE, tells |-> FALSE, forward |-> TRUE],    \* of a server
          [seeks |-> FALSE, sized |-> FALSE, tells |-> FALSE, forward |-> FALSE]} \* live

VARIABLES
  kind,
  at,                             \* where the source really is
  pos, at_eof, sbuffer, sbuf_pos, sbuf_len,
  pc, fill,                       \* where the call is, and where stream_fill_buffer is
  op,                             \* the call: its name, what is left of it, the position sought
  from, out, result,              \* where it began, what it delivered, and what it returned
  spoilt,                         \* a read failed with part of the buffer filled, or a seek did
  calls, faults
stream == <<pos, at_eof, sbuffer, sbuf_pos, sbuf_len>>
call == <<op, from, out, result>>
streamVars == <<kind, at, stream, pc, fill, call, spoilt, calls, faults>>

stream_tell == pos + sbuf_pos - sbuf_len
Held == sbuf_len - sbuf_pos
LesserOf(a, b) == IF a < b THEN a ELSE b

StreamInit ==
  /\ kind \in Kinds /\ at = 0 /\ pos = 0 /\ at_eof = FALSE
  /\ sbuffer = [i \in 0..Size - 1 |-> -1] /\ sbuf_pos = 0 /\ sbuf_len = 0
  /\ pc = "idle" /\ fill = "no" /\ op = [name |-> "none", left |-> 0, target |-> 0]
  /\ from = 0 /\ out = <<>> /\ result = 1
  /\ spoilt = FALSE /\ calls = 0 /\ faults = 0

-----------------------------------------------------------------------------
(* stream_read_internal: n bytes come to the cell first of the buffer, 0 for *)
(* none; again says that the read was repeated after a failure.            *)

\* A read fails at the end, and for an error anywhere
Cost(where) == IF where >= PlainLen THEN 0 ELSE 1
Fails(where) == faults + Cost(where) <= MaxFaults
\* It is known to have failed for the end
\* Seeded error: whatever failed.
ProperEndAlways == TRUE
ProperEnd == at_eof \/ (kind.sized /\ pos = PlainLen) \/ (kind.tells /\ at >= PlainLen)
\* stream_reconnect seeks to where the stream is, which is left out but at the start of what seeks
\* Seeded error: it does not say where to.
ReconnectedToStart == IF kind.seeks THEN 0 ELSE at
Reconnected == IF kind.seeks /\ pos = 0 THEN 0 ELSE at
Got(n, first, where) ==
  /\ n \in 1..LesserOf(Size - first, PlainLen - where)
  /\ at' = where + n /\ pos' = pos + n
  /\ sbuffer' = [i \in 0..Size - 1 |->
                   IF first <= i /\ i < first + n THEN where + i - first ELSE sbuffer[i]]
GotNone == UNCHANGED <<at, pos, sbuffer>>
stream_read_internal(first, n, again) ==
  \/ ~again /\ Got(n, first, at) /\ faults' = faults
  \/ /\ ~again /\ n = 0 /\ Fails(at) /\ ProperEnd
     /\ GotNone /\ faults' = faults + Cost(at)
  \/ /\ again /\ Fails(at) /\ ~ProperEnd
     /\ \/ Got(n, first, Reconnected) /\ faults' = faults + Cost(at)
        \/ n = 0 /\ GotNone /\ faults' = faults + Cost(at) + Cost(Reconnected) /\ faults' <= MaxFaults

(* stream_fill_buffer, for whatever call needs it: "some" or "eof" is what it returned. *)

NeedsFill ==
  \/ pc \in {"read", "skip"} /\ Held = 0 /\ op.left > 0
  \/ pc = "line" /\ Held = 0
  \/ pc = "forward" /\ pos < op.target - op.left
  \/ pc = "place"
Returned(length) == IF length = 0 THEN "eof" ELSE "some"
FillFirst ==
  /\ NeedsFill /\ fill = "no"
  /\ \E n \in 0..Size, again \in BOOLEAN :
     /\ stream_read_internal(0, n, again) /\ at_eof' = (n = 0)
     /\ IF n > 0 THEN sbuf_pos' = 0 /\ sbuf_len' = n
        ELSE IF again THEN sbuf_pos' = 0 /\ sbuf_len' = 0 ELSE UNCHANGED <<sbuf_pos, sbuf_len>>
     /\ fill' = IF n > 0 /\ n < StreamMin THEN "more" ELSE Returned(n)
  /\ UNCHANGED <<kind, pc, call, spoilt, calls>>
\* stream_reset has emptied the buffer when a read is repeated.
FillMore ==
  /\ fill = "more"
  /\ \E n \in 0..StreamMin, again \in BOOLEAN :
     /\ stream_read_internal(sbuf_len, n, again)
     /\ sbuf_len' = n + (IF again THEN 0 ELSE sbuf_len)
     /\ at_eof' = FALSE /\ sbuf_pos' = sbuf_pos /\ spoilt' = (spoilt \/ again)
     /\ fill' = IF n > 0 /\ sbuf_len' < StreamMin THEN "more" ELSE Returned(sbuf_len')
  /\ UNCHANGED <<kind, pc, call, calls>>

-----------------------------------------------------------------------------
(* Calls                                                                   *)

Ready == fill \in {"no", "some"}
CallDone(r) == pc' = "idle" /\ result' = r
Copied(n) == [i \in 1..n |-> sbuffer[sbuf_pos + i - 1]]
\* n bytes are taken out of the buffer, k of them are delivered
Take(n, k) == sbuf_pos' = sbuf_pos + n /\ out' = out \o Copied(k)

Starts(name, left, target) ==
  /\ pc = "idle" /\ calls < MaxCalls /\ calls' = calls + 1
  /\ op' = [name |-> name, left |-> left, target |-> target]
  /\ from' = stream_tell /\ out' = <<>> /\ fill' = "no" /\ kind' = kind

\* stream_read, and stream_skip over what is not far, byte by byte the same way
StartRead ==
  /\ \E name \in {"read", "skip"}, total \in Targets :
     /\ Starts(name, total, 0) /\ pc' = name
     /\ name = "skip" => ~(total > 2 * Size /\ kind.forward)
  /\ UNCHANGED <<at, stream, result, spoilt, faults>>
Serve ==
  /\ pc \in {"read", "skip"} /\ Ready /\ Held > 0 /\ op.left > 0
  /\ LET n == LesserOf(Held, op.left) IN
     Take(n, IF pc = "read" THEN n ELSE 0) /\ op' = [op EXCEPT !.left = @ - n]
  /\ fill' = "no"
  /\ UNCHANGED <<kind, at, pos, at_eof, sbuffer, sbuf_len, pc, from, result, spoilt, calls, faults>>
Served ==
  /\ pc \in {"read", "skip"} /\ fill # "more"
  /\ \/ op.left = 0 /\ CallDone(1)
     \/ fill = "eof" /\ CallDone(0)
  /\ fill' = "no" /\ UNCHANGED <<kind, at, stream, op, from, out, spoilt, calls, faults>>

\* stream_read_until with a mem of max bytes
StartLine ==
  /\ \E max \in Targets : max > 1 /\ Starts("line", max - 1, 0)
  /\ pc' = "line" /\ UNCHANGED <<at, stream, result, spoilt, faults>>
Line ==
  /\ pc = "line" /\ Ready /\ Held > 0
  /\ LET ends == {i \in 1..Held : sbuffer[sbuf_pos + i - 1] \in Newlines}
         length == IF ends = {} THEN Held ELSE CHOOSE i \in ends : \A j \in ends : i <= j
         n == IF op.left > 0 THEN LesserOf(length, op.left) ELSE length
         k == IF op.left > 0 THEN n ELSE 0
     IN /\ Take(n, k) /\ op' = [op EXCEPT !.left = @ - k]
        /\ IF ends # {} THEN CallDone(IF at_eof /\ out' = <<>> THEN 0 ELSE 1) ELSE UNCHANGED <<pc, result>>
  /\ fill' = "no" /\ UNCHANGED <<kind, at, pos, at_eof, sbuffer, sbuf_len, from, spoilt, calls, faults>>
LineAtEnd ==
  /\ pc = "line" /\ fill = "eof" /\ CallDone(IF at_eof /\ out = <<>> THEN 0 ELSE 1)
  /\ fill' = "no" /\ UNCHANGED <<kind, at, stream, op, from, out, spoilt, calls, faults>>

\* stream_seek to target, and stream_skip over what is far or back
Seek ==
  /\ \E target \in {t \in Targets \cup {stream_tell + n : n \in {-StreamMin} \cup
                      {m \in Targets : kind.forward /\ m > 2 * Size}} : t >= 0} :
     LET x == target - (pos - sbuf_len)
         newpos == (target \div Size) * Size
         Stays == UNCHANGED <<at, pos, at_eof>>
         Long == sbuf_pos' = 0 /\ sbuf_len' = 0
     IN /\ Starts("seek", target - newpos, target)
        /\ \/ /\ sbuf_len = 0 /\ pos = target
              /\ CallDone(1) /\ Stays /\ UNCHANGED <<sbuf_pos, sbuf_len, spoilt, faults>>
           \/ /\ ~(sbuf_len = 0 /\ pos = target) /\ target < pos /\ x >= 0
              /\ CallDone(1) /\ Stays /\ sbuf_pos' = x /\ UNCHANGED <<sbuf_len, spoilt, faults>>
           \/ /\ ~(sbuf_len = 0 /\ pos = target) /\ (target >= pos \/ x < 0) /\ Long
              /\ IF newpos # 0 /\ newpos = pos
                 THEN pc' = "forward" /\ Stays /\ UNCHANGED <<result, spoilt, faults>>
                 ELSE IF ~kind.seeks
                 THEN /\ IF newpos < pos THEN CallDone(1) ELSE pc' = "forward" /\ result' = result
                      /\ Stays /\ UNCHANGED <<spoilt, faults>>
                 ELSE \/ /\ at' = newpos /\ pos' = newpos /\ pc' = "forward"
                         /\ UNCHANGED <<at_eof, result, spoilt, faults>>
                      \/ /\ pos' = newpos /\ at' = at /\ at_eof' = TRUE /\ CallDone(0) /\ spoilt' = TRUE
                         /\ faults < MaxFaults /\ faults' = faults + 1
  /\ UNCHANGED sbuffer
Forward ==
  /\ pc = "forward" /\ fill # "more"
  /\ \/ fill = "some" /\ pc' = pc
     \/ (fill = "eof" \/ (fill = "no" /\ ~NeedsFill)) /\ pc' = "place"
  /\ fill' = "no" /\ UNCHANGED <<kind, at, stream, call, spoilt, calls, faults>>
\* What is left to go when the buffer is passed
\* Seeded error: all.
LeftKept == op.left
Left == op.left - sbuf_len
Place ==
  /\ pc = "place"
  /\ \/ /\ fill = "some" /\ op.left <= sbuf_len
        /\ sbuf_pos' = op.left /\ CallDone(1) /\ op' = op
     \/ /\ fill = "some" /\ op.left > sbuf_len
        /\ op' = [op EXCEPT !.left = Left] /\ UNCHANGED <<sbuf_pos, pc, result>>
     \/ /\ fill = "eof" /\ CallDone(0) /\ UNCHANGED <<op, sbuf_pos>>
  /\ fill' = "no" /\ UNCHANGED <<kind, at, pos, at_eof, sbuffer, sbuf_len, from, out, spoilt, calls, faults>>

StreamNext == \/ FillFirst \/ FillMore \/ StartRead \/ Serve \/ Served \/ StartLine \/ Line \/ LineAtEnd
        \/ Seek \/ Forward \/ Place
StreamSpec == StreamInit /\ [][StreamNext]_streamVars
-----------------------------------------------------------------------------
StreamTypeOK ==
  /\ kind \in Kinds /\ at \in Nat /\ pos \in Nat /\ at_eof \in BOOLEAN
  /\ sbuffer \in [0..Size - 1 -> -1..PlainLen - 1] /\ sbuf_pos \in 0..sbuf_len /\ sbuf_len \in 0..Size
  /\ fill \in {"no", "more", "some", "eof"} /\ op.left \in Nat /\ result \in 0..1

\* What a call has delivered are the bytes of the file from where the stream was said to be, however
\* many reads filled the buffer and whatever was sought before, failed reads repeated included; and
\* one failed read at a time ends nothing: a call comes short only at the end of the file.
ReadsTrue ==
  ~spoilt =>
    /\ \A i \in 1..Len(out) : out[i] = from + i - 1
    /\ pc = "idle" /\ op.name = "read" /\ result = 0 /\ faults <= 1 => from + Len(out) >= PlainLen

\* Where it can seek, a seek that says so has got to its place.
SeekLands ==
  pc = "idle" /\ op.name = "seek" /\ result = 1 /\ kind.seeks /\ ~spoilt => stream_tell = op.target

\* Once its first read has succeeded stream_fill_buffer does not say it is at the end.
SomeIsRead == [][fill = "more" => fill' # "eof"]_streamVars

\* Reads, lines, skips and seeks: each gets the bytes of its position.
StreamTrue == ReadsTrue /\ SeekLands
=============================================================================
