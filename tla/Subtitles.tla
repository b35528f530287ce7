------------------------------ MODULE Subtitles ------------------------------
(***************************************************************************)
(* Which subtitles are selected and which of them is shown (command.c,     *)
(* mplayer.c, mpcommon.c, find_sub.c): files of subtitles, read with the   *)
(* film or while it plays and removed again, and the tracks of the film,   *)
(* numbered one after the other.  find_sub remembers where it was and the  *)
(* gap it is in, and forgets them when it is given another file.           *)
(***************************************************************************)
EXTENDS Integers, Sequences, FiniteSets

CONSTANTS
  Contents,  \* of subtitle files: sequences of [start, end], in order
  Tracks,    \* of films: sequences of the stream numbers of their subtitle tracks
  MaxTime, SECOND,
  MaxFilms, MaxReads,  \* films played, subtitle files read in all
  MaxCommands,
  Reuse      \* a subtitle file may be read to where another was before
\* A file with no subtitle is not kept; of two subtitles the first neither starts nor ends later.
ASSUME ContentsAssumption ==
  \A subs \in Contents :
    /\ subs \in Seq([start : Int, end : Int]) /\ subs # <<>>
    /\ \A i, j \in 1..Len(subs) : i < j => subs[i].start <= subs[j].start /\ subs[i].end <= subs[j].end
ASSUME TracksAssumption == Tracks \subseteq Seq(Nat)
ASSUME SubtitlesBounds == MaxReads \in Nat /\ MaxTime \in Nat /\ SECOND \in Nat /\ Reuse \in BOOLEAN

Addresses == 1..MaxReads
None == [of |-> 0, n |-> 0]     \* NULL
Packets == [of |-> 0, n |-> 1]  \* the lines of the selected track
NOTHING == -1000
MAXINT == 1000

VARIABLES
  playing, films, reads, commands,
  heap,              \* what subtitle files are in memory, <<>> where there is none
  set_of_subtitles, counts, global_sub_pos, set_of_sub_pos,
  subdata,           \* the file selected, 0 for NULL
  sub_tracks, d_sub, sub_id,
  current_sub, nosub_range, last_sub_data,
  sub_last_pts, sub_delay, now,
  vo_sub,            \* what is shown
  pending,           \* "sub_select" is queued
  looked             \* what find_sub was last called for, while that is shown
subBounds == <<films, reads, commands>>
subFiles == <<heap, set_of_subtitles, counts>>
selection == <<global_sub_pos, set_of_sub_pos, subdata, d_sub, sub_id>>
search == <<current_sub, nosub_range, last_sub_data, sub_last_pts, vo_sub, looked>>
subVars == <<playing, subBounds, subFiles, selection, sub_tracks, search, sub_delay, now, pending>>

SubInit ==
  /\ playing = FALSE /\ films = 0 /\ reads = 0 /\ commands = 0
  /\ heap = [a \in Addresses |-> <<>>] /\ set_of_subtitles = <<>>
  /\ counts = [subs |-> 0, demux |-> 0]
  /\ global_sub_pos = -1 /\ set_of_sub_pos = -1 /\ subdata = 0
  /\ sub_tracks = <<>> /\ d_sub = -2 /\ sub_id \in {-1, 0}
  /\ current_sub = 0 /\ nosub_range = <<-1, -1>> /\ last_sub_data = 0
  /\ sub_last_pts = NOTHING /\ sub_delay = 0 /\ now = 0
  /\ vo_sub = None /\ pending = FALSE /\ looked = NOTHING

-----------------------------------------------------------------------------
(* find_sub: the subtitle of subs that is due, from the place cur and the   *)
(* gap it last was in.                                                      *)

Due(sub, key) == sub.start <= key /\ key <= sub.end
Inside(range, key) == range[1] < key /\ key < range[2]
\* One turn of the search: the place in the middle is looked at, and what cannot be due is left out.
Narrowed(subs, key, turn) ==
  LET m == (turn.lo + turn.hi + 1) \div 2 IN
  IF turn.hi < turn.lo THEN turn
  ELSE IF key < subs[m + 1].start THEN [lo |-> turn.lo, hi |-> m - 1, at |-> m]
  ELSE IF key > subs[m + 1].end THEN [lo |-> m + 1, hi |-> turn.hi, at |-> m]
  ELSE [lo |-> m, hi |-> m, at |-> m]
\* As many turns as there are subtitles are enough.
Turns(subs, key, from) ==
  LET turns[k \in 0..Len(subs)] ==
        IF k = 0 THEN [lo |-> 0, hi |-> Len(subs) - 1, at |-> from]
        ELSE Narrowed(subs, key, turns[k - 1])
  IN turns
Bisected(subs, key, from) == Turns(subs, key, from)[Len(subs)].at
\* at: current_sub afterwards; sub: shown or not; range: nosub_range afterwards
Searched(subs, key, cur, range) ==
  LET n == Len(subs)
      Gap(i) == <<subs[i + 1].end, IF i + 2 > n THEN MAXINT ELSE subs[i + 2].start>>
      more == cur + 1 < n
      at == Bisected(subs, key, cur)
      Found(i) == [at |-> i, sub |-> TRUE, range |-> range]
      NoSub(i, gap) == [at |-> i, sub |-> FALSE, range |-> gap]
  IN IF key <= 0 THEN NoSub(cur, range)
     ELSE IF more /\ Inside(Gap(cur), key) THEN NoSub(cur, Gap(cur))
     ELSE IF more /\ Due(subs[cur + 2], key) THEN Found(cur + 1)
     ELSE IF Due(subs[at + 1], key) THEN Found(at)
     ELSE IF key < subs[at + 1].start
       THEN IF at = 0 THEN NoSub(0, <<key - 1, subs[1].start>>)
            ELSE NoSub(at - 1, IF Inside(Gap(at - 1), key) THEN Gap(at - 1) ELSE range)
       ELSE NoSub(at, IF Inside(Gap(at), key) \/ at + 1 >= n THEN Gap(at) ELSE range)

\* The gap that still counts when data is given
\* Seeded error: it does whatever file it is in.
KeptRangeAlways(data) == nosub_range
KeptRange(data) == IF last_sub_data = data THEN nosub_range ELSE <<-1, -1>>
find_sub(data, key, shown) ==
  LET subs == heap'[data]
      same == IF shown # None THEN Due(heap'[shown.of][shown.n], key)
              ELSE Inside(KeptRange(data), key)
      r == Searched(subs, key, current_sub, KeptRange(data))
  IN /\ last_sub_data' = data
     /\ IF same THEN vo_sub' = shown /\ current_sub' = current_sub /\ nosub_range' = KeptRange(data)
        ELSE /\ vo_sub' = IF r.sub THEN [of |-> data, n |-> r.at + 1] ELSE None
             /\ current_sub' = r.at /\ nosub_range' = r.range

\* Seeded error: what was shown of another source stays.
ShownKept(reset) == vo_sub
Shown(reset) == IF reset THEN None ELSE vo_sub
\* update_subtitles at time pts: files are looked at as time goes on, packets when they are due
update_subtitles(pts, reset) ==
  IF subdata' # 0 /\ (pts > sub_last_pts \/ pts < sub_last_pts - SECOND)
  THEN /\ find_sub(subdata', pts - sub_delay, Shown(reset))
       /\ sub_last_pts' = pts /\ looked' = pts - sub_delay
  ELSE /\ vo_sub' \in {Shown(reset)} \cup (IF d_sub' >= 0 THEN {Packets} ELSE {})
       /\ looked' = IF vo_sub' = vo_sub /\ ~reset THEN looked ELSE NOTHING
       /\ UNCHANGED <<current_sub, nosub_range, last_sub_data, sub_last_pts>>

-----------------------------------------------------------------------------
(* The numbers of the subtitles.                                           *)

Size == counts.subs + counts.demux
Source(pos, c) == IF pos < 0 \/ pos >= c.subs + c.demux THEN "none"
                  ELSE IF pos < c.subs THEN "subs" ELSE "demux"
FirstOf(source, c) == IF source = "subs" THEN 0 ELSE c.subs
\* update_global_sub_size: a track the demuxer has selected by itself
Detected(pos) == IF pos = -1 /\ d_sub >= 0 /\ d_sub < counts.demux THEN counts.subs + d_sub ELSE pos

\* mp_property_sub, once the number is known
Select(pos) ==
  LET source == Source(pos, counts') IN
  /\ global_sub_pos' = pos
  /\ set_of_sub_pos' = IF source = "subs" THEN pos ELSE -1
  /\ subdata' = IF source = "subs" /\ pos < Len(set_of_subtitles') THEN set_of_subtitles'[pos + 1] ELSE 0
  /\ sub_id' = IF source = "demux" THEN pos - counts'.subs ELSE -1
  /\ d_sub' = IF source = "demux" THEN sub_tracks'[pos - counts'.subs + 1] ELSE -2
  /\ update_subtitles(now', TRUE)
SelectSet(pos) == Select(IF pos < -1 THEN -1 ELSE IF pos >= Size THEN Size - 1 ELSE pos)
SelectUp(pos) == Select(((Detected(pos) + 2) % (Size + 1)) - 1)
SelectDown(pos) == Select(((Detected(pos) + Size + 1) % (Size + 1)) - 1)

-----------------------------------------------------------------------------
(* Films and their subtitles.                                              *)

FreePlaces == {a \in Addresses : heap[a] = <<>> /\ (Reuse \/ a > reads)}
\* Where the next n files are read to
Places(n) == {p \in [1..n -> FreePlaces] : \A i \in 1..n : Cardinality({a \in FreePlaces : a < p[i]}) = i - 1}
ReadTo(at, content, n) ==
  [a \in Addresses |-> IF \E i \in 1..n : at[i] = a THEN content[CHOOSE i \in 1..n : at[i] = a] ELSE heap[a]]
\* load_subtitles and select_subtitle
OpenFilm ==
  /\ ~playing /\ films < MaxFilms /\ films' = films + 1 /\ playing' = TRUE
  /\ now' = 0 /\ pending' = FALSE /\ sub_tracks' \in Tracks
  /\ \E n \in 0..2 : \E at \in Places(n), content \in [1..n -> Contents] :
     /\ reads' = reads + n /\ set_of_subtitles' = at
     /\ heap' = ReadTo(at, content, n)
     /\ counts' = [subs |-> n, demux |-> Len(sub_tracks')]
     /\ \/ /\ sub_id >= 0 /\ sub_tracks' # <<>>
           /\ Select(IF sub_id > Len(sub_tracks') THEN -1
                     ELSE IF sub_id = Len(sub_tracks') THEN n + sub_id - 1 ELSE n + sub_id)
        \/ /\ sub_id < 0 \/ sub_tracks' = <<>>
           /\ n > 0 /\ Select(0)
        \/ /\ sub_id < 0 /\ n = 0
           /\ \E default \in 0..Len(sub_tracks') - 1 : Select(default)
        \/ /\ sub_id < 0 \/ sub_tracks' = <<>>
           /\ n = 0 /\ global_sub_pos' = -1 /\ d_sub' = sub_id
           /\ UNCHANGED <<set_of_sub_pos, subdata, sub_id, search>>
  /\ UNCHANGED <<commands, sub_delay>>
\* uninit_player: the files are freed
CloseFilm ==
  /\ playing /\ playing' = FALSE
  /\ heap' = [a \in Addresses |-> IF \E i \in DOMAIN set_of_subtitles : set_of_subtitles[i] = a
                                  THEN <<>> ELSE heap[a]]
  /\ set_of_subtitles' = <<>> /\ subdata' = 0 /\ vo_sub' = None /\ looked' = NOTHING
  /\ d_sub' = -2 /\ sub_tracks' = <<>>
  /\ UNCHANGED <<subBounds, counts, global_sub_pos, set_of_sub_pos, sub_id, current_sub, nosub_range,
                 last_sub_data, sub_last_pts, sub_delay, now, pending>>

Frame ==
  /\ playing /\ ~pending /\ now' \in now + 1..now + 2 /\ now' <= MaxTime
  /\ UNCHANGED <<playing, subBounds, subFiles, selection, sub_tracks, sub_delay, pending>>
  /\ update_subtitles(now', FALSE)
SeekFilm ==
  /\ playing /\ ~pending /\ commands < MaxCommands /\ commands' = commands + 1
  /\ now' \in 0..MaxTime
  /\ UNCHANGED <<playing, films, reads, subFiles, selection, sub_tracks, sub_delay, pending>>
  /\ update_subtitles(now', TRUE)

-----------------------------------------------------------------------------
(* Commands.                                                               *)

SubCommand == playing /\ commands < MaxCommands /\ commands' = commands + 1
FilmKept == UNCHANGED <<playing, films, reads, subFiles, sub_tracks, sub_delay, now>>

\* "sub_select": the next, the one before, or a number
SubSelect ==
  /\ \/ SubCommand /\ pending' = pending
     \/ playing /\ pending /\ pending' = FALSE /\ commands' = commands
  /\ FilmKept
  /\ IF Size = 0 THEN UNCHANGED <<selection, search>>
     ELSE \/ SelectUp(global_sub_pos)
          \/ pending' = pending /\ (SelectDown(global_sub_pos) \/ \E n \in -1..Size : SelectSet(n))

\* "sub_source": a source, or the next one that has any.  mp_property_sub is made to step onto the
\* number found.
SubSource ==
  /\ SubCommand /\ FilmKept /\ pending' = pending /\ Size > 0
  /\ LET pos == Detected(global_sub_pos)
         source == Source(pos, counts)
         Counted(s) == s = "none" \/ counts[s] > 0
     IN \E to \in {s \in {"none", "subs", "demux"} : Counted(s)} :
        SelectUp((IF to = "none" THEN -1 ELSE IF to = source THEN pos ELSE FirstOf(to, counts)) - 1)

\* "sub_file" and "sub_demux": a number within the source, or the next or the one before
SubByType ==
  /\ SubCommand /\ FilmKept /\ pending' = pending
  /\ \E source \in {"subs", "demux"} :
     LET pos == Detected(global_sub_pos)
         from == FirstOf(source, counts)
         current == Source(pos, counts) = source
     IN /\ counts[source] > 0
        /\ \/ \E n \in -1..counts[source] : SelectSet(IF n < 0 THEN -1 ELSE from + n)
           \/ SelectSet(IF ~current THEN from ELSE IF pos + 1 >= Size THEN -1 ELSE pos + 1)
           \/ SelectSet(IF ~current \/ pos - 1 < from THEN -1 ELSE pos - 1)

SubLoad ==
  /\ SubCommand /\ \E at \in Places(1), content \in Contents :
     /\ reads' = reads + 1 /\ heap' = [heap EXCEPT ![at[1]] = content]
     /\ set_of_subtitles' = set_of_subtitles \o at
     /\ counts' = [counts EXCEPT !.subs = @ + 1]
  /\ UNCHANGED <<playing, films, selection, sub_tracks, search, sub_delay, now, pending>>

\* remove_subtitle_range, of one file or of all
\* Seeded error: the file selected is not given up.
GivenUpKept(from, to) == FALSE
GivenUp(from, to) == set_of_sub_pos >= from /\ set_of_sub_pos < to
SubRemove ==
  /\ SubCommand
  /\ \E from \in 0..Len(set_of_subtitles) - 1 : \E to \in {from + 1, Len(set_of_subtitles)} :
     LET gone == {set_of_subtitles[i] : i \in from + 1..to}
         left == SubSeq(set_of_subtitles, 1, from)
                   \o SubSeq(set_of_subtitles, to + 1, Len(set_of_subtitles))
     IN /\ to = from + 1 \/ from = 0
        /\ heap' = [a \in Addresses |-> IF a \in gone THEN <<>> ELSE heap[a]]
        /\ set_of_subtitles' = left
        /\ counts' = IF left = <<>> THEN [counts EXCEPT !.subs = 0] ELSE counts
        /\ IF GivenUp(from, to)
           THEN global_sub_pos' = -2 /\ subdata' = 0 /\ pending' = TRUE /\ UNCHANGED set_of_sub_pos
           ELSE LET back == IF set_of_sub_pos >= to THEN to - from ELSE 0 IN
                /\ set_of_sub_pos' = set_of_sub_pos - back
                /\ global_sub_pos' = global_sub_pos - back
                /\ UNCHANGED <<subdata, pending>>
  /\ looked' = IF subdata' = 0 THEN NOTHING ELSE looked
  /\ UNCHANGED <<playing, films, reads, d_sub, sub_id, sub_tracks, current_sub, nosub_range,
                 last_sub_data, sub_last_pts, vo_sub, sub_delay, now>>

\* step_sub: the delay is set so that another subtitle is due.  Where find_sub last was may be beyond
\* the end of the file, what is compared with is anything then.
SubStep ==
  /\ SubCommand /\ subdata # 0
  /\ \E movement \in {-1, 1} :
     LET subs == heap[subdata]
         key == now - sub_delay
         beyond == current_sub >= Len(subs)
         unshown == IF movement > 0 THEN key < subs[current_sub + 1].start
                    ELSE key >= subs[current_sub + 1].end
     IN \E stay \in IF beyond THEN BOOLEAN ELSE {unshown} :
        LET to == current_sub + (IF stay THEN 0 ELSE movement) IN
        /\ current_sub' = IF to < 0 THEN 0 ELSE IF to >= Len(subs) THEN Len(subs) - 1 ELSE to
        /\ sub_delay' = now - subs[current_sub' + 1].start
  /\ UNCHANGED <<playing, films, reads, subFiles, selection, sub_tracks, nosub_range, last_sub_data,
                 sub_last_pts, vo_sub, looked, now, pending>>

SubNext == \/ OpenFilm \/ CloseFilm \/ Frame \/ SeekFilm
        \/ SubSelect \/ SubSource \/ SubByType \/ SubLoad \/ SubRemove \/ SubStep
SubSpec == SubInit /\ [][SubNext]_subVars

-----------------------------------------------------------------------------
(* Properties.                                                             *)

SubTypeOK ==
  /\ heap \in [Addresses -> Contents \cup {<<>>}]
  /\ counts \in [subs : Nat, demux : Nat] /\ global_sub_pos \in Int
  /\ current_sub \in Nat /\ subdata \in 0..MaxReads /\ now \in 0..MaxTime

\* After find_sub has looked at a file, whatever it remembers of this file and of others, after
\* seeks, steps and changes of the delay, what is shown is what is due, and nothing where nothing is.
DueShown ==
  looked # NOTHING =>
    LET subs == heap[subdata]
        due == {n \in DOMAIN subs : Due(subs[n], looked)}
    IN /\ vo_sub # None => vo_sub.of = subdata /\ vo_sub.n \in due
       /\ looked > 0 /\ due # {} => vo_sub # None

\* There is one source of subtitles: a file that is selected is there, and is the one its numbers
\* say; then no track is read, and what is shown is of the file, or of the track.
OneSource ==
  playing =>
    /\ subdata # 0 => /\ set_of_sub_pos + 1 \in DOMAIN set_of_subtitles
                      /\ set_of_subtitles[set_of_sub_pos + 1] = subdata /\ heap[subdata] # <<>>
                      /\ global_sub_pos = set_of_sub_pos /\ d_sub < 0
    /\ vo_sub = Packets => subdata = 0 /\ d_sub >= 0
    /\ subdata # 0 /\ vo_sub # None => vo_sub.of = subdata

\* What is shown is in memory, once a removal is over.
ShownIsThere == ~pending /\ vo_sub.of # 0 => heap[vo_sub.of] # <<>>

\* What is shown is due, and of the one source that is selected.
ShownTrue == DueShown /\ OneSource
=============================================================================
