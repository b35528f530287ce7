---------------------------- MODULE CodecSelect ----------------------------
(***************************************************************************)
(* The choice of a decoder (dec_audio.c and dec_video.c alike): the lists  *)
(* of the options -ac or -vc and -afm or -vfm are gone through, and for    *)
(* every entry codecs.conf in its order; a codec that was tried is tagged  *)
(* and not tried again.                                                    *)
(*                                                                         *)
(* A codec is a record: name, fam (its driver), status, dummy, fits (it    *)
(* has the file's format), there (the driver is compiled in) and ok (it    *)
(* can be set up for the file).  An entry of the list is empty, turns a    *)
(* codec off or names one, whatever its format if forced.                  *)
(***************************************************************************)
EXTENDS Integers, Sequences, SequencesExt, FiniteSetsExt

STATUS_MIN == 0           \* CODECS_STATUS_PROBLEMS
STATUS_MAX == 2           \* CODECS_STATUS_UNTESTED
AnyCodec == [what |-> "any", name |-> "", force |-> FALSE]
Off(name) == [what |-> "off", name |-> name, force |-> FALSE]
Named(name, force) == [what |-> "name", name |-> name, force |-> force]

\* The codecs find_codec returns one after the other: formats do not matter for dummies
find_codec(codec, force) == codec.fits \/ codec.dummy \/ force
\* Seeded error: a codec is tagged before its status is looked at.
WantedByName(codec, entry, fam, status) ==
  /\ entry.what = "name" => codec.name = entry.name
  /\ fam # "" => codec.fam = fam
Wanted(codec, entry, fam, status) ==
  /\ entry.what = "name" => codec.name = entry.name
  /\ fam # "" => codec.fam = fam
  /\ entry.force \/ codec.status >= status
Inits(codec, entry, status) ==
  codec.there /\ (codec.dummy => entry.what = "name") /\ codec.ok
    /\ (entry.force \/ codec.status >= status)

\* init_audio, init_video: state is what was tagged, and the codec that was set up
init(codecs, entry, fam, status, state) ==
  LET try(s, c) ==
        IF s.got # "" \/ ~find_codec(c, entry.force) \/ c.name \in s.selected
           \/ ~Wanted(c, entry, fam, status) THEN s
        ELSE [selected |-> s.selected \cup {c.name},
              got |-> IF Inits(c, entry, status) THEN c.name ELSE ""]
  IN FoldLeft(try, state, codecs)
\* From the most stable status down
ByStatus(codecs, fam, state) ==
  FoldLeft(LAMBDA s, status : IF s.got # "" THEN s ELSE init(codecs, AnyCodec, fam, status, s),
           state, [i \in 1..STATUS_MAX - STATUS_MIN + 1 |-> STATUS_MAX + 1 - i])
\* init_best_audio_codec, init_best_video_codec: "" when no codec can be used
init_best_codec(codecs, list, fams) ==
  LET entry(s, e) ==
        CASE s.got # "" -> s
          [] e.what = "off" -> [s EXCEPT !.selected = @ \cup {e.name}]
          [] e.what = "name" -> init(codecs, e, "", -1, s)
          [] OTHER ->
               LET preferred == FoldLeft(LAMBDA t, fam : IF t.got # "" THEN t ELSE ByStatus(codecs, fam, t),
                                         s, fams)
               IN IF preferred.got # "" THEN preferred ELSE ByStatus(codecs, "", preferred)
  IN FoldLeft(entry, [selected |-> {}, got |-> ""], IF list = <<>> THEN <<AnyCodec>> ELSE list).got

-----------------------------------------------------------------------------
(* What the options promise                                                *)

\* The codecs an entry allows for when those named in off are turned off
Allowed(codecs, e, off) ==
  {i \in DOMAIN codecs :
     LET c == codecs[i] IN
     /\ c.there /\ c.ok /\ c.name \notin off
     /\ IF e.what = "name" THEN c.name = e.name /\ (c.fits \/ c.dummy \/ e.force)
        ELSE ~c.dummy /\ c.fits /\ c.status >= STATUS_MIN}
\* The first in the order of the families, the status, and codecs.conf
Rank(fams, c) == IF Contains(fams, c.fam) THEN Min({i \in DOMAIN fams : fams[i] = c.fam}) ELSE Len(fams) + 1
Better(codecs, fams, i, j) ==
  LET a == codecs[i] b == codecs[j] IN
  \/ Rank(fams, a) < Rank(fams, b)
  \/ Rank(fams, a) = Rank(fams, b) /\ a.status > b.status
  \/ Rank(fams, a) = Rank(fams, b) /\ a.status = b.status /\ i <= j
OffBefore(list, k) == {list[n].name : n \in {n \in 1..k - 1 : list[n].what = "off"}}
BestOf(codecs, list, fams) ==
  LET entries == IF list = <<>> THEN <<AnyCodec>> ELSE list
      able == {k \in DOMAIN entries : entries[k].what # "off" /\ Allowed(codecs, entries[k], OffBefore(entries, k)) # {}}
  IN IF able = {} THEN ""
     ELSE LET k == Min(able) set == Allowed(codecs, entries[k], OffBefore(entries, k))
          IN codecs[CHOOSE i \in set : \A j \in set : Better(codecs, fams, i, j)].name
\* What is left out: the tag of a dummy is set by an empty entry, which does not try it, and then
\* keeps a later entry that names it from trying it
DummyTagged(codecs, list) ==
  \E k \in DOMAIN list : \E n \in 1..k - 1 :
    list[k].what = "name" /\ list[n] = AnyCodec /\ \E i \in DOMAIN codecs : codecs[i].name = list[k].name /\ codecs[i].dummy
=============================================================================
