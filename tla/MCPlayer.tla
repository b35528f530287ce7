------------------------------ MODULE MCPlayer ------------------------------
(* The player's parts, how they are opened and closed in PlayerLife, and      *)
(* three of them closer, the pictures of VideoDecode and VideoBuffers and the *)
(* subtitles of Subtitles, each on its own: what one leaves open of another   *)
(* is any choice there.                                                       *)
EXTENDS PlayerLife, VideoBuffers, VideoDecode, Subtitles

VARIABLE part  \* which of them is explored

McFiles == {[audio |-> 2, video |-> 2], [audio |-> 1, video |-> 0]}
McVideoFiles == {<<1, 3, 2, 4>>, <<1, 2>>}
McContents == {<<[start |-> 1, end |-> 2], [start |-> 4, end |-> 4]>>, <<[start |-> 3, end |-> 2], [start |-> 3, end |-> 3]>>}
McTracks == {<<>>, <<1, 2>>}

Small == [w |-> 24, h |-> 18]
Wide == [w |-> 32, h |-> 18]
Picture(size, fmt, sar, refers) == [size |-> size, fmt |-> fmt, sar |-> sar, ref |-> refers]
Coded(n, size) == [i \in 1..n |-> Picture(size, "YV12", 1, TRUE)]
McFilms == {
  Coded(5, Small), Coded(2, Small) \o Coded(3, Wide),
  [i \in 1..6 |-> Picture(Small, "YV12", IF i < 5 THEN 1 ELSE 2, i \notin {3, 4})],
  Coded(1, Small) \o <<Picture(Small, "422P", 1, TRUE), Picture(Wide, "420P10", 1, TRUE)>>}
McCodecs ==
  [outfmt : {<<"YV12", "I420", "422P">>, <<"I420", "YV12", "420P10">>},
   direct : BOOLEAN, refs : {1, 3}, early : BOOLEAN, delay : 0..1]
McAspects == {<<0, 1>>, <<16, 9>>}
McSizings == {[x |-> 0, y |-> 0, xy |-> 0], [x |-> 0, y |-> 0, xy |-> 20], [x |-> 2, y |-> 30, xy |-> 0]}
Chosen == <<film, codec, container, sizing>>

InitPlayer ==
  /\ part \in {"life", "picture", "subtitles", "decoder"}
  /\ Init /\ VideoInit /\ SubInit /\ DecodeInit
  /\ part # "life" => ~player_idle_mode /\ ~fixed_vo
  /\ part # "picture" => ~keep_vo
  /\ part # "subtitles" => sub_id = -1
  /\ part # "decoder" => Chosen = CHOOSE c \in Films \X Codecs \X Aspects \X Sizings : TRUE
allVars == <<part, vars, videoVars, subVars, decodeVars>>
LifeStep(A) == part = "life" /\ A /\ UNCHANGED <<part, videoVars, subVars, decodeVars>>
PictureStep(A) == part = "picture" /\ A /\ UNCHANGED <<part, vars, subVars, decodeVars>>
SubtitlesStep(A) == part = "subtitles" /\ A /\ UNCHANGED <<part, vars, videoVars, decodeVars>>
DecoderStep(A) == part = "decoder" /\ A /\ UNCHANGED <<part, vars, videoVars, subVars>>
NextPlayer == \/ LifeStep(Next) \/ PictureStep(VideoNext)
              \/ SubtitlesStep(SubNext) \/ DecoderStep(DecodeNext)
PlayerSpec == InitPlayer /\ [][NextPlayer]_allVars /\ WF_allVars(LifeStep(Player))
=============================================================================
