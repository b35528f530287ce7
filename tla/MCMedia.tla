------------------------------- MODULE MCMedia -------------------------------
(* What the packets of a file go through until they are sound, each part on   *)
(* its own: the queues of DemuxQueues, the chain of AudioFilters, and the     *)
(* buffers and the device of AudioPlayback.                                   *)
EXTENDS DemuxQueues, AudioFilters, AudioPlayback

CONSTANT Parts  \* those of them a run explores
VARIABLE part   \* the one that is explored

Data(n, f, r) == [nch |-> n, fmt |-> f, rate |-> r]
McInputs == {Data(1, "s16", 4), Data(2, "float", 2), Data(6, "s16", 4), Data(2, "ac3", 4)}
McDevices == {Data(2, "s16", 4)}
McLists == {<<>>, <<<<"volnorm", 1>>, <<"channels", 4>>>>}
McCommands == {<<"pan", 1>>, <<"volume">>, <<"sub", 3>>, <<"surround">>, <<"format", "u8">>}
McCmdLines == {<<"format", "u8">>, <<"format", "s16">>, <<"channels", 1>>, <<"sub", 1>>, <<"lavcresample", 2>>}
McFiles == {<<"a","a","b">>, <<"a","bad","a">>, <<"a","b","a">>}

InitMedia ==
  /\ part \in Parts
  \* What is not explored starts in one of its states
  /\ IF part = "demux" THEN TRUE ELSE file = <<>>
  /\ IF part = "filters" THEN TRUE ELSE force = 1 /\ list = <<>> /\ dec = Data(1, "s16", 4)
  /\ IF part = "playback" THEN TRUE ELSE track = <<"a","a","b">> /\ video = FALSE /\ canPause = FALSE
  /\ DemuxInit /\ Init /\ SoundInit
  /\ Cardinality({i \in DOMAIN file : file[i] \in {"bad", "s"}}) <= 1

allVars == <<part, demuxVars, vars, soundVars>>
DemuxStep(A) == part = "demux" /\ A /\ UNCHANGED <<part, vars, soundVars>>
FiltersStep(A) == part = "filters" /\ A /\ UNCHANGED <<part, demuxVars, soundVars>>
PlaybackStep(A) == part = "playback" /\ A /\ UNCHANGED <<part, demuxVars, vars>>
\* Only the demuxer's player never stops for good before it has told so.
Rest == part # "demux" /\ UNCHANGED allVars
NextMedia == DemuxStep(DemuxNext) \/ FiltersStep(Next) \/ PlaybackStep(SoundNext) \/ Rest
MediaSpec == /\ InitMedia /\ [][NextMedia]_allVars
             /\ WF_allVars(DemuxStep(Fill)) /\ SF_allVars(DemuxStep(EndOfPlay))
             /\ \A s \in Queued : SF_allVars(DemuxStep(ds_get_packet(s)))
             /\ WF_allVars(PlaybackStep(FillOut)) /\ WF_allVars(PlaybackStep(Tick))
             /\ WF_allVars(PlaybackStep(Resume)) /\ SF_allVars(PlaybackStep(VideoEnds))

\* Whatever is done to the chain its filters fit together and the device, and the factors they
\* report make up its change of length; what af_cmdline leaves of that: see AudioFilters.
ChainTrue == ChainFits /\ MultiplierTrue
\* See DemuxQueues and AudioPlayback.
EndReached == part = "demux" => PlayingEnds
PlaybackEnds == part = "playback" => SoundEnds
=============================================================================
