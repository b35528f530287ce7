# TLA+ models of mplayer-mini

mplayer-mini is a reduced MPlayer for one machine: an OMAP board with a DRM
display and an HDMI output, where ffmpeg does the parsing and most decoding.
Almost all of it is sequential C, but its parts carry state from one call to the
next and are joined by queues, flags, pools of buffers, and a ring shared between
two processes; what goes wrong there depends on the order of many calls.  This
directory models those parts in TLA+, checks them with TLC and proves theorems
about eleven of the modules with TLAPS.

Paths are relative to the repository; the program is under `src/`.

## 1. Inventory

| component | code | state | operations | hard part |
|---|---|---|---|---|
| stream cache | `stream/cache2.c` | `cache_vars_t` in shared memory: ring, window `min/max_filepos`, `offset`, `read_filepos`, `eof`, `control*` | reader: `cache_read`, `cache_stream_seek_long`, `cache_do_control`; filler process: `cache_fill`, `cache_execute_control` | two processes and no lock |
| stream layer | `stream/stream.c`, `open.c`, `stream_file.c`, `stream_ffmpeg.c` | `stream_t`: `pos`, `eof`, a buffer, capabilities | fill buffer, read, lines, seek, skip, reset, reconnect | position and end after short reads, seeks, failures |
| key fifo, key interpretation | `mp_fifo.c`, `input/input.c` | fifo with the reserve for releases; `key_down[]`, autorepeat | put, get, `interpret_key`, `check_autorepeat` | what is dropped when the fifo is full |
| command queue | `input/input.c`, `command.c` | ring `cmd_queue`, `async_quit_request`, descriptors, bindings | queue, get, peek, interrupt, parse, bind, run | peek in one call, take in the next; signals; text cut at any byte |
| PS3 remote | `input/ps3remote.c` | thread, two flags, pipe, inotify | thread loop, read, close | shutdown without join |
| demuxer queues | `libmpdemux/demuxer.c`, `demuxer.h` | a queue per stream, current packet, `eof`, `fill_count` | `ds_fill_buffer`, `ds_get_next_pts`, `demux_seek`, switches, opening | one source feeds several queues, bounded; sticky `eof` |
| lavf demuxer | `libmpdemux/demux_lavf.c` | selected tracks, stream maps, last pts | read a packet, seek, control | packets refused by a filter, numbering of tracks, programs |
| play tree | `playtree.c`, `playtreeparser.c` | tree of entries with parameters; iterator: position, loop counters, status stack | step, up, down, get file, insert, remove, clean up, parse | loops and random order against the stack of configurations |
| configuration, options | `m_config.c`, `m_option.c`, `m_property.c`, `parser-cfg.c`, `parser-mpcmd.c` | option values, per-level save slots, profiles, lists on the heap | push, pop, set, profiles, includes, properties, templates | who owns what; which mode a text is read in; values restored |
| player core | `mplayer.c`, `command.c`, `mpcommon.c` | `mpctx`, `initialized_flags`, `time_frame`, `delay`, `eof` | open, play, seek, pause, next file, run a command, exit | order of set-up and tear-down, errors half way, signals |
| audio filters | `libaf/`, `mixer.c` | list of filters with formats and ratios | init, add, remove, command, mixer | converters come and go while the chain is fitted |
| audio decoding, output | `libmpcodecs/dec_audio.c`, `ad_ffmpeg.c`, `libao2/` | `a_buffer`, `a_out_buffer`, ALSA's ring | decode, filter, play, pause, reset | partial frames, format changes, short writes, suspend |
| video decoding, filters | `libmpcodecs/dec_video.c`, `vd*.c`, `vf*.c` | codec contexts, images, frame pool, pts buffer | decode, configure, get a buffer, put | two owners of a buffer; delayed frames; changes of size |
| video output | `libvo/` | ring of three buffers, plane, mode, DRM resources | preinit, get, lock, put, flip, uninit | buffers released before they are shown; failure half way |
| subtitles, OSD | `sub/`, `command.c` | files and tracks, selection, last search, text shown | load, remove, select, step, find, parse | one numbering for two sources; overlapping or unordered lines |
| codec configuration | `codec-cfg.c`, `etc/codecs.conf` | codec table | parse, find | a mistake anywhere rejects the file |
| terminal, timers | `osdep/` | raw mode, key buffer, timer start | enable, disable, sleep | signals while the terminal changes |
| messages, strings, paths | `mp_msg.c`, `bstr.c`, `path.c`, `help_mp.h` | none or constant | format, split | none beyond wording |

How they interact.  `main` (`mplayer.c`) reads options from the command line, from
files and again from the command line, then iterates over the play tree; a step
into an entry pushes a configuration level.  It opens a stream, puts the cache in
front (`stream_enable_cache` forks), opens the demuxer on it, chooses tracks and
codecs, opens the decoders, filters and outputs, and then runs a loop: fill the
audio output, fetch and show a video frame, take commands.  Decoders call the
demuxer, which calls the stream, which in the cached case waits for the other
process and polls `mp_input_check_interrupt`; that peeks into the command queue,
which reads the descriptors: key fifo, terminal, FIFO files, remote.  Signals set
`async_quit_request`.  There is no lock in the program apart from those of the
libraries; shared memory, flags and counters carry all communication.

What makes each part correct:

* cache: the reader gets the bytes of its position, whatever the other process
  does; the copies never race; each wait ends.
* stream: what a read, a line or a skip delivers are the bytes of its position,
  also after failed reads; a seek lands where it says.
* input: no key stays down that is not held; the command queue is a queue, and
  what interrupts a wait is still executed; quitting always works; a text means the
  same wherever buffers cut it; the pipe outlives its writer and closing returns.
* demuxer: each decoder gets the packets of its track in order and once; playback
  reaches the end and does not stop early; the track played is the one asked for.
* play tree, options: each entry is played as often as its loops say, with the
  options of its ancestors, which are restored afterwards; lists are freed once;
  options have the values the texts say, a printed value is read back.
* player core: what is open is what the flags say, it is closed in order on each
  of the ways out, the terminal is restored.
* sound: the filters fit together; every sample of the file is played once, in
  order and at its time; playback ends.
* picture: a buffer that can be seen, is waiting or is referred to is never written
  to; pictures keep their time stamps and their shape.
* subtitles: one source at a time is shown, and of it what is due.
* devices: what an opening took and cannot use is given back, once.

## 2. Plan

In order of importance; all of it is in place.

1. `ByteStream`, `Cache`, `StreamRead`, `StreamProofs`: the streams.
2. `KeyInput`, `InputQueue`, `PS3Remote`, `InputProofs`, `CommandText`:
   input.
3. `DemuxQueues`, `DemuxQueuesProofs`, `DemuxOpen`: the demuxer with its decoders and the
   end of playback.
4. `PlayTree`, `PlayTreeProofs`, `PlaylistParse`: the iterator over every small tree, with
   the levels of options, and the lists it is made from.
5. `OptionTypes`, `OptionLists`, `OptionSources`, `Properties`: options.
6. `PlayerLife`, `PlayerLifeProofs`: what is opened and closed, and signals.
7. `AudioFilters`, `AudioPlayback`, `AudioPlaybackProofs`, `ChannelOrder`: sound.
8. `VideoBuffers`, `VideoDecode`, `VideoProofs`: pictures.
9. `Subtitles`, `SubtitlesProofs`, `SubtitleFiles`: subtitles.
10. `CodecSelect`, `CodecsConf`, `DeviceOpen`: what is chosen and opened.

The modules `MC...` put components side by side that are explored by one run:
`MCCache`, `MCInput`, `MCMedia`, `MCPlayer`, `MCFormats`.  A variable (`part`,
`source`, `player`, `kind`) says which of them is explored; the others stay in
a state of theirs, so nothing is gained or lost by the company.  A component there
are theorems about is EXTENDed by its `MC` module (`MCCache`: `Cache` and
`StreamRead`; `MCInput`: `KeyInput`, `InputQueue` and `PS3Remote`; `MCMedia`:
`DemuxQueues` and `AudioPlayback`; `MCPlayer`: `PlayerLife`, `VideoBuffers`, `VideoDecode` and
`Subtitles`; `MCFormats`: `PlayTree`), so that run and theorem speak of one definition, and has names of its own
therefore (`QueueInit`, `StreamInit`, `DecodeInit`, `SubInit`, ...); the others are INSTANCEs.  Components
that do act on each other are composed inside their modules: the two
processes in `Cache`; queue, waits, pause and signal in `InputQueue`; three
streams, decoders and the player's end in `DemuxQueues`; tree, levels of options and
commands in `PlayTree`; all parts of the player in `PlayerLife`; decoder,
filters, buffers and device in `AudioPlayback`; decoder, time stamps, ring and
plane in `VideoBuffers`; decoder, image chain and display in `VideoDecode`.

Abstract specifications: `ByteStream`, which `Cache` is checked and proved to implement
(`StreamRefinement`); elsewhere a reference of what the detailed model must come to
is stated next to it: the sequence nested loops define (`Playing` of `PlayTree`),
texts read as nested texts (`Meaning` of `OptionSources`), the best codec of lists
(`BestOf`), the text written for a list of entries, subtitles, codecs or
templates (`Written`, `Says`, `Blocks`), the packets of a track (`NoPacketLost`).

What would come next, in this order: the synchronisation of
sound and picture (`calculate_timing`, `adjust_sync_and_print_status`); the drawing of
subtitles and OSD.

## 3. The modules

### Cache, ByteStream, StreamProofs

A byte of the file is its position, so the buffer shows which byte it holds; a
cell that is being overwritten shows `Torn`.  `rpc` is the player's place in
`cache_stream_fill_buffer` / `cache_read` / `cache_do_control` (one action per
access to a shared field), `fpc` that of the child in `cache_fill` /
`cache_flush` / `cache_execute_control`.  Variables have the names of the C
fields; `spos`, `seof`, `sbuf`, `buf_pos` are the player's `stream_t`, `ppos`,
`peof` the child's copy, `wpos`, `space`, `len`, `read`, `rpos`, `newb`, `size`
the locals.  `Land(n)` is the return of `stream_read_internal`, short reads
included; `LandFails` is its failure anywhere in the file, after a reconnection
that did not help: no bytes, and `eof`, as at the end.  While the read runs
(`fpc = "reading"`) the cells written to are in `WriteCells`.  `StreamSeekFails` is
a seek of the source that fails: `pos` is set, the source is not, and `skew` says how
far they are apart.  `Uninit` kills the child.

The module has several specifications that differ in what the player does:
`Spec` (everything, failing seeks of the source included), `SequentialSpec` (reads on),
`SkippingSpec` (reads and seeks forwards, but not right after a call that brought
nothing), both interrupted at any time, and `ControllingSpec` (reads and posts controls, uninterrupted).  Reads of the source fail
in all of them.  `SectorFaithful` and others hold for some and fail for others, which
is the real shape of the cache: it needs no lock as long as the player does not seek
while the child gives the window up.  A player that goes forward waits then, unless
it is told of an end that is none; then it must not skip (see 7).

`ByteStream` is the promise to a reader: each call brings the next bytes or
nothing.  `StreamRefinement` maps `stream_t` to it: `spos` to the position, the
stream buffer to the sector (hidden during a call).

Simplifications: reads of 64-bit fields are atomic and stores become visible in
program order.  On the 32-bit ARM target a 64-bit access may be two, and the
ARM may reorder stores; both would only add behaviours.  Left out: the sleeps and
their adaptation, `cache_fill_status`, the death of the child, and the seek of
`stream_reconnect`, which is only made at position 0 (`stream.c:253`).
`Seekable = FALSE` stands for a stream that ignores seeks (`stream.c:257-279`).

### StreamRead, StreamProofs

`stream_read`, `stream_read_line`, `stream_skip`, `stream_seek` on the buffer of
`stream_t` (`sbuffer`, `sbuf_pos`, `sbuf_len`, `pos`, `at_eof`), for a file, a pipe and a
stream that can only be reopened (`Kinds`).  `at` is where the source really is, `pos` where the code thinks it is.  `pc` and
`fill` follow `stream_fill_buffer`, its repeated reads and `stream_reconnect`; each
read may be short or fail (`MaxFaults`).  `ReadsTrue`: what is delivered are the
bytes of the position, a line ends where it ends; `SeekLands`.  Stated unless
`spoilt`: a read failed with part of the buffer filled, whose bytes
the reconnection drops (`stream.c:227`), or a seek failed.

### KeyInput

`pressed` is the keyboard; `fifo` the data between the indices of `mp_fifo.c`;
`key_down`, `last_key_down`, `ar_state`, `ar_cmd` are the statics of `input.c`.
A code is a record of key and the two flags `MP_KEY_DOWN` and
`MP_KEY_RELEASE_ALL`.  `Refused` and `Stored` are the tests at the head of
`mplayer_put_key_internal`, `ReadKey` is one round of `mplayer_get_key` and
`interpret_key`.  Which command a combination has is left open here.

### InputQueue, InputProofs

`GetCmd` and `PeekCmd` are `mp_input_get_cmd` without and with `peek_only`.
The actions of the player are the users of these calls: `MainLoop`,
`PauseLoop`/`RunPaused`/`Resume` (`pause_loop`), `CheckInterrupt`/`Remove`
(`mp_input_check_interrupt`), `libmpdemux_was_interrupted`.  A command is its
number of arrival and its class: "quit" and "step" are those with which
`mp_input_check_interrupt` returns 1, "keep" has `pausing == 4`.  A command that
came in on a descriptor is in `events` until `read_events` makes it a command.
`CommandsKept` = what interrupted a wait is kept, and commands run in order.

### CommandText

The same program read through small buffers: lines of commands that come in pieces
(`mp_input_read_cmd`, `read_events`, with `got_cmd` and `drop`), files of bindings
(`mp_input_parse_config`) with the global one read after a bad one, and
arguments with quotes and backslashes (`mp_input_parse_cmd`).  A text is a sequence
of characters; `BsMax` and `CmdSize` are 4 and 5 instead of 256 and 1024, so
that buffer boundaries fall everywhere.  The references read the whole text at
once (`LinesInOrder`, `BindingsAsWritten`, `ArgumentsKept`).

### PS3Remote

`tpc` is `thread_ps3_remote`, `mpc` the player, `pipe` the events in the pipe,
the device appears and disappears (`Plug`).  `stale` is an open descriptor of a
device that has gone.  Its theorem is in `InputProofs`.

### DemuxQueues, DemuxQueuesProofs

`file` is an arbitrary interleaving of the packets of up to four kinds,
`demux_fill_buffer` is `demux_lavf_fill_buffer` (a packet is queued, dropped, or
refused by the bitstream filter).  `call` is the request that is in progress:
`ds_get_packet` of a decoder, the player's second try for audio at the end of
the video (`mplayer.c:2785`), `ds_get_next_pts`.  One action is one iteration
of their loops.  `demux_seek`, `demuxer_switch`, `switch_sub` happen between
requests.  `delivered` and `since` are history variables.  A packet is small
enough for one read; the split of a packet into several reads by
`demux_read_data` is not modelled, `used` is whether it was read.

### DemuxOpen

Operators: how a film of up to three files is opened (`demux_open_stream`,
`demux_open`, `handle_stream`), the tracks selected by number, language or mark
(`select_audio`), switches, the choice of a program, seeks to key frames with a
file of sound sent after the picture, and the clip's information.  A film is its
files, a file its tracks.

### PlayTree, PlayTreeProofs, PlaylistParse

A node is a number; `parent` and `kids` are its links, `files` how many files it
has, `loops`, `rnd`, `played` its fields of that meaning, `own` the value its
params give to the one option of the model.  `config` is `m_config_t` with that
option: its value and its stack of save slots.  `iter` is the iterator.  The
functions of the iterator are tail calls of each other, so `pc` names the one
that runs, `d` is its argument, `res` its result and `then` the caller it returns
to: `main` at the start and in `goto_next_file`, a command that tries a step on
a copy (`saved`), a command that goes back to the root (`with_nodes`, "unwind"),
`playtree_add_playlist` ("list", "bad").  Each branch of
`play_tree_iter_step` is an action.  The option stands for one that is neither
global nor of the old kind; it may have a second name (`Aliases`).  `endless`,
`crashed` and `dangling` are the ends where the recursion has none, where files of a
group are read, and where the iterator stands on a freed node; all three need a
playlist that cannot be read (`BadList`), see 7.

`PlaylistParse` has the five formats and the plain list as operators on a parser
(the lines still there, the line read, whether those read are kept).  A playlist
written in a format gives its entries whatever formats were tried before.

### OptionTypes, OptionLists, OptionSources, Properties

`OptionTypes`: each type of `m_option.c` reads a text, a sequence of characters, and
prints a value, a fraction; sub-options.

`OptionLists`: lists of strings and objects as blocks on the heap: `live` are those
allocated, `bad_free` a free of another; `slots` the saved ones, one per level.  The
operations are the suffixes `-add`, `-pre`, `-del`, `-clr` and push and pop.

`OptionSources`: one action per line of a text, on a `stack` of the texts that
are read (files and profiles), with `config_mode` as the C has it in one
variable.  The command line is gone through twice, with the file of settings
in between.  `Meaning` reads the texts as nested texts.

`Properties`: the properties' handlers of `command.c` on a record `p` of the player's
settings, the commands that set and step them, pausing prefixes, the pending seek,
templates (`m_properties_expand_string`), the mixer, `-loop`.

### PlayerLife, PlayerLifeProofs

`initialized_flags` are the flags, `held` what is really open, `lost` what was
opened over itself.  `pc` is the place in `main`; `mask` and `then` are
`uninit_player`, which closes one part per action.  `Fine` or `Fail` for each part
that is opened; `Switch`/`Switched` are the track switches of `command.c`,
`Refilter` reopens the output for another format, `Missing` sets up tracks
without a pointer in the main loop (`mplayer.c:2700-2713`).  `Signal` may come at
any step; a second one exits (`Killed`).

### AudioFilters, ChannelOrder

A filter is a record: its outgoing format, its setting, its ratio.  `af_reinit`,
`af_init`, `af_add`, `fixup_output_format` are recursive functions on the chain as
in `af.c`, and the actions are the start and every command, mixer call or change
of format.  `phase` = "crashed" or "hung" where the code does not return.  Speeds are
counted in halves.  `AfCmdline` does what `command.c:2418-2428` does: the filter takes its
setting and the chain is run through from there, whatever comes of it, but its end is not
made to fit the device.  `fit`, a history variable, says since the chain was last set up
whether that happened ("inside": run through; "none": not even that); `PlayEmpty` is
`af_play` on an empty chain: the only filter was taken out as redundant.
`ChannelOrder` reorders a buffer in place by the cycles of swaps of
`reorder_ch.c`, or copied by tables.

### AudioPlayback, AudioPlaybackProofs

A sample is its number in the time of the file: packet `f` has those of its stamp.  `a_buffer`, `a_out_buffer`, what a
filter keeps back, and the device's buffer hold them; `pc` follows
`fill_audio_out_buffers`, `mp_decode_audio`, `filter_n_bytes`, `alsa_play`.  `Tick`
plays, `Suspend` suspends; `Pause`, `Resume`, `Seek` come from the commands.  A
packet may be bad or of another format.  With ALSA's prepause space as `space`.
`decode_audio` returns with as many samples as are asked for, or where there is no
packet (`NoPacket`: the end, or, a fault, the video's queue is full before one is found),
or after one that is refused (`NotTaken`) or of another format.  At `ds->eof` the codec is
drained (`drained`, `ad_ffmpeg.c:306-311`) and refuses what comes until a seek flushes it;
`pts` is the stamp of the last packet plus what was decoded since (318-321), and `missed`,
a history variable, the last sample before it that was never decoded.

### VideoBuffers

The pool of `vd_omap_dce.c` with its two marks (`locked`, `shown`), the codec's
delayed and reordered frames (`pend`, `ref`), the time stamps of `dec_video.c`
(`buffered_pts`), the ring of three of `vo_omap_drm.c` (`ring`, `cur`) and the plane.
`plane` and `before` are visible: the display goes on showing `before` until the
next refresh.  Frames of the software decoder are copied to a buffer of the slot.

### VideoDecode, VideoProofs

`vd_ffmpeg.c` with the display behind it.  `references` are the pictures the codec refers
to and the image each is in, `mem` which picture an image's memory holds, `ctx` the
fields of `vd_ffmpeg_ctx` (with `ip` and `b`, the counters of images that are out),
`static_idx` that of `vf_get_image`.  A film is a sequence of pictures with size,
format, sample aspect and whether others refer to them; a codec has its list of
formats, reorders or delays, and may know the size before the first picture
(`early`).  The display aspect and the screen's size are computed as the code does,
with `-xy`, `-x`, `-y` (`Sizings`).

Assumed of the codec (external): it gives references back oldest first.  One thread,
no palettes, no VDPAU, no slices (the display has none); a picture is written as a
whole; no filter but the display exists (`vf.c:47-50`); `uninit` is left out.

### Subtitles, SubtitlesProofs, SubtitleFiles

`Subtitles`: `heap` has the files in memory by address; `set_of_subtitles`,
`counts`, `global_sub_pos`, `set_of_sub_pos`, `sub_id` and the statics of `find_sub.c`
as they are.  Commands select, load, remove and step; films come one after the
other.  `looked` is what `find_sub` was last asked while that is shown.  Its binary search
is `Bisected`: `Narrowed` is one turn of the loop, and there are as many turns as
subtitles.  A file has its subtitles in order (`ContentsAssumption`: of two of them the first
neither starts nor ends later; they may touch, overlap or be empty), which is what files
sorted by time have after `adjust_subs_time` (`subreader.c:1171-1232`); a file that is not
sorted may well not be shown as it says.

`SubtitleFiles`: the readers of eleven formats on lines as `sscanf` takes them
apart, the correction of times, the pieces of overlapping subtitles and the
lines they are on, and texts that come with packets.

### CodecSelect, CodecsConf, DeviceOpen

`CodecSelect`: `init_best_codec` with tags.  `CodecsConf`: `parse_codec_cfg` on
lines of words.  `DeviceOpen`: an opening is a list of steps, each takes resources
or fails, with the exit the code has for it; formats, volume, sub-options of ALSA;
the place of the picture.

## 4. The runs

| run | module, cfg | what it asks | bounds |
|---|---|---|---|
| `cache_forward` | MCCache, CacheForward | a player that reads on, one that skips, one that posts controls get the bytes of the file and race with nothing, although a read fails; a stream without a cache | ring of 4 sectors of 2 bytes, file of 9: the ring wraps, the last sector is short; skips inside a sector, on a boundary, farther than `SeekOption` and to the end; two moves, one failing read; uncached: 9 bytes, a buffer of 2, three calls, two failing or short reads |
| `cache_races` | Cache, CacheRaces | seeks, controls, interruptions, failing reads and seeks of the source at any time: every call returns | sectors of 1, a file of 4, two moves, one failure, `MinOption` larger than may be filled |
| `input` | MCInput, Input | fifo overflow; remote; command ring with peeks, pauses and a signal; texts; lists; sources of options | 3 keys, fifo of 4 (all four branches of the reserve); pipe of 2, 4 events, 3 plugs; ring of 2; texts of 6 characters in buffers of 4 and 5; three operations on lists over 3 levels; files of 3 lines with an include and a profile |
| `media` | MCMedia, Media | packets in order and to the end; every sample that decodes once and on time, playback ends; the chain fits whatever is done to it, but for what `af_cmdline` leaves | every file of up to 4 packets over 4 kinds, queues of 2, one seek or switch; three files of 3 packets with a change of format or a bad one, one pause or seek, one suspension, failing call or late packet, device of 4; filters added up to a chain of 4 on two lists, four formats in, five commands, five settings of `af_cmdline`, four of which change a format, three speeds, one of them too slow and one too fast for the filters |
| `formats` | MCFormats, Formats | entries in order, as often as told, with their options, every step ends; operators against references, one job per state | every tree of 4 nodes, loops 1, 2, for ever, shuffled or not, two commands, two more nodes; all channel layouts, sizes 1 to 8, 0 to 3 frames; three codecs; files of three subtitles; two codecs with two statements; playlists of three entries; films of three files; any step of an opening failing, twice; option texts of up to 3 characters; two commands, three seeks, five pauses, four pieces of a template |
| `player` | MCPlayer, Player | the life of the player; frames; subtitles; decoding | two files, two switches, two failures, two signals; files of 2 and 4 frames in coding order 1 3 2 4, one seek, one fault; two films, two subtitle files, two commands, times to 5; four films of 3 to 6 pictures, 16 codecs, two aspects, three sizings, a flush and a drop |
| `cache_seek_back` | Cache, CacheSeekBack | a counterexample to `cache2.c:22`, see 7 | as `cache_forward`, a target behind, nothing fails |
| `play_tree_alias` | PlayTree, PlayTreeAlias | a counterexample to `m_config.h:129`, see 7 | 3 nodes, one command |
| `profile_flags` | MCInput, ProfileFlags | a counterexample to `m_config.h:65`, see 7 | one profile, applied |
| `picture_format` | MCPlayer, PictureFormat | a counterexample to `vd.c:170`, see 7 | the decoder's part of `player` |
| `late_packets` | MCMedia, LatePackets | a counterexample to `demuxer.c:546`, see 7 | the playback of `media` |
| `player_video` | MCPlayer, PlayerVideo | a counterexample to `mplayer.c:1936`, see 7 | one file |

Each bound was chosen as the smallest that reaches all branches (each action
fires) and that lets the seeded errors, the operators whose comment says
"Seeded error", break the property they are there for.  The real sizes (a ring
of megabytes, a fifo of 7 and up, 100 commands, 4096 packets, texts of 256
characters) enter only through comparisons, which the small values take both ways.
For the safety properties of the cache, the stream, the key fifo, the command ring, the
remote, the packet queues, the way of sound to the device, the life of the player, both
video decoders and the selection of subtitles the theorems
below remove the bounds.  `CHECK_DEADLOCK FALSE` stands where the system really stops: a
player that has ended, a film that is over, a job that was computed.

Bounds that stand in the guards: `MaxMoves`, `MaxPauses` (seeks, controls, switches, commands, pauses),
`MaxFailures`/`MaxFaults`/`MaxFails`/`MaxErrors`, `MaxShows`, `MaxSignals`, `MaxEvents`, `MaxCommands`,
`MaxQueued`, `MaxPlugs`, `MaxFile`, `MaxFiles`, `MaxFilms`, `MaxReads`, `MaxCalls`,
`MaxPlays`, `MaxOps`, `MaxSeeks`, `MaxFlushes`, `MaxDrops`, and `Spare` (nodes that
commands add).  `OptionTypes` counts with an int of 256 values (`IntHalf` = 128),
two decimals, and `Unlimited` outside of all.

### What holds

* `SectorFaithful`: in a call, byte `i` of the sector is the byte at
  `spos + i`.  `WindowHoldsFile`: every position of the window has its byte in
  the ring at every moment, also between the stores of `max_filepos` and
  `offset`.  `NoDataRace`: memcpy and read() never touch the same cell.
  `PositionsAgree`: player and cache are at the same position after a control.
  `AllDelivered`: a player that keeps reading gets the whole file although it
  may be told "eof" too early, by an interruption or a read that failed.  `CallsReturn`: no wait of the player lasts for ever.
  `StreamRefinement`: the cached stream implements `ByteStream`.  `StreamTrue`:
  so does the uncached one, in what it delivers.
* `NoStuckKeys`, `CommandsKept`, `QuitReached`, `ThreadOutlived`, `CloseReturns`;
  `TextsTrue` (texts of `CommandText`, and lists: told and freed once);
  `SettingsAsWritten`.
* `OptionsInEffect`: at each entry the option has the value of the entry or of the
  group around it, and there are as many levels as nodes above.
  `OptionsRestored`: none is left at the end.  `LoopsAsTold`: a player that goes
  forward plays the sequence the nested loops define.  `StepsEnd`: the recursion
  ends.  The first three are stated for lists that are not shuffled, and where no
  bad list has emptied a group; 7 says what happens then.
* `PacketsTrue`, `EndReached`; `ChainTrue`: each filter takes what the one before
  gives, the last gives what the device has, and the ratio of the chain is the
  product of the ratios.  After an `af_cmdline`, until the chain is set up anew, only the
  filters fit each other, if they could be run through, and nothing is said of the end;
  every command, speed, format or volume that comes then starts from such a chain.
  `SamplesTrue`: filters get samples of their format, the player's position is that of the
  samples that wait behind the decoder, for all that come after packets the codec did not
  decode, and every sample that decodes was written when a file of sound ends;
  `PlaybackEnds`.
* `ChannelsRight`, `CodecsTrue`, `SubtitlesTrue`, `EntriesOpened`, `DevicesOpened`,
  `OptionsTrue`, `PropertiesTrue`.
* `TracksUsable`, `ClosedInOrder`, `NothingLeft`, `TerminalRestored`, `QuitEnds`;
  `FramesTrue`: frames keep their time stamps, and there is a free buffer for each;
  `ScreenSteady`: nothing is decoded into a buffer that is on the screen, was there
  until the last flip, or waits; `DecodeTrue`: what is put on the display is the
  picture decoded, in an image of its size, no image that is still referred to is
  decoded into, and the aspect is kept; `ShownTrue`: one source of subtitles, and what
  is due is shown.

Each is broken by a seeded error in the definition that is responsible for it.

## 5. Fairness

* Cache: `WF` for each of the two processes: both loop for ever (the reader's
  sleep is bounded, the child's loop has no exit but being killed), and
  `read()` of the stream returns, with bytes or without.  `WF(FillBuffer)`: the player
  reads on.  Nothing is assumed of seeks, controls, interruptions.
* Input: `WF(Player)`: the loops of the main program poll.
  `SF(MainLoop \/ Pause)`: each turn of the main loop ends with `pause_loop` and
  the commands, however many blocking calls it makes; those end by themselves
  (time-outs of the streams), which is an assumption about the environment.
  Remote: `WF` of the thread and of the closing wait.  Nobody presses keys.
* Demuxer: the main loop serves both streams in each turn, therefore
  `SF(ds_get_packet(s))`; a request's loop goes on (`WF(Fill)`); the timer
  `time_frame` runs down, hence `SF(EndOfPlay)`.
* Sound: `WF(FillOut)`: the main loop fills the output in each turn; `WF(Tick)`: the
  device plays what it has; `WF(Resume)`: a pause is ended by the user (a film that
  is paused for ever does not end); `SF(VideoEnds)`: the picture comes to its end,
  whenever sound lets it.
* Play tree: `WF(Iterating \/ Player)`: function calls return to their callers;
  nothing is assumed of files that end, or of commands.
* Life of the player: `WF(Player)`: the player's own steps go on; nothing is assumed
  of signals or commands.

## 6. The proofs

`StreamProofs`, for the cache, from the assumptions on the constants (a sector fits into
`FillLimit`, twice `FillLimit` into the ring, natural numbers otherwise):

* `CacheTypeOK`, `CacheFillInside` for `Spec`.  `FillInside` is not inductive:
  it needs that the block being filled starts at `max_filepos - offset`, that
  this difference stays in `0 .. BufferSize - 1` although `cache_flush` moves
  both in two stores (`RingState`, `FlushState`), and that between the stores
  of `max_filepos` and `offset` the difference is `wpos + len` (`BlockState`).
  Together: `RaceInv`.  It holds against every interference of the player
  because none of these fields is stored to by it.
* `CacheSectorFaithful`, `CacheWindowHoldsFile`, `CacheCopySafe`, `CachePositionsAgree`
  for each player that goes forward (`ForwardPlayer`: `SequentialSpec`,
  `ControllingSpec`, or `SkippingSpec` of a stream that can be sought), any number of
  interruptions of the first and the last, and of reads that fail anywhere.  Here `ForwardInv` is added:
  `min_filepos <= read_filepos <= max_filepos` and the sample `read` is not ahead of
  the reader (`Window`), every cell of the window holds its byte (`Ring`), and what
  the reader has computed is inside the window (`Reader`).  The one geometric fact
  is `BlockOutsideWindow`: a block of at most `BufferSize - (max - min)` bytes
  behind the window does not touch it.  While the window is given up the player must
  be kept away from it (`Quiet`), and each player has its own reason: one never
  seeks; one waits for the answer to its control, and the filler is not flushing
  before it took it (`Posted`); one has seen that its target is outside the window
  (`Skipped`).  The last may be told of an end while it waits there, by an old
  `StoreEof` of a read that failed or was behind the end, or by a key.  It then has no
  bytes and `eof`, and `Skipped` keeps for it that its position does not move until a
  later call has brought some: by then the window is where it is.
* `CacheAnswersMatch`, for a player that posts controls and is not interrupted
  (`OwnAnswer`): while it waits, the argument is its own or the answer.
* `CacheImplementsStream`: `ForwardPlayer => StreamRefinement`.  The refinement maps
  initial states to initial states and each step to a step or a stutter of
  `ByteStream`: what the player has is inside the file (`InsideFile`), at most a
  sector (`SectorAtMost`), and by `SectorFaithful` the next bytes.

And for the stream without a cache, for every size of the buffer and the file, any lengths,
positions and number of failures: `StreamReadsTrue` (`StreamTrue`).  As long as nothing outside has
moved the source (`spoilt`), the buffer holds the bytes in front of the position
(`BufferTrue`), what was delivered goes from where the call began to where the stream is
(`OutTrue`), and what is left of a seek leads to its target (`SeekTrue`).  One failed
read ends no call but a seek, whose stale eof needs a second failure to end a read
(`EndTrue`).

`InputProofs`, for every fifo size from 2, every number of keys and every
`MP_MAX_KEY_DOWN`:

* `KeyTypesAndDowns` (`TypeOK`, `DownOnce`), `KeysNotStuck` (`NoStuckKeys`).
  `NoStuckKeys` speaks only of an empty fifo.  The inductive form
  (`KeyInvariant`) relates all of it: each key that is down or has a down event
  in the fifo, but is not held, has a later release in the fifo, and a fifo
  that is full ends with a code that releases everything.

And, for every size of the ring and the pipe, any number of commands, signals,
events and plugs:

* `CommandsAreKept` (`CommandsKept`), `RingIndicesAgree` (`RingAgrees`).  `FlowInv` says where the
  commands are: those run, those in the ring, those not read yet follow each other
  and are all there are; and what
  `mp_input_check_interrupt` is about to remove does not end a wait (`Removing`).
* `ThreadIsOutlived` (`ThreadOutlived`).  The player looks at a flag of the thread, not at
  the thread: `RemoteInv` says that a thread that has set the flag is gone,
  that both descriptors were closed before, and that the pipe is only closed once the
  thread is gone.

`DemuxQueuesProofs`, for any files, limits of queues and orders of calls:
`PacketsReachTheDecoder` (`PacketsTrue`).  `DemuxInv` adds that every
stream takes tracks of its own kind (`OwnTracks`), that a stream that reads has no
current packet and only audio is asked again, when both have ended (`CallTrue`), that a
stream that ended has no packet that was not read (`EndedIsRead`), that packets are counted
only for a stream that has ended since or whose request goes on (`Counted`), and that,
without switches and refused packets, the two streams only wait for each other at
the end of the file (`NoStandoff`).

`AudioPlaybackProofs`, for any files (with bad packets and changes of format), any sizes of
packets, buffers and device, any number of pauses, seeks and faults, among them ends marked
too early: `SoundIsTrue`
(`SamplesTrue`, with `BufferFits`).  `SoundInv` follows the samples: each buffer on the way
ends with the number the decoder's position says, less what lies behind that buffer, as far
as it comes after what was missed
(`Timed`; cut in two and joined, sequences keep that: `CutEnds`, `JoinEnds`), nothing that
waits is later than the packets the decoder had (`Behind`, by which a gap ends before the
next packet), a sample is of its packet's format (`FormatInPacket`), the
decoder is ahead of the filters by a format only while a change is under way
(`FormatKnown`), the codec is drained early only where there is video, and every sample that
decodes of the packets taken is in a buffer, was written or was lost at a change of
format (`Covered`).  The part of `SamplesTrue` about the end of a file (`AllWritten`) needs
`OneBurst`: the device's buffer is no larger than `MAX_OUTBURST` (131072, `config.h:7`) and
has two periods.  The condition is needed: a larger buffer is filled in pieces, the last of which may
be less than a period; when the device plays all it has while that piece is decoded,
`play` takes nothing of it, and at the end or before a change of format the rest of the
filtered samples, which may well be more, is given up as if no more could be written (`mplayer.c:1773-1779`).  With `DevSize = 4` and
`MaxBurst = 3` TLC shows it; half a second of stereo at 48 kHz, as `ao_alsa.c` asks for, is
96000 bytes, of six channels 288000.

`PlayerLifeProofs`, for any files with any number of tracks, and any number of files,
failures, switches and signals:

* `PlayingIsOpen` (`TracksUsable`), `ClosingOrder` (`ClosedInOrder`),
  `AllIsClosed` (`NothingLeft`), `TerminalIsRestored` (`TerminalRestored`).
  None of them is inductive: while a chain is set up or closed, what is open is not
  what the flags say.  `LifeInv` says for every place of the player what is open
  there, which flags are set (`At`, `Flags`) and which tracks there are (`Track`).
  `uninit_player` closes one part after the other and may be on its way from
  any place to any other, so the invariant is stated for where the player is once
  that is done: from `held` and the flags everything in `mask` is taken away, and
  what is left must be right for `then`.  One step of closing then changes
  nothing in it (`UninitKeeps`), and the order of closing is a fact about `mask`
  alone (`ClosedBefore`).  One lemma per action, put together in `LifeInvariant`.

`PlayTreeProofs`:

* `OptionsHold` (`OptionsInEffect`), `OptionsAreRestored` (`OptionsRestored`), for every tree that
  is not shuffled, any loops and sources, and any number of steps, trials on a copy, commands,
  changes of options and playlists, read or not.  What the options must be is not said by counting
  pushes and pops but by the tree: `Levels[n]` are the save slots of the nodes on the way from the
  root to `n`, one for each, and `Above(n)` those without its own. One lemma says that popping the
  level of a node leaves `Above(n)` (`PopNode`), one that pushing it gives `Levels[n]`
  (`PushNode`).  `PlayTreeInv`: the tree that is there is whole (`Whole`; a freed tree and a
  removed entry are not part of it, nor is what a new tree replaces), the iterator stands in it
  with a stack as deep as its node (`Stands`), and the options are those of `Levels` if the entry
  was pushed and of `Above` if not (`Home`, `ConfigHeld`), up to a change by the user since.
  While a step is tried on a copy that is so for the iterator put aside (`Held`). What flags say
  follows the calls: an entry that is played was pushed, a group that is entered was not
  (`EntryInv`), and a result other than an entry leaves nothing pushed (`ResultInv`).  One lemma
  per action.  Adding and removing nodes changes no levels of the others (`LevelsFrame`,
  `TreeChanged`), since a parent has a smaller number than its children. They have two hypotheses.
  Options are set by their first names (`Aliases = {}`): by a second one the pop restores
  something else, see 7.  And the tree is not shuffled, since a shuffled list may leave levels
  behind.  The part after a bad list has left a group without entries (`Emptied`) is left out by
  the property itself: `Lost` says that there is such a group, and the invariant then says nothing
  of the options.
* `LoopsHold` (`LoopsAsTold`), for every tree the command line makes, shuffled or not, any loops
  (nested ones and those without an end too) and any number of entries.  What a tree plays,
  `Playing`, is a recursive function: that there is one is proved from the numbers of the nodes
  (`PlayingExists`, `PlayingDef`), and of the sequences it puts together no more is needed than
  what comes first of them and what is left (`FlattenFirst`, `RepeatedIs`, `LaterIs`).  Counting
  entries leads nowhere; what is invariant is that what was played, what the node at hand plays
  and what comes behind it are together all the tree plays (`Through`).  What comes behind is said
  by a chain of levels, one for each group the iterator is in (`Chain`, `Follows`): a level says
  how many passes of its group are left, which the loop counter of the iterator must agree with
  (`Counts`), and what is played after its node (`Rest`).  A group that loops without an end has
  as many passes left as entries may still be played (`Enough`), which is what the bound
  `MaxPlays` is for.  Each action takes from one place what it adds to another (`StepTo`,
  `StepPast`, `FollowsIn`, `FollowsOn`, `FollowsLoop`, `FollowsOut`), so that at the end, where
  nothing is left, all of `Playing[Root]` was played and nothing twice. For a shuffled list
  `RoundInv` says where the rounds that are over end, and that those played since are just those
  that are marked (`Rounds`, `RoundFrom`); the flags are cleared when as many were played as there
  are entries (`RoundsAgain`, `CountedOnce`).  That no command was given means that the tree is
  the one it began with (`Uncommanded`, `TreeKept`).

`VideoProofs`, of the buffers, for every number of buffers of the codec, any files, orders of output
and faults:

* `ScreenIsSteady` (`ScreenSteady`), an action property: no step writes to a buffer that
  can be seen before and after it.  `SteadyInv`: a frame that waits to be flipped is in
  the ring (`FrameWaits`), so is what is on the screen (`ScreenInRing`), and everything
  in the ring that belongs to the film is in the pool and has its mark (`RingOfFile`,
  `Marked`); a frame not put out yet has a buffer of its own, which the display has
  not got (`CodecHolds`).
* `FramesKeepTheirStamps` (`FramesTrue`), as long as `Dpb + missed <= MaxBuffered`: the
  frames the codec holds back and those it lost fit into `buffered_pts`.  The condition
  is the code's own: with more lost frames `buffered_pts` may be full of the stamps of
  those that were lost, a new stamp is dropped ("Too many buffered pts",
  `dec_video.c:268-270`), and its frame gets another one.  The run's bounds are within.  `StampInv`
  says that the stamps of the frames that are held back all wait in `buffered_pts`, and
  at most as many others as packets gave no frame (`Queues`).

And of decoding, for every film, codec, aspect and size: `DecodesTrue` (`DecodeTrue`).
`DecodeInv`: whatever the codec refers to, puts out late or has just put out has the size
of the codec and is what its image holds (`PicturesTrue`); the counters are never less than
the images that are out (`Counted`, they may be more: a picture that was asked for and
then not drawn); the image whose turn it is was given out last but one, so that it
comes back first (`InTurn`).  From these two follows that the image is free when the
counters allow to draw (`ImageIsFree`).  A display that counts as configured is so,
for the size that was asked for last (`DisplayTrue`), a picture refused leaves the display in
the size of the codec (`RefusedOnce`), and while the sample aspect is one
the container's is kept (`AspectTrue`).  The shape on the screen is arithmetic
(`ScreenFacts`, from the quotient's bounds); it needs `HasLines`: a picture that has
less than two lines or columns, or would have on the screen, is made two high or wide by the
code (`vd.c:282-283`), and does not keep its shape.  No run has so flat a picture.

`SubtitlesProofs`, for any files whose subtitles are in order, any films, tracks and times, any
number of commands:

* `SourceIsOne` (the part `OneSource` of `ShownTrue`): there is one source of subtitles, its
  numbers agree, and its file is in memory.  `SourceInv` adds that the files that have a
  number are in memory, each once (`FilesApart`), so that removing one leaves the others
  there, and that a file that is selected is the one its number says (`Selected`).
* `ShownIsTrue` (`ShownTrue`), for `Reuse = FALSE`; with `Reuse = TRUE` it does not hold (see 7), and
  `SourceIsOne` does.  Two things have to be seen.  The search ends at what is due if there is
  anything: after each turn it is there, or what is before `lo` is over, what is behind `hi`
  is not yet due, and `hi - lo` is less than the turns that are left (`Narrowing`,
  `NarrowedKeeps`, `BisectedFinds`).  And what it remembers is true: nothing in the file
  remembered is due inside the gap remembered (`Remembered`, `GapTrue`).  That survives
  loading and removing files because a file that was removed is never searched, and one that is read
  gets a place that none had before (`NotReused`).  `current_sub` needs no more than
  not to be negative: it may be of another file, and then the whole file is searched.

The assumptions on the constants are the `ASSUME`s of the modules: numbers are natural, sizes
positive, a film is a sequence of pictures with sizes; those of the cache are above; of
`VideoBuffers` that the codec holds back no more frames than stamps fit
(`Dpb <= MaxBuffered`, 64 in `stheader.h:98`), and that the stamps of a file differ; of
`InputQueue` (`QueueConstants`, a hypothesis of its theorems) that the ring has a place; of
`PlayTree` that the bound on the entries played is not 0; of
`AudioPlayback` that the first packet of a file is good, since `init` of `ad_ffmpeg.c` decoded it.

Only model-checked, and why:

* everything under fairness (`AllDelivered`, `CallsReturn`, `QuitReached`,
  `CloseReturns`, `StepsEnd`, `EndReached`, `PlaybackEnds`, `QuitEnds`): the prover
  has no rule for ENABLED;
* what is computed by recursive operators, about which it proves nothing: `AudioFilters` (`ChainTrue`),
  `OptionSources` (`SettingsAsWritten`), `OptionTypes`, `Properties`, `CodecsConf`,
  `DeviceOpen`, `PlaylistParse`, `SubtitleFiles` and `CommandText` (`OptionsTrue`,
  `PropertiesTrue`, `CodecsTrue`, `DevicesOpened`, `EntriesOpened`, `SubtitlesTrue`,
  `TextsTrue`): their claims are over bounded inputs;
* `ChannelsRight`: an enumeration of all layouts, the program has no others.

## 7. Where code and comments differ

With a run of its own:

* `cache2.c:22` says the cache needs no locking.  With a seek back while the
  child is between its sample of `read_filepos` (164) and the end of the flush
  (97-101), `cache_read` copies bytes of another position (`cache_seek_back`).  TLC
  finds the same without a seek back when `seof = 0` is taken from `SkippingNext`: a read
  that fails sets `eof` (`stream.c:195-210`), which ends the wait for a position the child
  has sampled and is about to seek to; a player that skips ahead now gets the bytes of
  that position (ring of 4, file of 9, a failing read, skips to 5 and 7: the bytes at 5
  are taken for those at 7).
* `m_config.h:129` says a pop restores the state before the push.  An option that
  has a second name (`-nofs` for `-fs`) keeps under that name the slot of its
  registration (`m_config.c:339-341`); set so among the params of an entry, its
  value is what the last pop restores (`play_tree_alias`).
* `m_config.h:65` says profiles predefine options.  A flag that a profile sets to
  "no" is set to yes when the profile is applied from the command line, since
  `m_config.c:602` sets it in the mode that is current, in which `parse_flag`
  ignores the value (`profile_flags`).
* `vd.c:170`, `:201` provide for a codec and a display without a common format.
  Before that, line 163 asks for a filter "scale", which is not built in
  (`vf.c:47-50`), and goes on with the NULL it gets (`picture_format`).
* `demuxer.c:546` says of a packet after an end "obviously not yet EOF after all", and takes
  the end back; one is marked too early where the video's queue is full before a packet of
  sound is found.  The codec was drained at it (`ad_ffmpeg.c:306-311`) and refuses every
  later packet until a seek or a switch flushes it: the sound is gone (`late_packets`).
* `mplayer.c:1936` says that a video track that failed is not tried again; the main
  loop tries it in every turn (`mplayer.c:2708`) (`player_video`).

Stated in a module and violated by the code, without a run:

* `EofIsEnd` of `DemuxQueues`: `demuxer.h:137` says `eof` means that the demuxed
  stream has ended.  It is also set when a request is given up
  (`demuxer.c:579-602`); after a switch of tracks the player stops on it.
* `EofIsEnd` of `Cache`: the end flag is loaded after the window, and a reader
  that sleeps in between is told "eof" with bytes left; so is one whose child had a read
  that failed.
* `AspectFollowed`: `vd_ffmpeg.c:487-489` says the aspect is set even if the sample
  aspect did not change; the condition at 490 asks that it did.
* `DisplayTakesTwo`: `vd_omap_dce.c:312` has two buffers for the display; frames that
  are put and not flipped, after a failed flip or a seek, leave more locked.
* `DueShown` with `Reuse = TRUE`: `find_sub.c:78-83` tells another file by its
  address, and a file loaded to the address of one that was removed is searched
  with what was remembered of that.
* `SomeIsRead`: `stream.c:232-233` says what was read first counts; a
  reconnection in the middle of a fill drops it (227).
* `KeyDownInBounds`: `input.c:946` compares with `>` where the array has
  `MP_MAX_KEY_DOWN` elements; one key too many is stored behind the end.
* `SignalEndsWait`: with a full command queue a peek cannot queue the quit
  command, and a wait goes on in spite of the signal.
* `CopyInside`, `PositionsAgree`, `AnswersMatch` of `Cache` with seeks back, controls
  that are interrupted, or both; the code knows some of it ("Report bug",
  `cache2.c:144`; "read_filepos differs", 520).

Seen while modelling, by component.  The modules behave like the code in all of it;
the properties leave these cases out and say so.

* Streams.  A reconnection seeks to the place the stream is at, which is skipped
  unless it is 0 (against `stream.c:162-164`).  A seek back on a stream that cannot
  seek reports success; a seek forward on a pipe may pass its target; a seek that
  failed has set `pos`; the cache's child does not look at its result (`cache2.c:179`) and
  fills the ring from where the source is (`StreamSeekFails`).  The rest of a line longer than its buffer stays or is lost,
  depending on the boundary.  With `Seekable = FALSE` a seek outside the ring leaves the
  cache's child at its old position while the window claims the new one.
* Texts of commands.  A line with a key alone takes the next line as its command.
  A file of bindings that ends without a newline, or with a line too long, makes the
  global file be read over it.  An unterminated quoted argument is counted, and its
  string is NULL.
* Play tree.  A list that cannot be read is removed (`mplayer.c:847-857`).  When it was
  the only entry of a group, the group stays, and a step that meets it ends the list
  with an error, or calls itself with the same arguments for ever
  (`playtree.c:635`); as the first child of a group it makes the step read the files
  of the group (645).  When loops lead back to the list, the entry under the iterator
  is freed.  A trial step on a copy shares flags and loops of the tree and may use up
  the last round (599).  A shuffled group that has been played ends the whole list
  (596); a shuffled list that loops N times plays N + 1 rounds.  Backwards the loop
  counter may reach the number of loops (611); `PREV_SRC` from the last file of an
  entry goes to the entry before (777).
* Playlists.  The headers of m3u and `[Reference]` count on the very first line only; a
  list of a known format without entries has taken its lines; `NumberOfEntries` without
  a value is `atoi(NULL)`; a media tag without a source takes that of a later tag; a
  playlist that names itself is read for ever.
* Options.  `-vf-del 0,0` frees a literal the second time, and `-vf-del 0,x` leaves the
  marker; a refused list of objects empties its slot.  A list that begins with a comma
  makes `show_profile` loop.  Number texts: "-0,5" is +0.5; negative hours add positive
  minutes; times know no limits; an int without limits is cut.  A profile
  that includes itself is applied 2^21 times.  A file takes an include that cannot be read,
  is too deep or has errors for an option it does not know (`mpcommon.c:225` returns -1,
  which is `M_OPT_UNKNOWN`), warns and goes on; on the command line it ends the player.
* Properties.  `mp_properties` has no terminating entry, so an unknown name reads past it.
  `\xHH` in a template takes one digit; a value in a part that is left out stays in hand
  until the next character.  A relative seek after a percentage adds seconds to a
  fraction.  Flags of the display are accepted and do nothing (`vo_omap_drm.c:877`).
  Without a volume control "mute" tells muted though it is heard.
* Opening a film.  `-aid` is looked for in every file by the same global
  (`demuxer.c:233`): with a file of sound the film's own track is queued too, and after
  `MAX_PACKS` the film is given up.  When `-subfile` cannot be opened the file of sound
  stays open.  `-demuxer +lavf` on a file nobody knows dereferences NULL.
* Sound.  `af_cmdline` does not look at what becomes of the chain and does not make it fit the
  device (`command.c:2418-2428`): the format u8, another number of channels or another rate
  reaches the device as it is (`ChainTrue` leaves that out, `fit`), and an only filter that
  has nothing left to do is taken out (`af.c:281-291`), whereupon `af_play` dereferences NULL
  (`PlayEmpty`).  A suspended device with less than a period free is never resumed; a device that
  cannot be reopened for a new format leaves playback of sound alone without an end.
  Channels exchanged in place: A6 and B6 with samples of 8 bytes, A8 and B8 with 1 or 8,
  are wrong (`reorder_ch.c:441-443`).  An empty entry in a list of codecs tags dummies.
* Picture.  Delayed frames of the hardware decoder are not output at the end (against
  `mplayer.c:1521`).  The ring is not cleared after a hardware film; closing after a
  software film of fewer than three frames dereferences NULL.  A change of size costs a
  codec without direct rendering a picture, whose image was fetched before it was decoded;
  after some reconfigurations direct rendering is never used again; 4:2:2 is put out as
  4:2:0 by a doubled stride, which works without direct rendering only; `flip` is
  toggled at each reconfiguration.
* Life.  A signal in the gap of `getch2_enable` leaves the terminal raw (the property says
  "but for"); in idle mode `d_audio` and `d_sub` point to what is freed.
* Devices.  `return -1` in `preinit` leaves everything open, `uninit` does not clear all it
  frees, so that a second opening without a card frees the list of planes twice.  The
  map of EGL's buffer is not kept; its `flip_page` dereferences NULL without a buffer.  A
  sound card opened and not set up stays open.
* Subtitles.  Removing the only file leaves the text shown pointing into it
  (`command.c:1804-1840`); `remove_subtitle_range` does not count down; `sub_source` by
  file with a track selected steps on; `sub_load` shifts the number of a selected track.
  Readers: AQT and SubRip 0.9 lose an end when the array moves (`subreader.c:776-786`);
  the last subtitle is not scaled; equal starts underflow; statics survive into the
  next file; one error rejects the whole file.
* `codecs.conf`.  The comments of the last codec are lost; `in` is limited by the number of
  `out`; an empty file counts as read; after an error the counts stay though the
  arrays are freed.

## 8. Not modelled

* Wording and layout: messages, help texts, the status line, `-identify`, the drawing of
  text and bitmaps of subtitles and OSD, fonts.
* Arithmetic of samples and pictures: what filters and decoders compute, libraries
  (ffmpeg, ALSA, DRM, EGL, FreeType) beyond the outcomes their calls can have.  In
  `AudioPlayback` packets are of equal length and have stamps, and a codec gives the samples
  of a packet with it; one that delays them would give its last when it is drained.
* The synchronisation of sound and picture and the timers: floating point against the
  clock.  Frame dropping is a choice.
* Escape sequences of the terminal, the table of input descriptors, command filters
  (there are none).
* Opening of streams by URL, the controls of protocols, writing; UTF-16 lines.
* Parsers of packets, chapters and attachments; SAMI, SSA, JACOsub and Google subtitles;
  closed captions; the search for subtitle files.
* The null output of sound, the OSD buffers and swaps of the EGL driver.
* `m_struct.c` and functions nobody calls; `codec-cfg.c`'s own programs.

Each component's entry in `PROJECT.json` says the same of its part.

Properties that a module states and no run repeats, because another run's property or a
theorem covers them or the code violates them (7): `FillInside`, `DownOnce` and the
`TypeOK` of `Cache` and `KeyInput` (proved), `CopyInside`, `AnswersMatch` (proved for the player that posts controls), `TrialsHold`,
`RoundsComplete` (part of `LoopsAsTold`), `RepeatsWhatIsDown`, `DownsSeparated`, `KeyDownInBounds`, `AddsOnly`,
`CallsEnd`, `BalanceHeard`, `BufferFits`, `SignalEndsWait`, `RingAgrees` (proved), the other
`TypeOK`s, `EofIsEnd`, `QueuesBounded`, `ShownIsThere`, `SomeIsRead`, `DisplayTakesTwo`, `AspectFollowed`.
