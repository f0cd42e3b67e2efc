# nmPlayer: a TLA+ development of the adaptive-streaming buffering path

nmPlayer is VisualOn's media player: codecs, renderers, a player engine for
several platforms, and a family of media *sources* that fetch a stream, parse it
and hand samples to the engine. This directory models the part of the program
whose correctness depends on who does what when: how samples of an adaptive
stream (HLS, DASH, Smooth Streaming) get from the download threads through the
sample buffer to the player, and what a seek does to all of that.

Paths below are relative to `src/`; `Buffer` stands for
`Source/Common/Buffer_OptimizeBA`, `Controller` for
`Source/AdaptiveStreaming/Controller/Source`. The build modelled is the one with
`_USE_BUFFERCOMMANDER`, on which the current controller depends.

## 1. Inventory

| Part | State it keeps | Operations | Interacts by | What makes it correct |
|---|---|---|---|---|
| Final sample buffer: `Buffer/MediaBuffer`, `TrackBuffer`, `VideoTrackBuffer`, `SubtitleTrackBuffer`, `voSourceBufferManager_AI` | three sample lists with their duration and "more to come" flag, the gate (Starting, Seeking, Running, Buffering), seek points, limits, latest audio time | put one / put a list, get, set position, flush, set parameter | called by item threads (put), seek thread (flush, position), player threads (get); one lock, with exceptions | no sample lost, repeated or out of order; every frame decodable and after its format marker; a shut gate opens again |
| Chunk cache: `Controller/Cache/CacheManager` | a sample list per chunk and track, `m_bStop` | put sample, align two chunks, push a chunk, end of stream, open, close | called by item threads, closed by the seek thread without a lock | every list ends up in the buffer unless the cache is closed |
| Download buffer: `Controller/voDownloadBufferMgr` | pool of chunk agents, pairings for bitrate adaptation | begin / end a chunk, push a sample, end of stream, clear | by item threads and the seek thread; a lock round the list only | every chunk is used once and freed once |
| `Controller/voBufferCommander` | the two above | forwards | called by the controller | order of flushes |
| Controller: `Controller/voAdaptiveStreamingController` | status, stop flag, pending seek, `m_bSeeking`, end flags of the threads | open, start, pause, seek, stop, get sample, track selection, events | API calls of the player, callbacks of the item threads, its own seek and update threads | the last seek wins, the player never sees samples of an older position, stop stops |
| Item threads: `Controller/voItemThread`, `voChannelItemThread*` | current chunk, parser, drop flags | fetch, parse, push, report end, stop, resume | one per audio, video, subtitle; callbacks into the controller | run exactly when they should; end reported once |
| Time stamp sync: `Controller/voAdaptiveStreamingTimeStampSync` | last time, availability and thread id of audio and of video, a pending reset, the lead allowed; no lock over them | check and wait, reset, set the lead, disable | the item threads wait for each other | nobody waits for good; no track runs far ahead |
| Track selection: `Controller/SourceSelecter`, `voProgramInfoOp` | current, selected and committed programs | select, commit, clear, copy | API threads, controller | a commit changes what was selected, all or nothing |
| Manifest parsers: `Source/AdaptiveStreaming/HLS`, `Dash`, `ISS` | playlist, position | open, get chunk, seek, update | item threads, update thread | - |
| Bitrate adaptation: `Source/AdaptiveStreaming/BA` | bandwidth estimates | estimate, select | events of the controller | - |
| Streaming downloader: `Source/AdaptiveStreaming/StreamingDownloader` | list of chunks to store | add, download, write manifest | two threads | every chunk stored once, manifest complete |
| Legacy sources, progressive download, RTSP, MTV, MobileTV, files, I/O, ads, DRM | own caches and connections | source interface | the player engine | - |
| Player engine: `MFW`, `OnStream2` | playing state, clock | per-track reader threads, synchronisation | polls `GetSample` | - |
| Codecs, renderers, user interfaces | - | - | - | signal processing, left out |

The hard behaviours, each with its line, are listed under `hazards` in
`PROJECT.json`: three parties that begin and join the same threads without a lock,
flags tested in one step and acted upon in the next, passes over a chunk that are
under way while the buffer is flushed, a `GetSample` call that a seek overtakes, unlocked second halves,
cutting lists at every seam (retry, overlap, seek, change of the bitrate) without
losing the markers in them, a list of chunks whose lock is let go between the look
and the use, two threads that hold each other back through unlocked times, two threads that both find themselves last, durations that drift, and a
gate that waits for the download while the download waits for the gate.

## 2. Modules

| Module | Models |
|---|---|
| `SampleList` | what a sample is, and the list surgery: `_SetPos` (cut a list, keep the markers in force), `CalculateDuration` |
| `MediaBuffer` | the final sample buffer. Each locked method is a function from the object `media` to its next value |
| `PlaybackBuffer` | the buffer composed with everybody who calls it: item threads, seek thread, player |
| `SampleListProofs` | lemmas about the list surgery: what `SetPosition` keeps, how long lists and their spans are, when what is left of a list can stand in for it |
| `MediaBufferProofs` | lemmas about each method of the buffer: what it returns is a buffer, what the gate sees of it, where an end marker can be, what cuts leave of the lists |
| `PlaybackBufferProofs` | theorems about `PlaybackBuffer`, its refinement of `BufferGate` among them |
| `BufferGate` | what the buffer promises, abstractly: levels, flags, limits and the gate |
| `BufferGateProofs` | theorems about `BufferGate` |
| `SeekControl` | the controller: `Start`, `Pause`, `Stop`, `Seek`, the seek thread, the thread that updates the URL, and the item threads they begin and join |
| `SeekControlProofs` | theorems about `SeekControl` |
| `DownloadBuffer` | `voDownloadBufferMgr`: the chunks being downloaded, pushed, set aside, paired and freed, by the item threads and the controller |
| `DownloadBufferProofs` | theorems about `DownloadBuffer`: use and end of a chunk, what becomes of every chunk, and the order |
| `ChunkAlign` | `fBA`: the two chunks of a change of the bitrate made into one |
| `ChunkAlignProofs` | theorems about `ChunkAlign` |
| `TimeStampSync` | `voAdaptiveStreamingTimeStampSync`: the item threads hold each other back |
| `TimeStampSyncProofs` | theorems about `TimeStampSync` |
| `MCPlaybackBuffer`, `MCBufferGate`, `MCSeekControl`, `MCChunkAlign`, `MCTimeStampSync` | small streams, level ranges, sets of threads, positions and chunks for TLC |

`PlaybackBuffer` and `SeekControl` look at the same seek from two sides. The first
has every sample and list and a seek of a few steps; the second has every access
of every thread to the flags and handles, and knows of a sample only the position
it was fetched at. What the second proves about threads (nobody asks the parser
while it is moved, no pass survives the flush) is what the first takes as its
`JoinAndFlush`.

`DownloadBuffer` looks at the item threads from a third side: what becomes of each
chunk. A pass into the final buffer is one step there, because `PlaybackBuffer`
has its steps; what `fBA` does to the samples of two chunks is `Merge` there and
`ChunkAlign`'s subject; and where `CheckAndWait` may hold a thread (before a sample
is put) it is simply between two steps. `TimeStampSync` is about that call alone.

### Data

A sample is `[flags, time, fmt]`: the flag bits the buffers test, the time stamp,
and the encoding its payload belongs to. The encoding stands for everything a
`NEW_FORMAT` marker carries; it lets `FormatMatches` tell whether a marker was
lost. One unit of time is one frame, so the 35 ms of a video frame are
`FrameInterval = 1`, and `SAMPLEMAXDURATION` and the 500 ms after which late
video is skipped shrink likewise.

### MediaBuffer

| TLA+ | Code |
|---|---|
| `media.track[t].q`, `.dur`, `.use` | `m_listSamples`, `m_uCurDuration`, `m_bWillUsable` (video overrides `Duration()`, so its `dur` stays 0) |
| `media.state`, `.wanted`, `.actual`, `.sought` | `m_eBufferState`, the two seek points, `m_bSoughtVideo` |
| `media.limit`, `.style` | the three durations, `m_eBufferingStyle` |
| `PutSamplesResult` | `MediaBuffer::PutSamples`: seek cut (`SeekCut`), admission (`Admits`, `Forced`), splice, seek progress, `On` |
| `PutSampleResult` | `MediaBuffer::PutSample`, the way of the end-of-stream marker |
| `GetSampleResult` | `MediaBuffer::GetSample`: the gate, the track's own `GetSample` with late-frame marking and due subtitles, `Off` when dry |
| `WithoutHeard`, `Heard`, `lastAudio` | `AddBuffers`' filter of audio the track has had already |
| `SetMaxDuration` ... `SetBufferingStyle` | `SetParameter` |

`_SetPos` scans a list with six slots and a bubble sort. `SetPosition` says what
comes out of it: which markers are still in force (`Kept`), that their order is
kept, that the format marker is stamped just before the new head, and the one
quirk (a repeated last marker is dropped, unless it was the very first sample).

### PlaybackBuffer

A step is one call into the buffer (it runs under `MediaBuffer::m_lock`) or one
access to a flag that is read without the lock.

| Action | Code |
|---|---|
| `Fetch` | an item thread gets, downloads and parses its next chunk |
| `Offer(th, t)` | one `AddBuffers` call of `CacheManager::useChunk`'s pass: video, audio, subtitle, again until nothing is refused |
| `Remember` | the tail of `AddBuffers`: `m_ullTimeLastAudio` noted outside the lock |
| `Exit` | the thread sees the cache closed and leaves |
| `ReportEnd`, `TestEnd` | the event CHUNKEOS: set the thread's flag, then test both |
| `PutEos` | `CacheManager::setEOS`, one track after the other, spinning while full |
| `Get`, `Poll` | `GetSample` of the player's threads, including calls that passed the `m_bSeeking` test before a seek (`inside`) |
| `AskSeek` | `Controller::Seek` |
| `CloseCache`, `FlushFirst`, `JoinAndFlush` | seek thread: close the cache, flush, join the item threads, flush again |
| `ParserFails`, `SetPosFlush`, `SetPosMark`, `ResumeThreads`, `FinishSeek` | the rest of `SeekAsync` and `AsyncSeekThread` |
| `Configure` | `SetParam` at any moment |

`got` and `changed` are history variables: what the player has had of each track
since the buffer was emptied, and whether a limit was set since the last put.
Nothing in the program reads them, except that the player's pacing (below) is
expressed with `got`.

### BufferGate and the refinement

`BufferGate` keeps two figures per track (`level`, `use`), the gate, the style
and the limits, and says which of their changes are allowed. `PlaybackBuffer`
implements it: `Gate == INSTANCE BufferGate WITH ...` maps a track's level to
`Duration()` and its flag to `WillAvailable()`, and the run `splitseek`
checks `GateSpec == Gate!Spec` as a property, step by step (the
allowance of `_SetPos` cutting while a seek is under way is `OfferSeeking`).
`ImplementsGate` proves it for every stream, limit and number of seeks.

### DownloadBuffer

A chunk is the number it was begun as, which is its place in the list; its samples
are known by the chunks they came from (`holds`), because merging is the only thing
done with them here. The list has a lock, held for one look or one change; a step
is one of these, one pass of `useChunk`, or one access to a flag two threads share.

| TLA+ | Code |
|---|---|
| `list`, `aligned`, `pair` | `m_ChunksList`, the `bBAing` and `pBAPairChunk` of its members |
| `agent`, `found`, `result` | of each item thread: `m_pDownloadAgent`, the pair `ChunkAgentInit` has found, the `CHUNK_STATUS` of its chunk |
| `smooth`, `changing` | the chunk's flag `SMOOTH_ADAPTIONEX`; `m_bBitrateChanging`, which both threads write |
| `single` | the program has one stream (`uStreamCount`): one bitrate, and a capacity of 2 s instead of 30 s |
| `blocked`, `contain`, `first`, `typed`, `ended` | `m_bVideoUnavailableBlock`, `m_contain_video`, `m_bIsFirstChunk`, `m_lastTrackType` set, the two end flags |
| `GetChunk`, `GetNothing`, `GetEnd`, `LeaveLoop`, `Rest` | the loop of `thread_function` with `ToDealItem_II`'s retries |
| `Begin`, `Save` | CHUNKBEGIN: `ChunkAgentInit` = `FindBAChunk`, then `SaveChunkHandle` |
| `Sample`, `Put`, `UsePart` | `DoSample`: `SearchChunk`, then `putSample` without the lock, and its `useChunk` when a list of the chunk refuses the sample |
| `Downloaded`, `Complete` | the end of `GetItem_IV`; CHUNKCOMPLETE with `ChunkComplete` |
| `SetAside`, `Ignore`, `Merge`, `UsePair`, `UseOwn`, `DropPair`, `Drop` | `ChunkAgentUninit`, one look, pass or removal at a time |
| `Notice` | `OnSample` with a track that is unavailable, and `DoTrackTypeUnavailable`'s chunk for it |
| `ReportEnd`, `TestEnd`, `DoEOS` | CHUNKEOS and `DoEOS` |
| `Seek`, `SetStop`, `CloseCache`, `Halt`, `Flush`, `Resume`, `Unblock`, `ParserFails`, `Reopen` | `SeekAsync` and `Stop` as far as they touch the above; `Open` and `Start` after `Stop` |
| `ChangeBitrateWhenError` | the event that a link fails, at any moment: `ToChangeBitrateWhenError`, and `m_bBitrateChanging` set |

`fate`, `over`, `hushed` and `stale` are history variables: what became of a
chunk's samples, whether the end-of-stream markers are out, whether the video
thread's last notice was blocked, and whether the stream was opened with the end
flags of the one before still set (only a seek and the constructor take them
back). What the properties exempt is what TLC shows to go wrong there, and is
listed under the hazards:

* `stale`: the first thread that ends then clears the list the other is using;
* subtitle threads in `UseLive`: nobody's end waits for them;
* `LostOnlySilently` names the two ways in which a chunk that was set aside is
  freed unpushed at the end of the stream: its thread never had a track of its own
  (chunks of several tracks leave `m_lastTrackType` as it is), or the last notice
  was blocked by an earlier one;
* `InOrder`: a part of a chunk may be pushed before the one chunk it was to be aligned
  with. A list of a chunk takes no sample once those it has span more than its capacity
  (`TrackCache::PutSample`); `putSample` then pushes the lists with `useChunk` while the
  chunk is still being downloaded, and without a look at `pBAPairChunk`, so that the pair
  follows behind when `ChunkAgentUninit` merges and pushes it. The capacity is a time,
  which `voBufferCommander` sets with each program: 2 s if it has one stream, 30 s
  otherwise. With one stream nearly every chunk is pushed in parts, but there is no
  other bitrate to change to and none is ever set aside; with several, it takes a chunk
  longer than 30 s (or time stamps that jump). The model does not count: any chunk may
  be refused a sample, any number of times, whichever the program.

What became of a chunk (`fate`) is what became of the samples it has at its end. A chunk
that was pushed in part and whose download then fails is dropped with the rest of its
samples, and tried again as a chunk of its own; the buffer's filters meet the samples
that come twice.

### ChunkAlign

`from` and `to` are the lists of the chunk set aside and of the next one; a step is
one turn of one of `fBA`'s two loops. `TrackCache::SetPos` keeps markers as the
final buffer's `_SetPos` does, so `SampleList`'s `SetPosition` serves both.

### TimeStampSync

A step is one access to the object (`voLockedObject`s and plain fields), so the
two threads interleave inside `CheckAndWait`.

| TLA+ | Code |
|---|---|
| `last`, `avail`, `tid`, `lead`, `disable` | `m_last_*time`, `m_is*avalible`, `m_n*ThreadID` (garbage at first), `m_max_deltavalue`, `m_disable` |
| `reset` | `m_bReset`, `m_nResetType`, `m_nResetTime` |
| `owner` | which thread delivers each track: one each, or one both |
| `call`, `far`, `near`, `must` | the locals of a call: sample, `uGap`, `uGap2`, `bMust2Wait` |
| `TestReset`, `Carry`, `Clear` | `Reset2` |
| `Hide`, `Gone` | the notice that a track is unavailable |
| `CompareFar`, `SubtractFar`, `CompareNear`, `SubtractNear` | the four reads of the lead; `Minus` wraps round |
| `Test`, `Announce`, `Leave`, `Pass`, `Show` | the rest of `CheckAndWait`; `Held` is the condition of its loop |
| `SetChunkDuration`, `Take`, `Drop`, `End`, `Raise`, `Disable` | what the item thread does around it |
| `SetStopFlag`, `Seek` | the controller: stop, wait for the threads, `Disable(false)`, `Reset`, start anew |

`published`, `fresh`, `disturbed`, `peak` and `exempt` are history variables.
`exempt` says what `Skew` does not answer for: forced samples, notices, and a chunk
dropped while the reset of a seek is still pending, which replaces it (`Reset` writes
over type and time), so that a track's time of before the seek stays; and a sample that
meets equal thread ids, garbage or not, which the test lets through. `NoSelfWait`
excepts a dropped chunk before the other track has begun: the condition on the thread
ids (line 197) compares one that is set with one that is garbage, and the reset has
moved the other track's time away from the sample's. The two exceptions for dropped
chunks came out of the proofs; both are hazards. A thread that ends because it was told to stop does not disable the object in the
code; the model lets every thread that ends do so, which the seek undoes as it does
the other.

### SeekControl

The application's calls are one process (`app`, with the call's program counter),
because the engine's `COSBaseSource` holds one mutex round them. A step is one
access to `m_is_stop`, `m_status` or a thread's flag, one wait for a thread, one
creation of a thread, or one call into the buffer or the parser.

| TLA+ | Code |
|---|---|
| `status`, `isStop`, `isStart`, `isPause` | `m_status`, `m_is_stop`, `m_is_start`, `m_is_pause` of the controller |
| `position`, `seeking`, `stopSeek`, `lock`, `updating` | `m_nPositionSeek`, `m_bSeeking`, `m_bStopSeek`, `m_lockSeekAndUpdate`, `m_bUpdatingURL` |
| `info`, `halt`, `handle` | `m_ptr_info`, `m_is_stop`, `m_thread_handle` of each item thread's object |
| `work[k][i]`, `chunk[k][i]` | what operating system thread `i` does in object `k`'s function. An object has one handle and `vo_thread::begin` overwrites it, so two threads might run one function: the model lets them |
| `cacheOpen`, `buffer`, `parserAt` | `CacheManager::m_bStop` negated; the final buffer's and the parser's position |
| `Open`, `Close` | as far as they create and end threads and flags |
| `StartCall`, `StartStatus`, `StartBegin`, `StartCreate` | `Start`: flag, status, then for each item thread `voItemThread::Start` (wait for a predecessor, create) |
| `StopCall` ... `StopUninit` | `Stop`: status, flag, cache closed, seek thread, update thread, each item thread, buffer |
| `Seek`, `SeekLoop`, `SeekTake`, `SeekLock`, `SeekDone` | `Seek` and the loop of `AsyncSeekThread` |
| `SeekEnter` ... `SeekNotify` | `SeekAsync`, in its order |
| `UpdateUrl`, `UpdateLock`, `UpdateEnd` | `SetParam(UPDATE_SOURCE_URL)` and `AsyncUpdateUrlThread` |
| `Fetch`, `Report`, `BeginPass`, `EndPass`, `Leave` | a turn of `voChannelItemThread::thread_function`: chunk from the parser, its events, passes of `useChunk` until the buffer takes it, the loop's condition |

`asks`, `asked`, `sought`, `answered` and `late` are history variables.
Definitions whose comment begins with `Mutant` belong to no specification; they
are wrong variants that the properties are tried against.

## 3. Assumptions about what is not modelled

* The parsers deliver chunks in order, each track's samples in time order, and a
  parser opened anew announces the format of each track (`Announced`).
* They leave the end of the stream to `setEOS`, which alone sets the end-of-stream bit
  (`Controller/Cache/CacheManager.cpp:311`; `StreamAssumption`), and a notice that
  a track is unavailable carries no key frame (`Sample`). `Encoding` is any set with a
  value for "none".
* The parsers announce each change of encoding before the first frame of it, within a
  chunk and from one chunk to the next, and audio and video each come from one thread
  (`FormatAssumption`; the controller creates one item thread per stream, and selects one
  stream for each of the two). TLC evaluates it on the streams of every run of
  `PlaybackBuffer`; `FormatsMatch` and `AudioIsGapless` rest on it.
* Each chunk's video can be decoded by itself: it begins with a key frame, and so does
  what comes after a marker (`VideoAssumption`). `VideoIsDecodable` and `VideoBeginsAtKey`
  rest on it.
* The audio of a stream is continuous. Within a chunk times go up and no moment is left
  out (`AudioAssumption`); a chunk goes on where those before it end, or begins earlier and
  reaches beyond (`OverlapAssumption`); the chunk a seek goes to, or one before it, has the
  audio of the point (`SeekAssumption`). Of a chunk that begins earlier
  `OverlapAssumption` also says that it does not begin with the very frame the others end
  with: `AddBuffers` compares with `<`, so that one would be pushed twice. TLC evaluates
  the three on the streams of every run; `AudioIsGapless` rests on them.
* `Lasts` bounds the durations that `BufferGate` enumerates. It is all of `Nat` in the
  theorems and what occurs on their streams in the runs.
* `Seek` of a manifest parser goes to the last chunk that has begun on all its
  tracks at the point (`ChunkAt`), or refuses (`ParserMayFail`).
* The player keeps audio and video together: it does not ask for more of a track
  that is `Lead` ahead of the other while more of the other is to come
  (`Paced`). `PlaysOut` needs this (see 5).
* `SeekControl`: after `Stop` the application only closes (`Start` would find no
  seek thread, which only `Open` creates); a handle is not opened again; a
  download ends, and so does the update thread's. With `EarlySeek = FALSE` the
  application seeks only after `Start` has returned for the first time, which the
  header does not demand. With `TRUE`, TLC refutes every safety property of the
  module but the type invariant: `m_status` is STOP from `Open` to `Start`, so an
  early seek is dropped unanswered; and one that is being served when `Start` runs
  joins and creates the same item threads as `Start` does.
* `TimeStampSync`: the leads of a stream's chunks are of one order (half of any is
  at most any other), and a sample is either within half a lead of the one before
  it or, after a gap, farther away than any lead (`StepAssumption`); the first
  samples after a start are near the position it was for. Without the second, a
  forward step between half a lead and a lead is not announced before it is waited
  with, and two threads that take one at once wait for each other.
* `DownloadBuffer`: in a stream whose chunks hold audio and video all chunks are the
  video thread's; the controller's thread and the application are one process
  (what they do to each other is `SeekControl`'s subject); a thread that finds a
  chunk freed is taken to find its old values, and the address of a freed chunk is
  not given to a new one.
* `ChunkAlign` (`ChunkAssumption`): a marker is stamped between the samples around it; a
  list that begins with a notice that the track is unavailable has no frames; the old
  chunk is in one encoding, and the new one, for which a parser is opened anew, in one
  that it announces; its video begins with a key frame; none of its markers takes back
  another. In either bitrate a stream's frames are at the same times (`SameFrames`).
* Fairness: every item thread, every reader thread of the player and the seek
  thread keep running. Each is a loop with sleeps in the code, and the mutexes
  are held for the length of a call only. Asking for a seek and setting
  parameters need not happen. `Fairness` is weak fairness with ENABLED of the
  thread's and the player's steps spelled out (`ThreadMoves`, `PollMoves`); the
  spinning loop of `setEOS` is the one case where a step may change nothing.
  `TimeStampSync`'s `FairSpec` is weak fairness of each item thread, which also says
  that chunks and samples come or the stream ends, and of the seek that waits for
  the threads; that the user stops or seeks is never assumed.

## 4. Runs

| Run | Asks | Bounds |
|---|---|---|
| `muxed` | type invariant; audio gapless; frames after their format; video decodable; audio level not overstated while more is to come; played out | one thread, three chunks, change of encoding with overlapping audio, video missing in the middle chunk, external subtitles, a late player (`Wants` 4, `Late` 2), one seek to either of two points |
| `splitseek` | seek lands; playing begins with a key frame; nothing after the end; refinement of the gate | two threads, two chunks each, two units of time to a frame so that a point may lie between two frames, one seek which the parser may refuse |
| `limits` | nothing a shut gate waits for is turned away | limits and style set at any moment, a chunk that hardly fits |
| `gate` | shut for want; starved is admitted | levels 0 to 4, settable limits around each other |
| `seeks` | type invariant; item threads known to their handles; parser moved alone; no stop flag left raised; samples fresh when `GetSample` is let in; last seek wins; seeks notified | two item threads, two identities of threads, two positions, two seeks, one update of the URL; symmetric in identities and positions |
| `stops` | `Stop` returns; `GetSample` is let in again after a seek | two item threads, one identity, one position, two seeks, one update; no symmetry |
| `lateevent` | no event after `Stop` was called (violated) | one item thread, one seek |
| `updates` | an update is refused only while one is under way (violated) | one item thread, two updates |
| `sync` | no mutual wait; no wait for itself; what is waited for is in reach; skew bounded | both kinds of stream, two chunk durations with leads 5 and 7, steps 2 and 8, times to 8, forced samples and notices, no dropped chunk, one start |
| `syncfair` | waits end; stopped threads end | one lead, steps 1 and 3, times to 3, one dropped chunk, one seek |
| `align` | switch decodable; no hole where frames ascend, one frame at most in decoding order; no moment twice; nothing left behind | 16,384 pairs of chunks of up to four frames: all overlaps, one or two key frames, markers, video out of order or missing, subtitles |
| `chunks` | type invariant; no chunk in use is freed; one aside at most; no chunk forgotten; none lost silently; in order; nothing after the end | video and audio thread, one bitrate or several, three chunks, or two and one seek or stop (with opening again), any of them pushed in parts |

The chunks are two frames long and the maximum is 5 (10 in `splitseek`, whose frames are
twice as long), so a list is refused,
retried, forced and cut within a few steps, and a buffer fills and runs dry with
three chunks. One seek meets every state of the threads; the second of two seeks
starts from a state the first one leaves, which is the initial state but for
where the threads start. `Wants` are playing times: 0 (no skipping) and one late
enough to skip.

A second seek is what meets the first one half served, and a third would meet no
other state: `position` holds one at a time, and what the first leaves behind is
what `Start` leaves. Two item threads let one be waited for while the other runs;
two identities let an object's function run twice, if anything lets it. Deadlock
is not checked in `SeekControl`'s runs: a closed source has nothing to do; nor in
those of `TimeStampSync`, `DownloadBuffer` and `ChunkAlign`, whose threads end.

Three chunks are what a change of the bitrate needs: one to set aside, one to go
with it, and one that changes the bitrate again or comes from the other thread. A
second start of the threads meets what one leaves behind, as above. `MaxChunk` bounds
chunks and restarts together, since three chunks and a restart take TLC longer than
the rest of the runs (they were checked besides, as were two chunks with a subtitle
thread: no property failed); the theorems cover any number of either. In `TimeStampSync` times are small, but leads and steps are related as
`StepAssumption` says, and leads of two lengths let one thread's chunk change the
lead while the other computes with it. `W` wraps unsigned differences at 100, far
from any time.

Two runs show disagreements between the code and its comments or log messages:

* `lateevent`: `SeekAsync` tests `m_status` and clears the stop flag in the next
  statement. A `Stop` that sets both in between loses its flag, and events pass
  `OnEvent`, whose comment promises that none is called back after `Stop`.
* `updates`: `m_bUpdatingURL` is taken back on success only. After one failed
  download every later update is refused as "under updating".

Two more were found and are noted with their hazards. The header demands maximum >=
buffering >= quick start (`Buffer/MediaBuffer.h:69`), while `SetParameter` compares
both with the maximum only; what depends on the order is `GateAdmits` below. And the
duration held against the maximum leaves out the gaps between lists, but takes them
off as samples are read: the figure falls behind what the queue spans by one frame
per list, and the audio buffer grows past its maximum.

## 5. What `PlaysOut` depends on

With `Lead` larger than the maximum TLC finds an end-of-stream deadlock:
`setEOS` offers its marker to video first and spins while video is full; if
audio runs dry at that moment and the style makes audio count, the gate shuts,
the player gets no video either, video stays full, and audio's marker is never
offered. The same happens when the audio track is shorter than the video track
by more than the buffer, because both item threads must report their end before
any marker is put. With tracks that end together and a player that keeps them
together (`Lead = 1`), `muxed` plays out. It is listed as a hazard.

## 6. Proofs

### SeekControl

`SeekControlProofs` proves, for any number of item threads, positions, seeks and
updates, with `EarlySeek = FALSE` (section 3) and `ControlAssumption` (null values
differ from proper ones, there is an item thread): `TypeCorrect`,
`ThreadsAreKnown`, `ParserIsAlone`, `SourceRunsOn`, `LastSeekIsServed`,
`SamplesAreFresh` and `SeekIsAnswered`, that is every safety property of the run
`seeks`.

None of these is inductive. `KnownThreads` is kept by the creation of a thread
only if the handle it overwrites is null, and it is null only because nobody else
has got to that object since the wait before: no lock says so, the order of the
calls does. The inductive invariant has five parts:

* `TypeOK`;
* `OrderInv`: who may act when. Until `Start` has returned, the seek thread finds
  no position; when `Stop` gets to the item threads, the seek thread is gone; so
  the three parties never meet there. The status, the stop flag and the lock
  follow from where each party is;
* `ThreadInv`: which handles are null at each point of each party's way;
* `RequestInv`: where the last position asked for has got to: pending, in the
  seek thread's hands, or with the parser;
* `DataInv`: what is carried and buffered was fetched where the parser stands,
  and when the parser is not where it was sent (a refused seek, or a stopped
  one), the buffer is empty and no item thread exists.

There is one lemma per part (`OrderStep`, `ThreadStep`, `RequestStep`, `DataStep`,
`TypeStep`), and lemmas about the thread primitives (`JoinedKnown`,
`CreatedKnown`, `GoesKnown`). TLC has checked the five parts as invariants of the
instance of `seeks`. `StopReturns` and `SeekServed` need fairness and stay with
TLC.

### DownloadBuffer

`DownloadBufferProofs` proves, for any `MaxChunk` and `MaxRestarts` (that is, any number of chunks and restarts),
with or without
a subtitle thread: `TypeCorrect`, `UsesLive` (`UseLive`), `OneIsAside` (`OneAside`)
and `EndStaysEnd` (`EndIsEnd`).

`UseLive` is not inductive: nothing in a thread's own steps says that its chunk is
still in a list that others clear. `IInv` adds what keeps it there: a thread's agent
is a chunk it began and a pair one of the video thread's, older than its chunk
(`AgentOK`, `FoundOK`, `PairOK`, `ResultOK`, `PlaceOK`), so that no other thread
removes it; whoever has set an end flag does not come back before a seek, and the
list is cleared only when both have (`EndOK`), so no audio or video thread is in a
chunk then; and the controller flushes only when all are gone (`FlushOK`). `LiveOK`
says the rest at each place.

`OneAside` needs the video thread's way from the chunk it sets aside to the next:
`AInv` (`AsideOK` with `Marked`, `Flagged`, `Paired`, `Leaving`) says that while a
chunk is aside, either the change of the bitrate is still marked, or the chunk under
way is flagged, or has found it, or has it as pair, or the thread is on its way out;
so the next chunk to be set aside would have a pair, and is dropped instead.
`EndIsEnd` rests on the end flags staying set (`OverOK`) and on no chunk holding
samples of another thread (`HoldsOK`).

The second half of the module builds on these invariants and proves, again for any
number of chunks and restarts, the other three properties of the run `chunks`, so that
all its properties are theorems:

* `NoneLeftBehind` (`NoOrphan`). `LeftInv` says when a thread's chunk is not in the
  list any more (`FreeOK`: between two chunks, and at its end) and that what is in the
  list and was not set aside is its thread's (`OwnedOK`). The second alone is not
  inductive: beginning the next chunk would orphan the one before.
* `LossIsSilent` (`LostOnlySilently`). Chunks are lost where `DoEOS` and the flushes
  clear the list; with `LeftInv` what is left in it then was set aside by the video
  thread, and `LastOK` says that from its last notice on none is, unless the notice
  did not come (`Silently`).
* `PushedInOrder` (`InOrder`). `OrderInv` says of every place from which a chunk can
  still be pushed that all it holds is later than anything pushed (`Later`): the pair a
  thread found, the chunk it fills, the pair it pushes first, its own after that
  (`FoundLater`, `OwnLater`, `PairLater`, `UseLater`), and what is set aside
  (`AsideHeld`). A merge keeps this because samples move from a chunk to its pair and
  are held once; dropping a pair keeps it because `OneAside` leaves nothing behind.
  Parts of a chunk are pushed while it is filled (`PartLater`). That they overtake
  nothing but the pair needs to know where the older samples are: what was neither
  pushed nor freed nor set aside is held by a chunk in the list (`OpenOK`), and while a
  thread fills its chunk that can only be this chunk (`OwnedOK`, which for this counts
  a thread as heard while it fills a chunk whose beginning was, although `Stop` may have
  silenced it since, `Begun`); what was set aside is the pair (`AsideOK`); and with one stream nothing ever
  is (`AInv`).

TLC has checked `LeftInv`, `LastOK`, `OrderInv` and `OpenOK` as invariants of the
instance of `chunks`, and besides with a subtitle thread.

### TimeStampSync

`TimeStampSyncProofs` proves, from `SyncAssumption` and `StepAssumption`:
`TypeCorrect`, `NeverBoth` (`NoMutualWait`), `WaitsInReach` (`WaitInReach`),
`SkewBounded` (`Skew`) and `NeverItself` (`NoSelfWait`): every safety property of the
run `sync`.

That the threads do not hold each other rests on a fact about one thread
(`WaitOK`): the time it waits for is not after the time it has announced of its
own track. If both waited, each track's time would be below one that is not after
the other's. To keep it, the invariant says of each call how its sample relates to
the one before (`StepOK`), that the lead is that of a chunk wherever it is read
(`LeadOK`), and what the two gaps are, although the lead may have changed between
the reads (`FarOK`, `NearOK`, `GapOK`).

`Skew` relates what was let through (`peak`) to what is announced (`published`), while
the code compares gaps with the object's times. `SkewInv` says that these times are the
announced ones unless the reset is still to be carried out (`SyncOK`), that what is
announced is let through or is the sample in hand (`CoverOK`), and that a sample that
passes is within a lead of the other track (`ReachOK` while it waits, `PassOK` after);
the lead it was tested with need not be the one in force.

`NoSelfWait` is about the video thread alone, with both tracks. `AloneInv` follows its
call through: before a track has begun, its time is where the start put it
(`StartOK`, `BehindOK`), and the first samples are near (`CloseOK`), so nothing is far
ahead; after it has begun, its thread id is the thread's own, or the track is
unavailable (`NameOK`), so the test does not take it for another's. That the
thread changes the lead only between calls keeps its gaps from wrapping (`UnwrappedOK`).

`WaitEnds` and `StopJoins` need fairness and stay with TLC.

### ChunkAlign

`ChunkAlignProofs` is about chunks of any length, with what `ChunkAssumption` says of them
(section 3; TLC evaluates it on the chunks of the run `align`). `AlignInv` says what each
track holds before, between and after its two turns; so the properties come down to two
lists. `WholeHalves` shows that what goes out is the first samples of the old list and,
behind the markers still in force, the samples of the new one from some place on
(`Halves`), and that the frames of the first part are earlier: by the point where there
is one, and where there is none because then the old list ends before the new one begins, or
is given up, or one of the two has no frame.

* `SwitchIsDecodable` (`SwitchDecodable`): the new part still has its marker
  (`CutReplaces`, the lemma `FormatsMatch` rests on too), and video in it begins with a key
  frame, because the point is one or nothing was cut off.
* `TimeGoesUp` (`StillAscending`). Of the old list nothing from the point on may be left.
  `CutOldIs` shows that the extra cut for frames stored in decoding order does no harm to a
  list whose frames ascend.
* `AllIsPushed` (`NothingBehind`), from `MarkersKept`: `SetPosition` keeps every marker of a
  list in which none takes back another (`Lasting`).

* `LeavesNoHole` (`NoHole`), with `SameFrames`. It is about lists whose frames ascend; the
  property is stated as what can be played before and after (`Played`), not as a count.
  Where there is a point, the old list keeps all before it and the new one all from it on;
  where there is none, the old list ends before the new one begins, so nothing of either is
  taken away that the other does not have.

Of frames in decoding order one may be lost: the cut of the old list goes by the place of
the point, and a frame stored after it may have an earlier time. `OneFrameAtMost` says that
it is one at most; it counts times, for which the provers would need induction over the
list, and stays with TLC.

### BufferGate

`BufferGateProofs` proves with TLAPS, for all limits, durations and settings:

* `TypeCorrect`: the type invariant.
* `LimitsSafe`: the guards of `SetParameter` keep both thresholds within the
  maximum whatever is set in whatever order (`LimitsWithinMax`; no run repeats it).
* `GateShutForWant`: a shut gate, unless a limit was set since the last put,
  is short of something on a track that is to come.
* `GateAdmits`: if no quick start value exceeds a buffering value
  (`OrderedLimits`, the header's demand), everything a shut gate waits for is
  admitted.

The last two are what keeps download and player from waiting for each other.
The inductive invariant `IInv` is the type invariant with `LimitsFrom`, which says
where the limits come from: without it a threshold might be 0 (and a gate could be
shut for want of nothing), and quick start might exceed buffering. Assumptions:
`GateAssumption` (limits are naturals, thresholds positive, maximum at least
either). `OpenedStarves` is the lemma about `On` that `GateShutForWant` rests on.

### PlaybackBuffer

`PlaybackBufferProofs` is about any streams, threads, limits, playing times and number
of seeks; it assumes what `PlaybackBuffer` and `MediaBuffer` assume of their constants
(the samples are samples, the parsers deliver no end-of-stream marker, the limits the
constructor is given are in order).

* `TypeCorrect` (`TypeOK`) is less obvious than a type invariant mostly is: durations
  are unsigned in the code, and `Pop`, the retries and the cuts subtract from them. It
  needs `Targeted`: the seek thread has a position while it moves the buffer.
* `ImplementsGate` (`GateSpec`): every step maps to a step of `BufferGate` or a stutter.
  There is a lemma per call: `OfferIsGate`, `PutEosIsGate`, `GetIsGate`, `FlushIsGate`,
  `SetPosIsGate`, `ConfigureIsGate`. The hard one is `OfferIsGate`: a list offered may
  be cut, refused, forced or spliced, and the gate opened by it, while the abstract
  step knows only two figures per track.
* `ShutForWant` and `LimitsReachable` carry `BufferGateProofs`' theorems over to the
  concrete buffer through that refinement (with `GateAssumption`, and `Lasts = Nat`).
* `EosIsLast` (`EosLast`). The property is not inductive: two item threads may both
  find themselves last and push two markers each, `setEOS` may wait at a full track for
  long, and a seek comes between. `EosInv` adds who may push what when: a thread
  that has reported its end brings no chunk any more (`Retired`), markers are
  pushed when all have reported (`MarkedByLast`), so a marker in a track, or at the
  player, means that all have (`EndedByLast`); while the buffer is moved nobody pushes
  and no marker is left (`Quiet`), which is what the second flush is for; behind a
  marker there are markers only (`LastOnce`), and none is in a chunk (`ListsUnended`).
* `StarvedIsAdmitted` (`NoStarvedRefusal`), from `OrderedLimits`: of video at any time,
  of both tracks unless a seek is under way, which is all the run `limits` checks. On
  audio during a seek it would say too much: `TrackBuffer::SetPos` computes the duration
  anew, and that counts the joins between lists, which `PutSamples` left out when it
  let them in.

* `FormatsMatch` (`FormatMatches`), from `FormatAssumption`. A marker is not always in the
  same list as its frames: it may be in the buffer already, or with the player, while
  they wait in a list that was refused, or are in the next chunk. So `FormatInv` speaks of
  a line: what the player was last told, what is in the track, what is left of the
  thread's list and the last frame of the chunk it came from (`Pending`); in it every
  frame comes after its own marker (`Introduced`), and between calls into the buffer it
  stays so. Between the two flushes of a seek, while the item threads are joined, it does
  not hold (`Settled`); it begins anew then, because every thread opens a parser anew. `Listed` says when a
  thread's list is empty. Each cut is shown to leave a list that `Replaces` the one
  before: whatever line had the longer one in it may have the shorter one instead. It
  holds of `SetPosition`, whose head is the format in force at the point, of audio heard
  already, and of late video, which is only marked. A cut that lost
  a marker whose frames stay would break it.

Lists are cut, sorted, folded and summed, and the provers have no induction over
data. The lemmas do without: `SetPosition` is a concatenation of which only lengths and
members are needed; a fold over what was popped and the sum of a set of spans are
natural numbers because a least place where they are not would have a predecessor
(`Folding`, `Summable`); and what late video loses is a step after a step (`Pops`).
TLC has checked `TypeInv`, `EosInv`, `FormatInv` and `LimitsSet` on the streams of the runs before.

* `VideoIsDecodable` (`VideoDecodable`) and `VideoBeginsAtKey` (`VideoStartsAtKey`), from
  `VideoAssumption`. A frame that is not a key frame needs the one before it, which may be
  in another list, in the queue, or with the player. `VideoInv` says that every list a
  thread holds can be decoded by itself (`Alone`), and the queue after what the player has
  had (`Decodable`). Lists in that order stay so when one goes behind the other
  (`DecodableJoined`) or the player takes the first (`DecodableTail`). The cuts of a seek
  are at key frames (`CutAtKey`), and late video is marked up to a key frame
  (`DecodableMarked`), so no frame is left whose predecessor has gone; that the first
  frame at all is a key frame is the same fact about an empty history.
* `AudioIsGapless` (`AudioGapless`), from the assumptions about audio in section 3. The
  line of what the player had last and what lies ready is in order and misses no moment
  between its ends (`Ordered`). For the next list to go on from there, the invariant
  `AudioInv` says of the one thread that brings audio where it stands (`Works`): the line
  ends where the chunks end that it has brought, and that is what `m_ullTimeLastAudio`
  holds or, while `Remember` is still to come, will hold (`LineFits`, `Noted`); what is left
  of its list is the later part of its chunk (`ListFits`) and begins with the frame that is
  due, or earlier, and then `AddBuffers` cuts it (`NextIn`). A pending seek cuts lists and
  queue too, and moves the position the cut goes by: `SeekFits` says that this position is
  reached by what has been brought (`Near`), and that the chunk the seek went to has been, so
  what is due lies beyond the position and stays (`DueBeyond`). After the markers of the
  end a cut may take more, but then no audio is to come. `Cleared` says what a seek begins
  with; `lastAudio` is 0 then only because of the second flush, since `Remember` of a pass
  that was under way may come after the first. There are lemmas for what each cut of a list leaves
  (`Shed`, `LaterPart`: some frames at the end of it, in order) and for what each call does to
  the queue (`AudioHeld`).

TLC has checked `AudioInv` and `VideoInv` on the streams of the runs before.

The rest of its properties stay with TLC. `SeekLanding` says that video begins at or before
the point of a seek, and that no audio beyond the point is missed. It does not say that audio
begins at or before the point: `AudioSetPos` cuts to the latest *sample* that is not beyond it,
and where the point lies between two frames that may be the format marker between them, so
that audio begins with the first frame beyond. `splitseek` has such a point. It says this
of points that the chunk sought to covers (`Covers`: the chunk has each track of its
thread from a frame at or before the point on). `AudioNotOverstated` is true of streams without gaps inside a
list, and not in general: a list whose own time stamps jump by `SAMPLEMAXDURATION` is counted
whole and taken off in part, and the time of the end-of-stream marker is not initialised
(both are noted with the hazard). `PlaysOut` needs fairness.

## 7. Not modelled

Everything listed `not_modelled` in `PROJECT.json`, with the reason. Within the
modelled parts: asynchronous opening, live windows, DRM, track selection, what the
events sent to the application say, the protocol specific subclasses of the item
thread, time stamp revision, and the `DECODE_ONLY` flag of video frames.
`PlaybackBuffer` and `ChunkAlign` (with `VideoAssumption`) take a chunk as pushed whole:
there, `putSample`'s pushes in mid-download, which `DownloadBuffer` has, would be chunks
of their own, of which only the last is aligned with a pair. `SeekControl` leaves out
that `SeekAsync` waits for a DASH source's initial data (813-817), a loop that `Stop`
ends and that changes nothing: it is a delay before the next step, and the liveness
properties take it to end. It does not open a handle again;
`DownloadBuffer` does, with the flags that survive. `DownloadBuffer` leaves out a
`Stop` that comes while a seek waits for the threads (`SeekControl` has it), a notice
inside a chunk whose beginning was not heard, and whether audio's notices are blocked
(it allows both).

Most of the repository's lines are codecs, vendored headers, platform glue and
generated tables; of the 2.75 million, the part with the control this development is
about is some ten thousand.

## 8. Plan

Done: the buffer, the controller, the download buffer with the alignment of chunks,
the synchronisation of the item threads. What would come next:

1. `SourceSelecter`: select, commit and clear against concurrent readers.
2. `StreamingDownload`: the two threads of the downloader and their list.
3. `DownloadBuffer` composed with `PlaybackBuffer`, a chunk's lists with their samples
   and a pass of `useChunk` call by call.
4. Proofs: `SeekLanding`; what `JoinAndFlush` of `PlaybackBuffer` takes from
   `SeekControl` as a refinement.
