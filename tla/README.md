# TLA+ development for SimplyCodec_ffmpegDecode

The program takes raw pictures from a file, marks each with its number and a
time code, encodes it on the GPU as DNxHD, decodes the result with FFmpeg and
keeps every picture FFmpeg does not call good. Around that loop the repository
carries two libraries: `Lib.Base`, the pools, queues, rings and threads of a
larger capture and play-out system (whose callers are not in the repository),
and `Lib.TCMarker`, which draws markers and time codes into pictures.

This directory holds TLA+ modules for the parts of that code with state worth
checking, TLC configurations for them, and proofs checked by TLAPS.

## 1. Inventory

Paths are relative to `src/source`. "Own" code is about 6000 lines; the rest of
the tree (200000 lines under `Lib.TCMarker/{ajaapi,classes,democlasses,includes}`)
is the vendored AJA SDK.

| component | state | operations | meets | hard part | right when |
|---|---|---|---|---|---|
| `FFmpegDecode` (`Main/ffmpegDecoder.h`) | decoder context, stream and its index, frame, packet, global `bError` | `main2`, `read_packet`, `open_codec_context`, `decode_packet`, the log callback | called once per picture by `main`; calls FFmpeg, which calls back | ten error exits to one clean-up; members survive a call; FFmpeg may fail or log anywhere | it frees what it allocated, calls nothing good that failed, always comes back |
| main loop (`Main/mainX.cpp`) | file position, `loopcount`, frames | read, mark, burn, convert, encode, judge, save | everything below and a GPU library in a submodule | failure of one step of several | a picture is saved iff it was not good |
| `CLoopBuffer` (`Lib.Base/LoopBuffer.*`) | bytes, length, two pointers, two counters | `InitBuffer`, `UnInitBuffer`, `ResetBuffer`, `WriteBuffer`, `ReadBuffer`, `CanGetAudioData`, `GetSizeOfDataList` | an audio producer and a consumer share it | wrap, full against empty, an unlocked query, use after `UnInitBuffer` | it is a bounded queue |
| `ObjectPoolEx`, `SemaphoreClock` | list of free objects under a lock, a semaphore beside it | `initialize`, `getNew`, `release`, `waitDataEvent`, `Get` | base of `CapturePoolMgr` | the permit and the object are taken in two calls | no object twice, none lost, no sleeper beside a free object |
| `CapturePoolMgr`, `VideoFrame` | two pools, `m_nBufferSize`, each frame's buffer | `initialize`, `getNew`, `release`, `setBufferSize` | `PoolMgrEx` hands it out per channel | unlocked steps between locked calls | every frame is large enough for its format |
| `FrameList` | empty and data lists, a lock each | `pop_front_empty`, `pop_front_data`, `getHeadDataRef`, `push_*` | producer and consumer of frames | an object between two lists; a peek without taking | each frame has one place |
| `SyncList`, `Locker`, `LockHolder` | a list and a recursive lock | push, pop, `for_each` with callbacks, copy, assignment | | two locks taken in either order; callbacks inside the lock | no deadlock but a ring of lists, no torn list |
| `EasyThread` | handle, flag the worker polls | `startThread`, `stopThread`, `isRunning` | base class of workers | stop that times out, then start | one worker at a time |
| `EventClock` | auto-reset event | `raiseEvent`, `waitEvent` | workers | raises that coalesce | a raise after the last wait wakes the next |
| `PoolMgrEx`, `IConfig`, `IAJA_TcOSD` | singletons | `getInstance`, `release` | everyone | double-checked locking | one instance |
| `AudioFrame` | buffer, sizes, counts | `setBufferSize`, `SetMonoCnt`, `SetSampleCnt`, `trimStero` | `CapturePoolMgr` | counts of two calls that disagree | data fits in the buffer |
| `Timecode`, `CVITC` | hour, minute, second, frame | `inc`, `decrease`, `set`, `add` | `AJA_TcOSD` counts one per picture | drop-frame boundaries | never shows a dropped number |
| `AJATimeCodeBurn`, `AJA_TcOSD` | rendered font and its geometry | `RenderTimeCodeFont`, `BurnTimeCode` | main loop | a render that fails after an earlier one succeeded | digits land inside the picture |
| `TcOSD` | character bitmaps per format | `loadFont`, `incrust*` | nobody in the repository | use before load | no character missing |
| `Build_Marker`, `NewMark` | two field indices, the label picture | `buildMarker` | main loop | which block is white | the number can be read back |
| PNG decoder, `CommonHelper`, `TimeCount`, tables | none or constant | pure functions, calls of Windows | | | |

Threads, locks and callbacks are all in `Lib.Base`; `Main` is sequential, and
its hard behaviour is failure and state that outlives a call. Nothing is
persisted, so there is no recovery to model. The hazards, each at its line, are
in `PROJECT.json`.

## 2. Plan

In order of weight. Done:

1. `BoundedFifo` (abstract), `LoopBuffer` (implements it), `LoopBufferProofs`.
2. `ObjectPool`, the pool and its semaphore, and `ObjectPoolProofs`.
3. `CapturePool`: composes `ObjectPool` (INSTANCE) with the frame sizes.
4. `FFmpegDecode`: one decoder object judging a sequence of pictures.
5. `Timecode` against the reference `DropFrame`, and `TimecodeProofs`.
6. `CVITC`, `Marker`: what is drawn into a picture and counted with it.
7. `MainLoop`: extends `FFmpegDecode`, composes it with `Marker`, `CVITC` and the GPU steps.
8. `SyncList` with its recursive lock.
9. `FrameList`, `EventClock`, `EasyThread`, and `FrameWorker`, which composes them.
10. `TimeCodeBurn`, and `Overlay`: `Marker` and the time code in one picture.
11. `AudioFrame` beside the video frames of `CapturePool`; `Locker` and
    `Singleton`, with the lists in `LockUsers`; `AJA_TcOSD` around the burner and
    the counter in `MainLoop`; `TcOSD` beside the burner in `Overlay`.
12. the decoder in `MainLoopProofs`, `OverlayProofs`, `FrameWorkerProofs`, `LockUsersProofs`,
    `CapturePoolProofs`, and the refinement in `LoopBufferProofs`.
13. the properties of `CVITC`, in `TimecodeProofs`, whose lemmas on the numbers of a
    day it shares.
14. the two properties of `MainLoop`, which rest on one number that travels through
    the frames, in `MainLoopProofs`.

Every safety and action property of a passing run is proved; liveness stays with
TLC.

No module uses a RECURSIVE operator, so that all stay open to proof.

## 3. The modules and the code

| module | stands for | state | actions |
|---|---|---|---|
| `BoundedFifo` | what a ring of bytes promises | a queue and its capacity | `Put`, `Get`, each refused whole when it does not fit; `Clear`, `Open` |
| `LoopBuffer` | `CLoopBuffer` | `m_pBuffer`, `m_iBufLen`, the pointers and counters under their short names; history: what each query answered | one per member function; `GetSizeOfDataList`, which takes no lock, is `SizeLoad` and `SizeReturn` |
| `ObjectPool` | `ObjectPoolEx`, `SemaphoreClock` | the free list, the count of the semaphore, who holds what, who waits | one per locked call; `waitDataEvent` is blocking, then a permit or a timeout |
| `AudioFrame` | the class of that name | none: a record of sizes and counts, and what is known of them | none: an operator per call of a frame |
| `CapturePool` | `CapturePoolMgr`, `VideoFrame::setBufferSize` | both pools' and `m_nBufferSize`, the frames' buffers, the audio frames, the step of each call, the way the pools are used (fixed) | the unlocked steps of `initialize` and of `getNew`; `release`, `waitDataEvent`; a frame handed on; the calls of an audio frame by its user |
| `FFmpegDecode` | the class of that name | its members, `main2`'s locals and its place | one per stretch of `main2` between two FFmpeg calls that may fail; `read_packet` is FFmpeg's call back |
| `DropFrame` | the drop-frame rule itself: which numbers exist, which frame of the day each is | none | none |
| `Timecode` | `Timecode` | the four fields, the turns `decrease` has left | `inc`, `decrease` and each turn of it |
| `CVITC` | `CVITC` | the four fields as bytes, the format; history: the frame of the day it should show | `setFormat`, `inc`, `set`, `loadFromPCtime`, `add` |
| `Marker` | the block column of `Build_Marker` | the number of blocks, an index per field, the last columns | `buildMarker`, `reset` |
| `Locker` | `Locker`, `LockHolder` | none: a lock is a record of owner and depth | none: `lock`, `unlock`, `mayLock` |
| `SyncList` | the class of that name | the lists, their locks, where each thread is in a call of several steps | one per call under one lock; `empty` and the pop after it; the steps of `for_each`, of a `find` for the same list in its callback, of `operator=`; a callback that turns to another list |
| `Singleton` | `getInstance` of `IConfig` and `IAJA_TcOSD`, `GetInstance` of `PoolMgrEx`, `releaseInstance` | the pointer, its lock, the objects that exist and those constructed, where each call is | the unlocked test and the second read, the locked test, constructor and store in either order, the halves of the release |
| `LockUsers` | the two in one system | those of both, and which of the two the threads do | those of both |
| `FrameList` | the class of that name | the two lists | one per call |
| `EasyThread` | the class of that name | the flag, the handle, the owner's place, the live threads; history: the threads there were, those a stop gave up on | the halves of `startThread` and `stopThread`, the end of `theThread` |
| `EventClock` | the class of that name | whether there is an event, whether it is signalled | `raiseEvent`, the two ways `waitEvent` returns |
| `FrameWorker` | a producer and a worker built on the three | the three, and the places of producer and workers | the calls of either, each a step |
| `TimeCodeBurn` | `AJATimeCodeBurn` | `_bRendered`, the geometry of the font, `_rowBytes` | `RenderTimeCodeFont` with its early returns, `BurnTimeCode` |
| `TcOSD` | the class of that name | the shape and offset of the last load, which types are loaded, the shape each set of bitmaps has room for and was drawn in | `loadFont`, whose PNG may be missing; what `incrustSD` to `incrust2160` read and write are operators, as they change the picture only |
| `AJA_TcOSD` | the class of that name | whether its two objects exist, and theirs | `RenderTimeCodeFont`, `BurnTimeCode` |
| `Overlay` | what is drawn into one picture | those of `Marker`, `TimeCodeBurn` and `TcOSD`, and which of the two programs runs | a picture drawn, a new format, a font loaded |
| `MainLoop` | `main` | its place, `loopcount`, what each frame holds, the files | one per statement before and in the loop; the decoder's steps run while it waits in `main2` |

Definitions carry the names of the source. A call that holds its lock from its
first to its last access is one step; where the code releases the lock, or has
none, it is several. `MC*` modules give the constants their values. Operators
that begin with "Mutation" are not used: each is a plausible bug, put in the
place of the operator after it to see that a property notices.

Six interactions cross modules. `CapturePool` takes every pool step from
`ObjectPool`, twice, and what happens to an audio frame from `AudioFrame`: a
frame comes to its next user as the last one left it. `LoopBuffer` maps its
bytes between the pointers to the queue of `BoundedFifo` (`q` is empty when the
buffer is null, `cap` is one less than the length). `MainLoop` extends the
decoder, whose place stays `at` beside main's `place`, and instantiates the marker
and `AJA_TcOSD`: one object of each, so that what one picture leaves behind meets
the next. `FrameWorker` puts the lists between a
producer and the worker of an `EasyThread` that sleeps on an `EventClock`;
nobody in the repository calls these classes, so its steps are the calls they
offer. `LockUsers` has the two kinds of code that hold a `Locker` over several
steps; as no code is inside both at once, a behaviour does one or the other.
`Overlay` draws the column and then the time code, as `main` does, or the digits
of `TcOSD` alone, as `mainXX` does: a second program in the same file, so the two
never share a picture.

## 4. The runs

Each run checks that the model does not deadlock unless its file says otherwise;
it says so where the system stops by itself: at the end of the file, after a
crash, in a ring of threads that wait for each other's lists, after a write outside the bitmaps, or when a bound on the calls is used up.

| run | question | bounds, and why they are enough |
|---|---|---|
| `LoopBuffer` | Is the ring a bounded queue, do pointers and counters agree, are the answers about its size good? | rings of 1 and 3 bytes (one that refuses everything, one that wraps in the middle of a block), two byte values, five bytes written: the pointers go around twice; one producer, one consumer, one thread that resets, because more of a kind only alternate at the same lock |
| `ObjectPool` | Is an object ever twice out, lost, or free beside a sleeper, and does every waiter get out? | three callers: one may wait, one hold and one interfere; up to three objects in one or two calls of `initialize`; a semaphore that reaches its limit of five through null pointers |
| `CapturePool` | Are frames configured once and large enough, does the pool survive callers that start early, and do the counts of an audio frame describe its data through any users? | two frames of two sizes, three threads, four ways of use (one capturer of two formats, two of one, two that start early, two users of audio frames); sizes in units of 1382400 bytes so that both row layouts are whole; audio frames of two samples instead of 1920, set to 0 or 3 samples, 2 or 16 channels, and 100 bytes, which is no whole number of sixteen-channel samples |
| `FFmpegDecode` | What does `main2` free, which failures may a picture it calls good have met, what does a picture do to the next? | three pictures, because a stale stream needs one picture to leave it and another to meet it; inputs longer than the I/O buffer |
| `FFmpegNoStream`, `FFmpegProbeError` | Do the two error messages of `main2` say what happens? | two pictures and one |
| `Timecode` | Do `inc` and `decrease` follow the drop-frame rule? | 30 frames a second, started before each kind of boundary, twelve calls; other rates are covered by the proof |
| `CVITC` | Do its three ways to a time code agree, and when does it show a frame past the rate? | all seven formats, frame numbers before a minute, ten minutes and the day end; 235 pictures, so that a byte runs out; the other calls come after 0 or 40 pictures |
| `SyncList` (of `LockUsers`) | What does a thread that goes through a list see, when does a pop meet an empty list, who waits for ever; how many objects does a singleton have, and what does a call get? | three threads and three lists, so that three can wait in a ring, or two and a third behind them, by assignments, callbacks or both; lists of one item, which a thread has seen or not when another comes: that longer ones are seen right is proved; the same three threads ask for the singleton, so that one can be in the constructor, one behind the unlocked test and one at the lock; two releases |
| `FrameWorker` | Is each frame in one place, each picture handled once and in order, one worker at a time, nobody asleep beside data, and does a stop return? | two frames, two workers one after the other or both alive after a timeout, three pictures: a frame is used twice |
| `Overlay` | Can pictures be told apart by the column, does the font fill its map, do the digits of either burner stay in the picture, does the column survive them, are the bitmaps of `TcOSD` read as they were drawn, and when are they overrun? | one format of each size and one that the switch forgets, three layouts of pixels of which one cannot be drawn; the indices run through all columns; fonts at 100 and 150 percent, the ones there are PNGs for (none of 720 lines at 150), in any order |
| `MainLoop` | Is what is saved what was judged bad, does everything in it tell the same number, does the program end? | three pictures: a good and a bad one in either order, and one after them |

`FramesFit` holds for one capturing thread or one format. With two of each the
unlocked maximum of `m_nBufferSize` loses an update, which is why the property
names its condition. `AnswersStayGood` names one producer, one consumer and no
`ResetBuffer` in the same way. `DecreaseIsFrameBefore` states what `decrease`
does on the number that would be the first of a minute in a later second: it
goes back a whole second there. `PastRateHasReason` lists how a frame past the
rate comes about. `OneWorker`, `PeekedIsNext` and the second half of `PicturesInOrder` except
a stop that timed out, `NoSleepBesideData` also an event that could not be made.
`GotObject` names the two cases in which a call returns no finished object,
`OverrunNeeds2160` the load that overruns the bitmaps. `OSDReadsAsDrawn` asks for
one percentage and not for what is then still read wrong: the digits of 720 and
1080 after a load of SD, and those of 2160, which are read at 100 percent
whatever was loaded. `AudioCountsAgree` says nothing of the counts of a new
frame, which count all of an empty buffer, nor of a frame trimmed twice or with
other than sixteen channels, for which `trimStero` takes its data anyway.

## 5. Fairness

Safety runs assume none. `WaitersServed` assumes of each caller that it goes on
to `getNew` after a permit and returns what it took in the end (weak fairness:
its own next step), and of the system that a semaphore signalled again and again
wakes each waiter sooner or later (strong fairness of `WaitReturnsTrue`: the
wait queue of a Windows semaphore is served in order but for kernel events).
A timeout is never assumed to come, as a caller may wait for ever.
`MainEnds` assumes of the one thread of the program that it takes its next step
when it has one, in `main` as in `main2`, and nothing of FFmpeg's answers.
`LocksAreLeft` (the calls of lists and those of singletons) assumes of each
thread that a call of it goes on when it can do so again and again (strong
fairness of `GoesOnWith`). Where it waits for nothing this says no more than that
the thread runs; where it waits, that it gets a lock that is free again and again:
a critical section of Windows is not fair, but does not pass over one thread for
ever. `StopReturns` assumes that workers go on, that a wait for the
event ends by itself as it has a time limit, and that the owner returns from a
stop whose thread ended; that a stop times out is never assumed.

## 6. What the code does not keep

Two messages of `ffmpegDecoder.h` promise what `main2` does not do; a run each
shows it.

* `NoStreamAborts` (line 297): the test looks at the member `video_stream`,
  which no call resets. After a picture with a stream, one without passes the
  test, and is called good if no packet of the old index arrives.
* `ProbeErrorsFound` (line 268): every message overwrites `bError`, so an error
  that `avformat_find_stream_info` logs is forgotten when a message of another
  level follows it. The property looks at that call only; what later calls log
  is not what the message is about.

Elsewhere no text of the repository says otherwise, and the properties name the
cases in which the code goes wrong:

* `DigitsInPicture`: a render that fails has overwritten `_rowBytes`, and asking
  for the font's own format again finds it rendered and leaves them: the digits
  then have lines of another length (timecodeburn.cpp:285-294). The sizes of
  1080p_2398 (not in the switch) and of SD (never set) are excepted, and those
  of 2160 lines from the 24 bit formats on: an entry of `formatDescriptorTable`
  that is not supported has three values, not four, and moves the entries after
  it (NtvFormatDescriptor.h:8, 310-313).
* `ColumnSurvives`: `main` marks lines of 3840 bytes (16 bits a pixel) and burns
  lines of 5120 (V210) into the same buffer, so the time code covers a part of
  some blocks of the column. It leaves part of each, and not more.
* `GoodMeansNoFailure`: a good picture may have met three failures. An error of
  `av_read_frame` is taken for the end of the input (line 317), what the flush
  returns is dropped (line 330), and a codec that does not open is passed over
  while a stream is left from an earlier picture (lines 272, 296); of the last the
  property says that nothing of the picture was then decoded. Every other failure
  makes the picture bad.
* `LocksAreLeft`: threads that are each inside a list and want that of the next,
  two or more of them, wait for ever, and so does whoever wants one of those lists
  (`Stuck`). An assignment holds its own list while it wants the other, and
  `for_each` holds its list while a callback turns to another. No call waits for
  ever but in or behind such a ring.
* `GotObject`: `getInstance` tests its pointer outside the lock and reads it once
  more to return it. Beside a thread inside the lock it may return an object
  whose constructor is still at work, and beside a release a deleted one, or none
  (XXConfig.cpp:113-132). `PoolMgrEx::GetInstance`, which always locks, has
  neither case.
* `OverrunNeeds2160`: `loadFont` of 2160 draws into the bitmaps of 1080, which
  only a load of 1080 allocates; as the first load it writes through null
  pointers, and after a load of 1080 at 100 percent one at 150 writes past their
  end (tcOSD.cpp:46-80, 249, 264-279).
* `OSDReadsAsDrawn`: the object has one shape for all its bitmaps, that of the
  load last asked for, also when it returned early.
* `FramesFit`, `NullFrameOnlyWhenDrained`: two capturers of two formats lose an
  update of `m_nBufferSize`; callers let in before `initialize` returns can drain
  the pool under it, and it then writes through a null frame.

## 7. What is proved

The proofs hold for every value of the constants that satisfies the named
assumptions: any number of callers, any sizes, any length of run.

* `LoopBufferProofs`: `TypeOK`, `PositionsAgree`, `NullCopyOnlyAfterUnInit`,
  from `LoopBufferAssumption`. They are inductive only together with `IInv`'s
  other parts: that the life of the buffer tells when it may be null
  (`BufferMatchesLife`), and that the writer's pointer is less than one length
  ahead of the reader's (`WriterBehindLap`); without the latter
  `rp + bufLen - wp - 1` may be negative, where the remainder of C is, and both
  distances are wrong. The arithmetic of the remainder is done once, in
  `Distances`, `MoveReader` and `MoveWriter`. `AnswersStayGood` needs `AInv`: what
  a thread knows is bounded by the counters (`KnownBounded`), and so is the first
  of the two values that `GetSizeOfDataList` reads without the lock
  (`LoadsBounded`): each side reads the other's counter, which only grows. `RingIsBoundedFifo`
  is the refinement: a step of the ring is one of the queue, byte by byte, or
  changes none of it.
* `ObjectPoolProofs`: `TypeOK`, `ObjectsConserved` and `NoSleepBesideObject`,
  from `ObjectPoolAssumption`. The invariant is their conjunction: that no
  permit is dropped at the limit of the semaphore needs the free list to be no
  longer than the objects there are, which is a pigeonhole argument on a list
  without repetition, and so on the conservation of objects.
* `TimecodeProofs`: `TypeOK`, `IncIsNextFrame`, `DecreaseIsFrameBefore`, from
  `TimecodeAssumption`, for every rate a `char` holds. The type invariant, which
  says that the number exists, is inductive by itself; the two action
  properties rest on one lemma per carry, and on the order of the frames of a
  day for the step over midnight. `ShowsTheFrame` and `PastRateHasReason` of `CVITC`,
  from `CVITCAssumption`, for any numbers, times of day and order of the calls.
  Where a format counts, a tick is that same next frame (`TickCounts`). `set` is the
  other way round: the frame is placed in its ten minutes and its minute (`Place`),
  and the numbers left out before it are those `set` adds (`SetDropFrame`). `add` is a
  loop, a recursive function: that it can be taken (`RunExists`) and that it adds
  its turns (`RunCounts`) go by the least-number principle: of the turns after which
  it would not, there is no first. `PastRateHasReason` is not inductive: a frame
  past the rate grows with `since`, and `VitcInv` says by how much (`PastSince`), and
  that what the caller holds for `add` fits the format it was taken in (`HeldFits`).
* `MainLoopProofs`, of the decoder alone: `ReleasedOnReturn`, `GoodMeansNoFailure`
  and `CrashNeedsStaleStream`, for any inputs and number of pictures. `DecoderInv`
  says of every place in `main2` what is allocated there: a bare I/O buffer
  reaches the end only by way of the failed `avio_alloc_context`
  (`LeakIsBuffer`), a failure but for the three that are passed over leaves no
  place but the end and the flush, with `ret` set (`FailureEndsTheCall`), past the
  test for a stream there is a decoder, or a stream left over from an earlier
  picture (`StreamAndDecoder`), and without its codec a picture has no open decoder,
  so that none of its packets is decoded (`CodecFailed`).
  As every step of `main2` in `main` is one of `FFmpegDecode`, they hold there
  too (`DecoderKeepsItsWord`).
* `MainLoopProofs`, of `main`: `SavedAreTheBad` and `SavedTellTheirNumber`, from
  `FFmpegDecodeAssumption` and `MainLoopAssumption`, for a file of any length and
  pictures of any height whose column has more than four blocks. Neither is
  inductive: a file tells its number because the counters of three objects,
  each of which counts round its own circle, have moved as often as `main` went
  round (`MarkerInv`, `TimeInv`), and because the picture they were drawn into is
  the one that is in the frame of each place (`FramesInv`: the converted picture
  waits in `vfCPU` while the GPU encodes on). That a count round a column of any length
  is a remainder is shown by uniqueness of division (`SameDivision`,
  `NextRound`), that the column reads as its index in `MarkReads`; that the time
  code tells the count is the invariant of `CVITC`, whose lemmas in
  `TimecodeProofs` are instantiated (`CountsOne`).
* `OverlayProofs`: `PicturesToldApart` for every height and any resets, from
  `MarkerAssumption`. The two indices move together, and from the second picture
  after a reset on a column is that of the index before the present one. That a
  column shows one number needs half of it to be longer than a block's step,
  which is why `MarkerAssumption` asks for columns of
  more than four. With the formats and loads, from `OverlayAssumption` (known
  formats; percentages up to 150, which the fonts there are PNGs of do not pass):
  `OverlayOK`, `DigitsInPicture`, `ColumnSurvives`, `OSDReadsAsDrawn`,
  `OverrunNeeds2160`. `BurnInv` says of which render the font and `_rowBytes` are
  (`FontInv`, `RowsInv`): after one that failed they may be of two formats, and
  then `failed` says so. `OsdInv` says which bitmaps have room and in which shape
  they were drawn (`ShapesInv`). What remains is arithmetic over every percentage.
* `CapturePoolProofs`: the five properties of `CapturePool`, from
  `CapturePoolAssumption`. The pools' own promises are not proved again: the
  lemmas of `ObjectPoolProofs` are instantiated for the video and for the audio
  pool, and only a frame handed on is added. `VideoInv` says, step by step, what
  `initialize` has done to the pool (`IniInv`), that it meets each frame once while
  nobody else is there (`Alone`: the last `i` frames of the list are configured),
  that a call sizes a frame of its caller (`CallsInv`), and that the size it
  goes on with is enough (`Enough`), which two sizers of two formats break.
  `AudioCountsAgree` is inductive by itself; that the loop of `trimStero`, a
  recursive function, keeps a stereo pair at every index is shown by the
  least-number principle: of the indices where it would not, there is no first.
* `FrameWorkerProofs`: `OneWorker` and `NoSleepBesideData` (with the types, and
  that the owner starts only when it has no thread), and from them
  `FramesHaveOnePlace`, from `FrameWorkerAssumption`, for any frames and workers.
  The count of the places is additive: a lemma says what each list operation does
  to the count of each frame, another what a worker that comes or goes does to
  the number of holders, and a step moves one from a summand to another.
  `PicturesInOrder` and `PeekedIsNext` build on it: the frames with a picture are
  those in no other place (`InFlightIsTheRest`), so no step can overwrite a number
  or hand one out twice (`PicturesInv`); without a stop that timed out the one
  worker and the data list together are a row of consecutive numbers (`OrderInv`),
  and what the worker peeked at is still its head (`PeekInv`).
* `LockUsersProofs`: `SeesTheList`, `EmptyPopNeedsTaking` and `SomebodyGoesOn`, from
  `SyncListAssumption`, for any threads, lists and items. The invariant is that a
  lock is held exactly as often as its owner's place says and by no other thread
  (`LocksOK`, with `Depth` the count by place): one in `for_each`, two in a `find`
  called back from it, one in an assignment's own list. Whoever changes a list is
  then alone at it (`NobodyInside`, `AloneInside`), so that no other call depends
  on what changes (`NotLooking`). `EmptyPopNeedsTaking` adds that a list that was
  not empty and was not taken from is not empty (`NotTaken`). `SomebodyGoesOn` is
  the half of `LocksAreLeft` that needs no fairness: whoever keeps a thread waiting
  is in a call himself (`OwnerIsInside`), so if all calls wait they are a ring, and
  as long as one is outside of any ring, some call has no lock to wait for.
  `OneInstance` and `GotObject`, from the same assumption, for any callers: `AskInv` says that the
  lock is held exactly by the call whose place says so (`LockIsHeld`), which
  objects there are at each of its places (`ObjectOK`), and that a call which read
  the pointer, while no release was at work, read the one there is (`GotOK`).

The type invariants of the ring and of the pool are proved for all sizes, so that
no run repeats them.

Only model-checked: liveness (`WaitersServed`, `MainEnds`, `LocksAreLeft`,
`StopReturns`), which with its fairness is out of the prover's reach. The library's induction theorems take an
operator as a parameter, which the provers cannot instantiate, so where a proof
needs induction over data it goes by the least-number principle.

## 8. What is left out, and why

* Destructors (that of `CLoopBuffer` leaves a critical section it never
  entered), copies of `LoopBuffer`, and calls of other objects while one is
  being destroyed: no caller is in the repository.
* `LoopBuffer`: sizes are natural numbers (a negative read size reaches
  `memcpy`, whose effect is not defined); the counters do not wrap at 64 bits.
* `ObjectPool`: a caller returns only what it was given, once. `size()` changes
  nothing, and no call depends on it.
* `CapturePool`: the row bytes and the ancillary data of a frame, which nothing
  reads; `setToBlack`, which writes pixels.
* `AudioFrame`: the samples, apart from which of them a trimming keeps; the
  silence; products past 32 bits; `SetMonoCnt(0)`, after which `setBufferSize`
  divides by zero.
* `PoolMgrEx` but for `GetInstance`: it forwards to the `CapturePoolMgr` of a
  channel. `IConfig` but for its singleton: reads of the registry and of files
  into plain members.
* `FFmpegDecode`: the pixels. FFmpeg is external: every call may succeed, fail
  or log, and its messages count by whether one and whether the last is an error.
* `MainLoop`: the results of the `init` calls, which `main` ignores, and failures
  of `remove_all` and `create_directory`, which end the program; frames and
  GPU steps are external, in a submodule that is not in the repository.
* `Marker`: the label picture and the 64 bits of the frame number, written
  elsewhere in the picture and determined by it; which pixels a block covers.
* `CVITC`: the flag `m_real`, which nothing reads, and the set of four fields,
  which has no caller. Its formats 24, 50, 59 and 60 count pictures, not frames
  of the day, so their frame of the day is unknown to the model.
* `SyncList`: a callback of `for_each` may look in any list and take from another.
  It does not change the list it is called for, which a `std::list` under
  iteration does not allow, and does not go into a second `for_each` or an
  assignment; `Stuck` would say of those what it says of the others. `Locker`: `try_lock`, without a
  caller.
* `AJA_TcOSD`: the `BurnTimeCode` that is given its string, without a caller.
* `TcOSD`: the two words by which a line of 2160 takes back each character, so that
  the model's lines are a little longer than the code's; the pixels and the decoder
  of the PNG; percentages there is no PNG for.
* `FrameWorker`: the code of callers; one owner starts and stops, and starts only
  when it has no thread. `get_size_*` read without the lock and change nothing.
* `TimeCodeBurn`: the digits' pixels; one video format stands for those of its
  size, one pixel format for those of its layout. Positions past ninety
  percent leave the picture, and nothing in the repository asks for one.
* `CommonHelper`, the PNG decoder, `TimeCount`, `FrameInfo`: calls of Windows, pure
  functions of a fixed file, records: no state anything depends on.
* The AJA SDK, which is all but about 6000 lines of the tree: a vendored library of
  which the program calls a handful of format tables. What it relies on of them is
  in `TimeCodeBurn`; the rest never runs here. See the list of components in
  `PROJECT.json`.
