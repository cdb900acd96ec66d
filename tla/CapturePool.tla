---------------------------- MODULE CapturePool ----------------------------
(***************************************************************************)
(* CapturePoolMgr (Lib.Base/CapturePoolMgr.cpp): the two ObjectPoolEx of   *)
(* one channel, of video and of audio frames, and the buffer size that all *)
(* its video frames share.                                                 *)
(*                                                                         *)
(* The pool's own calls are locked; what CapturePoolMgr does between them  *)
(* is not: initialize configures the frames one getNew/release at a time,  *)
(* and getNew(VideoFrame) reads, raises and reads again m_nBufferSize      *)
(* after the frame is already the caller's.  Sizes of video are in units   *)
(* of 1382400 bytes.  Nobody can wait for an audio frame: waitDataEvent is *)
(* that of the video pool.                                                 *)
(***************************************************************************)
EXTENDS Integers, Sequences, FiniteSets

CONSTANTS Threads, PoolSizes, MaxPermits, MaxObjects,
          Formats,     \* the video formats in use
          Need,        \* [Formats -> Nat]: nWidth * nHeight * 2
          V210,        \* [Formats -> Nat]: the 10-bit size initialize computes
          Initializer, \* the thread that calls initialize
          Uses,        \* how the pools may be used: the nPixFormat initialize
                       \* is called with (0, 1 or other), the threads that call
                       \* getNew, for video frames of which formats or for
                       \* audio frames, and whether they and the others start
                       \* early, during initialize
          Samples,     \* the samples an audio frame is constructed for
          MonoCnts, SampleCnts, Sizes  \* what callers set them to

ASSUME CapturePoolAssumption ==
  /\ IsFiniteSet(Threads) /\ PoolSizes \subseteq Nat \ {0}
  /\ MaxObjects \in Nat /\ MaxPermits \in Nat /\ MaxObjects <= MaxPermits
  /\ IsFiniteSet(Formats) /\ Formats # {}
  /\ Need \in [Formats -> Nat \ {0}] /\ V210 \in [Formats -> Nat \ {0}]
  /\ Initializer \in Threads
  /\ Uses \subseteq [capturers : SUBSET Threads, formats : SUBSET Formats,
                      pixs : SUBSET (0 .. 2), early : BOOLEAN, kind : {"video", "audio"}]
  /\ Samples \in Nat /\ MonoCnts \subseteq Nat \ {0}
  /\ SampleCnts \subseteq Nat /\ Sizes \subseteq Nat

VARIABLES
  free, permits, made, held, waiting,  \* m_captureVideoPoolHD
  bufferSize,   \* m_nBufferSize
  frame,        \* per frame: alloc (m_totalSize), used (m_usedSize), format
  ini,          \* initialize: its step, its arguments and the frames done
  call,         \* per thread: its step in getNew(VideoFrame), frame and format
  crashed,      \* a null frame was dereferenced
  use,          \* the way the pools are used, fixed
  audioFree, audioPermits, audioMade, audioHeld,  \* m_captureAudioPool
  audio         \* per frame of it: see AudioFrame

\* Nobody reaches the pools through the shared_ptr interface.
Pool == INSTANCE ObjectPool WITH MaxNulls <- 0, nulls <- [t \in Threads |-> 0]

AudioPool ==
  INSTANCE ObjectPool WITH
    MaxNulls <- 0, nulls <- [t \in Threads |-> 0], waiting <- [t \in Threads |-> "no"],
    free <- audioFree, permits <- audioPermits, made <- audioMade, held <- audioHeld

Audio == INSTANCE AudioFrame

poolVars  == <<free, permits, made, held, waiting>>
audioVars == <<audioFree, audioPermits, audioMade, audioHeld, audio>>
vars      == <<poolVars, bufferSize, frame, ini, call, crashed, use, audioVars>>

NoCall  == [at |-> "idle", elem |-> 0, format |-> CHOOSE f \in Formats : TRUE, reg |-> 0]
Unsized == [alloc |-> 0, used |-> 0, format |-> CHOOSE f \in Formats : TRUE]

Larger(a, b) == IF a >= b THEN a ELSE b

\* VideoFrame::setBufferSize: the buffer only grows.
setBufferSize(f, size) == [f EXCEPT !.alloc = Larger(@, size), !.used = size]

-----------------------------------------------------------------------------

Init ==
  /\ Pool!Init
  /\ bufferSize = 0
  /\ frame = [o \in 1 .. MaxObjects |-> Unsized]
  /\ ini = [at |-> "fill", format |-> Unsized.format, pix |-> 0, size |-> 0, i |-> 0, elem |-> 0]
  /\ call = [t \in Threads |-> NoCall]
  /\ crashed = FALSE
  /\ use \in Uses
  /\ AudioPool!Init
  /\ audio = [o \in 1 .. MaxObjects |-> Audio!Constructed]

\* initialize, up to the loop: the pool is filled under its lock, then
\* m_nBufferSize is set twice with no lock.
IniFill(format, pix, size) ==
  /\ ini.at = "fill"
  /\ Pool!initialize(size)
  /\ ini' = [ini EXCEPT !.at = "default", !.format = format, !.pix = pix, !.size = size]
  /\ UNCHANGED <<bufferSize, frame, call, crashed, use, audioVars>>

IniDefault ==
  /\ ini.at = "default"
  /\ bufferSize' = 4
  /\ ini' = [ini EXCEPT !.at = "compute"]
  /\ UNCHANGED <<poolVars, frame, call, crashed, use, audioVars>>

IniCompute ==
  /\ ini.at = "compute"
  /\ bufferSize' = CASE ini.pix = 1 -> Need[ini.format]
                     [] ini.pix = 0 -> V210[ini.format]
                     [] OTHER -> bufferSize
  /\ ini' = [ini EXCEPT !.at = "take"]
  /\ UNCHANGED <<poolVars, frame, call, crashed, use, audioVars>>

\* One turn of the loop: getNew, whose result is not looked at, the setters,
\* and release.
IniTake ==
  /\ ini.at = "take" /\ ini.i < ini.size
  /\ Pool!getNew(Initializer)
  /\ IF free = <<>>
     THEN crashed' = TRUE /\ ini' = [ini EXCEPT !.at = "crashed"]
     ELSE /\ ini' = [ini EXCEPT !.at = "configure", !.elem = Head(free)]
          /\ UNCHANGED crashed
  /\ UNCHANGED <<bufferSize, frame, call, use, audioVars>>

IniConfigure ==
  /\ ini.at = "configure"
  /\ frame' = [frame EXCEPT ![ini.elem] =
                 [setBufferSize(@, bufferSize) EXCEPT !.format = ini.format]]
  /\ ini' = [ini EXCEPT !.at = "put"]
  /\ UNCHANGED <<poolVars, bufferSize, call, crashed, use, audioVars>>

\* Mutations: the configured frame goes back to the head of the list, or not at all.
IniPutForgotten ==
  /\ ini.at = "put"
  /\ ini' = [ini EXCEPT !.at = "take", !.i = @ + 1]
  /\ UNCHANGED <<poolVars, bufferSize, frame, call, crashed, use, audioVars>>

IniPutFront ==
  /\ ini.at = "put"
  /\ held' = [held EXCEPT ![Initializer] = @ \ {ini.elem}]
  /\ free' = <<ini.elem>> \o free
  /\ Pool!raiseEvent(1)
  /\ ini' = [ini EXCEPT !.at = "take", !.i = @ + 1]
  /\ UNCHANGED <<made, waiting, bufferSize, frame, call, crashed, use, audioVars>>

IniPut ==
  /\ ini.at = "put"
  /\ Pool!release(Initializer, ini.elem)
  /\ ini' = [ini EXCEPT !.at = "take", !.i = @ + 1]
  /\ UNCHANGED <<bufferSize, frame, call, crashed, use, audioVars>>

\* The audio pool is filled last.
IniReturn ==
  /\ ini.at = "take" /\ ini.i = ini.size
  /\ AudioPool!initialize(ini.size)
  /\ ini' = [ini EXCEPT !.at = "done"]
  /\ UNCHANGED <<poolVars, bufferSize, frame, call, crashed, use, audio>>

\* A thread at a step of getNew; a crash of initialize stops them all.
At(t, step) == call[t].at = step /\ ~crashed

\* A thread free to make a call of its own.
Free(t) ==
  /\ At(t, "idle")
  /\ IF use.early THEN t # Initializer \/ ini.at = "done" ELSE ini.at = "done"

\* getNew(VideoFrame): the pool's getNew; only a frame it returned is sized.
getNew(t, format) ==
  /\ Free(t)
  /\ Pool!getNew(t)
  /\ IF free = <<>>
     THEN UNCHANGED <<frame, call>>
     ELSE /\ frame' = [frame EXCEPT ![Head(free)].format = format]
          /\ call' = [call EXCEPT ![t] = [at |-> "load", elem |-> Head(free),
                                          format |-> format, reg |-> 0]]
  /\ UNCHANGED <<bufferSize, ini, crashed, use, audioVars>>

\* Mutation: the shared size is taken as it is.
LoadSizeNoMax(t) ==
  /\ At(t, "load")
  /\ call' = [call EXCEPT ![t].at = "store", ![t].reg = bufferSize]
  /\ UNCHANGED <<poolVars, bufferSize, frame, ini, crashed, use, audioVars>>

\* m_nBufferSize = max(nWidth * nHeight * 2, m_nBufferSize): a load and a store.
LoadSize(t) ==
  /\ At(t, "load")
  /\ call' = [call EXCEPT ![t].at = "store", ![t].reg = Larger(Need[call[t].format], bufferSize)]
  /\ UNCHANGED <<poolVars, bufferSize, frame, ini, crashed, use, audioVars>>

StoreSize(t) ==
  /\ At(t, "store")
  /\ bufferSize' = call[t].reg
  /\ call' = [call EXCEPT ![t].at = "size"]
  /\ UNCHANGED <<poolVars, frame, ini, crashed, use, audioVars>>

\* setBufferSize(m_nBufferSize): the member is read once more.
SetSize(t) ==
  /\ At(t, "size")
  /\ frame' = [frame EXCEPT ![call[t].elem] = setBufferSize(@, bufferSize)]
  /\ call' = [call EXCEPT ![t] = NoCall]
  /\ UNCHANGED <<poolVars, bufferSize, ini, crashed, use, audioVars>>

\* A captured frame passes to the thread that consumes it.
HandOver(t, u) ==
  /\ Free(t) /\ Free(u) /\ t # u
  /\ \E elem \in held[t] : held' = [held EXCEPT ![t] = @ \ {elem}, ![u] = @ \cup {elem}]
  /\ waiting[u] # "blocked"
  /\ UNCHANGED <<free, permits, made, waiting, bufferSize, frame, ini, call, crashed, use, audioVars>>

release(t) ==
  /\ Free(t) /\ Pool!releaseHeld(t)
  /\ UNCHANGED <<bufferSize, frame, ini, call, crashed, use, audioVars>>

waitDataEvent(t) ==
  /\ Free(t)
  /\ Pool!waitDataEvent(t) \/ Pool!WaitReturnsTrue(t) \/ Pool!WaitTimesOut(t)
  /\ UNCHANGED <<bufferSize, frame, ini, call, crashed, use, audioVars>>

\* getNew(AudioFrame) and release: the frame is given out as it came back.
getNewAudio(t) ==
  /\ Free(t) /\ AudioPool!getNew(t)
  /\ UNCHANGED <<poolVars, bufferSize, frame, ini, call, crashed, use, audio>>

releaseAudio(t) ==
  /\ Free(t) /\ AudioPool!releaseHeld(t)
  /\ UNCHANGED <<poolVars, bufferSize, frame, ini, call, crashed, use, audio>>

\* The calls on an audio frame of the caller.
Changed(f) ==
  {Audio!SetMonoCnt(f, cnt) : cnt \in MonoCnts} \cup {Audio!SetSampleCnt(f, cnt) : cnt \in SampleCnts}
    \cup {Audio!setBufferSize(f, size) : size \in Sizes} \cup {Audio!trimStero(f)}

UseAudio(t) ==
  /\ Free(t)
  /\ \E o \in audioHeld[t] : \E f \in Changed(audio[o]) : audio' = [audio EXCEPT ![o] = f]
  /\ UNCHANGED <<poolVars, bufferSize, frame, ini, call, crashed, use>>
  /\ UNCHANGED <<audioFree, audioPermits, audioMade, audioHeld>>

Next ==
  \/ \E format \in use.formats, pix \in use.pixs, size \in PoolSizes : IniFill(format, pix, size)
  \/ IniDefault \/ IniCompute \/ IniTake \/ IniConfigure \/ IniPut \/ IniReturn
  \/ \E t \in use.capturers, format \in use.formats : use.kind = "video" /\ getNew(t, format)
  \/ \E t \in use.capturers : LoadSize(t) \/ StoreSize(t) \/ SetSize(t)
  \/ \E t, u \in Threads : HandOver(t, u)
  \/ \E t \in Threads : release(t) \/ (use.kind = "video" /\ waitDataEvent(t))
  \/ \E t \in use.capturers : use.kind = "audio" /\ (getNewAudio(t) \/ UseAudio(t))
  \/ \E t \in Threads : releaseAudio(t)

Spec == Init /\ [][Next]_vars

-----------------------------------------------------------------------------

\* The calls of CapturePoolMgr keep the pool's promises even while initialize
\* borrows frames from it (CapturePoolMgr.cpp:15-42).
PoolPromisesKept ==
  Pool!ObjectsConserved /\ Pool!NoSleepBesideObject /\ AudioPool!ObjectsConserved

\* What AudioFrame says of its counts and of trimming holds for frames that go
\* from user to user through the pool, each in the state the last one left it
\* in (CapturePoolMgr.cpp:64-74, audioFrame.cpp:46-60, 82-96, 118-126).
AudioCountsAgree ==
  \A o \in AudioPool!Objects : Audio!CountsAgree(audio[o]) /\ Audio!TrimKeepsPair(audio[o])

\* initialize, which does not look at what getNew gave it, writes through a
\* null frame only when callers let in too early have every frame: it never
\* keeps one of its own across a turn of the loop (CapturePoolMgr.cpp:30-40).
NullFrameOnlyWhenDrained ==
  crashed => use.early /\ Pool!Objects = UNION {held[t] : t \in Threads \ {Initializer}}

\* When initialize returns and nobody was there before it, every frame is
\* configured once, because release puts each at the other end of the list,
\* and the semaphore counts every frame twice, if it counts so far:
\* waitDataEvent will return true with no frame left (CapturePoolMgr.cpp:17, 30-40).
ReadyAfterInitialize ==
  ini.at = "take" /\ ini.i = ini.size /\ ~use.early =>
    /\ \A o \in Pool!Objects : frame[o].alloc > 0 /\ frame[o].format = ini.format
    /\ Len(free) = made /\ permits = (IF 2 * made <= MaxPermits THEN 2 * made ELSE MaxPermits)

\* A frame a caller works on is large enough for its format, and its buffer
\* for its size, although m_nBufferSize is shared and unguarded, as long as
\* frames are sized by one thread or for one format
\* (CapturePoolMgr.cpp:44-61, videoFrame.cpp:33-44).
FramesFit ==
  ~use.early /\ (Cardinality(use.capturers) = 1 \/ Cardinality(use.formats) = 1) =>
    \A t \in Threads : \A o \in held[t] :
      \/ \E u \in Threads : call[u].at # "idle" /\ call[u].elem = o
      \/ ini.elem = o /\ ini.at # "done"
      \/ frame[o].used >= Need[frame[o].format] /\ frame[o].alloc >= frame[o].used
=============================================================================
