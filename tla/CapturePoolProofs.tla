------------------------- MODULE CapturePoolProofs -------------------------
(***************************************************************************)
(* Proofs about CapturePoolMgr for any threads, formats and sizes of the   *)
(* pools: that it keeps the promises of its two pools, that initialize     *)
(* configures every frame, and that the shared size fits the frames.       *)
(*                                                                         *)
(* The steps of the pools themselves are not proved again: the lemmas of   *)
(* ObjectPoolProofs are used for the video and for the audio pool.         *)
(***************************************************************************)
EXTENDS CapturePool, FiniteSetTheorems, SequenceTheorems, WellFoundedInduction, TLAPS

PoolFacts == INSTANCE ObjectPoolProofs WITH MaxNulls <- 0, nulls <- [t \in Threads |-> 0]

AudioPoolFacts ==
  INSTANCE ObjectPoolProofs WITH
    MaxNulls <- 0, nulls <- [t \in Threads |-> 0], waiting <- [t \in Threads |-> "no"],
    free <- audioFree, permits <- audioPermits, made <- audioMade, held <- audioHeld

-----------------------------------------------------------------------------

PoolInv      == Pool!TypeOK /\ Pool!ObjectsConserved /\ Pool!NoSleepBesideObject
AudioPoolInv == AudioPool!TypeOK /\ AudioPool!ObjectsConserved /\ AudioPool!NoSleepBesideObject

IniSteps == {"fill", "default", "compute", "take", "configure", "put", "done", "crashed"}

\* initialize has a frame of the pool in its hands.
Borrowing == ini.at \in {"configure", "put"}

FrameRecord == [alloc : Nat, used : Nat, format : Formats]
IniRecord   == [at : IniSteps, format : Formats, pix : 0 .. 2, size : Nat, i : Nat, elem : Nat]
CallRecord  == [at : {"idle", "load", "store", "size"}, elem : Nat, format : Formats, reg : Nat]

\* The members, the steps of initialize and of the calls, and their locals.
CaptureTypes ==
  /\ bufferSize \in Nat
  /\ frame \in [1 .. MaxObjects -> FrameRecord]
  /\ ini \in IniRecord
  /\ call \in [Threads -> CallRecord]
  /\ use \in Uses
  /\ crashed \in BOOLEAN

\* What initialize has done to the pool at each of its steps.
IniInv ==
  /\ ini.at = "fill" => made = 0
  /\ ini.at # "fill" => made = ini.size /\ ini.size \in PoolSizes
  /\ ini.i <= ini.size
  /\ ini.at \in {"fill", "default", "compute"} => ini.i = 0
  /\ Borrowing => ini.i < ini.size /\ held[Initializer] = {ini.elem}
  /\ ~Borrowing /\ ini.at # "done" => held[Initializer] = {}
  /\ crashed <=> ini.at = "crashed"
  /\ crashed => free = <<>> /\ use.early

Configured(f, format) == f.alloc > 0 /\ f.format = format

\* While nobody else is there: the last frames of the list, as many as turns
\* of the loop were made, are configured.
Alone ==
  ~use.early /\ ini.at # "done" =>
    /\ \A t \in Threads : call[t].at = "idle" /\ waiting[t] = "no"
    /\ \A t \in Threads \ {Initializer} : held[t] = {}
    /\ Len(free) = (IF Borrowing THEN made - 1 ELSE made)
    /\ \A k \in DOMAIN free : k > Len(free) - ini.i => Configured(frame[free[k]], ini.format)
    /\ ini.at = "put" => Configured(frame[ini.elem], ini.format)
    /\ permits = (IF made + ini.i <= MaxPermits THEN made + ini.i ELSE MaxPermits)
    /\ ini.at = "compute" \/ ini.at = "take" \/ Borrowing => bufferSize > 0

\* A call of getNew works on a frame of its caller.
CallsInv ==
  ~use.early =>
    \A t \in Threads : call[t].at # "idle" =>
      /\ ini.at = "done" /\ t \in use.capturers /\ call[t].format \in use.formats
      /\ call[t].elem \in held[t] /\ frame[call[t].elem].format = call[t].format

\* Frames are sized by one thread, or for one format.
OneSizer == ~use.early /\ (Cardinality(use.capturers) = 1 \/ Cardinality(use.formats) = 1)

\* The size a call goes on with is enough for its format.
Enough ==
  OneSizer =>
    \A t \in Threads :
      /\ call[t].at = "store" => call[t].reg >= Need[call[t].format]
      /\ call[t].at = "size"  => bufferSize >= Need[call[t].format]

AudioRecord == [total : Nat, data : Nat, mono : Nat \ {0}, sample : Nat,
                told : {"nothing", "set", "trimmed", "lost"}]

\* The data fits the buffer and the counts, in every audio frame.
AudioCounts ==
  /\ audio \in [1 .. MaxObjects -> AudioRecord]
  /\ \A o \in 1 .. MaxObjects : Audio!CountsAgree(audio[o])

VideoInv == CaptureTypes /\ IniInv /\ Alone /\ CallsInv /\ Enough /\ FramesFit

CInv == PoolInv /\ AudioPoolInv /\ VideoInv /\ AudioCounts

-----------------------------------------------------------------------------

\* The pools, by what ObjectPoolProofs says of them.

LEMMA FiniteOf ==
  /\ PoolFacts!IsFiniteSet(Threads) <=> IsFiniteSet(Threads)
  /\ AudioPoolFacts!IsFiniteSet(Threads) <=> IsFiniteSet(Threads)
BY DEF PoolFacts!IsFiniteSet, AudioPoolFacts!IsFiniteSet, IsFiniteSet

LEMMA CardinalityOf ==
  ASSUME NEW S
  PROVE  /\ PoolFacts!Cardinality(S) = Pool!Cardinality(S)
         /\ AudioPoolFacts!Cardinality(S) = AudioPool!Cardinality(S)
         /\ Pool!Cardinality(S) = Cardinality(S)
         /\ AudioPool!Cardinality(S) = Cardinality(S)
BY DEF PoolFacts!Cardinality, AudioPoolFacts!Cardinality, Pool!Cardinality,
       AudioPool!Cardinality, Cardinality

LEMMA PoolConstants == PoolFacts!ObjectPoolAssumption
BY FiniteOf, CapturePoolAssumption DEF PoolFacts!ObjectPoolAssumption

LEMMA AudioPoolConstants == AudioPoolFacts!ObjectPoolAssumption
BY FiniteOf, CapturePoolAssumption DEF AudioPoolFacts!ObjectPoolAssumption

LEMMA PoolInvSame == PoolInv <=> PoolFacts!IInv
<1>1. Pool!TypeOK <=> PoolFacts!TypeOK
  BY DEF Pool!TypeOK, PoolFacts!TypeOK, Pool!Objects, PoolFacts!Objects
<1>2. Pool!ObjectsConserved <=> PoolFacts!ObjectsConserved
  BY DEF Pool!ObjectsConserved, PoolFacts!ObjectsConserved, Pool!Objects, PoolFacts!Objects
<1>3. Pool!NoSleepBesideObject <=> PoolFacts!NoSleepBesideObject
  BY CardinalityOf DEF Pool!NoSleepBesideObject, PoolFacts!NoSleepBesideObject,
                       Pool!Granted, PoolFacts!Granted
<1> QED BY <1>1, <1>2, <1>3 DEF PoolInv, PoolFacts!IInv

LEMMA AudioPoolInvSame == AudioPoolInv <=> AudioPoolFacts!IInv
<1>1. AudioPool!TypeOK <=> AudioPoolFacts!TypeOK
  BY DEF AudioPool!TypeOK, AudioPoolFacts!TypeOK, AudioPool!Objects, AudioPoolFacts!Objects
<1>2. AudioPool!ObjectsConserved <=> AudioPoolFacts!ObjectsConserved
  BY DEF AudioPool!ObjectsConserved, AudioPoolFacts!ObjectsConserved,
         AudioPool!Objects, AudioPoolFacts!Objects
<1>3. AudioPool!NoSleepBesideObject <=> AudioPoolFacts!NoSleepBesideObject
  BY CardinalityOf DEF AudioPool!NoSleepBesideObject, AudioPoolFacts!NoSleepBesideObject,
                       AudioPool!Granted, AudioPoolFacts!Granted
<1> QED BY <1>1, <1>2, <1>3 DEF AudioPoolInv, AudioPoolFacts!IInv

\* Every call of the pool keeps its promises.
LEMMA PoolCalls ==
  ASSUME PoolInv, NEW t \in Threads,
         \/ \E size \in PoolSizes : Pool!initialize(size)
         \/ Pool!getNew(t)
         \/ \E elem \in held[t] : Pool!release(t, elem)
         \/ Pool!waitDataEvent(t) \/ Pool!WaitReturnsTrue(t) \/ Pool!WaitTimesOut(t)
  PROVE  PoolInv'
<1>1. PoolFacts!IInv
  BY PoolInvSame
<1>2. PoolFacts!IInv'
  <2>1. ASSUME NEW size \in PoolSizes, Pool!initialize(size) PROVE PoolFacts!IInv'
    <3>1. PoolFacts!initialize(size)
      BY <2>1 DEF Pool!initialize, PoolFacts!initialize, Pool!raiseEvent, PoolFacts!raiseEvent
    <3> QED BY <1>1, <3>1, PoolFacts!initializeIInv, PoolConstants
  <2>2. CASE Pool!getNew(t)
    <3>1. PoolFacts!getNew(t)
      BY <2>2 DEF Pool!getNew, PoolFacts!getNew
    <3> QED BY <1>1, <3>1, PoolFacts!getNewIInv, PoolConstants
  <2>3. ASSUME NEW elem \in held[t], Pool!release(t, elem) PROVE PoolFacts!IInv'
    <3>1. PoolFacts!release(t, elem)
      BY <2>3 DEF Pool!release, PoolFacts!release, Pool!raiseEvent, PoolFacts!raiseEvent
    <3> QED BY <1>1, <3>1, PoolFacts!releaseIInv, PoolConstants
  <2>4. CASE Pool!waitDataEvent(t) \/ Pool!WaitReturnsTrue(t) \/ Pool!WaitTimesOut(t)
    <3>1. PoolFacts!waitDataEvent(t) \/ PoolFacts!WaitReturnsTrue(t) \/ PoolFacts!WaitTimesOut(t)
      BY <2>4 DEF Pool!waitDataEvent, Pool!WaitReturnsTrue, Pool!WaitTimesOut,
                  PoolFacts!waitDataEvent, PoolFacts!WaitReturnsTrue, PoolFacts!WaitTimesOut
    <3> QED BY <1>1, <3>1, PoolFacts!WaitsIInv, PoolConstants
  <2> QED BY <2>1, <2>2, <2>3, <2>4
<1> QED BY <1>2, PoolInvSame, PTL

LEMMA AudioPoolCalls ==
  ASSUME AudioPoolInv, NEW t \in Threads,
         \/ \E size \in PoolSizes : AudioPool!initialize(size)
         \/ AudioPool!getNew(t)
         \/ AudioPool!releaseHeld(t)
  PROVE  AudioPoolInv'
<1>1. AudioPoolFacts!IInv
  BY AudioPoolInvSame
<1>2. AudioPoolFacts!IInv'
  <2>1. ASSUME NEW size \in PoolSizes, AudioPool!initialize(size) PROVE AudioPoolFacts!IInv'
    <3>1. AudioPoolFacts!initialize(size)
      BY <2>1 DEF AudioPool!initialize, AudioPoolFacts!initialize,
                  AudioPool!raiseEvent, AudioPoolFacts!raiseEvent
    <3> QED BY <1>1, <3>1, AudioPoolFacts!initializeIInv, AudioPoolConstants
  <2>2. CASE AudioPool!getNew(t)
    <3>1. AudioPoolFacts!getNew(t)
      BY <2>2 DEF AudioPool!getNew, AudioPoolFacts!getNew
    <3> QED BY <1>1, <3>1, AudioPoolFacts!getNewIInv, AudioPoolConstants
  <2>3. ASSUME NEW elem \in audioHeld[t], AudioPool!release(t, elem) PROVE AudioPoolFacts!IInv'
    <3>1. AudioPoolFacts!release(t, elem)
      BY <2>3 DEF AudioPool!release, AudioPoolFacts!release,
                  AudioPool!raiseEvent, AudioPoolFacts!raiseEvent
    <3> QED BY <1>1, <3>1, AudioPoolFacts!releaseIInv, AudioPoolConstants
  <2> QED BY <2>1, <2>2, <2>3 DEF AudioPool!releaseHeld
<1> QED BY <1>2, AudioPoolInvSame, PTL

\* So does a frame that passes from one caller to another.
LEMMA HandOverPool ==
  ASSUME PoolInv, NEW t \in Threads, NEW u \in Threads, t # u, NEW elem \in held[t],
         held' = [held EXCEPT ![t] = @ \ {elem}, ![u] = @ \cup {elem}],
         UNCHANGED <<free, permits, made, waiting>>
  PROVE  PoolInv'
<1>1. /\ held'[t] = held[t] \ {elem} /\ held'[u] = held[u] \cup {elem}
      /\ \A s \in Threads \ {t, u} : held'[s] = held[s]
      /\ \A s \in Threads \ {u} : held'[s] \subseteq held[s]
  BY DEF PoolInv, Pool!TypeOK
<1>2. elem \in 1 .. made /\ \A s \in Threads \ {t} : elem \notin held[s]
  BY DEF PoolInv, Pool!TypeOK, Pool!ObjectsConserved, Pool!Objects
<1>3. Pool!TypeOK'
  <2>1. held' \in [Threads -> SUBSET (1 .. made)]
    BY <1>1, <1>2 DEF PoolInv, Pool!TypeOK, Pool!Objects
  <2> QED BY <2>1 DEF PoolInv, Pool!TypeOK, Pool!Objects
<1>4. Pool!ObjectsConserved'
  <2>1. ASSUME NEW s \in Threads, NEW i \in DOMAIN free PROVE free[i] \notin held'[s]
    <3>1. \A r \in Threads : free[i] \notin held[r]
      BY DEF PoolInv, Pool!ObjectsConserved
    <3>2. CASE s = u
      BY <1>1, <3>1, <3>2
    <3>3. CASE s # u
      BY <1>1, <3>1, <3>3
    <3> QED BY <3>2, <3>3
  <2>2. ASSUME NEW r \in Threads, NEW s \in Threads, r # s PROVE held'[r] \cap held'[s] = {}
    <3>1. held[r] \cap held[s] = {}
      BY <2>2 DEF PoolInv, Pool!ObjectsConserved
    <3>2. ASSUME NEW q \in Threads, q # u PROVE elem \notin held'[q]
      BY <1>1, <1>2, <3>2
    <3>3. CASE r = u
      BY <1>1, <2>2, <3>1, <3>2, <3>3
    <3>4. CASE s = u
      BY <1>1, <2>2, <3>1, <3>2, <3>4
    <3>5. CASE r # u /\ s # u
      BY <1>1, <3>1, <3>5
    <3> QED BY <3>3, <3>4, <3>5
  <2>3. ASSUME NEW s \in Threads, NEW o \in held[s] PROVE \E r \in Threads : o \in held'[r]
    <3>1. CASE o = elem
      <4>1. o \in held'[u]
        BY <1>1, <3>1
      <4> QED BY <4>1
    <3>2. CASE o # elem
      <4>1. o \in held'[s]
        BY <1>1, <3>2
      <4> QED BY <4>1
    <3> QED BY <3>1, <3>2
  <2>4. \A o \in 1 .. made :
          (\E i \in DOMAIN free : free[i] = o) \/ (\E s \in Threads : o \in held'[s])
    BY <2>3 DEF PoolInv, Pool!ObjectsConserved, Pool!Objects
  <2> QED BY <2>1, <2>2, <2>4 DEF PoolInv, Pool!ObjectsConserved, Pool!Objects
<1>5. Pool!NoSleepBesideObject'
  BY DEF PoolInv, Pool!NoSleepBesideObject, Pool!Granted
<1> QED BY <1>3, <1>4, <1>5 DEF PoolInv

LEMMA PoolUnchanged == ASSUME PoolInv, UNCHANGED poolVars PROVE PoolInv'
<1>1. UNCHANGED <<free, permits, made, held, waiting>>
  BY DEF poolVars
<1> QED BY <1>1 DEF PoolInv, Pool!TypeOK, Pool!ObjectsConserved, Pool!NoSleepBesideObject,
                    Pool!Objects, Pool!Granted

LEMMA AudioUnchanged ==
  ASSUME AudioPoolInv, UNCHANGED <<audioFree, audioPermits, audioMade, audioHeld>>
  PROVE  AudioPoolInv'
BY DEF AudioPoolInv, AudioPool!TypeOK, AudioPool!ObjectsConserved,
       AudioPool!NoSleepBesideObject, AudioPool!Objects, AudioPool!Granted

-----------------------------------------------------------------------------

LEMMA NeedPositive ==
  ASSUME NEW f \in Formats
  PROVE  Need[f] \in Nat \ {0} /\ V210[f] \in Nat \ {0}
BY CapturePoolAssumption

LEMMA LargerOf ==
  ASSUME NEW a \in Nat, NEW b \in Nat
  PROVE  Larger(a, b) \in Nat /\ Larger(a, b) >= a /\ Larger(a, b) >= b
BY DEF Larger

LEMMA UseOf ==
  ASSUME CaptureTypes
  PROVE  /\ use.capturers \subseteq Threads /\ use.formats \subseteq Formats
         /\ use.pixs \subseteq 0 .. 2 /\ use.early \in BOOLEAN
BY CapturePoolAssumption DEF CaptureTypes

\* A record of frame for each frame of the pool.
LEMMA FrameOf ==
  ASSUME CaptureTypes, PoolInv, NEW t \in Threads, NEW o \in held[t]
  PROVE  o \in 1 .. made /\ o \in 1 .. MaxObjects /\ frame[o] \in FrameRecord
<1>1. o \in 1 .. made /\ made \in 0 .. MaxObjects
  BY DEF PoolInv, Pool!TypeOK, Pool!Objects
<1>2. o \in 1 .. MaxObjects
  BY <1>1, CapturePoolAssumption
<1> QED BY <1>1, <1>2 DEF CaptureTypes

\* Before initialize returns nobody but it has a frame, or it began too late.
LEMMA BeforeDone ==
  CaptureTypes /\ IniInv /\ Alone /\ ini.at # "done" => CallsInv /\ Enough /\ FramesFit
<1> SUFFICES ASSUME CaptureTypes, IniInv, Alone, ini.at # "done"
             PROVE  CallsInv /\ Enough /\ FramesFit
  OBVIOUS
<1>1. CASE use.early
  BY <1>1 DEF CallsInv, Enough, FramesFit, OneSizer
<1>2. CASE ~use.early
  <2>1. /\ \A t \in Threads : call[t].at = "idle"
        /\ \A t \in Threads \ {Initializer} : held[t] = {}
    BY <1>2 DEF Alone
  <2>2. held[Initializer] = {} \/ held[Initializer] = {ini.elem}
    BY DEF IniInv
  <2>3. \A t \in Threads : \A o \in held[t] : ini.elem = o /\ ini.at # "done"
    BY <2>1, <2>2
  <2> QED BY <2>1, <2>3 DEF CallsInv, Enough, FramesFit
<1> QED BY <1>1, <1>2

LEMMA BeforeDoneNext ==
  ASSUME CaptureTypes', IniInv', Alone', ini'.at # "done" PROVE VideoInv'
<1>1. (CaptureTypes /\ IniInv /\ Alone /\ ini.at # "done" => CallsInv /\ Enough /\ FramesFit)'
  BY BeforeDone, PTL
<1> QED BY <1>1 DEF VideoInv

-----------------------------------------------------------------------------

LEMMA IniFillVideo ==
  ASSUME PoolInv, VideoInv, NEW format \in use.formats, NEW pix \in use.pixs,
         NEW size \in PoolSizes, IniFill(format, pix, size)
  PROVE  VideoInv'
<1>1. /\ ini.at = "fill"
      /\ ini' = [ini EXCEPT !.at = "default", !.format = format, !.pix = pix, !.size = size]
      /\ UNCHANGED <<bufferSize, frame, call, crashed, use, held, waiting>>
      /\ made' = made + size /\ Pool!raiseEvent(size)
      /\ free' = free \o [i \in 1 .. size |-> made + i]
  BY DEF IniFill, Pool!initialize
<1>2. /\ ini \in IniRecord /\ size \in Nat /\ format \in Formats /\ pix \in 0 .. 2
      /\ made = 0 /\ ini.i = 0 /\ crashed = FALSE /\ held[Initializer] = {}
  <2>1. size \in Nat /\ format \in Formats /\ pix \in 0 .. 2
    BY UseOf, CapturePoolAssumption DEF VideoInv
  <2>2. crashed = FALSE
    BY <1>1 DEF VideoInv, CaptureTypes, IniInv
  <2> QED BY <1>1, <2>1, <2>2 DEF VideoInv, CaptureTypes, IniInv, Borrowing
<1>3. /\ ini' \in IniRecord /\ ini'.at = "default" /\ ini'.size = size /\ ini'.i = 0
  BY <1>1, <1>2 DEF IniRecord, IniSteps
<1>4. CaptureTypes'
  BY <1>1, <1>3 DEF VideoInv, CaptureTypes
<1>5. IniInv'
  BY <1>1, <1>2, <1>3 DEF VideoInv, IniInv, Borrowing
<1>6. Alone'
  <2> SUFFICES ASSUME ~use.early PROVE Alone'
    BY <1>1 DEF Alone
  <2>1. /\ \A t \in Threads : call[t].at = "idle" /\ waiting[t] = "no"
        /\ \A t \in Threads \ {Initializer} : held[t] = {}
        /\ permits = (IF made + ini.i <= MaxPermits THEN made + ini.i ELSE MaxPermits)
    BY <1>1 DEF VideoInv, Alone
  <2>2. permits = 0
    BY <1>2, <2>1, CapturePoolAssumption
  <2>3. permits' = (IF made' + ini'.i <= MaxPermits THEN made' + ini'.i ELSE MaxPermits)
    BY <1>1, <1>2, <1>3, <2>2 DEF Pool!raiseEvent
  <2>4. Len(free') = made' /\ DOMAIN free' = 1 .. Len(free')
    <3>1. free \in Seq(1 .. 0) /\ [i \in 1 .. size |-> made + i] \in Seq(Nat)
      BY <1>2 DEF PoolInv, Pool!TypeOK, Pool!Objects
    <3>2. Len(free) = 0
      BY <3>1
    <3> QED BY <1>1, <1>2, <3>1, <3>2
  <2>5. \A k \in DOMAIN free' : ~(k > Len(free') - ini'.i)
    BY <1>1, <1>2, <1>3, <2>4
  <2> QED BY <1>1, <1>3, <2>1, <2>3, <2>4, <2>5 DEF Alone, Borrowing
<1> QED BY <1>3, <1>4, <1>5, <1>6, BeforeDoneNext

LEMMA IniSizeVideo ==
  ASSUME PoolInv, VideoInv, IniDefault \/ IniCompute
  PROVE  VideoInv'
<1>1. /\ UNCHANGED <<free, permits, made, held, waiting, frame, call, crashed, use>>
      /\ \/ ini.at = "default" /\ ini' = [ini EXCEPT !.at = "compute"]
         \/ ini.at = "compute" /\ ini' = [ini EXCEPT !.at = "take"]
  BY DEF IniDefault, IniCompute, poolVars
<1>2. /\ ini \in IniRecord /\ ini.i = 0
      /\ ini' \in IniRecord /\ ini'.at \in {"compute", "take"}
      /\ ini'.size = ini.size /\ ini'.i = ini.i /\ ini'.format = ini.format
  BY <1>1 DEF VideoInv, CaptureTypes, IniInv, IniRecord, IniSteps
<1>3. bufferSize' \in Nat /\ (~use.early => bufferSize' > 0)
  <2>1. CASE IniDefault
    BY <2>1 DEF IniDefault
  <2>2. CASE IniCompute
    <3>1. /\ ini.at = "compute"
          /\ bufferSize' = CASE ini.pix = 1 -> Need[ini.format]
                             [] ini.pix = 0 -> V210[ini.format]
                             [] OTHER -> bufferSize
      BY <2>2 DEF IniCompute
    <3>2. bufferSize \in Nat /\ (~use.early => bufferSize > 0)
      BY <3>1 DEF VideoInv, CaptureTypes, Alone
    <3>3. /\ Need[ini.format] \in Nat /\ Need[ini.format] > 0
          /\ V210[ini.format] \in Nat /\ V210[ini.format] > 0
      BY <1>2, NeedPositive DEF IniRecord
    <3> QED BY <3>1, <3>2, <3>3
  <2> QED BY <2>1, <2>2
<1>4. CaptureTypes'
  BY <1>1, <1>2, <1>3 DEF VideoInv, CaptureTypes
<1>5. IniInv'
  BY <1>1, <1>2 DEF VideoInv, IniInv, Borrowing
<1>6. Alone'
  BY <1>1, <1>2, <1>3 DEF VideoInv, Alone, Borrowing, Configured
<1> QED BY <1>2, <1>4, <1>5, <1>6, BeforeDoneNext

\* Taking a frame shortens the list at its head; none is left only for an
\* initialize that is not alone.
LEMMA IniTakeVideo ==
  ASSUME PoolInv, VideoInv, IniTake
  PROVE  VideoInv'
<1>1. /\ ini.at = "take" /\ ini.i < ini.size
      /\ UNCHANGED <<permits, made, bufferSize, frame, call, use>>
      /\ waiting' = [waiting EXCEPT ![Initializer] = "no"]
  BY DEF IniTake, Pool!getNew
<1>2. /\ ini \in IniRecord /\ crashed = FALSE /\ made = ini.size /\ ini.size \in PoolSizes
      /\ held[Initializer] = {} /\ Initializer \in Threads
      /\ held \in [Threads -> SUBSET (1 .. made)] /\ free \in Seq(1 .. made)
  <2>1. crashed = FALSE
    BY <1>1 DEF VideoInv, CaptureTypes, IniInv
  <2> QED BY <1>1, <2>1, CapturePoolAssumption
          DEF VideoInv, CaptureTypes, IniInv, Borrowing, PoolInv, Pool!TypeOK, Pool!Objects
<1>3. ~use.early => Len(free) = made /\ (\A t \in Threads : call[t].at = "idle" /\ waiting[t] = "no")
                    /\ (\A t \in Threads \ {Initializer} : held[t] = {})
  BY <1>1 DEF VideoInv, Alone, Borrowing
<1>4. waiting \in [Threads -> {"no", "blocked", "granted"}]
  BY DEF PoolInv, Pool!TypeOK
<1>5. CASE free = <<>>
  <2>1. /\ crashed' = TRUE /\ ini' = [ini EXCEPT !.at = "crashed"]
        /\ free' = <<>> /\ held' = held
    BY <1>5 DEF IniTake, Pool!getNew
  <2>2. /\ ini' \in IniRecord /\ ini'.at = "crashed" /\ ini'.size = ini.size /\ ini'.i = ini.i
    BY <1>2, <2>1 DEF IniRecord, IniSteps
  <2>3. use.early
    <3>1. ini.i \in Nat /\ ini.size \in Nat
      BY <1>2 DEF IniRecord
    <3>2. Len(free) # made
      BY <1>1, <1>2, <1>5, <3>1
    <3> QED BY <1>3, <3>2
  <2>4. CaptureTypes'
    BY <1>1, <2>1, <2>2 DEF VideoInv, CaptureTypes
  <2>5. IniInv'
    BY <1>1, <1>2, <2>1, <2>2, <2>3 DEF VideoInv, IniInv, Borrowing
  <2>6. Alone'
    BY <1>1, <2>3 DEF Alone
  <2> QED BY <2>2, <2>4, <2>5, <2>6, BeforeDoneNext
<1>6. CASE free # <<>>
  <2>1. /\ crashed' = crashed
        /\ ini' = [ini EXCEPT !.at = "configure", !.elem = Head(free)]
        /\ free' = Tail(free)
        /\ held' = [held EXCEPT ![Initializer] = @ \cup {Head(free)}]
    BY <1>6 DEF IniTake, Pool!getNew
  <2>2. /\ Len(free) \in Nat \ {0} /\ Head(free) \in 1 .. made
        /\ DOMAIN free = 1 .. Len(free) /\ DOMAIN free' = 1 .. Len(free) - 1
        /\ Len(free') = Len(free) - 1
        /\ \A k \in 1 .. Len(free) - 1 : free'[k] = free[k + 1]
    <3>1. free \in Seq(1 .. made) /\ Len(free) \in Nat \ {0} /\ DOMAIN free = 1 .. Len(free)
      BY <1>2, <1>6
    <3>2. /\ Len(free') = Len(free) - 1 /\ DOMAIN free' = 1 .. Len(free')
          /\ \A k \in 1 .. Len(free') : free'[k] = free[k + 1]
      BY <1>2, <1>6, <2>1
    <3>3. Head(free) = free[1] /\ free[1] \in 1 .. made
      <4>1. Head(free) = free[1]
        BY <1>2, <1>6
      <4>2. 1 \in DOMAIN free
        BY <3>1
      <4>3. free[1] \in 1 .. made
        BY <3>1, <4>2, ElementOfSeq
      <4> QED BY <4>1, <4>3
    <3> QED BY <3>1, <3>2, <3>3
  <2>3. made \in Nat
    BY DEF PoolInv, Pool!TypeOK
  <2>4. /\ ini' \in IniRecord /\ ini'.at = "configure" /\ ini'.size = ini.size
        /\ ini'.i = ini.i /\ ini'.format = ini.format /\ ini'.elem = Head(free)
    <3>1. PICK head \in Nat : head = Head(free)
      BY <2>2, <2>3
    <3>2. ini' = [ini EXCEPT !.at = "configure", !.elem = head]
      BY <2>1, <3>1
    <3> QED BY <1>2, <3>1, <3>2 DEF IniRecord, IniSteps
  <2>5. /\ held'[Initializer] = {Head(free)}
        /\ \A t \in Threads \ {Initializer} : held'[t] = held[t]
    BY <1>2, <2>1
  <2>6. CaptureTypes'
    BY <1>1, <2>1, <2>4 DEF VideoInv, CaptureTypes
  <2>7. IniInv'
    BY <1>1, <1>2, <2>1, <2>4, <2>5 DEF VideoInv, IniInv, Borrowing
  <2>8. Alone'
    <3> SUFFICES ASSUME ~use.early PROVE Alone'
      BY <1>1 DEF Alone
    <3>1. \A t \in Threads : call'[t].at = "idle" /\ waiting'[t] = "no"
      BY <1>1, <1>3, <1>4
    <3>2. Len(free') = made' - 1
      BY <1>1, <1>3, <2>2
    <3>3. ASSUME NEW k \in DOMAIN free', k > Len(free') - ini.i
          PROVE  Configured(frame'[free'[k]], ini'.format)
      <4>1. ini.i \in Nat /\ k + 1 \in DOMAIN free /\ k + 1 > Len(free) - ini.i
        <5>1. ini.i \in Nat
          BY <1>2 DEF IniRecord
        <5>2. PICK n \in Nat : n = Len(free)
          BY <2>2
        <5>3. k \in 1 .. n - 1 /\ k > (n - 1) - ini.i
          BY <2>2, <3>3, <5>2
        <5>4. k + 1 \in 1 .. n /\ k + 1 > n - ini.i
          BY <5>1, <5>2, <5>3
        <5> QED BY <2>2, <5>1, <5>2, <5>4
      <4>2. Configured(frame[free[k + 1]], ini.format)
        BY <1>1, <4>1 DEF VideoInv, Alone
      <4> QED BY <1>1, <2>2, <2>4, <4>2 DEF Configured
    <3>4. /\ permits' = (IF made' + ini'.i <= MaxPermits THEN made' + ini'.i ELSE MaxPermits)
          /\ bufferSize' > 0
      BY <1>1, <2>4 DEF VideoInv, Alone
    <3> QED BY <1>3, <2>4, <2>5, <3>1, <3>2, <3>3, <3>4 DEF Alone, Borrowing
  <2> QED BY <2>4, <2>6, <2>7, <2>8, BeforeDoneNext
<1> QED BY <1>5, <1>6

LEMMA IniConfigureVideo ==
  ASSUME PoolInv, VideoInv, IniConfigure
  PROVE  VideoInv'
<1> DEFINE sized == [setBufferSize(frame[ini.elem], bufferSize) EXCEPT !.format = ini.format]
<1>1. /\ ini.at = "configure" /\ ini' = [ini EXCEPT !.at = "put"]
      /\ frame' = [frame EXCEPT ![ini.elem] = sized]
      /\ UNCHANGED <<free, permits, made, held, waiting, bufferSize, call, crashed, use>>
  BY DEF IniConfigure, poolVars
<1>2. /\ ini \in IniRecord /\ held[Initializer] = {ini.elem} /\ Initializer \in Threads
      /\ ini' \in IniRecord /\ ini'.at = "put" /\ ini'.size = ini.size
      /\ ini'.i = ini.i /\ ini'.format = ini.format /\ ini'.elem = ini.elem
  BY <1>1, CapturePoolAssumption DEF VideoInv, CaptureTypes, IniInv, Borrowing, IniRecord, IniSteps
<1>3. ini.elem \in 1 .. MaxObjects /\ frame[ini.elem] \in FrameRecord
  BY <1>2, FrameOf DEF VideoInv
<1>4. bufferSize \in Nat /\ frame \in [1 .. MaxObjects -> FrameRecord]
  BY DEF VideoInv, CaptureTypes
<1>5. /\ sized \in FrameRecord /\ sized.format = ini.format
      /\ bufferSize > 0 => sized.alloc > 0
  <2>1. PICK row \in FrameRecord : row = frame[ini.elem]
    BY <1>3
  <2>2. Larger(row.alloc, bufferSize) \in Nat /\ Larger(row.alloc, bufferSize) >= bufferSize
    BY <1>4, LargerOf DEF FrameRecord
  <2>3. PICK size \in Nat : size = Larger(row.alloc, bufferSize)
    BY <2>2
  <2>4. sized = [[row EXCEPT !.alloc = size, !.used = bufferSize] EXCEPT !.format = ini.format]
    BY <2>1, <2>3 DEF setBufferSize
  <2>5. sized \in FrameRecord /\ sized.format = ini.format /\ sized.alloc = size
    BY <1>2, <1>4, <2>4 DEF FrameRecord, IniRecord
  <2> QED BY <1>4, <2>2, <2>3, <2>5
<1> HIDE DEF sized
<1>6. frame'[ini.elem] = sized /\ \A o \in 1 .. MaxObjects \ {ini.elem} : frame'[o] = frame[o]
  BY <1>1, <1>3, <1>4
<1>7. CaptureTypes'
  BY <1>1, <1>2, <1>4, <1>5 DEF VideoInv, CaptureTypes
<1>8. IniInv'
  BY <1>1, <1>2 DEF VideoInv, IniInv, Borrowing
<1>9. Alone'
  <2> SUFFICES ASSUME ~use.early PROVE Alone'
    BY <1>1 DEF Alone
  <2>1. bufferSize > 0
    BY <1>1 DEF VideoInv, Alone, Borrowing
  <2>2. Configured(frame'[ini.elem], ini.format)
    BY <1>2, <1>5, <1>6, <2>1 DEF Configured
  <2>3. ASSUME NEW k \in DOMAIN free, k > Len(free) - ini.i PROVE Configured(frame'[free[k]], ini.format)
    <3>1. Configured(frame[free[k]], ini.format)
      BY <1>1, <2>3 DEF VideoInv, Alone
    <3>2. free[k] \in 1 .. MaxObjects
      <4>1. free \in Seq(1 .. made) /\ made \in 0 .. MaxObjects
        BY DEF PoolInv, Pool!TypeOK, Pool!Objects
      <4>2. free[k] \in 1 .. made
        BY <4>1
      <4> QED BY <4>1, <4>2, CapturePoolAssumption
    <3>3. CASE free[k] = ini.elem
      BY <2>2, <3>3 DEF Configured
    <3>4. CASE free[k] # ini.elem
      BY <1>2, <1>6, <3>1, <3>2, <3>4 DEF Configured
    <3> QED BY <3>3, <3>4
  <2>4. /\ \A t \in Threads : call[t].at = "idle" /\ waiting[t] = "no"
        /\ \A t \in Threads \ {Initializer} : held[t] = {}
        /\ Len(free) = made - 1
        /\ permits = (IF made + ini.i <= MaxPermits THEN made + ini.i ELSE MaxPermits)
    BY <1>1 DEF VideoInv, Alone, Borrowing
  <2>5. \A k \in DOMAIN free' : k > Len(free') - ini'.i => Configured(frame'[free'[k]], ini'.format)
    BY <1>1, <1>2, <2>3 DEF Configured
  <2>6. Configured(frame'[ini'.elem], ini'.format)
    BY <1>2, <2>2 DEF Configured
  <2> QED BY <1>1, <1>2, <2>1, <2>4, <2>5, <2>6 DEF Alone, Borrowing
<1> QED BY <1>2, <1>7, <1>8, <1>9, BeforeDoneNext

\* The configured frame goes to the end of the list.
LEMMA IniPutVideo ==
  ASSUME PoolInv, VideoInv, IniPut
  PROVE  VideoInv'
<1>1. /\ ini.at = "put" /\ ini' = [ini EXCEPT !.at = "take", !.i = @ + 1]
      /\ UNCHANGED <<made, waiting, bufferSize, frame, call, crashed, use>>
      /\ held' = [held EXCEPT ![Initializer] = @ \ {ini.elem}]
      /\ free' = Append(free, ini.elem)
      /\ Pool!raiseEvent(1)
  BY DEF IniPut, Pool!release
<1>2. /\ ini \in IniRecord /\ held[Initializer] = {ini.elem} /\ Initializer \in Threads
      /\ ini.i < ini.size /\ made = ini.size
      /\ held \in [Threads -> SUBSET (1 .. made)] /\ free \in Seq(1 .. made) /\ made \in Nat
      /\ permits \in 0 .. MaxPermits
  BY <1>1, CapturePoolAssumption
     DEF VideoInv, CaptureTypes, IniInv, Borrowing, PoolInv, Pool!TypeOK, Pool!Objects
<1>3. /\ ini' \in IniRecord /\ ini'.at = "take" /\ ini'.size = ini.size
      /\ ini'.i = ini.i + 1 /\ ini'.format = ini.format
  <2>1. PICK n \in Nat : n = ini.i + 1
    BY <1>2 DEF IniRecord
  <2>2. ini' = [ini EXCEPT !.at = "take", !.i = n]
    BY <1>1, <2>1
  <2>3. ini' \in IniRecord /\ ini'.at = "take" /\ ini'.size = ini.size /\ ini'.format = ini.format
    BY <1>2, <2>2 DEF IniRecord, IniSteps
  <2>4. ini'.i = n
    BY <1>2, <2>2 DEF IniRecord
  <2> QED BY <2>1, <2>3, <2>4
<1>4. held'[Initializer] = {} /\ \A t \in Threads \ {Initializer} : held'[t] = held[t]
  BY <1>1, <1>2
<1>5. /\ Len(free') = Len(free) + 1 /\ Len(free) \in Nat /\ free'[Len(free) + 1] = ini.elem
      /\ DOMAIN free = 1 .. Len(free) /\ DOMAIN free' = 1 .. Len(free) + 1
      /\ \A k \in 1 .. Len(free) : free'[k] = free[k]
  <2>1. ini.elem \in 1 .. made
    BY <1>2
  <2> QED BY <1>1, <1>2, <2>1
<1>6. ini.i \in Nat /\ ini.size \in Nat
  BY <1>2 DEF IniRecord
<1>7. CaptureTypes'
  BY <1>1, <1>3 DEF VideoInv, CaptureTypes
<1>8. IniInv'
  BY <1>1, <1>2, <1>3, <1>4, <1>6 DEF VideoInv, IniInv, Borrowing
<1>9. Alone'
  <2> SUFFICES ASSUME ~use.early PROVE Alone'
    BY <1>1 DEF Alone
  <2>1. /\ \A t \in Threads : call[t].at = "idle" /\ waiting[t] = "no"
        /\ \A t \in Threads \ {Initializer} : held[t] = {}
        /\ Len(free) = made - 1 /\ bufferSize > 0 /\ Configured(frame[ini.elem], ini.format)
        /\ permits = (IF made + ini.i <= MaxPermits THEN made + ini.i ELSE MaxPermits)
    BY <1>1 DEF VideoInv, Alone, Borrowing
  <2>2. permits' = (IF made' + ini'.i <= MaxPermits THEN made' + ini'.i ELSE MaxPermits)
    <3>1. permits' = (IF permits + 1 <= MaxPermits THEN permits + 1 ELSE MaxPermits)
      BY <1>1 DEF Pool!raiseEvent
    <3>2. PICK n \in Nat : n = made + ini.i
      BY <1>2, <1>6
    <3>3. made' + ini'.i = n + 1
      <4>1. made' = made /\ ini'.i = ini.i + 1
        BY <1>1, <1>3
      <4>2. made \in Nat /\ ini.i \in Nat
        BY <1>2, <1>6
      <4> QED BY <3>2, <4>1, <4>2
    <3>4. permits = (IF n <= MaxPermits THEN n ELSE MaxPermits) /\ MaxPermits \in Nat
      BY <2>1, <3>2, CapturePoolAssumption
    <3>5. permits' = (IF n + 1 <= MaxPermits THEN n + 1 ELSE MaxPermits)
      BY <3>1, <3>4
    <3> QED BY <3>3, <3>5
  <2>3. ASSUME NEW k \in DOMAIN free', k > Len(free') - ini'.i
        PROVE  Configured(frame'[free'[k]], ini'.format)
    <3>1. CASE k = Len(free) + 1
      BY <1>1, <1>3, <1>5, <2>1, <3>1 DEF Configured
    <3>2. CASE k # Len(free) + 1
      <4>1. k \in DOMAIN free /\ k > Len(free) - ini.i
        BY <1>3, <1>5, <1>6, <2>3, <3>2
      <4>2. Configured(frame[free[k]], ini.format)
        BY <1>1, <4>1 DEF VideoInv, Alone
      <4> QED BY <1>1, <1>3, <1>5, <4>1, <4>2 DEF Configured
    <3> QED BY <3>1, <3>2
  <2> QED BY <1>1, <1>2, <1>3, <1>4, <1>5, <2>1, <2>2, <2>3 DEF Alone, Borrowing
<1> QED BY <1>3, <1>7, <1>8, <1>9, BeforeDoneNext

LEMMA IniReturnVideo ==
  ASSUME PoolInv, VideoInv, IniReturn
  PROVE  VideoInv'
<1>1. /\ ini.at = "take" /\ ini' = [ini EXCEPT !.at = "done"]
      /\ UNCHANGED <<free, permits, made, held, waiting, bufferSize, frame, call, crashed, use>>
  BY DEF IniReturn, poolVars
<1>2. /\ ini \in IniRecord /\ ini' \in IniRecord /\ ini'.at = "done" /\ ini'.size = ini.size
      /\ ini'.i = ini.i /\ held[Initializer] = {} /\ Initializer \in Threads
  BY <1>1, CapturePoolAssumption DEF VideoInv, CaptureTypes, IniInv, Borrowing, IniRecord, IniSteps
<1>3. ~use.early => (\A t \in Threads : call[t].at = "idle") /\ (\A t \in Threads : held[t] = {})
  BY <1>1, <1>2 DEF VideoInv, Alone
<1>4. CaptureTypes'
  BY <1>1, <1>2 DEF VideoInv, CaptureTypes
<1>5. IniInv'
  BY <1>1, <1>2 DEF VideoInv, IniInv, Borrowing
<1>6. Alone' /\ CallsInv' /\ Enough' /\ FramesFit'
  BY <1>1, <1>2, <1>3 DEF Alone, CallsInv, Enough, OneSizer, FramesFit
<1> QED BY <1>4, <1>5, <1>6 DEF VideoInv

-----------------------------------------------------------------------------

\* The calls of the others.  Whoever acts does so after initialize returned, or
\* is one of those that came early.
LEMMA FreeFacts ==
  ASSUME VideoInv, NEW t \in Threads, Free(t)
  PROVE  /\ crashed = FALSE /\ call[t].at = "idle"
         /\ ini.at = "done" \/ (use.early /\ t # Initializer)
<1>1. use.early \in BOOLEAN
  BY UseOf DEF VideoInv
<1> QED BY <1>1 DEF VideoInv, CaptureTypes, Free, At

LEMMA AtFacts ==
  ASSUME VideoInv, NEW t \in Threads, NEW step \in {"load", "store", "size"}, At(t, step)
  PROVE  /\ crashed = FALSE /\ call[t].at = step
         /\ ini.at = "done" \/ use.early
BY DEF VideoInv, CaptureTypes, CallsInv, At

\* They leave initialize as it is.
LEMMA OthersIni ==
  ASSUME VideoInv, crashed = FALSE, ini.at = "done" \/ use.early,
         UNCHANGED <<ini, made, use, crashed>>,
         ini.at # "done" => held'[Initializer] = held[Initializer]
  PROVE  IniInv' /\ Alone'
<1>1. IniInv'
  BY DEF VideoInv, IniInv, Borrowing
<1>2. Alone'
  BY DEF Alone
<1> QED BY <1>1, <1>2

\* Frames change hands, but not the frame of a call.
LEMMA FramesMove ==
  ASSUME VideoInv, crashed = FALSE, ini.at = "done" \/ use.early,
         UNCHANGED <<ini, made, use, crashed, bufferSize, frame, call>>,
         ini.at # "done" => held'[Initializer] = held[Initializer],
         \A s \in Threads : call[s].at # "idle" => held[s] \subseteq held'[s],
         \A s \in Threads : \A o \in held'[s] : \E r \in Threads : o \in held[r]
  PROVE  VideoInv'
<1>1. IniInv' /\ Alone'
  BY OthersIni
<1>2. CaptureTypes'
  BY DEF VideoInv, CaptureTypes
<1>3. CallsInv'
  BY DEF VideoInv, CallsInv
<1>4. Enough'
  BY DEF VideoInv, Enough, OneSizer
<1>5. FramesFit'
  <2> SUFFICES ASSUME OneSizer, NEW s \in Threads, NEW o \in held'[s]
               PROVE  \/ \E u \in Threads : call[u].at # "idle" /\ call[u].elem = o
                      \/ ini.elem = o /\ ini.at # "done"
                      \/ frame[o].used >= Need[frame[o].format] /\ frame[o].alloc >= frame[o].used
    BY DEF FramesFit, OneSizer
  <2>1. PICK r \in Threads : o \in held[r]
    OBVIOUS
  <2> QED BY <2>1 DEF VideoInv, FramesFit, OneSizer
<1> QED BY <1>1, <1>2, <1>3, <1>4, <1>5 DEF VideoInv

LEMMA HandOverInv ==
  ASSUME PoolInv, VideoInv, NEW t \in Threads, NEW u \in Threads, HandOver(t, u)
  PROVE  PoolInv' /\ VideoInv'
<1>1. PICK elem \in held[t] : held' = [held EXCEPT ![t] = @ \ {elem}, ![u] = @ \cup {elem}]
  BY DEF HandOver
<1>2. /\ Free(t) /\ Free(u) /\ t # u
      /\ UNCHANGED <<free, permits, made, waiting, bufferSize, frame, ini, call, crashed, use>>
  BY DEF HandOver
<1>3. /\ crashed = FALSE /\ call[t].at = "idle"
      /\ ini.at = "done" \/ (use.early /\ t # Initializer /\ u # Initializer)
  BY <1>2, FreeFacts
<1>4. held \in [Threads -> SUBSET (1 .. made)]
  BY DEF PoolInv, Pool!TypeOK, Pool!Objects
<1>5. /\ held'[u] = held[u] \cup {elem} /\ held'[t] = held[t] \ {elem}
      /\ \A s \in Threads \ {t, u} : held'[s] = held[s]
  BY <1>1, <1>2, <1>4
<1>6. PoolInv'
  BY <1>1, <1>2, HandOverPool
<1>7. ini.at # "done" => held'[Initializer] = held[Initializer]
  BY <1>3, <1>5, CapturePoolAssumption
<1>8. \A s \in Threads : call[s].at # "idle" => held[s] \subseteq held'[s]
  BY <1>3, <1>5
<1>9. \A s \in Threads : \A o \in held'[s] : \E r \in Threads : o \in held[r]
  BY <1>5
<1>10. VideoInv'
  BY <1>2, <1>3, <1>7, <1>8, <1>9, FramesMove
<1> QED BY <1>6, <1>10

LEMMA releaseInv ==
  ASSUME PoolInv, VideoInv, NEW t \in Threads, release(t)
  PROVE  PoolInv' /\ VideoInv'
<1>1. PICK elem \in held[t] : Pool!release(t, elem)
  BY DEF release, Pool!releaseHeld
<1>2. /\ Free(t) /\ UNCHANGED <<made, bufferSize, frame, ini, call, crashed, use>>
      /\ held' = [held EXCEPT ![t] = @ \ {elem}]
  BY <1>1 DEF release, Pool!release
<1>3. /\ crashed = FALSE /\ call[t].at = "idle"
      /\ ini.at = "done" \/ (use.early /\ t # Initializer)
  BY <1>2, FreeFacts
<1>4. held \in [Threads -> SUBSET (1 .. made)]
  BY DEF PoolInv, Pool!TypeOK, Pool!Objects
<1>5. held'[t] = held[t] \ {elem} /\ \A s \in Threads \ {t} : held'[s] = held[s]
  BY <1>2, <1>4
<1>6. PoolInv'
  BY <1>1, PoolCalls
<1>7. ini.at # "done" => held'[Initializer] = held[Initializer]
  BY <1>3, <1>5, CapturePoolAssumption
<1>8. \A s \in Threads : call[s].at # "idle" => held[s] \subseteq held'[s]
  BY <1>3, <1>5
<1>9. \A s \in Threads : \A o \in held'[s] : \E r \in Threads : o \in held[r]
  BY <1>5
<1>10. VideoInv'
  BY <1>2, <1>3, <1>7, <1>8, <1>9, FramesMove
<1> QED BY <1>6, <1>10

LEMMA waitDataEventInv ==
  ASSUME PoolInv, VideoInv, NEW t \in Threads, waitDataEvent(t)
  PROVE  PoolInv' /\ VideoInv'
<1>1. /\ Free(t) /\ UNCHANGED <<bufferSize, frame, ini, call, crashed, use>>
      /\ Pool!waitDataEvent(t) \/ Pool!WaitReturnsTrue(t) \/ Pool!WaitTimesOut(t)
  BY DEF waitDataEvent
<1>2. UNCHANGED <<made, held>>
  BY <1>1 DEF Pool!waitDataEvent, Pool!WaitReturnsTrue, Pool!WaitTimesOut
<1>3. PoolInv'
  BY <1>1, PoolCalls
<1>4. crashed = FALSE /\ (ini.at = "done" \/ use.early)
  BY <1>1, FreeFacts
<1>5. VideoInv'
  BY <1>1, <1>2, <1>4, FramesMove
<1> QED BY <1>3, <1>5

\* What a caller's step makes of call.
LEMMA CallChanged ==
  ASSUME VideoInv, NEW t \in Threads, NEW row \in CallRecord, call' = [call EXCEPT ![t] = row]
  PROVE  /\ call'[t] = row /\ \A u \in Threads \ {t} : call'[u] = call[u]
         /\ call' \in [Threads -> CallRecord]
BY DEF VideoInv, CaptureTypes

\* A frame that a call is on belongs to one caller.
LEMMA OneHolder ==
  ASSUME PoolInv, NEW t \in Threads, NEW u \in Threads, t # u, NEW o \in held[t]
  PROVE  o \notin held[u]
BY DEF PoolInv, Pool!ObjectsConserved

\* getNew: the frame taken is that of a call until it is sized.
LEMMA getNewInv ==
  ASSUME PoolInv, VideoInv, NEW t \in use.capturers, NEW format \in use.formats, getNew(t, format)
  PROVE  PoolInv' /\ VideoInv'
<1>1. t \in Threads /\ format \in Formats
  BY UseOf DEF VideoInv
<1>2. /\ Free(t) /\ Pool!getNew(t) /\ UNCHANGED <<made, bufferSize, ini, crashed, use>>
  BY DEF getNew, Pool!getNew
<1>3. PoolInv'
  BY <1>1, <1>2, PoolCalls
<1>4. /\ crashed = FALSE /\ call[t].at = "idle"
      /\ ini.at = "done" \/ (use.early /\ t # Initializer)
  BY <1>1, <1>2, FreeFacts
<1>5. CASE free = <<>>
  <2>1. UNCHANGED <<held, frame, call>>
    BY <1>5 DEF getNew, Pool!getNew
  <2>2. VideoInv'
    BY <1>2, <1>4, <2>1, FramesMove
  <2> QED BY <1>3, <2>2
<1>6. CASE free # <<>>
  <2>1. /\ free \in Seq(1 .. made) /\ Len(free) \in Nat \ {0} /\ 1 \in DOMAIN free
        /\ made \in 0 .. MaxObjects /\ held \in [Threads -> SUBSET (1 .. made)]
    BY <1>6 DEF PoolInv, Pool!TypeOK, Pool!Objects
  <2>2. Head(free) = free[1] /\ free[1] \in 1 .. made
    <3>1. Head(free) = free[1]
      BY <1>6, <2>1
    <3>2. free[1] \in 1 .. made
      BY <2>1, ElementOfSeq
    <3> QED BY <3>1, <3>2
  <2>3. PICK head \in 1 .. MaxObjects : head = Head(free) /\ head \in 1 .. made
    BY <2>1, <2>2, CapturePoolAssumption
  <2>4. /\ held' = [held EXCEPT ![t] = @ \cup {head}]
        /\ frame' = [frame EXCEPT ![head].format = format]
        /\ call' = [call EXCEPT ![t] = [at |-> "load", elem |-> head, format |-> format, reg |-> 0]]
    BY <1>6, <2>3 DEF getNew, Pool!getNew
  <2>5. \A s \in Threads : head \notin held[s]
    BY <2>1, <2>2, <2>3 DEF PoolInv, Pool!ObjectsConserved
  <2>6. held'[t] = held[t] \cup {head} /\ \A s \in Threads \ {t} : held'[s] = held[s]
    BY <1>1, <2>1, <2>4
  <2>7. /\ [at |-> "load", elem |-> head, format |-> format, reg |-> 0] \in CallRecord
    BY <1>1, <2>3 DEF CallRecord
  <2>8. PICK row \in CallRecord : row = [at |-> "load", elem |-> head, format |-> format, reg |-> 0]
    BY <2>7
  <2>9. row.at = "load" /\ row.elem = head /\ row.format = format
    BY <2>8
  <2>10. /\ call'[t] = row /\ \A u \in Threads \ {t} : call'[u] = call[u]
         /\ call' \in [Threads -> CallRecord]
    BY <1>1, <2>4, <2>8, CallChanged
  <2>11. /\ frame'[head].format = format /\ \A o \in 1 .. MaxObjects \ {head} : frame'[o] = frame[o]
         /\ frame' \in [1 .. MaxObjects -> FrameRecord]
    BY <1>1, <2>3, <2>4 DEF VideoInv, CaptureTypes, FrameRecord
  <2>12. CaptureTypes'
    BY <1>2, <2>10, <2>11 DEF VideoInv, CaptureTypes
  <2>13. IniInv' /\ Alone'
    <3>1. ini.at # "done" => held'[Initializer] = held[Initializer]
      BY <1>4, <2>6, CapturePoolAssumption
    <3> QED BY <1>2, <1>4, <3>1, OthersIni
  <2>14. CallsInv'
    <3> SUFFICES ASSUME ~use.early, NEW s \in Threads, call'[s].at # "idle"
                 PROVE  /\ ini.at = "done" /\ s \in use.capturers /\ call'[s].format \in use.formats
                        /\ call'[s].elem \in held'[s]
                        /\ frame'[call'[s].elem].format = call'[s].format
      BY <1>2 DEF CallsInv
    <3>1. CASE s = t
      BY <1>4, <2>6, <2>9, <2>10, <2>11, <3>1
    <3>2. CASE s # t
      <4>1. /\ s \in use.capturers /\ call[s].format \in use.formats
            /\ call[s].elem \in held[s] /\ frame[call[s].elem].format = call[s].format
        BY <2>10, <3>2 DEF VideoInv, CallsInv
      <4>2. call[s].elem # head /\ call[s].elem \in 1 .. MaxObjects
        BY <2>5, <4>1, FrameOf DEF VideoInv
      <4> QED BY <1>4, <2>6, <2>10, <2>11, <3>2, <4>1, <4>2
    <3> QED BY <3>1, <3>2
  <2>15. Enough'
    <3>1. ASSUME OneSizer, NEW s \in Threads
          PROVE  /\ call'[s].at = "store" => call'[s].reg >= Need[call'[s].format]
                 /\ call'[s].at = "size"  => bufferSize >= Need[call'[s].format]
      <4>1. CASE s = t
        BY <2>9, <2>10, <4>1
      <4>2. CASE s # t
        BY <2>10, <3>1, <4>2 DEF VideoInv, Enough
      <4> QED BY <4>1, <4>2
    <3> QED BY <1>2, <3>1 DEF Enough, OneSizer
  <2>16. FramesFit'
    <3> SUFFICES ASSUME OneSizer, NEW s \in Threads, NEW o \in held'[s]
                 PROVE  \/ \E u \in Threads : call'[u].at # "idle" /\ call'[u].elem = o
                        \/ frame'[o].used >= Need[frame'[o].format] /\ frame'[o].alloc >= frame'[o].used
      BY <1>2 DEF FramesFit, OneSizer
    <3>1. CASE o = head
      BY <1>1, <2>9, <2>10, <3>1
    <3>2. CASE o # head
      <4>1. o \in held[s] /\ frame'[o] = frame[o]
        <5>1. o \in held[s]
          BY <2>6, <3>2
        <5>2. o \in 1 .. MaxObjects
          BY <5>1, FrameOf DEF VideoInv
        <5> QED BY <2>11, <3>2, <5>1, <5>2
      <4>2. ini.at = "done"
        BY <1>4 DEF OneSizer
      <4>3. \/ \E u \in Threads : call[u].at # "idle" /\ call[u].elem = o
            \/ frame[o].used >= Need[frame[o].format] /\ frame[o].alloc >= frame[o].used
        BY <4>1, <4>2 DEF VideoInv, FramesFit, OneSizer
      <4>4. ASSUME NEW u \in Threads, call[u].at # "idle", call[u].elem = o
            PROVE  call'[u].at # "idle" /\ call'[u].elem = o
        BY <1>4, <2>10, <4>4
      <4> QED BY <4>1, <4>3, <4>4
    <3> QED BY <3>1, <3>2
  <2> QED BY <1>3, <2>12, <2>13, <2>14, <2>15, <2>16 DEF VideoInv
<1> QED BY <1>5, <1>6

\* max of the shared size and the one needed, in a register.
LEMMA LoadSizeInv ==
  ASSUME VideoInv, NEW t \in Threads, LoadSize(t)
  PROVE  VideoInv'
<1>1. /\ At(t, "load")
      /\ UNCHANGED <<free, permits, made, held, waiting, bufferSize, frame, ini, crashed, use>>
  BY DEF LoadSize, poolVars
<1>2. crashed = FALSE /\ call[t].at = "load" /\ (ini.at = "done" \/ use.early)
  BY <1>1, AtFacts
<1>3. /\ call \in [Threads -> CallRecord] /\ call[t] \in CallRecord /\ bufferSize \in Nat
      /\ Need[call[t].format] \in Nat
  <2>1. call \in [Threads -> CallRecord] /\ call[t] \in CallRecord /\ bufferSize \in Nat
    BY DEF VideoInv, CaptureTypes
  <2>2. call[t].format \in Formats
    BY <2>1 DEF CallRecord
  <2> QED BY <2>1, <2>2, NeedPositive
<1>4. PICK size \in Nat : size = Larger(Need[call[t].format], bufferSize) /\ size >= Need[call[t].format]
  BY <1>3, LargerOf
<1>5. PICK row : row = [call[t] EXCEPT !.at = "store", !.reg = size]
  OBVIOUS
<1>6. call' = [call EXCEPT ![t] = row]
  BY <1>4, <1>5 DEF LoadSize
<1>7. /\ row \in CallRecord /\ row.at = "store" /\ row.reg = size
      /\ row.format = call[t].format /\ row.elem = call[t].elem
  BY <1>3, <1>4, <1>5 DEF CallRecord
<1>8. /\ call'[t] = row /\ \A u \in Threads \ {t} : call'[u] = call[u]
      /\ call' \in [Threads -> CallRecord]
  BY <1>6, <1>7, CallChanged
<1>9. \A u \in Threads : /\ (call'[u].at # "idle") <=> (call[u].at # "idle")
                         /\ call'[u].elem = call[u].elem /\ call'[u].format = call[u].format
  BY <1>2, <1>7, <1>8
<1>10. CaptureTypes'
  BY <1>1, <1>8 DEF VideoInv, CaptureTypes
<1>11. IniInv' /\ Alone'
  BY <1>1, <1>2, OthersIni
<1>12. CallsInv'
  BY <1>1, <1>9 DEF VideoInv, CallsInv
<1>13. Enough'
  <2>1. ASSUME OneSizer, NEW s \in Threads
        PROVE  /\ call'[s].at = "store" => call'[s].reg >= Need[call'[s].format]
               /\ call'[s].at = "size"  => bufferSize >= Need[call'[s].format]
    <3>1. CASE s = t
      BY <1>4, <1>7, <1>8, <3>1
    <3>2. CASE s # t
      BY <1>8, <2>1, <3>2 DEF VideoInv, Enough
    <3> QED BY <3>1, <3>2
  <2> QED BY <1>1, <2>1 DEF Enough, OneSizer
<1>14. FramesFit'
  BY <1>1, <1>9 DEF VideoInv, FramesFit
<1> QED BY <1>10, <1>11, <1>12, <1>13, <1>14 DEF VideoInv

\* Threads that both size frames are one, or size them for one format.
LEMMA SizersAgree ==
  ASSUME VideoInv, OneSizer, NEW t \in Threads, NEW u \in Threads, t # u,
         call[t].at # "idle", call[u].at # "idle"
  PROVE  call[t].format = call[u].format
<1>1. /\ t \in use.capturers /\ u \in use.capturers
      /\ call[t].format \in use.formats /\ call[u].format \in use.formats
  BY DEF VideoInv, CallsInv, OneSizer
<1>2. IsFiniteSet(use.capturers) /\ IsFiniteSet(use.formats)
  BY UseOf, FS_Subset, CapturePoolAssumption DEF VideoInv
<1>3. CASE Cardinality(use.capturers) = 1
  <2>1. PICK x : use.capturers = {x}
    BY <1>2, <1>3, FS_Singleton
  <2> QED BY <1>1, <2>1
<1>4. CASE Cardinality(use.formats) = 1
  <2>1. PICK x : use.formats = {x}
    BY <1>2, <1>4, FS_Singleton
  <2> QED BY <1>1, <2>1
<1> QED BY <1>3, <1>4 DEF OneSizer

LEMMA StoreSizeInv ==
  ASSUME VideoInv, NEW t \in Threads, StoreSize(t)
  PROVE  VideoInv'
<1>1. /\ At(t, "store") /\ bufferSize' = call[t].reg
      /\ call' = [call EXCEPT ![t].at = "size"]
      /\ UNCHANGED <<free, permits, made, held, waiting, frame, ini, crashed, use>>
  BY DEF StoreSize, poolVars
<1>2. crashed = FALSE /\ call[t].at = "store" /\ (ini.at = "done" \/ use.early)
  BY <1>1, AtFacts
<1>3. call \in [Threads -> CallRecord] /\ call[t] \in CallRecord /\ call[t].reg \in Nat
  BY DEF VideoInv, CaptureTypes, CallRecord
<1>4. PICK row : row = [call[t] EXCEPT !.at = "size"]
  OBVIOUS
<1>5. call' = [call EXCEPT ![t] = row]
  BY <1>1, <1>4
<1>6. row \in CallRecord /\ row.at = "size" /\ row.format = call[t].format /\ row.elem = call[t].elem
  BY <1>3, <1>4 DEF CallRecord
<1>7. /\ call'[t] = row /\ \A u \in Threads \ {t} : call'[u] = call[u]
      /\ call' \in [Threads -> CallRecord]
  BY <1>5, <1>6, CallChanged
<1>8. \A u \in Threads : /\ (call'[u].at # "idle") <=> (call[u].at # "idle")
                         /\ call'[u].elem = call[u].elem /\ call'[u].format = call[u].format
  BY <1>2, <1>6, <1>7
<1>9. CaptureTypes'
  BY <1>1, <1>3, <1>7 DEF VideoInv, CaptureTypes
<1>10. IniInv' /\ Alone'
  BY <1>1, <1>2, OthersIni
<1>11. CallsInv'
  BY <1>1, <1>8 DEF VideoInv, CallsInv
<1>12. Enough'
  <2>1. ASSUME OneSizer, NEW s \in Threads
        PROVE  /\ call'[s].at = "store" => call'[s].reg >= Need[call'[s].format]
               /\ call'[s].at = "size"  => call[t].reg >= Need[call'[s].format]
    <3>1. call[t].reg >= Need[call[t].format]
      BY <1>2, <2>1 DEF VideoInv, Enough
    <3>2. CASE s = t
      BY <1>6, <1>7, <3>1, <3>2
    <3>3. CASE s # t
      <4>1. call'[s] = call[s]
        BY <1>7, <3>3
      <4>2. call[s].at = "size" => call[s].format = call[t].format
        BY <1>2, <2>1, <3>3, SizersAgree
      <4> QED BY <2>1, <3>1, <4>1, <4>2 DEF VideoInv, Enough
    <3> QED BY <3>2, <3>3
  <2> QED BY <1>1, <2>1 DEF Enough, OneSizer
<1>13. FramesFit'
  BY <1>1, <1>8 DEF VideoInv, FramesFit
<1> QED BY <1>9, <1>10, <1>11, <1>12, <1>13 DEF VideoInv

\* setBufferSize with what the member holds by then.
LEMMA SetSizeInv ==
  ASSUME PoolInv, VideoInv, NEW t \in Threads, SetSize(t)
  PROVE  VideoInv'
<1> DEFINE elem == call[t].elem
           sized == setBufferSize(frame[elem], bufferSize)
<1>1. /\ At(t, "size") /\ frame' = [frame EXCEPT ![elem] = sized]
      /\ call' = [call EXCEPT ![t] = NoCall]
      /\ UNCHANGED <<free, permits, made, held, waiting, bufferSize, ini, crashed, use>>
  BY DEF SetSize, poolVars
<1>2. crashed = FALSE /\ call[t].at = "size" /\ (ini.at = "done" \/ use.early)
  BY <1>1, AtFacts
<1>3. /\ frame \in [1 .. MaxObjects -> FrameRecord] /\ bufferSize \in Nat
      /\ call \in [Threads -> CallRecord]
  BY DEF VideoInv, CaptureTypes
<1>4. NoCall \in CallRecord /\ NoCall.at = "idle"
  BY CapturePoolAssumption DEF NoCall, CallRecord
<1>5. /\ call'[t] = NoCall /\ \A u \in Threads \ {t} : call'[u] = call[u]
      /\ call' \in [Threads -> CallRecord]
  BY <1>1, <1>4, CallChanged
<1>6. ASSUME elem \in 1 .. MaxObjects
      PROVE  /\ sized \in FrameRecord /\ sized.format = frame[elem].format
             /\ sized.used = bufferSize /\ sized.alloc >= bufferSize
  <2>1. PICK row \in FrameRecord : row = frame[elem]
    BY <1>3, <1>6
  <2>2. PICK size \in Nat : size = Larger(row.alloc, bufferSize) /\ size >= bufferSize
    BY <1>3, LargerOf DEF FrameRecord
  <2>3. sized = [row EXCEPT !.alloc = size, !.used = bufferSize]
    BY <2>1, <2>2 DEF setBufferSize
  <2>4. sized \in FrameRecord /\ sized.format = row.format
    BY <1>3, <2>3 DEF FrameRecord
  <2>5. sized.used = bufferSize /\ sized.alloc = size
    BY <2>3 DEF FrameRecord
  <2> QED BY <2>1, <2>2, <2>4, <2>5
<1> HIDE DEF sized, elem
<1>7. \A o \in 1 .. MaxObjects \ {elem} : frame'[o] = frame[o]
  BY <1>1, <1>3
<1>8. elem \in 1 .. MaxObjects => frame'[elem] = sized
  BY <1>1, <1>3
<1>9. /\ frame' \in [1 .. MaxObjects -> FrameRecord]
      /\ \A o \in 1 .. MaxObjects : frame'[o].format = frame[o].format
  <2>1. CASE elem \in 1 .. MaxObjects
    BY <1>1, <1>3, <1>6, <1>7, <1>8, <2>1
  <2>2. CASE elem \notin 1 .. MaxObjects
    <3>1. frame' = frame
      BY <1>1, <1>3, <2>2
    <3> QED BY <1>3, <3>1
  <2> QED BY <2>1, <2>2
<1>10. CaptureTypes'
  BY <1>1, <1>3, <1>5, <1>9 DEF VideoInv, CaptureTypes
<1>11. IniInv' /\ Alone'
  BY <1>1, <1>2, OthersIni
<1>12. CallsInv'
  <2>1. ASSUME ~use.early, NEW s \in Threads, call'[s].at # "idle"
        PROVE  /\ ini.at = "done" /\ s \in use.capturers /\ call'[s].format \in use.formats
               /\ call'[s].elem \in held[s] /\ frame'[call'[s].elem].format = call'[s].format
    <3>1. s # t /\ call'[s] = call[s]
      BY <1>4, <1>5, <2>1
    <3>2. /\ ini.at = "done" /\ s \in use.capturers /\ call[s].format \in use.formats
          /\ call[s].elem \in held[s] /\ frame[call[s].elem].format = call[s].format
      BY <2>1, <3>1 DEF VideoInv, CallsInv
    <3>3. call[s].elem \in 1 .. MaxObjects
      BY <3>2, FrameOf DEF VideoInv
    <3> QED BY <1>9, <3>1, <3>2, <3>3
  <2> QED BY <1>1, <2>1 DEF CallsInv
<1>13. Enough'
  <2>1. ASSUME OneSizer, NEW s \in Threads
        PROVE  /\ call'[s].at = "store" => call'[s].reg >= Need[call'[s].format]
               /\ call'[s].at = "size"  => bufferSize >= Need[call'[s].format]
    <3>1. CASE s = t
      BY <1>4, <1>5, <3>1
    <3>2. CASE s # t
      BY <1>5, <2>1, <3>2 DEF VideoInv, Enough
    <3> QED BY <3>1, <3>2
  <2> QED BY <1>1, <2>1 DEF Enough, OneSizer
<1>14. FramesFit'
  <2> SUFFICES ASSUME OneSizer, NEW s \in Threads, NEW o \in held[s]
               PROVE  \/ \E u \in Threads : call'[u].at # "idle" /\ call'[u].elem = o
                      \/ frame'[o].used >= Need[frame'[o].format] /\ frame'[o].alloc >= frame'[o].used
    BY <1>1 DEF FramesFit, OneSizer
  <2>1. ini.at = "done" /\ o \in 1 .. MaxObjects
    BY <1>2, FrameOf DEF OneSizer, VideoInv
  <2>2. CASE o = elem
    <3>1. /\ frame[elem].format = call[t].format /\ bufferSize >= Need[call[t].format]
      BY <1>2 DEF VideoInv, CallsInv, Enough, OneSizer, elem
    <3>2. frame'[o] = sized /\ elem \in 1 .. MaxObjects
      BY <1>8, <2>1, <2>2
    <3>3. /\ sized.format = frame[elem].format /\ sized.used = bufferSize /\ sized.alloc >= bufferSize
      BY <1>6, <3>2
    <3> QED BY <3>1, <3>2, <3>3
  <2>3. CASE o # elem
    <3>1. frame'[o] = frame[o]
      BY <1>7, <2>1, <2>3
    <3>2. \/ \E u \in Threads : call[u].at # "idle" /\ call[u].elem = o
          \/ frame[o].used >= Need[frame[o].format] /\ frame[o].alloc >= frame[o].used
      BY <2>1 DEF VideoInv, FramesFit, OneSizer
    <3>3. ASSUME NEW u \in Threads, call[u].at # "idle", call[u].elem = o
          PROVE  call'[u].at # "idle" /\ call'[u].elem = o
      BY <1>5, <2>3, <3>3 DEF elem
    <3> QED BY <3>1, <3>2, <3>3
  <2> QED BY <2>2, <2>3
<1> QED BY <1>10, <1>11, <1>12, <1>13, <1>14 DEF VideoInv

-----------------------------------------------------------------------------

\* The audio frames.  Quotients: the largest number of whole parts.
LEMMA Quotient ==
  ASSUME NEW n \in Nat, NEW d \in Nat \ {0}
  PROVE  /\ n \div d \in Nat
         /\ d * (n \div d) <= n /\ n < d * (n \div d) + d
OBVIOUS

LEMMA Fours ==
  ASSUME NEW m \in Nat, NEW s \in Nat
  PROVE  /\ m * s * 4 = (m * 4) * s /\ m * (s + 1) * 4 = (m * 4) * s + m * 4
         /\ m * s * 4 \in Nat /\ m * 4 \in Nat
<1>1. m * (s + 1) = m * s + m
  OBVIOUS
<1>2. PICK p \in Nat : p = m * s
  OBVIOUS
<1>3. (m * 4) * s = p * 4
  BY <1>2
<1> QED BY <1>1, <1>2, <1>3

LEMMA SetBufferAgrees ==
  ASSUME NEW f \in AudioRecord, NEW size \in Nat
  PROVE  /\ Audio!setBufferSize(f, size) \in AudioRecord
         /\ Audio!CountsAgree(Audio!setBufferSize(f, size))
<1>1. f.mono \in Nat \ {0} /\ f.mono * 4 \in Nat \ {0} /\ f.total \in Nat
  BY DEF AudioRecord
<1>2. PICK s \in Nat : s = size \div (f.mono * 4)
  BY <1>1, Quotient
<1>3. (f.mono * 4) * s <= size /\ size < (f.mono * 4) * s + f.mono * 4
  BY <1>1, <1>2, Quotient
<1>4. f.mono * s * 4 <= size /\ size < f.mono * (s + 1) * 4
  BY <1>1, <1>3, Fours
<1>5. PICK total \in Nat : total = (IF size > f.total THEN size ELSE f.total)
  BY <1>1
<1>6. PICK g : g = Audio!setBufferSize(f, size)
  OBVIOUS
<1>7. g = [f EXCEPT !.data = size, !.sample = s, !.total = total, !.told = "set"]
  BY <1>2, <1>5, <1>6 DEF Audio!setBufferSize
<1>8. g \in AudioRecord
  BY <1>7 DEF AudioRecord
<1>9. g.data = size /\ g.sample = s /\ g.total = total
  BY <1>7 DEF AudioRecord
<1>10. g.told = "set" /\ g.mono = f.mono
  BY <1>7 DEF AudioRecord
<1>11. size <= total
  BY <1>1, <1>5
<1>12. Audio!Describe(g.mono, g.sample, g.data)
  BY <1>4, <1>9, <1>10 DEF Audio!Describe
<1>13. Audio!CountsAgree(g)
  BY <1>9, <1>10, <1>11, <1>12 DEF Audio!CountsAgree
<1> QED BY <1>6, <1>8, <1>13

\* What a setter makes of a count: the other one stays or follows the size.
LEMMA SetCountAgrees ==
  ASSUME NEW f \in AudioRecord, Audio!CountsAgree(f),
         NEW mono \in Nat \ {0}, NEW sample \in Nat, NEW g,
         g = [f EXCEPT !.mono = mono, !.sample = sample, !.told = "set"],
         NEW size, size = mono * sample * 4
  PROVE  LET h == IF size # f.data THEN Audio!setBufferSize(g, size) ELSE g
         IN  h \in AudioRecord /\ Audio!CountsAgree(h)
<1>1. g \in AudioRecord /\ g.told = "set"
  BY DEF AudioRecord
<1>2. g.mono = mono /\ g.sample = sample
  BY DEF AudioRecord
<1>3. g.data = f.data /\ g.total = f.total
  BY DEF AudioRecord
<1>4. size \in Nat
  BY Fours
<1>5. CASE size # f.data
  BY <1>1, <1>4, <1>5, SetBufferAgrees
<1>6. CASE size = f.data
  <2>1. size <= size /\ size < mono * (sample + 1) * 4
    BY <1>4, Fours
  <2>2. Audio!Describe(g.mono, g.sample, g.data)
    BY <1>2, <1>3, <1>6, <2>1 DEF Audio!Describe
  <2>3. g.data <= g.total
    BY <1>3 DEF Audio!CountsAgree
  <2>4. Audio!CountsAgree(g)
    BY <1>1, <2>2, <2>3 DEF Audio!CountsAgree
  <2> QED BY <1>1, <1>6, <2>4
<1> QED BY <1>5, <1>6

LEMMA TrimAgrees ==
  ASSUME NEW f \in AudioRecord, Audio!CountsAgree(f)
  PROVE  Audio!trimStero(f) \in AudioRecord /\ Audio!CountsAgree(Audio!trimStero(f))
<1>1. f.data \in Nat /\ f.sample \in Nat /\ f.total \in Nat /\ f.data <= f.total
  BY DEF AudioRecord, Audio!CountsAgree
<1>2. PICK data \in Nat : data = f.data \div 8 /\ 8 * data <= f.data /\ f.data < 8 * data + 8
  BY <1>1, Quotient
<1>3. PICK told \in {"trimmed", "lost"} :
        /\ told = (IF f.told = "set" /\ f.mono = 16 THEN "trimmed" ELSE "lost")
        /\ told = "trimmed" => f.told = "set" /\ f.mono = 16
  OBVIOUS
<1>4. PICK g : g = Audio!trimStero(f)
  OBVIOUS
<1>5. g = [f EXCEPT !.data = data, !.told = told]
  BY <1>2, <1>3, <1>4 DEF Audio!trimStero
<1>6. g \in AudioRecord
  BY <1>5 DEF AudioRecord
<1>7. g.data = data /\ g.total = f.total
  BY <1>5 DEF AudioRecord
<1>8. g.told = told /\ g.sample = f.sample
  BY <1>5 DEF AudioRecord
<1>9. told = "trimmed" => Audio!Describe(2, f.sample, data)
  <2>1. ASSUME f.told = "set" /\ f.mono = 16 PROVE Audio!Describe(2, f.sample, data)
    <3>1. 16 * f.sample * 4 <= f.data /\ f.data < 16 * (f.sample + 1) * 4
      BY <2>1 DEF Audio!CountsAgree, Audio!Describe
    <3>2. 2 * f.sample * 4 <= data /\ data < 2 * (f.sample + 1) * 4
      BY <1>1, <1>2, <3>1
    <3> QED BY <3>2 DEF Audio!Describe
  <2> QED BY <1>3, <2>1
<1>10. data <= f.total
  BY <1>1, <1>2
<1>11. Audio!CountsAgree(g)
  BY <1>3, <1>7, <1>8, <1>9, <1>10 DEF Audio!CountsAgree
<1> QED BY <1>4, <1>6, <1>11

LEMMA ChangedAgrees ==
  ASSUME NEW f \in AudioRecord, Audio!CountsAgree(f), NEW g \in Changed(f)
  PROVE  g \in AudioRecord /\ Audio!CountsAgree(g)
<1>1. f.mono \in Nat \ {0} /\ f.sample \in Nat
  BY DEF AudioRecord
<1>2. MonoCnts \subseteq Nat \ {0} /\ SampleCnts \subseteq Nat /\ Sizes \subseteq Nat
  BY CapturePoolAssumption
<1>3. ASSUME NEW cnt \in MonoCnts, g = Audio!SetMonoCnt(f, cnt)
      PROVE  g \in AudioRecord /\ Audio!CountsAgree(g)
  <2>1. PICK r : r = [f EXCEPT !.mono = cnt, !.told = "set"]
    OBVIOUS
  <2>2. r = [f EXCEPT !.mono = cnt, !.sample = f.sample, !.told = "set"]
    BY <2>1 DEF AudioRecord
  <2>3. PICK size : size = cnt * f.sample * 4
    OBVIOUS
  <2>4. g = IF size # f.data THEN Audio!setBufferSize(r, size) ELSE r
    BY <1>3, <2>1, <2>3 DEF Audio!SetMonoCnt
  <2> QED BY <1>1, <1>2, <2>2, <2>3, <2>4, SetCountAgrees
<1>4. ASSUME NEW cnt \in SampleCnts, g = Audio!SetSampleCnt(f, cnt)
      PROVE  g \in AudioRecord /\ Audio!CountsAgree(g)
  <2>1. PICK r : r = [f EXCEPT !.sample = cnt, !.told = "set"]
    OBVIOUS
  <2>2. r = [f EXCEPT !.mono = f.mono, !.sample = cnt, !.told = "set"]
    BY <2>1 DEF AudioRecord
  <2>3. PICK size : size = cnt * 4 * f.mono
    OBVIOUS
  <2>4. size = f.mono * cnt * 4
    BY <1>1, <1>2, <2>3
  <2>5. g = IF size # f.data THEN Audio!setBufferSize(r, size) ELSE r
    BY <1>4, <2>1, <2>3 DEF Audio!SetSampleCnt
  <2> QED BY <1>1, <1>2, <2>2, <2>4, <2>5, SetCountAgrees
<1>5. ASSUME NEW size \in Sizes, g = Audio!setBufferSize(f, size)
      PROVE  g \in AudioRecord /\ Audio!CountsAgree(g)
  BY <1>2, <1>5, SetBufferAgrees
<1>6. CASE g = Audio!trimStero(f)
  BY <1>6, TrimAgrees
<1> QED BY <1>3, <1>4, <1>5, <1>6 DEF Changed

LEMMA UseAudioInv ==
  ASSUME AudioPoolInv, AudioCounts, NEW t \in Threads, UseAudio(t)
  PROVE  AudioCounts'
<1>0. PICK o \in audioHeld[t] : \E f \in Changed(audio[o]) : audio' = [audio EXCEPT ![o] = f]
  BY DEF UseAudio
<1>1. PICK f \in Changed(audio[o]) : audio' = [audio EXCEPT ![o] = f]
  BY <1>0
<1>2. o \in 1 .. MaxObjects
  <2>1. o \in 1 .. audioMade /\ audioMade \in 0 .. MaxObjects
    BY DEF AudioPoolInv, AudioPool!TypeOK, AudioPool!Objects
  <2> QED BY <2>1, CapturePoolAssumption
<1>3. audio[o] \in AudioRecord /\ Audio!CountsAgree(audio[o])
  BY <1>2 DEF AudioCounts
<1>4. f \in AudioRecord /\ Audio!CountsAgree(f)
  BY <1>3, ChangedAgrees
<1>5. /\ audio' \in [1 .. MaxObjects -> AudioRecord] /\ audio'[o] = f
      /\ \A p \in 1 .. MaxObjects \ {o} : audio'[p] = audio[p]
  BY <1>1, <1>2, <1>4 DEF AudioCounts
<1>6. ASSUME NEW p \in 1 .. MaxObjects PROVE Audio!CountsAgree(audio'[p])
  <2>1. CASE p = o
    BY <1>4, <1>5, <2>1
  <2>2. CASE p # o
    BY <1>5, <2>2 DEF AudioCounts
  <2> QED BY <2>1, <2>2
<1> QED BY <1>5, <1>6 DEF AudioCounts, Audio!CountsAgree, Audio!Describe

-----------------------------------------------------------------------------

\* Trimming.  There is a least number in every set of numbers that has one: what
\* stands here for an induction on the samples.
LEMMA LeastNatural ==
  ASSUME NEW T, T \subseteq Nat, T # {}
  PROVE  \E x \in T : \A y \in T : x <= y
<1> DEFINE R == OpToRel(<, Nat)
<1>1. IsWellFoundedOn(R, Nat)
  BY NatLessThanWellFounded
<1>2. \A y, x \in Nat : y < x => <<y, x>> \in R
  BY DEF OpToRel
<1> HIDE DEF R
<1>3. PICK x \in T : \A y \in T : ~ (<<y, x>> \in R)
  BY <1>1, WFMin
<1>4. ASSUME NEW y \in T PROVE x <= y
  <2>1. x \in Nat /\ y \in Nat
    OBVIOUS
  <2>2. ~(y < x)
    BY <1>2, <1>3, <2>1
  <2> QED BY <2>1, <2>2
<1> QED BY <1>4

\* One turn of the loop of get2AudioCnl.
Moved(a, i, cn1, cn2) ==
  LET b == [a EXCEPT ![2 * (i - 1)] = a[16 * (i - 1) + cn1]]
  IN  [b EXCEPT ![2 * (i - 1) + 1] = b[16 * (i - 1) + cn2]]

\* The words after i turns: the pairs of the first i samples, then what was there.
Pairs(last, c, i) ==
  [k \in 0 .. last |-> IF k < 2 * i THEN 16 * (k \div 2) + 2 * c + (k % 2) ELSE k]

LEMMA Halves ==
  ASSUME NEW s \in Nat
  PROVE  /\ (2 * s) \div 2 = s /\ (2 * s) % 2 = 0
         /\ (2 * s + 1) \div 2 = s /\ (2 * s + 1) % 2 = 1
OBVIOUS

\* A turn reads two words that no turn before it has written.
LEMMA OneTurn ==
  ASSUME NEW last \in Nat, NEW c \in 0 .. 7, NEW s \in Nat, 16 * s + 15 <= last
  PROVE  Moved(Pairs(last, c, s), s + 1, 2 * c, 2 * c + 1) = Pairs(last, c, s + 1)
<1> DEFINE a == Pairs(last, c, s)
           b == [a EXCEPT ![2 * s] = 16 * s + 2 * c]
           d == [b EXCEPT ![2 * s + 1] = 16 * s + 2 * c + 1]
<1>1. /\ 2 * s \in 0 .. last /\ 2 * s + 1 \in 0 .. last
      /\ 16 * s + 2 * c \in 0 .. last /\ 16 * s + (2 * c + 1) \in 0 .. last
      /\ ~(16 * s + 2 * c < 2 * s) /\ ~(16 * s + (2 * c + 1) < 2 * s)
      /\ 16 * s + (2 * c + 1) # 2 * s /\ 16 * s + (2 * c + 1) = 16 * s + 2 * c + 1
  OBVIOUS
<1>2. /\ DOMAIN a = 0 .. last /\ a = [k \in 0 .. last |-> a[k]]
      /\ \A k \in 0 .. last : ~(k < 2 * s) => a[k] = k
  BY DEF Pairs
<1>3. a[16 * s + 2 * c] = 16 * s + 2 * c /\ a[16 * s + (2 * c + 1)] = 16 * s + 2 * c + 1
  BY <1>1, <1>2
<1> HIDE DEF a
<1>4. b[16 * s + (2 * c + 1)] = 16 * s + 2 * c + 1
  BY <1>1, <1>2, <1>3
<1>5. (s + 1) - 1 = s
  OBVIOUS
<1>6. Moved(a, s + 1, 2 * c, 2 * c + 1) = d
  BY <1>3, <1>4, <1>5 DEF Moved
<1>7. /\ d = [k \in 0 .. last |-> d[k]]
      /\ d[2 * s] = 16 * s + 2 * c /\ d[2 * s + 1] = 16 * s + 2 * c + 1
      /\ \A k \in 0 .. last : k # 2 * s /\ k # 2 * s + 1 => d[k] = a[k]
  <2>1. b = [k \in 0 .. last |-> IF k = 2 * s THEN 16 * s + 2 * c ELSE a[k]]
    BY <1>2
  <2>2. d = [k \in 0 .. last |-> IF k = 2 * s + 1 THEN 16 * s + 2 * c + 1 ELSE b[k]]
    BY <2>1
  <2> HIDE DEF b, d
  <2>3. 2 * s # 2 * s + 1
    OBVIOUS
  <2> QED BY <1>1, <2>1, <2>2, <2>3
<1> HIDE DEF b, d
<1>8. ASSUME NEW k \in 0 .. last PROVE d[k] = Pairs(last, c, s + 1)[k]
  <2>1. Pairs(last, c, s + 1)[k] = IF k < 2 * (s + 1) THEN 16 * (k \div 2) + 2 * c + (k % 2) ELSE k
    BY DEF Pairs
  <2>2. a[k] = IF k < 2 * s THEN 16 * (k \div 2) + 2 * c + (k % 2) ELSE k
    BY DEF Pairs, a
  <2>3. CASE k = 2 * s
    <3>1. k \div 2 = s /\ k % 2 = 0 /\ k < 2 * (s + 1)
      BY <2>3, Halves
    <3>2. d[k] = 16 * s + 2 * c
      BY <1>7, <2>3
    <3>3. Pairs(last, c, s + 1)[k] = 16 * s + 2 * c + 0
      BY <2>1, <3>1
    <3> QED BY <3>2, <3>3
  <2>4. CASE k = 2 * s + 1
    <3>1. k \div 2 = s /\ k % 2 = 1 /\ k < 2 * (s + 1)
      BY <2>4, Halves
    <3> QED BY <1>7, <2>1, <2>4, <3>1
  <2>5. CASE k < 2 * s
    <3>1. k < 2 * (s + 1) /\ k # 2 * s /\ k # 2 * s + 1
      BY <2>5
    <3>2. d[k] = a[k]
      BY <1>7, <3>1
    <3> QED BY <2>1, <2>2, <2>5, <3>1, <3>2
  <2>6. CASE k > 2 * s + 1
    <3>1. ~(k < 2 * (s + 1)) /\ ~(k < 2 * s) /\ k # 2 * s /\ k # 2 * s + 1
      BY <2>6
    <3>2. d[k] = a[k]
      BY <1>7, <3>1
    <3> QED BY <2>1, <2>2, <3>1, <3>2
  <2> QED BY <2>3, <2>4, <2>5, <2>6
<1>9. Pairs(last, c, s + 1) = [k \in 0 .. last |-> Pairs(last, c, s + 1)[k]]
  BY DEF Pairs
<1>10. d = Pairs(last, c, s + 1)
  BY <1>7, <1>8, <1>9
<1> QED BY <1>6, <1>10 DEF a

\* The loop is the function that makes one turn after the other.
LEMMA LoopIsPairs ==
  ASSUME NEW last \in Nat, NEW c \in 0 .. 7, NEW n \in Nat, 16 * n <= last,
         NEW buffer, buffer = [k \in 0 .. last |-> k]
  PROVE  Audio!get2AudioCnl(n, buffer, 2 * c, 2 * c + 1) = Pairs(last, c, n)
<1> DEFINE Loop(g) == g = [i \in 0 .. n |-> IF i = 0 THEN buffer ELSE Moved(g[i - 1], i, 2 * c, 2 * c + 1)]
           copied == CHOOSE g : Loop(g)
           pairs == [i \in 0 .. n |-> Pairs(last, c, i)]
<1>1. Audio!get2AudioCnl(n, buffer, 2 * c, 2 * c + 1) = copied[n]
  BY DEF Audio!get2AudioCnl, Moved
<1>2. Pairs(last, c, 0) = buffer
  BY DEF Pairs
<1>3. ASSUME NEW i \in 0 .. n, i # 0
      PROVE  Moved(Pairs(last, c, i - 1), i, 2 * c, 2 * c + 1) = Pairs(last, c, i)
  <2>1. i - 1 \in Nat /\ 16 * (i - 1) + 15 <= last /\ (i - 1) + 1 = i
    BY <1>3
  <2> QED BY <2>1, OneTurn
<1>4. Loop(pairs)
  <2>1. ASSUME NEW i \in 0 .. n
        PROVE  pairs[i] = IF i = 0 THEN buffer ELSE Moved(pairs[i - 1], i, 2 * c, 2 * c + 1)
    <3>1. CASE i = 0
      BY <1>2, <3>1
    <3>2. CASE i # 0
      <4>1. i - 1 \in 0 .. n
        BY <3>2
      <4>2. pairs[i - 1] = Pairs(last, c, i - 1) /\ pairs[i] = Pairs(last, c, i)
        BY <4>1
      <4> QED BY <1>3, <3>2, <4>2
    <3> QED BY <3>1, <3>2
  <2>2. pairs = [i \in 0 .. n |-> pairs[i]]
    OBVIOUS
  <2> HIDE DEF pairs
  <2> QED BY <2>1, <2>2
<1>5. Loop(copied)
  <2> HIDE DEF Loop, pairs
  <2> QED BY <1>4
<1>6. /\ copied[0] = buffer
      /\ \A i \in 0 .. n : i # 0 => copied[i] = Moved(copied[i - 1], i, 2 * c, 2 * c + 1)
  <2> HIDE DEF copied
  <2>1. \A i \in 0 .. n : copied[i] = IF i = 0 THEN buffer ELSE Moved(copied[i - 1], i, 2 * c, 2 * c + 1)
    BY <1>5
  <2> QED BY <2>1
<1> HIDE DEF copied, Loop, pairs
<1>7. \A i \in 0 .. n : copied[i] = Pairs(last, c, i)
  <2> SUFFICES ASSUME {i \in 0 .. n : copied[i] # Pairs(last, c, i)} # {} PROVE FALSE
    OBVIOUS
  <2> DEFINE T == {i \in 0 .. n : copied[i] # Pairs(last, c, i)}
  <2>1. PICK m \in T : \A y \in T : m <= y
    <3>1. T \subseteq Nat /\ T # {}
      OBVIOUS
    <3> HIDE DEF T
    <3> QED BY <3>1, LeastNatural
  <2>2. m \in 0 .. n /\ copied[m] # Pairs(last, c, m)
    OBVIOUS
  <2>3. m # 0
    BY <1>2, <1>6, <2>2
  <2>4. m - 1 \in 0 .. n /\ ~(m <= m - 1)
    BY <2>2, <2>3
  <2>5. copied[m - 1] = Pairs(last, c, m - 1)
    BY <2>1, <2>4
  <2>6. copied[m] = Moved(Pairs(last, c, m - 1), m, 2 * c, 2 * c + 1)
    BY <1>6, <2>2, <2>3, <2>5
  <2> QED BY <1>3, <2>2, <2>3, <2>6
<1> QED BY <1>1, <1>7

LEMMA TrimmingKeepsPair == ASSUME NEW f, f.data \in Nat PROVE Audio!TrimKeepsPair(f)
<1>1. PICK n \in Nat : n = f.data \div (16 * 4) /\ 64 * n <= f.data
  BY Quotient
<1>2. PICK last \in Nat : last = f.data \div 4 /\ f.data < 4 * last + 4
  BY Quotient
<1>3. 16 * n <= last
  BY <1>1, <1>2
<1>4. ASSUME NEW c \in 0 .. 7, NEW buffer, buffer = [k \in 0 .. last |-> k],
             NEW i \in 0 .. n - 1, NEW j \in 0 .. 1
      PROVE  Audio!get2AudioCnl(n, buffer, 2 * c, 2 * c + 1)[2 * i + j] = 16 * i + 2 * c + j
  <2>1. Audio!get2AudioCnl(n, buffer, 2 * c, 2 * c + 1) = Pairs(last, c, n)
    BY <1>3, <1>4, LoopIsPairs
  <2>2. 2 * i + j \in 0 .. last /\ 2 * i + j < 2 * n /\ i \in Nat
    BY <1>3
  <2>3. Pairs(last, c, n)[2 * i + j] = 16 * ((2 * i + j) \div 2) + 2 * c + ((2 * i + j) % 2)
    BY <2>2 DEF Pairs
  <2>4. (2 * i + j) \div 2 = i /\ (2 * i + j) % 2 = j
    BY <2>2, Halves
  <2>5. Pairs(last, c, n)[2 * i + j] = 16 * i + 2 * c + j
    BY <2>3, <2>4
  <2> QED BY <2>1, <2>5
<1> QED BY <1>1, <1>2, <1>4 DEF Audio!TrimKeepsPair

-----------------------------------------------------------------------------

\* The steps of the audio pool, and those that leave a part alone.
LEMMA VideoUnchanged ==
  ASSUME PoolInv, VideoInv, UNCHANGED <<poolVars, bufferSize, frame, ini, call, crashed, use>>
  PROVE  PoolInv' /\ VideoInv'
<1>1. UNCHANGED <<free, permits, made, held, waiting, bufferSize, frame, ini, call, crashed, use>>
  BY DEF poolVars
<1>2. CaptureTypes' /\ IniInv' /\ Alone'
  BY <1>1 DEF VideoInv, CaptureTypes, IniInv, Alone, Borrowing, Configured
<1>3. CallsInv' /\ Enough' /\ FramesFit'
  BY <1>1 DEF VideoInv, CallsInv, Enough, OneSizer, FramesFit
<1> QED BY <1>2, <1>3, PoolUnchanged DEF VideoInv

LEMMA CountsUnchanged == ASSUME AudioCounts, UNCHANGED audio PROVE AudioCounts'
BY DEF AudioCounts, Audio!CountsAgree, Audio!Describe

LEMMA AudioIdle ==
  ASSUME AudioPoolInv, AudioCounts, UNCHANGED audioVars
  PROVE  AudioPoolInv' /\ AudioCounts'
<1>1. UNCHANGED audio /\ UNCHANGED <<audioFree, audioPermits, audioMade, audioHeld>>
  BY DEF audioVars
<1> QED BY <1>1, AudioUnchanged, CountsUnchanged

\* The steps of initialize.
LEMMA initializeInv ==
  ASSUME CInv,
         \/ \E format \in use.formats, pix \in use.pixs, size \in PoolSizes : IniFill(format, pix, size)
         \/ IniDefault \/ IniCompute \/ IniTake \/ IniConfigure \/ IniPut
  PROVE  CInv'
<1>1. UNCHANGED audioVars
  BY DEF IniFill, IniDefault, IniCompute, IniTake, IniConfigure, IniPut
<1>2. AudioPoolInv' /\ AudioCounts'
  BY <1>1, AudioIdle DEF CInv
<1>3. Initializer \in Threads
  BY CapturePoolAssumption
<1>4. PoolInv'
  <2>1. ASSUME NEW format, NEW pix, NEW size \in PoolSizes, IniFill(format, pix, size)
        PROVE  PoolInv'
    BY <1>3, <2>1, PoolCalls DEF IniFill, CInv
  <2>2. CASE IniDefault \/ IniCompute \/ IniConfigure
    BY <2>2, PoolUnchanged DEF IniDefault, IniCompute, IniConfigure, CInv
  <2>3. CASE IniTake
    BY <1>3, <2>3, PoolCalls DEF IniTake, CInv
  <2>4. CASE IniPut
    <3>1. ini.elem \in held[Initializer]
      BY <2>4 DEF IniPut, CInv, VideoInv, IniInv, Borrowing
    <3>2. Pool!release(Initializer, ini.elem)
      BY <2>4 DEF IniPut
    <3> QED BY <1>3, <3>1, <3>2, PoolCalls DEF CInv
  <2> QED BY <2>1, <2>2, <2>3, <2>4
<1>5. VideoInv'
  BY IniFillVideo, IniSizeVideo, IniTakeVideo, IniConfigureVideo, IniPutVideo DEF CInv
<1> QED BY <1>2, <1>4, <1>5 DEF CInv

LEMMA IniReturnInv == ASSUME CInv, IniReturn PROVE CInv'
<1>1. UNCHANGED audio /\ UNCHANGED poolVars /\ AudioPool!initialize(ini.size) /\ ini.at = "take"
  BY DEF IniReturn
<1>2. ini.size \in PoolSizes /\ Initializer \in Threads
  BY <1>1, CapturePoolAssumption DEF CInv, VideoInv, IniInv
<1>3. AudioPoolInv'
  BY <1>1, <1>2, AudioPoolCalls DEF CInv
<1>4. AudioCounts'
  BY <1>1, CountsUnchanged DEF CInv
<1>5. PoolInv'
  BY <1>1, PoolUnchanged DEF CInv
<1>6. VideoInv'
  BY IniReturnVideo DEF CInv
<1> QED BY <1>3, <1>4, <1>5, <1>6 DEF CInv

\* The calls for video frames.
LEMMA VideoCallsInv ==
  ASSUME CInv, NEW t \in Threads,
         \/ \E format \in use.formats : t \in use.capturers /\ getNew(t, format)
         \/ LoadSize(t) \/ StoreSize(t) \/ SetSize(t)
         \/ \E u \in Threads : HandOver(t, u)
         \/ release(t) \/ waitDataEvent(t)
  PROVE  CInv'
<1>1. UNCHANGED audioVars
  BY DEF getNew, LoadSize, StoreSize, SetSize, HandOver, release, waitDataEvent
<1>2. AudioPoolInv' /\ AudioCounts'
  BY <1>1, AudioIdle DEF CInv
<1>3. PoolInv' /\ VideoInv'
  <2>1. CASE LoadSize(t) \/ StoreSize(t) \/ SetSize(t)
    <3>1. UNCHANGED poolVars
      BY <2>1 DEF LoadSize, StoreSize, SetSize
    <3>2. PoolInv'
      BY <3>1, PoolUnchanged DEF CInv
    <3> QED BY <2>1, <3>2, LoadSizeInv, StoreSizeInv, SetSizeInv DEF CInv
  <2>2. CASE \E format \in use.formats : t \in use.capturers /\ getNew(t, format)
    BY <2>2, getNewInv DEF CInv
  <2>3. CASE \E u \in Threads : HandOver(t, u)
    BY <2>3, HandOverInv DEF CInv
  <2>4. CASE release(t) \/ waitDataEvent(t)
    BY <2>4, releaseInv, waitDataEventInv DEF CInv
  <2> QED BY <2>1, <2>2, <2>3, <2>4
<1> QED BY <1>2, <1>3 DEF CInv

\* The calls for audio frames.
LEMMA AudioCallsInv ==
  ASSUME CInv, NEW t \in Threads, getNewAudio(t) \/ releaseAudio(t) \/ UseAudio(t)
  PROVE  CInv'
<1>1. UNCHANGED <<poolVars, bufferSize, frame, ini, call, crashed, use>>
  BY DEF getNewAudio, releaseAudio, UseAudio
<1>2. PoolInv' /\ VideoInv'
  BY <1>1, VideoUnchanged DEF CInv
<1>3. AudioPoolInv' /\ AudioCounts'
  <2>1. CASE getNewAudio(t) \/ releaseAudio(t)
    <3>1. UNCHANGED audio /\ (AudioPool!getNew(t) \/ AudioPool!releaseHeld(t))
      BY <2>1 DEF getNewAudio, releaseAudio
    <3> QED BY <3>1, AudioPoolCalls, CountsUnchanged DEF CInv
  <2>2. CASE UseAudio(t)
    <3>1. UNCHANGED <<audioFree, audioPermits, audioMade, audioHeld>>
      BY <2>2 DEF UseAudio
    <3> QED BY <2>2, <3>1, AudioUnchanged, UseAudioInv DEF CInv
  <2> QED BY <2>1, <2>2
<1> QED BY <1>2, <1>3 DEF CInv

-----------------------------------------------------------------------------

LEMMA PoolInit == Init => PoolInv /\ AudioPoolInv
<1> SUFFICES ASSUME Init PROVE PoolInv /\ AudioPoolInv
  OBVIOUS
<1>1. PoolFacts!Init /\ AudioPoolFacts!Init
  BY DEF Init, Pool!Init, PoolFacts!Init, AudioPool!Init, AudioPoolFacts!Init
<1>2. PoolFacts!IInv
  BY <1>1, PoolFacts!InitIInv, PoolConstants
<1>3. AudioPoolFacts!IInv
  BY <1>1, AudioPoolFacts!InitIInv, AudioPoolConstants
<1> QED BY <1>2, <1>3, PoolInvSame, AudioPoolInvSame

LEMMA InitInv == Init => CInv
<1> SUFFICES ASSUME Init PROVE CInv
  OBVIOUS
<1>1. PoolInv /\ AudioPoolInv
  BY PoolInit
<1>2. /\ free = <<>> /\ permits = 0 /\ made = 0 /\ held = [t \in Threads |-> {}]
      /\ waiting = [t \in Threads |-> "no"]
      /\ bufferSize = 0 /\ frame = [o \in 1 .. MaxObjects |-> Unsized]
      /\ call = [t \in Threads |-> NoCall] /\ crashed = FALSE /\ use \in Uses
      /\ audio = [o \in 1 .. MaxObjects |-> Audio!Constructed]
      /\ ini = [at |-> "fill", format |-> Unsized.format, pix |-> 0, size |-> 0, i |-> 0, elem |-> 0]
  BY DEF Init, Pool!Init
<1>3. Unsized \in FrameRecord /\ Unsized.format \in Formats
  BY CapturePoolAssumption DEF Unsized, FrameRecord
<1>4. NoCall \in CallRecord /\ NoCall.at = "idle"
  BY CapturePoolAssumption DEF NoCall, CallRecord
<1>5. ini \in IniRecord /\ ini.at = "fill" /\ ini.i = 0 /\ ini.size = 0
  BY <1>2, <1>3 DEF IniRecord, IniSteps
<1>6. CaptureTypes
  BY <1>2, <1>3, <1>4, <1>5 DEF CaptureTypes
<1>7. IniInv
  BY <1>2, <1>5, CapturePoolAssumption DEF IniInv, Borrowing
<1>8. Alone
  <2>1. DOMAIN free = {} /\ Len(free) = 0
    BY <1>2
  <2>2. permits = (IF made + ini.i <= MaxPermits THEN made + ini.i ELSE MaxPermits)
    BY <1>2, <1>5, CapturePoolAssumption
  <2> QED BY <1>2, <1>4, <1>5, <2>1, <2>2 DEF Alone, Borrowing
<1>9. CallsInv /\ Enough /\ FramesFit
  BY <1>5, <1>6, <1>7, <1>8, BeforeDone
<1>10. AudioCounts
  <2>1. PICK f : f = Audio!Constructed
    OBVIOUS
  <2>2. PICK total \in Nat : total = Samples * 16 * 4
    BY CapturePoolAssumption
  <2>3. f = [total |-> total, data |-> 0, mono |-> 16, sample |-> Samples, told |-> "nothing"]
    BY <2>1, <2>2 DEF Audio!Constructed
  <2>4. f \in AudioRecord /\ f.data = 0 /\ f.total = total /\ f.told = "nothing"
    BY <2>3, CapturePoolAssumption DEF AudioRecord
  <2>5. Audio!CountsAgree(f)
    BY <2>4 DEF Audio!CountsAgree
  <2> QED BY <1>2, <2>1, <2>4, <2>5 DEF AudioCounts
<1> QED BY <1>1, <1>6, <1>7, <1>8, <1>9, <1>10 DEF CInv, VideoInv

LEMMA CaptureInductive == Spec => []CInv
<1>1. CInv /\ [Next]_vars => CInv'
  <2> SUFFICES ASSUME CInv, [Next]_vars PROVE CInv'
    OBVIOUS
  <2>1. use.capturers \subseteq Threads
    BY UseOf DEF CInv, VideoInv
  <2>2. CASE \E format \in use.formats, pix \in use.pixs, size \in PoolSizes : IniFill(format, pix, size)
    BY <2>2, initializeInv
  <2>3. CASE IniDefault \/ IniCompute \/ IniTake \/ IniConfigure \/ IniPut
    BY <2>3, initializeInv
  <2>4. CASE IniReturn
    BY <2>4, IniReturnInv
  <2>5. CASE \E t \in use.capturers, format \in use.formats : use.kind = "video" /\ getNew(t, format)
    BY <2>1, <2>5, VideoCallsInv
  <2>6. CASE \E t \in use.capturers : LoadSize(t) \/ StoreSize(t) \/ SetSize(t)
    BY <2>1, <2>6, VideoCallsInv
  <2>7. CASE \E t, u \in Threads : HandOver(t, u)
    BY <2>7, VideoCallsInv
  <2>8. CASE \E t \in Threads : release(t) \/ (use.kind = "video" /\ waitDataEvent(t))
    BY <2>8, VideoCallsInv
  <2>9. CASE \E t \in use.capturers : use.kind = "audio" /\ (getNewAudio(t) \/ UseAudio(t))
    BY <2>1, <2>9, AudioCallsInv
  <2>10. CASE \E t \in Threads : releaseAudio(t)
    BY <2>10, AudioCallsInv
  <2>11. CASE UNCHANGED vars
    <3>1. UNCHANGED audioVars /\ UNCHANGED <<poolVars, bufferSize, frame, ini, call, crashed, use>>
      BY <2>11 DEF vars
    <3> QED BY <3>1, VideoUnchanged, AudioIdle DEF CInv
  <2> QED BY <2>2, <2>3, <2>4, <2>5, <2>6, <2>7, <2>8, <2>9, <2>10, <2>11 DEF Next
<1> QED BY <1>1, InitInv, PTL DEF Spec

\* Both pools keep their promises through every call of CapturePoolMgr, to
\* whichever thread the frames pass (CapturePoolMgr.cpp:15-42).
THEOREM AlwaysKeepsPromises == Spec => []PoolPromisesKept
<1>1. CInv => PoolPromisesKept
  BY DEF CInv, PoolInv, AudioPoolInv, PoolPromisesKept
<1> QED BY <1>1, CaptureInductive, PTL

\* Only a pool whose every frame was taken by callers that came early gives
\* initialize a null frame (CapturePoolMgr.cpp:30-40).
THEOREM NullOnlyWhenDrained == Spec => []NullFrameOnlyWhenDrained
<1>1. CInv => NullFrameOnlyWhenDrained
  <2> SUFFICES ASSUME CInv, crashed
               PROVE  use.early /\ Pool!Objects = UNION {held[t] : t \in Threads \ {Initializer}}
    BY DEF NullFrameOnlyWhenDrained
  <2>1. use.early /\ free = <<>> /\ held[Initializer] = {}
    BY DEF CInv, VideoInv, IniInv, Borrowing
  <2>2. ASSUME NEW o \in Pool!Objects PROVE \E t \in Threads \ {Initializer} : o \in held[t]
    <3>1. DOMAIN free = {}
      BY <2>1
    <3>2. PICK t \in Threads : o \in held[t]
      BY <3>1 DEF CInv, PoolInv, Pool!ObjectsConserved
    <3>3. t # Initializer
      BY <2>1, <3>2
    <3> QED BY <3>2, <3>3
  <2>3. \A t \in Threads : held[t] \subseteq Pool!Objects
    BY DEF CInv, PoolInv, Pool!TypeOK
  <2> QED BY <2>1, <2>2, <2>3
<1> QED BY <1>1, CaptureInductive, PTL

\* A pool nobody was let at is configured, every frame of it, when initialize
\* returns (CapturePoolMgr.cpp:17, 30-40).
THEOREM AlwaysReady == Spec => []ReadyAfterInitialize
<1>1. CInv => ReadyAfterInitialize
  <2> SUFFICES ASSUME CInv, ini.at = "take", ini.i = ini.size, ~use.early
               PROVE  /\ \A o \in Pool!Objects : frame[o].alloc > 0 /\ frame[o].format = ini.format
                      /\ Len(free) = made
                      /\ permits = (IF 2 * made <= MaxPermits THEN 2 * made ELSE MaxPermits)
    BY DEF ReadyAfterInitialize
  <2>1. /\ made = ini.size /\ ini.size \in Nat /\ held[Initializer] = {}
    BY DEF CInv, VideoInv, CaptureTypes, IniInv, IniRecord, Borrowing
  <2>2. /\ \A t \in Threads \ {Initializer} : held[t] = {}
        /\ Len(free) = made
        /\ \A k \in DOMAIN free : k > Len(free) - ini.i => Configured(frame[free[k]], ini.format)
        /\ permits = (IF made + ini.i <= MaxPermits THEN made + ini.i ELSE MaxPermits)
    BY DEF CInv, VideoInv, Alone, Borrowing
  <2>3. DOMAIN free = 1 .. Len(free)
    BY DEF CInv, PoolInv, Pool!TypeOK
  <2>4. ASSUME NEW o \in Pool!Objects PROVE frame[o].alloc > 0 /\ frame[o].format = ini.format
    <3>1. PICK k \in DOMAIN free : free[k] = o
      BY <2>1, <2>2 DEF CInv, PoolInv, Pool!ObjectsConserved
    <3>2. k > Len(free) - ini.i
      BY <2>1, <2>2, <2>3, <3>1
    <3> QED BY <2>2, <3>1, <3>2 DEF Configured
  <2>5. made + ini.i = 2 * made
    BY <2>1
  <2> QED BY <2>2, <2>4, <2>5
<1> QED BY <1>1, CaptureInductive, PTL

\* The unguarded shared size is enough for every frame a caller works on, if
\* frames are sized by one thread or for one format (CapturePoolMgr.cpp:44-61).
THEOREM FramesAlwaysFit == Spec => []FramesFit
BY CaptureInductive, PTL DEF CInv, VideoInv

\* The counts of an audio frame agree with its data in whichever state the last
\* user left it, and trimming keeps the pair asked for, for data of any length
\* (audioFrame.cpp:46-60, 82-96, 118-126).
THEOREM AudioCountsAlwaysAgree == Spec => []AudioCountsAgree
<1>1. CInv => AudioCountsAgree
  <2> SUFFICES ASSUME CInv, NEW o \in AudioPool!Objects
               PROVE  Audio!CountsAgree(audio[o]) /\ Audio!TrimKeepsPair(audio[o])
    BY DEF AudioCountsAgree
  <2>1. o \in 1 .. MaxObjects
    <3>1. o \in 1 .. audioMade /\ audioMade \in 0 .. MaxObjects
      BY DEF CInv, AudioPoolInv, AudioPool!TypeOK, AudioPool!Objects
    <3> QED BY <3>1, CapturePoolAssumption
  <2>2. audio[o] \in AudioRecord /\ Audio!CountsAgree(audio[o])
    BY <2>1 DEF CInv, AudioCounts
  <2>3. audio[o].data \in Nat
    BY <2>2 DEF AudioRecord
  <2> QED BY <2>2, <2>3, TrimmingKeepsPair
<1> QED BY <1>1, CaptureInductive, PTL
=============================================================================
