--------------------------- MODULE MainLoopProofs ---------------------------
(***************************************************************************)
(* Proofs about FFmpegDecode, for any inputs, any answers of FFmpeg and    *)
(* any number of pictures: what main2 owns when it returns, what a good    *)
(* picture means, and what a crash in the decoder needs.  And about main,  *)
(* for any file, height and verdicts: what it saves, and that the names,   *)
(* the markers and the time codes of what it saves tell the same number.   *)
(***************************************************************************)
EXTENDS MainLoop, TLAPS

\* The calls of main2 that may fail, and those it goes on after.
Failures == {"alloc", "buffer", "avio", "open", "probe", "check", "codec", "frame", "pkt",
             "read", "send", "receive", "flush"}
PassedOver == {"codec", "read", "flush"}

Calls == [n : Nat, found : BOOLEAN, failed : SUBSET Failures, decoded : BOOLEAN,
          everFound : BOOLEAN, avioFailed : BOOLEAN, leaked : BOOLEAN]

TypeOK ==
  /\ at \in {"idle", "alloc", "buffer", "avio", "open", "probe", "check", "codec", "stream",
             "frame", "pkt", "read", "send", "receive", "flush", "end", "crashed"}
  /\ dec_ctx \in {"null", "alloc", "open"} /\ stream \in {"null", "live", "dangling"}
  /\ avio \in {"null", "buffer", "context"} /\ ret \in Int
  /\ frame \in BOOLEAN /\ pkt \in BOOLEAN
  /\ call \in Calls

\* Between two pictures nothing is allocated.
IdleOwnsNothing ==
  at = "idle" => dec_ctx = "null" /\ fmt_ctx = "null" /\ ~frame /\ ~pkt /\ avio = "null"

\* A bare I/O buffer reaches end only when avio_alloc_context failed.
LeakIsBuffer ==
  /\ call.leaked => call.avioFailed
  /\ avio = "buffer" => at = "avio" \/ (at = "end" /\ call.avioFailed)

\* From any other failure main2 goes to end, or to the flush before it, with ret
\* set.
FailureEndsTheCall ==
  call.failed \subseteq PassedOver \/ (at \in {"end", "idle", "flush"} /\ ret # 0)

\* A picture with a stream of its own has its decoder open until the packets
\* are read, and one without gets past the test only with a stream left over.
StreamAndDecoder ==
  /\ at \in {"alloc", "buffer", "avio", "open", "probe", "check", "codec"}
       => ~call.found /\ ~call.decoded /\ call.failed = {} /\ dec_ctx = "null"
  /\ at \in {"stream", "frame", "pkt", "read", "send", "receive"} /\ call.found
       => dec_ctx = "open"
  /\ stream # "null" => call.everFound
  /\ at \in {"frame", "pkt", "read", "send", "receive"} => stream # "null"

\* Without its codec a picture decodes nothing, and gets past the test for a
\* stream only with that of an earlier picture.
CodecFailed ==
  "codec" \in call.failed =>
    /\ ~call.found /\ ~call.decoded /\ dec_ctx # "open"
    /\ call.everFound \/ at = "stream" \/ (at \in {"end", "idle"} /\ ret # 0)

DecoderInv ==
  /\ TypeOK /\ IdleOwnsNothing /\ LeakIsBuffer
  /\ FailureEndsTheCall /\ StreamAndDecoder /\ CodecFailed /\ CrashNeedsStaleStream

-----------------------------------------------------------------------------

LEMMA DecoderInit == Init => DecoderInv
<1> SUFFICES ASSUME Init PROVE DecoderInv
  OBVIOUS
<1>1. call \in Calls /\ ~call.found /\ ~call.decoded /\ call.failed = {} /\ ~call.leaked
  BY DEF Init, NoCall, Calls
<1>2. /\ ~frame /\ ~pkt /\ frame \in BOOLEAN /\ pkt \in BOOLEAN
      /\ at = "idle" /\ dec_ctx = "null" /\ stream = "null" /\ fmt_ctx = "null"
      /\ avio = "null" /\ ret = 0
  BY DEF Init
<1> QED
  BY <1>1, <1>2 DEF DecoderInv, TypeOK, IdleOwnsNothing, LeakIsBuffer, FailureEndsTheCall,
     StreamAndDecoder, CodecFailed, PassedOver, CrashNeedsStaleStream

\* What a failure changes of the record of the call.
LEMMA FailsCall ==
  ASSUME call \in Calls, NEW what \in Failures, Fails(what)
  PROVE  /\ call' \in Calls /\ call'.failed = call.failed \cup {what}
         /\ call'.found = call.found /\ call'.everFound = call.everFound
         /\ call'.decoded = call.decoded
         /\ call'.avioFailed = call.avioFailed /\ call'.leaked = call.leaked
BY DEF Fails, Calls

\* A call begins with nothing found and nothing failed.
LEMMA Main2KeepsInv ==
  ASSUME DecoderInv, NEW size, Main2(size)
  PROVE  DecoderInv'
<1>1. /\ call' \in Calls /\ ~call'.found /\ ~call'.decoded /\ call'.failed = {}
      /\ call'.everFound = call.everFound /\ call'.avioFailed = call.avioFailed
      /\ call'.leaked = call.leaked
  <2>1. call' = [call EXCEPT !.n = @ + 1, !.found = FALSE, !.failed = {}, !.decoded = FALSE]
    BY DEF Main2
  <2>2. call \in Calls /\ call.n + 1 \in Nat
    BY DEF DecoderInv, TypeOK, Calls
  <2>3. \A m \in Nat : [call EXCEPT !.n = m, !.found = FALSE, !.failed = {}, !.decoded = FALSE] \in Calls
    BY <2>2 DEF Calls
  <2> QED BY <2>1, <2>2, <2>3 DEF Calls
<1>2. /\ at = "idle" /\ at' = "alloc" /\ ret' = 0
      /\ UNCHANGED <<members, fmt_ctx, avio>>
  BY DEF Main2, Goto
<1> QED
  BY <1>1, <1>2 DEF members, DecoderInv, TypeOK, IdleOwnsNothing, LeakIsBuffer,
     FailureEndsTheCall, StreamAndDecoder, CodecFailed, PassedOver, CrashNeedsStaleStream

\* An allocation that fails goes to end with ENOMEM, wherever it is.
LEMMA AllocFailsKeepsInv ==
  ASSUME DecoderInv, NEW from \in {"alloc", "buffer", "frame", "pkt"}, AllocFails(from)
  PROVE  DecoderInv'
<1>1. at = from /\ at' = "end" /\ ret' = -12 /\ Fails(from) /\ UNCHANGED <<members, fmt_ctx, avio>>
  BY DEF AllocFails, Goto, ENOMEM
<1> QED
  BY <1>1, FailsCall DEF Failures, members, DecoderInv, TypeOK, IdleOwnsNothing, LeakIsBuffer,
     FailureEndsTheCall, StreamAndDecoder, CodecFailed, PassedOver, CrashNeedsStaleStream

LEMMA AllocKeepsInv ==
  ASSUME DecoderInv, AllocFormat \/ AllocBuffer \/ AllocAvio \/ AllocFrame \/ AllocPacket
  PROVE  DecoderInv'
<1>1. CASE \E from \in {"alloc", "buffer", "frame", "pkt"} : AllocFails(from)
  BY <1>1, AllocFailsKeepsInv
<1>2. CASE AllocFormat /\ ~AllocFails("alloc")
  BY <1>2 DEF AllocFormat, Goto, members, DecoderInv, TypeOK, IdleOwnsNothing, LeakIsBuffer,
     FailureEndsTheCall, StreamAndDecoder, CodecFailed, PassedOver, CrashNeedsStaleStream
<1>3. CASE AllocBuffer /\ ~AllocFails("buffer")
  BY <1>3 DEF AllocBuffer, Goto, members, DecoderInv, TypeOK, IdleOwnsNothing, LeakIsBuffer,
     FailureEndsTheCall, StreamAndDecoder, CodecFailed, PassedOver, CrashNeedsStaleStream
<1>4. CASE AllocAvio
  <2>1. CASE Goto("avio", "open") /\ avio' = "context" /\ UNCHANGED <<members, fmt_ctx, ret, call>>
    BY <2>1 DEF Goto, members, DecoderInv, TypeOK, IdleOwnsNothing, LeakIsBuffer,
       FailureEndsTheCall, StreamAndDecoder, CodecFailed, PassedOver, CrashNeedsStaleStream
  <2>2. CASE /\ Goto("avio", "end") /\ ret' = ENOMEM
             /\ call' = [call EXCEPT !.failed = @ \cup {"avio"}, !.avioFailed = TRUE]
             /\ UNCHANGED <<members, fmt_ctx, avio, input, log>>
    <3>1. /\ call' \in Calls /\ call'.failed = call.failed \cup {"avio"} /\ call'.avioFailed
          /\ call'.found = call.found /\ call'.everFound = call.everFound
          /\ call'.decoded = call.decoded
      <4>1. call \in Calls /\ call.failed \cup {"avio"} \in SUBSET Failures
        BY DEF DecoderInv, TypeOK, Calls, Failures
      <4> QED BY <2>2, <4>1 DEF Calls
    <3>2. at = "avio" /\ at' = "end" /\ ret' = -12 /\ UNCHANGED <<members, fmt_ctx, avio>>
      BY <2>2 DEF Goto, ENOMEM
    <3> QED
      BY <3>1, <3>2 DEF members, DecoderInv, TypeOK, IdleOwnsNothing, LeakIsBuffer,
         FailureEndsTheCall, StreamAndDecoder, CodecFailed, PassedOver, CrashNeedsStaleStream
  <2> QED BY <1>4, <2>1, <2>2 DEF AllocAvio
<1>5. CASE AllocFrame /\ ~AllocFails("frame")
  BY <1>5 DEF AllocFrame, Goto, DecoderInv, TypeOK, IdleOwnsNothing, LeakIsBuffer,
     FailureEndsTheCall, StreamAndDecoder, CodecFailed, PassedOver, CrashNeedsStaleStream
<1>6. CASE AllocPacket /\ ~AllocFails("pkt")
  BY <1>6 DEF AllocPacket, Goto, DecoderInv, TypeOK, IdleOwnsNothing, LeakIsBuffer,
     FailureEndsTheCall, StreamAndDecoder, CodecFailed, PassedOver, CrashNeedsStaleStream
<1> QED BY <1>1, <1>2, <1>3, <1>4, <1>5, <1>6

\* Opening and probing the input, up to the test of bError.
LEMMA InputKeepsInv ==
  ASSUME DecoderInv, read_packet \/ OpenInput \/ FindStreamInfo \/ CheckError
  PROVE  DecoderInv'
<1>1. CASE read_packet
  BY <1>1 DEF read_packet, members, DecoderInv, TypeOK, IdleOwnsNothing, LeakIsBuffer,
     FailureEndsTheCall, StreamAndDecoder, CodecFailed, PassedOver, CrashNeedsStaleStream
<1>2. CASE OpenInput
  <2>1. CASE Goto("open", "probe") /\ UNCHANGED <<ret, call>>
    BY <1>2, <2>1 DEF OpenInput, Goto, members, DecoderInv, TypeOK, IdleOwnsNothing,
       LeakIsBuffer, FailureEndsTheCall, StreamAndDecoder, CodecFailed, PassedOver, CrashNeedsStaleStream
  <2>2. CASE Goto("open", "end") /\ ret' = EINVAL /\ Fails("open")
    <3>1. at = "open" /\ at' = "end" /\ ret' = -22 /\ UNCHANGED <<members, avio>>
      BY <1>2, <2>2 DEF OpenInput, Goto, EINVAL
    <3> QED
      BY <2>2, <3>1, FailsCall DEF Failures, members, DecoderInv, TypeOK, IdleOwnsNothing, LeakIsBuffer,
         FailureEndsTheCall, StreamAndDecoder, CodecFailed, PassedOver, CrashNeedsStaleStream
  <2> QED BY <1>2, <2>1, <2>2 DEF OpenInput
<1>3. CASE FindStreamInfo
  <2>1. CASE Goto("probe", "check") /\ ret' \in {0, 1} /\ UNCHANGED call
    BY <1>3, <2>1 DEF FindStreamInfo, Goto, members, DecoderInv, TypeOK, IdleOwnsNothing,
       LeakIsBuffer, FailureEndsTheCall, StreamAndDecoder, CodecFailed, PassedOver, CrashNeedsStaleStream
  <2>2. CASE Goto("probe", "end") /\ ret' = EINVAL /\ Fails("probe")
    <3>1. at = "probe" /\ at' = "end" /\ ret' = -22 /\ UNCHANGED <<members, avio>>
      BY <1>3, <2>2 DEF FindStreamInfo, Goto, EINVAL
    <3> QED
      BY <2>2, <3>1, FailsCall DEF Failures, members, DecoderInv, TypeOK, IdleOwnsNothing, LeakIsBuffer,
         FailureEndsTheCall, StreamAndDecoder, CodecFailed, PassedOver, CrashNeedsStaleStream
  <2> QED BY <1>3, <2>1, <2>2 DEF FindStreamInfo
<1>4. CASE CheckError
  <2>1. CASE Goto("check", "codec") /\ UNCHANGED <<ret, call>>
    BY <1>4, <2>1 DEF CheckError, Goto, members, DecoderInv, TypeOK, IdleOwnsNothing,
       LeakIsBuffer, FailureEndsTheCall, StreamAndDecoder, CodecFailed, PassedOver, CrashNeedsStaleStream
  <2>2. CASE Goto("check", "end") /\ ret' = LogFound /\ Fails("check")
    <3>1. at = "check" /\ at' = "end" /\ ret' = -99999 /\ UNCHANGED <<members, avio>>
      BY <1>4, <2>2 DEF CheckError, Goto, LogFound
    <3> QED
      BY <2>2, <3>1, FailsCall DEF Failures, members, DecoderInv, TypeOK, IdleOwnsNothing, LeakIsBuffer,
         FailureEndsTheCall, StreamAndDecoder, CodecFailed, PassedOver, CrashNeedsStaleStream
  <2> QED BY <1>4, <2>1, <2>2 DEF CheckError
<1> QED BY <1>1, <1>2, <1>3, <1>4

\* The stream and its decoder.
LEMMA CodecKeepsInv ==
  ASSUME DecoderInv, OpenCodecFails \/ OpenCodec \/ CheckStream
  PROVE  DecoderInv'
<1>1. CASE OpenCodecFails
  <2>1. /\ at = "codec" /\ at' = "stream" /\ Fails("codec")
        /\ dec_ctx' \in {dec_ctx, "null", "alloc"}
        /\ UNCHANGED <<stream, stream_idx, frame, pkt, fmt_ctx, avio, ret>>
    BY <1>1 DEF OpenCodecFails, Goto
  <2>2. dec_ctx' \in {"null", "alloc"} /\ ~call.found /\ ~call.decoded /\ call.failed = {}
    BY <2>1 DEF DecoderInv, StreamAndDecoder
  <2> QED
    BY <2>1, <2>2, FailsCall DEF Failures, DecoderInv, TypeOK, IdleOwnsNothing, LeakIsBuffer,
       FailureEndsTheCall, StreamAndDecoder, CodecFailed, PassedOver, CrashNeedsStaleStream
<1>2. CASE OpenCodec
  BY <1>2 DEF OpenCodec, Goto, DecoderInv, TypeOK, Calls, Failures, IdleOwnsNothing, LeakIsBuffer,
     FailureEndsTheCall, StreamAndDecoder, CodecFailed, PassedOver, CrashNeedsStaleStream
<1>3. CASE CheckStream
  BY <1>3 DEF CheckStream, Goto, members, DecoderInv, TypeOK, IdleOwnsNothing, LeakIsBuffer,
     FailureEndsTheCall, StreamAndDecoder, CodecFailed, PassedOver, CrashNeedsStaleStream
<1> QED BY <1>1, <1>2, <1>3

\* Packets and frames.
LEMMA DecodeKeepsInv ==
  ASSUME DecoderInv, ReadFrame \/ SendPacket \/ ReceiveFrame
  PROVE  DecoderInv'
<1>1. CASE ReadFrame
  <2>1. CASE at' \in {"send", "read"} /\ UNCHANGED <<ret, call>>
    BY <1>1, <2>1 DEF ReadFrame, Goto, members, DecoderInv, TypeOK, IdleOwnsNothing, LeakIsBuffer,
       FailureEndsTheCall, StreamAndDecoder, CodecFailed, PassedOver, CrashNeedsStaleStream
  <2>2. CASE Goto("read", "flush") /\ Fails("read")
    <3>1. at = "read" /\ at' = "flush" /\ UNCHANGED <<members, fmt_ctx, avio, ret>>
      BY <1>1, <2>2 DEF ReadFrame, Goto
    <3> QED
      BY <2>2, <3>1, FailsCall DEF Failures, members, DecoderInv, TypeOK, IdleOwnsNothing, LeakIsBuffer,
         FailureEndsTheCall, StreamAndDecoder, CodecFailed, PassedOver, CrashNeedsStaleStream
  <2>3. CASE Goto("read", "flush") /\ UNCHANGED call
    BY <1>1, <2>3 DEF ReadFrame, Goto, members, DecoderInv, TypeOK, IdleOwnsNothing, LeakIsBuffer,
       FailureEndsTheCall, StreamAndDecoder, CodecFailed, PassedOver, CrashNeedsStaleStream
  <2> QED BY <1>1, <2>1, <2>2, <2>3 DEF ReadFrame
<1>2. CASE SendPacket
  <2>1. CASE dec_ctx = "null" /\ at' = "crashed" /\ UNCHANGED <<ready, ret, call>>
    BY <1>2, <2>1 DEF SendPacket, members, DecoderInv, TypeOK, IdleOwnsNothing, LeakIsBuffer,
       FailureEndsTheCall, StreamAndDecoder, CodecFailed, PassedOver, CrashNeedsStaleStream
  <2>2. CASE at' = "flush" /\ ret' = EINVAL /\ Fails("send")
    <3>1. at = "send" /\ ret' = -22 /\ UNCHANGED <<members, fmt_ctx, avio>>
      BY <1>2, <2>2 DEF SendPacket, EINVAL
    <3> QED
      BY <2>2, <3>1, FailsCall DEF Failures, members, DecoderInv, TypeOK, IdleOwnsNothing, LeakIsBuffer,
         FailureEndsTheCall, StreamAndDecoder, CodecFailed, PassedOver, CrashNeedsStaleStream
  <2>3. CASE dec_ctx = "open" /\ at' = "receive" /\ call' = [call EXCEPT !.decoded = TRUE] /\ UNCHANGED ret
    <3>1. /\ call' \in Calls /\ call'.failed = call.failed /\ call'.found = call.found
          /\ call'.everFound = call.everFound /\ call'.avioFailed = call.avioFailed
          /\ call'.leaked = call.leaked
      BY <2>3 DEF DecoderInv, TypeOK, Calls
    <3>2. at = "send" /\ UNCHANGED <<members, fmt_ctx, avio>>
      BY <1>2 DEF SendPacket
    <3>3. "codec" \notin call.failed
      BY <2>3 DEF DecoderInv, CodecFailed
    <3> QED
      BY <2>3, <3>1, <3>2, <3>3 DEF members, DecoderInv, TypeOK, IdleOwnsNothing, LeakIsBuffer,
         FailureEndsTheCall, StreamAndDecoder, CodecFailed, PassedOver, CrashNeedsStaleStream
  <2> QED BY <1>2, <2>1, <2>2, <2>3 DEF SendPacket
<1>3. CASE ReceiveFrame
  <2>1. CASE GoodFrame \/ NoMoreFrames
    BY <1>3, <2>1 DEF ReceiveFrame, GoodFrame, NoMoreFrames, Goto, members, DecoderInv, TypeOK,
       IdleOwnsNothing, LeakIsBuffer, FailureEndsTheCall, StreamAndDecoder,
       CodecFailed, PassedOver, CrashNeedsStaleStream
  <2>2. CASE BadFrame
    <3>1. /\ at = "receive" /\ at' = "flush" /\ ret' = -1 /\ Fails("receive")
          /\ UNCHANGED <<members, fmt_ctx, avio>>
      BY <1>3, <2>2 DEF ReceiveFrame, BadFrame, Goto
    <3> QED
      BY <3>1, FailsCall DEF Failures, members, DecoderInv, TypeOK, IdleOwnsNothing, LeakIsBuffer,
         FailureEndsTheCall, StreamAndDecoder, CodecFailed, PassedOver, CrashNeedsStaleStream
  <2> QED BY <1>3, <2>1, <2>2 DEF ReceiveFrame
<1> QED BY <1>1, <1>2, <1>3

\* The flush and the clean-up after every goto.
LEMMA EndKeepsInv ==
  ASSUME DecoderInv, Flush \/ End
  PROVE  DecoderInv'
<1>1. CASE Flush
  <2>1. at = "flush" /\ at' = "end" /\ UNCHANGED <<members, fmt_ctx, avio, ret>>
    BY <1>1 DEF Flush, Goto
  <2>2. CASE UNCHANGED call
    BY <2>1, <2>2 DEF members, DecoderInv, TypeOK, IdleOwnsNothing, LeakIsBuffer,
       FailureEndsTheCall, StreamAndDecoder, CodecFailed, PassedOver, CrashNeedsStaleStream
  <2>3. CASE Fails("flush")
    BY <2>1, <2>3, FailsCall DEF Failures, members, DecoderInv, TypeOK, IdleOwnsNothing, LeakIsBuffer,
       FailureEndsTheCall, StreamAndDecoder, CodecFailed, PassedOver, CrashNeedsStaleStream
  <2> QED BY <1>1, <2>2, <2>3 DEF Flush
<1>2. CASE End
  BY <1>2 DEF End, Return, Goto, DecoderInv, TypeOK, Calls, Failures, IdleOwnsNothing, LeakIsBuffer,
     FailureEndsTheCall, StreamAndDecoder, CodecFailed, PassedOver, CrashNeedsStaleStream
<1> QED BY <1>1, <1>2

-----------------------------------------------------------------------------

LEMMA DecoderNext == DecoderInv /\ [Next]_vars => DecoderInv'
<1> SUFFICES ASSUME DecoderInv, [Next]_vars PROVE DecoderInv'
  OBVIOUS
<1>1. ASSUME NEW size \in 1 .. MaxData, Main2(size) PROVE DecoderInv'
  BY <1>1, Main2KeepsInv
<1>2. CASE Step
  BY <1>2, AllocKeepsInv, InputKeepsInv, CodecKeepsInv, DecodeKeepsInv, EndKeepsInv DEF Step
<1>3. CASE UNCHANGED vars
  BY <1>3 DEF vars, members, DecoderInv, TypeOK, IdleOwnsNothing, LeakIsBuffer,
     FailureEndsTheCall, StreamAndDecoder, CodecFailed, PassedOver, CrashNeedsStaleStream
<1> QED BY <1>1, <1>2, <1>3 DEF Next

LEMMA DecoderInductive == Spec => []DecoderInv
BY DecoderInit, DecoderNext, PTL DEF Spec

LEMMA DecoderInvSuffices == DecoderInv => ReleasedOnReturn /\ GoodMeansNoFailure /\ CrashNeedsStaleStream
BY DEF DecoderInv, IdleOwnsNothing, LeakIsBuffer, FailureEndsTheCall, ReleasedOnReturn,
       CodecFailed, PassedOver, GoodMeansNoFailure, Returned

\* Whichever goto of main2 is taken, on any input and with any answers of
\* FFmpeg, the call returns owning nothing, and only a failed
\* avio_alloc_context leaks (ffmpegDecoder.h:332-349).
THEOREM ReleasedOnEveryReturn == Spec => []ReleasedOnReturn
BY DecoderInvSuffices, DecoderInductive, PTL

\* However many pictures were judged before it, a picture called good met no
\* failure but a codec that did not open, an error that ended the reading, or one
\* of the flush; and if its codec did not open, nothing of it was decoded and the
\* stream was that of an earlier picture (ffmpegDecoder.h:79-115, 236-330).
THEOREM GoodAlwaysMeansNoFailure == Spec => []GoodMeansNoFailure
BY DecoderInvSuffices, DecoderInductive, PTL

\* The decoder is reached through a null context only by a picture without a
\* stream that meets the index of an earlier one (ffmpegDecoder.h:53, 317-321).
THEOREM CrashAlwaysNeedsStaleStream == Spec => []CrashNeedsStaleStream
BY DecoderInvSuffices, DecoderInductive, PTL
-----------------------------------------------------------------------------

\* The time code of main, which counts at 25 frames a second.
Counting ==
  INSTANCE TimecodeProofs WITH
    MaxFrame <- 25, Starts <- {}, Offsets <- {}, MaxSteps <- 0,
    timecode <- tc, left <- 0, steps <- 0,
    Formats <- {25}, Numbers <- {}, Adds <- {}, PcTimes <- {}, Millis <- {},
    MaxCount <- FileLength, CallsAfter <- {0}, MaxSwitches <- 0

LEMMA CountingAssumptions == Counting!CVITCAssumption /\ Counting!TimecodeAssumption
BY FFmpegDecodeAssumption, MainLoopAssumption
   DEF Counting!CVITCAssumption, Counting!TimecodeAssumption

LEMMA IncCounts == TcOSD!vitc!inc => Counting!inc
BY DEF TcOSD!vitc!inc, Counting!inc, TcOSD!vitc!NoTime, Counting!NoTime,
       TcOSD!vitc!time, Counting!time, TcOSD!vitc!tick, Counting!tick,
       TcOSD!vitc!incByte, Counting!incByte, TcOSD!vitc!firstFrame, Counting!firstFrame,
       TcOSD!vitc!maxFrame, Counting!maxFrame, TcOSD!vitc!DayAt, Counting!DayAt,
       TcOSD!vitc!Rate, Counting!Rate, TcOSD!vitc!DroppedAt, Counting!DroppedAt,
       TcOSD!vitc!FramesPerDay, Counting!FramesPerDay, TcOSD!vitc!Unknown, Counting!Unknown

LEMMA InitCounts == TcOSD!vitc!Init => Counting!Init
BY DEF TcOSD!vitc!Init, Counting!Init, TcOSD!vitc!NoTime, Counting!NoTime,
       TcOSD!vitc!time, Counting!time

LEMMA ShownSame ==
  /\ \A t : TcOSD!vitc!Shown(t, 25) = Counting!Shown(t, 25)
  /\ TcOSD!vitc!DayAt(25) = 25 * 86400 /\ Counting!DayAt(25) = 25 * 86400
BY DEF TcOSD!vitc!Shown, Counting!Shown, TcOSD!vitc!Counts, Counting!Counts,
       TcOSD!vitc!IsTimecode, Counting!IsTimecode, TcOSD!vitc!FrameNumber, Counting!FrameNumber,
       TcOSD!vitc!Minutes, Counting!Minutes, TcOSD!vitc!DayAt, Counting!DayAt,
       TcOSD!vitc!Rate, Counting!Rate, TcOSD!vitc!DroppedAt, Counting!DroppedAt,
       TcOSD!vitc!FramesPerDay, Counting!FramesPerDay, TcOSD!vitc!Unknown, Counting!Unknown

\* What CVITC is before and after it counts a picture.
LEMMA CountsOne ==
  ASSUME Counting!VitcInv, m_format = 25, TcOSD!vitc!inc,
         NEW n \in Nat, num = n % TcOSD!vitc!DayAt(25)
  PROVE  /\ Counting!VitcInv' /\ m_format' = 25
         /\ num' = (n + 1) % TcOSD!vitc!DayAt(25)
         /\ TcOSD!vitc!Shown(tc', 25) = (n + 1) % TcOSD!vitc!DayAt(25)
<1>1. Counting!inc
  BY IncCounts
<1>2. Counting!VitcInv'
  BY <1>1, CountingAssumptions, Counting!VitcCounts
     DEF Counting!CVITCAssumption, Counting!TimecodeAssumption
<1>3. m_format' = 25 /\ num' = IF num = -1 THEN -1 ELSE (num + 1) % (25 * 86400)
  BY <1>1, ShownSame DEF Counting!inc, Counting!Unknown
<1>4. n % (25 * 86400) \in Nat /\ ((n % (25 * 86400)) + 1) % (25 * 86400) = (n + 1) % (25 * 86400)
  OBVIOUS
<1>5. num' = (n + 1) % (25 * 86400) /\ num' # -1
  <2>1. num = n % (25 * 86400) /\ num # -1
    BY <1>4, ShownSame
  <2>2. (n + 1) % (25 * 86400) \in Nat
    OBVIOUS
  <2> QED BY <1>3, <1>4, <2>1, <2>2
<1>6. Counting!Shown(tc', 25) = num'
  <2>1. Counting!ShowsTheFrame'
    BY <1>2 DEF Counting!VitcInv
  <2> QED BY <1>3, <1>5, <2>1 DEF Counting!ShowsTheFrame, Counting!Unknown
<1> QED BY <1>2, <1>3, <1>5, <1>6, ShownSame

-----------------------------------------------------------------------------

\* Counting round a column of any length.
LEMMA Division ==
  ASSUME NEW t \in Nat, t > 0, NEW n \in Nat
  PROVE  /\ n \div t \in Nat /\ n % t \in Nat /\ n % t < t
         /\ n = t * (n \div t) + (n % t)
OBVIOUS

LEMMA SameDivision ==
  ASSUME NEW t \in Nat, t > 0, NEW q \in Int, NEW p \in Int, NEW a \in 0 .. t - 1,
         NEW b \in 0 .. t - 1, t * q + a = t * p + b
  PROVE  q = p /\ a = b
<1> DEFINE d == q - p
<1>1. t * d = b - a
  OBVIOUS
<1>2. d \in Int
  OBVIOUS
<1> HIDE DEF d
<1>3. ASSUME d > 0 PROVE FALSE
  <2>1. t * d >= t
    BY <1>2, <1>3
  <2> QED BY <2>1, <1>1
<1>4. ASSUME d < 0 PROVE FALSE
  <2>1. t * d <= -t
    BY <1>2, <1>4
  <2> QED BY <2>1, <1>1
<1>5. d = 0
  BY <1>2, <1>3, <1>4
<1> QED BY <1>5, <1>1 DEF d

LEMMA NextRound ==
  ASSUME NEW t \in Nat, t > 0, NEW n \in Nat
  PROVE  ((n % t) + 1) % t = (n + 1) % t
<1> DEFINE q == n \div t
           a == n % t
           p == (n + 1) \div t
           b == (n + 1) % t
<1>1. /\ q \in Int /\ a \in 0 .. t - 1 /\ n = t * q + a
      /\ p \in Int /\ b \in 0 .. t - 1 /\ n + 1 = t * p + b
  BY Division
<1> HIDE DEF q, a, p, b
<1>2. CASE a + 1 < t
  <2>1. t * q + (a + 1) = t * p + b /\ a + 1 \in 0 .. t - 1
    BY <1>1, <1>2
  <2>2. a + 1 = b
    BY <1>1, <2>1, SameDivision
  <2>3. (a + 1) % t = a + 1
    BY <1>1, <1>2
  <2> QED BY <2>2, <2>3 DEF a, b
<1>3. CASE a + 1 = t
  <2>1. t * (q + 1) + 0 = t * p + b /\ q + 1 \in Int /\ 0 \in 0 .. t - 1
    BY <1>1, <1>3
  <2>2. 0 = b
    BY <1>1, <2>1, SameDivision
  <2>3. t % t = 0
    OBVIOUS
  <2> QED BY <1>3, <2>2, <2>3 DEF a, b
<1> QED BY <1>1, <1>2, <1>3

\* The column main's marker has.
LEMMA ColumnIsLong ==
  /\ m_Build_Marker!blocksOf(Height) \in Nat /\ m_Build_Marker!blocksOf(Height) >= 4
<1>1. (Height \div 2) \div 8 > 4
  BY MainLoopAssumption
<1> QED BY <1>1, MainLoopAssumption DEF m_Build_Marker!blocksOf

\* The white blocks of a picture show its index (MarkerBuilder.h:82-117).
LEMMA MarkReads ==
  ASSUME totalBLocks \in Nat, totalBLocks >= 4, halfBlocks = totalBLocks \div 2,
         NEW n \in Nat, n < totalBLocks
  PROVE  m_Build_Marker!Reads(m_Build_Marker!whiteBlocks(n), n)
<1> DEFINE white == m_Build_Marker!whiteBlocks(n)
           gap == m_Build_Marker!gap(n)
           edges == m_Build_Marker!Edges(white)
<1>1. halfBlocks \in Nat /\ halfBlocks >= 2 /\ halfBlocks <= totalBLocks
  OBVIOUS
<1>2. gap \in Nat /\ (n > 0 => gap < n) /\ (n = 0 => gap = 0)
  BY <1>1 DEF m_Build_Marker!gap
<1>3. \A i : i \in white <=> i \in 0 .. totalBLocks - 1 /\ ((n <= i /\ i < n + 33) \/ i < gap)
  BY DEF m_Build_Marker!whiteBlocks, m_Build_Marker!Blocks
<1>4. \A i : i \in edges <=> i \in white /\ i > 0 /\ i - 1 \notin white
  BY DEF m_Build_Marker!Edges
<1>5. m_Build_Marker!Reads(white, n) <=> edges = IF n = 0 THEN {} ELSE {n}
  BY DEF m_Build_Marker!Reads
<1> HIDE DEF white, gap, edges
<1>6. ASSUME NEW i \in edges PROVE i = n /\ n > 0
  <2>1. i \in 0 .. totalBLocks - 1 /\ i > 0 /\ i - 1 \notin white /\ i \in white
    BY <1>3, <1>4
  <2>2. i - 1 \in 0 .. totalBLocks - 1
    BY <2>1
  <2> QED BY <1>1, <1>2, <1>3, <2>1, <2>2
<1>7. ASSUME n > 0 PROVE n \in edges
  <2>1. n \in white
    BY <1>1, <1>3
  <2>2. n - 1 \notin white
    BY <1>1, <1>2, <1>3, <1>7
  <2> QED BY <1>4, <1>7, <2>1, <2>2
<1>8. edges = IF n = 0 THEN {} ELSE {n}
  BY <1>6, <1>7
<1> QED BY <1>5, <1>8 DEF white

\* The render of main: the format is that of the pictures, and a font is drawn.
LEMMA RenderSucceeds ==
  ASSUME m_format = 25, TcOSD!RenderTimeCodeFont("1080i_5000", "10BIT_YCBCR")
  PROVE  /\ m_vitc' = TRUE /\ bRendered' = TRUE
         /\ UNCHANGED <<m_format, tc, pc, num, since, switched, late>>
<1>1. m_vitc' = TRUE /\ UNCHANGED <<m_format, tc, pc, num, since, switched, late>>
  BY DEF TcOSD!RenderTimeCodeFont, TcOSD!formatOf
<1>2. TcOSD!burner!RenderTimeCodeFont("1080i_5000", "10BIT_YCBCR")
  BY DEF TcOSD!RenderTimeCodeFont
<1>3. PICK s : TcOSD!burner!RenderForSize("YCbCr10", s)
  BY <1>2 DEF TcOSD!burner!RenderTimeCodeFont, TcOSD!burner!GetAJAPixelFormat
<1>4. "YCbCr10" \in DOMAIN TcOSD!burner!bytesPerPixel
  BY DEF TcOSD!burner!bytesPerPixel
<1>5. bRendered' = TRUE
  BY <1>3, <1>4 DEF TcOSD!burner!RenderForSize, TcOSD!burner!alreadyRendered
<1> QED BY <1>1, <1>5

\* A picture is counted, and its time code drawn.
LEMMA BurnDraws ==
  ASSUME bRendered = TRUE, TcOSD!BurnTimeCode
  PROVE  /\ TcOSD!vitc!inc /\ m_vitc' = m_vitc /\ bRendered' = TRUE
         /\ TcOSD!Burned = {tc'}
BY DEF TcOSD!BurnTimeCode, TcOSD!burner!BurnTimeCode, TcOSD!Burned
-----------------------------------------------------------------------------

Day == TcOSD!vitc!DayAt(25)

\* What a frame holds once picture n is marked and counted.
Tells(h, n) ==
  /\ h.number = n
  /\ m_Build_Marker!Reads(h.column, n % totalBLocks)
  /\ \E time \in h.time : TcOSD!vitc!Shown(time, 25) = (n + 1) % Day

Gone == place \in {"exit", "crashed"}

\* The marker and the time code have moved on as often as main went round; one
\* of them is a step ahead while a picture is on its way.
MarkerInv ==
  /\ totalBLocks = m_Build_Marker!blocksOf(Height) /\ halfBlocks = totalBLocks \div 2
  /\ ~Gone => fieldInx["A"] = (IF place \in {"open", "render", "read", "mark"}
                               THEN loopcount ELSE loopcount + 1) % totalBLocks

TimeInv ==
  /\ Counting!VitcInv /\ m_format = 25
  /\ ~Gone => num = (IF place \in {"open", "render", "read", "mark", "burn"}
                     THEN loopcount ELSE loopcount + 1) % Day
  /\ ~Gone /\ place \notin {"open", "render"} => m_vitc = TRUE /\ bRendered = TRUE

\* The picture passes from frame to frame; the converted one stays for the file.
FramesInv ==
  /\ DOMAIN frames = FrameNames
  /\ place = "mark" => frames["vfCPU_V210"] = [NoPicture EXCEPT !.number = loopcount]
  /\ place = "burn" => \E white :
       /\ frames["vfCPU_V210"] = [number |-> loopcount, column |-> white, time |-> {}]
       /\ m_Build_Marker!Reads(white, loopcount % totalBLocks)
  /\ place = "upload"   => Tells(frames["vfCPU_V210"], loopcount)
  /\ place = "convert"  => Tells(frames["vfGPU_v210"], loopcount)
  /\ place = "download" => Tells(frames["vfGPU"], loopcount)
  /\ place = "encode"   => Tells(frames["vfGPU"], loopcount)
  /\ place = "fetch"    => Tells(frames["vfDnxGPU"], loopcount)
  /\ place \in {"encode", "fetch", "decode", "judge"} => Tells(frames["vfCPU"], loopcount)
  /\ place \in {"decode", "judge"} => Tells(frames["vfDnxCPU"], loopcount)

SavedInv ==
  /\ verdicts \in Seq(Int) /\ Len(verdicts) = loopcount
  /\ SavedAreTheBad
  /\ \A f \in saved : Tells(f.holds, f.name[2])

MainInv ==
  /\ DecoderInv
  /\ loopcount \in Nat
  /\ MarkerInv /\ TimeInv /\ FramesInv /\ SavedInv

-----------------------------------------------------------------------------

LEMMA MainStarts == MainInit => MainInv
<1> SUFFICES ASSUME MainInit PROVE MainInv
  OBVIOUS
<1>1. DecoderInv
  BY DecoderInit DEF MainInit
<1>2. /\ place = "open" /\ loopcount = 0 /\ saved = {} /\ verdicts = <<>>
      /\ frames = [f \in FrameNames |-> NoPicture]
      /\ m_Build_Marker!Init /\ TcOSD!Init
  BY DEF MainInit
<1>3. MarkerInv
  <2>1. totalBLocks = m_Build_Marker!blocksOf(Height) /\ halfBlocks = totalBLocks \div 2
        /\ fieldInx["A"] = 0
    BY <1>2 DEF m_Build_Marker!Init, m_Build_Marker!Fields
  <2>2. totalBLocks \in Nat /\ totalBLocks >= 4
    BY <2>1, ColumnIsLong
  <2>3. 0 % totalBLocks = 0
    BY <2>2
  <2> QED BY <1>2, <2>1, <2>3 DEF MarkerInv
<1>4. TimeInv
  <2>1. TcOSD!vitc!Init
    BY <1>2 DEF TcOSD!Init
  <2>2. Counting!VitcInv
    BY <2>1, InitCounts, CountingAssumptions, Counting!VitcInit
       DEF Counting!CVITCAssumption, Counting!TimecodeAssumption
  <2>3. m_format = 25 /\ num = 0
    BY <2>1 DEF TcOSD!vitc!Init
  <2>4. 0 % Day = 0
    BY ShownSame DEF Day
  <2> QED BY <1>2, <2>2, <2>3, <2>4 DEF TimeInv
<1>5. FramesInv
  BY <1>2 DEF FramesInv
<1>6. SavedInv
  <2>1. verdicts \in Seq(Int) /\ Len(verdicts) = 0
    BY <1>2
  <2>2. 0 .. 0 - 1 = {}
    OBVIOUS
  <2>3. SavedAreTheBad
    BY <1>2, <2>2 DEF SavedAreTheBad
  <2> QED BY <1>2, <2>1, <2>3 DEF SavedInv
<1> QED BY <1>1, <1>2, <1>3, <1>4, <1>5, <1>6 DEF MainInv

\* What holds of a picture does not depend on anything that moves.
LEMMA TellsStays ==
  ASSUME totalBLocks' = totalBLocks
  PROVE  \A h, n : Tells(h, n) => Tells(h, n)'
BY DEF Tells, Day, m_Build_Marker!Reads, m_Build_Marker!Edges,
       TcOSD!vitc!Shown, TcOSD!vitc!DayAt, TcOSD!vitc!Unknown

\* Where the decoder, the marker, the burner and the saved files stay.
LEMMA DecoderStays == DecoderInv /\ UNCHANGED decoder => DecoderInv'
BY DecoderNext DEF decoder

LEMMA MarkerStays ==
  ASSUME MarkerInv, UNCHANGED <<loopcount, totalBLocks, halfBlocks, fieldInx>>,
         \/ place \in {"open", "render", "read", "mark"}
            /\ place' \in {"open", "render", "read", "mark", "exit"}
         \/ place \notin {"open", "render", "read", "mark", "exit", "crashed"}
            /\ place' \notin {"open", "render", "read", "mark"}
         \/ place' = place
  PROVE  MarkerInv'
BY DEF MarkerInv, Gone, m_Build_Marker!blocksOf

LEMMA VitcStays ==
  ASSUME Counting!VitcInv, UNCHANGED <<m_format, tc, pc, num, since, switched, late>>
  PROVE  Counting!VitcInv'
BY CountingAssumptions, Counting!VitcNext
   DEF Counting!CVITCAssumption, Counting!TimecodeAssumption, Counting!vars, Counting!history

LEMMA SavedStays ==
  ASSUME SavedInv, UNCHANGED <<loopcount, saved, verdicts, totalBLocks>>
  PROVE  SavedInv'
BY TellsStays DEF SavedInv, SavedAreTheBad

\* Open, and a step of main2: nothing of the picture moves.
LEMMA OpenKeeps == MainInv /\ Open => MainInv'
<1> SUFFICES ASSUME MainInv, Open PROVE MainInv'
  OBVIOUS
<1>1. /\ place = "open" /\ place' \in {"render", "exit"}
      /\ UNCHANGED <<loopcount, frames, saved, verdicts, decoder, marker, osd>>
  BY DEF Open, GoOn
<1>2. MarkerInv'
  BY <1>1, MarkerStays DEF MainInv, marker
<1>3. TimeInv'
  BY <1>1, VitcStays DEF MainInv, TimeInv, osd, Gone, Day, TcOSD!vitc!DayAt
<1>4. FramesInv'
  BY <1>1 DEF MainInv, FramesInv
<1>5. SavedInv' /\ DecoderInv' /\ loopcount' \in Nat
  BY <1>1, SavedStays, DecoderStays DEF MainInv, marker
<1> QED BY <1>2, <1>3, <1>4, <1>5 DEF MainInv

LEMMA RenderKeeps == MainInv /\ Render => MainInv'
<1> SUFFICES ASSUME MainInv, Render PROVE MainInv'
  OBVIOUS
<1>1. /\ place = "render" /\ place' = "read"
      /\ TcOSD!RenderTimeCodeFont("1080i_5000", "10BIT_YCBCR")
      /\ UNCHANGED <<loopcount, frames, saved, verdicts, decoder, marker>>
  BY DEF Render, GoOn
<1>2. /\ m_vitc' = TRUE /\ bRendered' = TRUE
      /\ UNCHANGED <<m_format, tc, pc, num, since, switched, late>>
  BY <1>1, RenderSucceeds DEF MainInv, TimeInv
<1>3. MarkerInv'
  BY <1>1, MarkerStays DEF MainInv, marker
<1>4. TimeInv'
  <2>1. Counting!VitcInv'
    BY <1>2, VitcStays DEF MainInv, TimeInv
  <2> QED BY <1>1, <1>2, <2>1 DEF MainInv, TimeInv, Gone, Day, TcOSD!vitc!DayAt
<1>5. FramesInv'
  BY <1>1 DEF MainInv, FramesInv
<1>6. SavedInv' /\ DecoderInv' /\ loopcount' \in Nat
  BY <1>1, SavedStays, DecoderStays DEF MainInv, marker
<1> QED BY <1>3, <1>4, <1>5, <1>6 DEF MainInv

\* Read: the next picture, or the end.
LEMMA ReadKeeps == MainInv /\ Read => MainInv'
<1> SUFFICES ASSUME MainInv, Read PROVE MainInv'
  OBVIOUS
<1>1. /\ place = "read" /\ place' \in {"mark", "exit"}
      /\ place' = "mark" =>
           frames' = [frames EXCEPT !["vfCPU_V210"] = [NoPicture EXCEPT !.number = loopcount]]
      /\ place' = "exit" => frames' = frames
      /\ UNCHANGED <<loopcount, saved, verdicts, decoder, marker, osd>>
  BY DEF Read, GoOn
<1>2. MarkerInv'
  BY <1>1, MarkerStays DEF MainInv, marker
<1>3. TimeInv'
  BY <1>1, VitcStays DEF MainInv, TimeInv, osd, Gone, Day, TcOSD!vitc!DayAt
<1>4. FramesInv'
  <2>1. DOMAIN frames = FrameNames /\ "vfCPU_V210" \in FrameNames
    BY DEF MainInv, FramesInv, FrameNames
  <2> QED BY <1>1, <2>1 DEF FramesInv, NoPicture
<1>5. SavedInv' /\ DecoderInv' /\ loopcount' \in Nat
  BY <1>1, SavedStays, DecoderStays DEF MainInv, marker
<1> QED BY <1>2, <1>3, <1>4, <1>5 DEF MainInv

\* Mark: the column of the picture is that of its number.
LEMMA MarkKeeps == MainInv /\ Mark => MainInv'
<1> SUFFICES ASSUME MainInv, Mark PROVE MainInv'
  OBVIOUS
<1> DEFINE n == loopcount % totalBLocks
           white == m_Build_Marker!whiteBlocks(n)
<1>1. /\ place = "mark" /\ place' = "burn"
      /\ m_Build_Marker!buildMarker
      /\ frames' = [frames EXCEPT !["vfCPU_V210"].column = column'["A"]]
      /\ UNCHANGED <<loopcount, saved, verdicts, decoder, osd>>
  BY DEF Mark, GoOn
<1>2. /\ totalBLocks = m_Build_Marker!blocksOf(Height) /\ halfBlocks = totalBLocks \div 2
      /\ totalBLocks \in Nat /\ totalBLocks >= 4 /\ loopcount \in Nat
      /\ fieldInx["A"] = n
  BY <1>1, ColumnIsLong DEF MainInv, MarkerInv, Gone
<1>3. n \in Nat /\ n < totalBLocks /\ (n + 1) % totalBLocks = (loopcount + 1) % totalBLocks
  <2>1. totalBLocks \in Nat /\ totalBLocks > 0 /\ loopcount \in Nat
    BY <1>2
  <2> QED BY <2>1, Division, NextRound
<1> HIDE DEF n
<1>4. /\ column'["A"] = white /\ fieldInx'["A"] = (n + 1) % totalBLocks
      /\ totalBLocks' = totalBLocks /\ halfBlocks' = halfBlocks
  BY <1>1, <1>2 DEF m_Build_Marker!buildMarker, m_Build_Marker!Fields
<1>5. m_Build_Marker!Reads(white, n)
  BY <1>2, <1>3, MarkReads
<1> HIDE DEF white
<1>6. MarkerInv'
  BY <1>1, <1>2, <1>3, <1>4 DEF MarkerInv, Gone, m_Build_Marker!blocksOf
<1>7. TimeInv'
  BY <1>1, VitcStays DEF MainInv, TimeInv, osd, Gone, Day, TcOSD!vitc!DayAt
<1>8. FramesInv'
  <2>1. DOMAIN frames = FrameNames /\ "vfCPU_V210" \in FrameNames
        /\ frames["vfCPU_V210"] = [number |-> loopcount, column |-> {}, time |-> {}]
    BY <1>1 DEF MainInv, FramesInv, FrameNames, NoPicture
  <2>2. frames'["vfCPU_V210"] = [number |-> loopcount, column |-> white, time |-> {}]
        /\ DOMAIN frames' = FrameNames
    <3>1. frames' = [frames EXCEPT !["vfCPU_V210"].column = white]
      BY <1>1, <1>4
    <3> QED BY <2>1, <3>1
  <2>3. m_Build_Marker!Reads(white, loopcount' % totalBLocks')
    BY <1>1, <1>4, <1>5 DEF n
  <2> QED BY <1>1, <2>2, <2>3 DEF FramesInv, m_Build_Marker!Reads, m_Build_Marker!Edges
<1>9. SavedInv' /\ DecoderInv' /\ loopcount' \in Nat
  BY <1>1, <1>4, SavedStays, DecoderStays DEF MainInv
<1> QED BY <1>6, <1>7, <1>8, <1>9 DEF MainInv

\* Burn: the time code is counted, and that of the picture drawn.
LEMMA BurnKeeps == MainInv /\ Burn => MainInv'
<1> SUFFICES ASSUME MainInv, Burn PROVE MainInv'
  OBVIOUS
<1>1. place = "burn" /\ UNCHANGED <<loopcount, saved, verdicts, decoder, marker>>
  BY DEF Burn, GoOn
<1>2. m_vitc = TRUE /\ bRendered = TRUE /\ loopcount \in Nat /\ num = loopcount % Day
  BY <1>1 DEF MainInv, TimeInv, Gone
<1>3. /\ place' = "upload" /\ TcOSD!BurnTimeCode
      /\ frames' = [frames EXCEPT !["vfCPU_V210"].time = TcOSD!Burned]
  BY <1>2 DEF Burn, GoOn
<1>4. TcOSD!vitc!inc /\ m_vitc' = TRUE /\ bRendered' = TRUE /\ TcOSD!Burned = {tc'}
  BY <1>2, <1>3, BurnDraws
<1>5. /\ Counting!VitcInv' /\ m_format' = 25
      /\ num' = (loopcount + 1) % Day
      /\ TcOSD!vitc!Shown(tc', 25) = (loopcount + 1) % Day
  BY <1>2, <1>4, CountsOne DEF MainInv, TimeInv, Day
<1>6. MarkerInv'
  BY <1>1, <1>3, MarkerStays DEF MainInv, marker
<1>7. TimeInv'
  BY <1>1, <1>3, <1>4, <1>5 DEF TimeInv, Gone, Day, TcOSD!vitc!DayAt
<1>8. FramesInv'
  <2>1. PICK white :
          /\ frames["vfCPU_V210"] = [number |-> loopcount, column |-> white, time |-> {}]
          /\ m_Build_Marker!Reads(white, loopcount % totalBLocks)
    BY <1>1 DEF MainInv, FramesInv
  <2>2. DOMAIN frames = FrameNames /\ "vfCPU_V210" \in FrameNames
    BY DEF MainInv, FramesInv, FrameNames
  <2>3. frames'["vfCPU_V210"] = [number |-> loopcount, column |-> white, time |-> {tc'}]
        /\ DOMAIN frames' = FrameNames
    BY <1>3, <1>4, <2>1, <2>2
  <2>4. PICK h : h = [number |-> loopcount, column |-> white, time |-> {tc'}] /\ Tells(h, loopcount)
    <3> DEFINE drawn == [number |-> loopcount, column |-> white, time |-> {tc'}]
    <3>1. Tells(drawn, loopcount)
      BY <1>5, <2>1 DEF Tells
    <3> HIDE DEF drawn
    <3>2. \E x : x = drawn /\ Tells(x, loopcount)
      BY <3>1
    <3> QED BY <3>2 DEF drawn
  <2>5. totalBLocks' = totalBLocks /\ loopcount' = loopcount
    BY <1>1 DEF marker
  <2>6. Tells(h, loopcount)'
    BY <2>4, <2>5 DEF Tells, Day, m_Build_Marker!Reads, m_Build_Marker!Edges,
                      TcOSD!vitc!Shown, TcOSD!vitc!DayAt, TcOSD!vitc!Unknown
  <2>7. Tells(frames["vfCPU_V210"], loopcount)'
    BY <2>3, <2>4, <2>6 DEF Tells, m_Build_Marker!Reads, m_Build_Marker!Edges
  <2> QED BY <1>3, <2>3, <2>7 DEF FramesInv
<1>9. SavedInv' /\ DecoderInv' /\ loopcount' \in Nat
  BY <1>1, SavedStays, DecoderStays DEF MainInv, marker
<1> QED BY <1>6, <1>7, <1>8, <1>9 DEF MainInv

\* A GPU call: the picture moves on, or the program ends.
LEMMA GpuKeeps == MainInv /\ GpuSteps => MainInv'
<1> SUFFICES ASSUME MainInv, GpuSteps PROVE MainInv'
  OBVIOUS
<1>1. /\ place \in {"upload", "convert", "download", "encode", "fetch"}
      /\ place' \in {"convert", "download", "encode", "fetch", "decode", "exit"}
      /\ UNCHANGED <<loopcount, saved, verdicts, decoder, marker, osd>>
  BY DEF GpuSteps, Gpu, GoOn
<1>2. MarkerInv'
  BY <1>1, MarkerStays DEF MainInv, marker
<1>3. TimeInv'
  BY <1>1, VitcStays DEF MainInv, TimeInv, osd, Gone, Day, TcOSD!vitc!DayAt
<1>4. FramesInv'
  <2>1. /\ DOMAIN frames = FrameNames
        /\ {"vfCPU_V210", "vfGPU_v210", "vfGPU", "vfCPU", "vfDnxGPU", "vfDnxCPU"} \subseteq FrameNames
    BY DEF MainInv, FramesInv, FrameNames
  <2>2. \A f : Tells(f, loopcount) => Tells(f, loopcount)'
    BY <1>1 DEF marker, Tells, Day, m_Build_Marker!Reads, m_Build_Marker!Edges,
                TcOSD!vitc!Shown, TcOSD!vitc!DayAt, TcOSD!vitc!Unknown
  <2>3. CASE Gpu("upload", "convert", "vfCPU_V210", "vfGPU_v210")
    BY <2>1, <2>2, <2>3 DEF MainInv, FramesInv, Gpu, GoOn
  <2>4. CASE Gpu("convert", "download", "vfGPU_v210", "vfGPU")
    BY <2>1, <2>2, <2>4 DEF MainInv, FramesInv, Gpu, GoOn
  <2>5. CASE Gpu("download", "encode", "vfGPU", "vfCPU")
    BY <2>1, <2>2, <2>5 DEF MainInv, FramesInv, Gpu, GoOn
  <2>6. CASE Gpu("encode", "fetch", "vfGPU", "vfDnxGPU")
    BY <2>1, <2>2, <2>6 DEF MainInv, FramesInv, Gpu, GoOn
  <2>7. CASE Gpu("fetch", "decode", "vfDnxGPU", "vfDnxCPU")
    BY <2>1, <2>2, <2>7 DEF MainInv, FramesInv, Gpu, GoOn
  <2> QED BY <2>3, <2>4, <2>5, <2>6, <2>7 DEF GpuSteps
<1>5. SavedInv' /\ DecoderInv' /\ loopcount' \in Nat
  BY <1>1, SavedStays, DecoderStays DEF MainInv, marker
<1> QED BY <1>2, <1>3, <1>4, <1>5 DEF MainInv

\* main2 is called, and runs: the step is one of FFmpegDecode.
LEMMA DecodeKeeps == MainInv /\ (Decode \/ DecodeStep) => MainInv'
<1> SUFFICES ASSUME MainInv, Decode \/ DecodeStep PROVE MainInv'
  OBVIOUS
<1>1. /\ place \in {"decode", "judge"} /\ place' = "judge"
      /\ Next
      /\ UNCHANGED <<loopcount, frames, saved, verdicts, marker, osd>>
  BY DEF Decode, DecodeStep, GoOn, Next
<1>2. MarkerInv'
  BY <1>1, MarkerStays DEF MainInv, marker
<1>3. TimeInv'
  BY <1>1, VitcStays DEF MainInv, TimeInv, osd, Gone, Day, TcOSD!vitc!DayAt
<1>4. FramesInv'
  <2>1. \A f : Tells(f, loopcount) => Tells(f, loopcount)'
    BY <1>1 DEF marker, Tells, Day, m_Build_Marker!Reads, m_Build_Marker!Edges,
                TcOSD!vitc!Shown, TcOSD!vitc!DayAt, TcOSD!vitc!Unknown
  <2> QED BY <1>1, <2>1 DEF MainInv, FramesInv
<1>5. DecoderInv'
  BY <1>1, DecoderNext DEF MainInv
<1>6. SavedInv' /\ loopcount' \in Nat
  BY <1>1, SavedStays DEF MainInv, marker
<1> QED BY <1>2, <1>3, <1>4, <1>5, <1>6 DEF MainInv

\* Judge: a picture that is not good is saved under its number, twice.
LEMMA JudgeKeeps == MainInv /\ Judge => MainInv'
<1> SUFFICES ASSUME MainInv, Judge PROVE MainInv'
  OBVIOUS
<1> DEFINE files == {File("yuv", "vfCPU"), File("dnx", "vfDnxCPU")}
<1>1. /\ place = "judge" /\ place' = "read" /\ loopcount' = loopcount + 1
      /\ verdicts' = Append(verdicts, ret)
      /\ saved' = IF ret # 0 THEN saved \cup files ELSE saved
      /\ UNCHANGED <<frames, decoder, marker, osd>>
  BY DEF Judge, GoOn
<1>2. loopcount \in Nat /\ ret \in Int
  BY DEF MainInv, DecoderInv, TypeOK
<1>3. MarkerInv'
  BY <1>1, <1>2 DEF MainInv, MarkerInv, marker, Gone, m_Build_Marker!blocksOf
<1>4. TimeInv'
  <2>1. Counting!VitcInv'
    BY <1>1, VitcStays DEF MainInv, TimeInv, osd
  <2> QED BY <1>1, <1>2, <2>1 DEF MainInv, TimeInv, osd, Gone, Day, TcOSD!vitc!DayAt
<1>5. FramesInv'
  BY <1>1 DEF MainInv, FramesInv
<1>6. DecoderInv'
  BY <1>1, DecoderStays DEF MainInv
<1>7. SavedInv'
  <2>1. verdicts \in Seq(Int) /\ Len(verdicts) = loopcount /\ SavedAreTheBad
    BY DEF MainInv, SavedInv
  <2>2. /\ verdicts' \in Seq(Int) /\ Len(verdicts') = loopcount'
        /\ verdicts'[loopcount + 1] = ret
        /\ \A n \in 0 .. loopcount - 1 : verdicts'[n + 1] = verdicts[n + 1]
    BY <1>1, <1>2, <2>1
  <2>3. Tells(frames["vfCPU"], loopcount) /\ Tells(frames["vfDnxCPU"], loopcount)
    BY <1>1 DEF MainInv, FramesInv
  <2>4. \A f \in files : /\ f.name[2] = loopcount /\ Tells(f.holds, f.name[2])
                          /\ f.holds.number = loopcount
    BY <2>3 DEF File, Tells
  <2>5. {f.name : f \in files} = {"yuv", "dnx"} \X {loopcount}
    BY DEF File
  <2> HIDE DEF files
  <2>6. \A f \in saved' : Tells(f.holds, f.name[2]) /\ f.holds.number = f.name[2]
    BY <1>1, <2>1, <2>4 DEF MainInv, SavedInv, SavedAreTheBad
  <2>7. \A f \in saved' : Tells(f.holds, f.name[2])'
    BY <1>1, <2>6 DEF marker, Tells, Day, m_Build_Marker!Reads, m_Build_Marker!Edges,
                      TcOSD!vitc!Shown, TcOSD!vitc!DayAt, TcOSD!vitc!Unknown
  <2>8. {f.name : f \in saved'} =
          {"yuv", "dnx"} \X {n \in 0 .. loopcount' - 1 : verdicts'[n + 1] # 0}
    <3> DEFINE bad    == {n \in 0 .. loopcount - 1 : verdicts[n + 1] # 0}
               badNow == {n \in 0 .. loopcount' - 1 : verdicts'[n + 1] # 0}
    <3>1. {f.name : f \in saved} = {"yuv", "dnx"} \X bad
      BY <2>1 DEF SavedAreTheBad
    <3>2. badNow = IF ret # 0 THEN bad \cup {loopcount} ELSE bad
      <4>1. 0 .. loopcount' - 1 = (0 .. loopcount - 1) \cup {loopcount}
        BY <1>1, <1>2
      <4> QED BY <2>2, <4>1
    <3> HIDE DEF bad, badNow
    <3>3. CASE ret # 0
      <4>1. {f.name : f \in saved'} = {f.name : f \in saved} \cup {f.name : f \in files}
        BY <1>1, <3>3
      <4> QED BY <2>5, <3>1, <3>2, <3>3, <4>1 DEF badNow
    <3>4. CASE ret = 0
      BY <1>1, <3>1, <3>2, <3>4 DEF badNow
    <3> QED BY <3>3, <3>4
  <2>9. SavedAreTheBad'
    BY <2>6, <2>8 DEF SavedAreTheBad
  <2> QED BY <2>2, <2>7, <2>9 DEF SavedInv
<1> QED BY <1>1, <1>2, <1>3, <1>4, <1>5, <1>6, <1>7 DEF MainInv

LEMMA StutterKeeps == MainInv /\ UNCHANGED mainVars => MainInv'
<1> SUFFICES ASSUME MainInv, UNCHANGED mainVars PROVE MainInv'
  OBVIOUS
<1>1. UNCHANGED <<place, loopcount, frames, saved, verdicts, decoder, marker, osd>>
  BY DEF mainVars
<1>2. MarkerInv'
  BY <1>1, MarkerStays DEF MainInv, marker
<1>3. TimeInv'
  BY <1>1, VitcStays DEF MainInv, TimeInv, osd, Gone, Day, TcOSD!vitc!DayAt
<1>4. FramesInv'
  <2>1. \A f : Tells(f, loopcount) => Tells(f, loopcount)'
    BY <1>1 DEF marker, Tells, Day, m_Build_Marker!Reads, m_Build_Marker!Edges,
                TcOSD!vitc!Shown, TcOSD!vitc!DayAt, TcOSD!vitc!Unknown
  <2> QED BY <1>1, <2>1 DEF marker, MainInv, FramesInv, m_Build_Marker!Reads, m_Build_Marker!Edges
<1>5. SavedInv' /\ DecoderInv' /\ loopcount' \in Nat
  BY <1>1, SavedStays, DecoderStays DEF MainInv, marker
<1> QED BY <1>2, <1>3, <1>4, <1>5 DEF MainInv

LEMMA MainInductive == MainSpec => []MainInv
<1>1. MainInv /\ [MainNext]_mainVars => MainInv'
  BY OpenKeeps, RenderKeeps, ReadKeeps, MarkKeeps, BurnKeeps, GpuKeeps, DecodeKeeps,
     JudgeKeeps, StutterKeeps DEF MainNext
<1> QED BY <1>1, MainStarts, PTL DEF MainSpec

LEMMA MainInvSuffices == MainInv => SavedAreTheBad /\ SavedTellTheirNumber
BY DEF MainInv, SavedInv, SavedTellTheirNumber, Tells, Day

\* However main2 judges and whichever GPU call fails, the saved files are those
\* of the pictures that were not good, two of each, and each file holds the
\* picture it is named after (mainX.cpp:112-131).
THEOREM AlwaysSavedAreTheBad == MainSpec => []SavedAreTheBad
BY MainInductive, MainInvSuffices, PTL

\* For a file of any length and pictures of any height: the name of a saved
\* file, the marker and the time code in its picture tell the same number, the
\* marker modulo its column, the time code, one ahead, modulo the day
\* (mainX.cpp:89, 102-105, 128-131, tcOSD.cpp:491-512, MarkerBuilder.h:82-111).
THEOREM AlwaysSavedTellTheirNumber == MainSpec => []SavedTellTheirNumber
BY MainInductive, MainInvSuffices, PTL

\* main calls the decoder as FFmpegDecode says it is called: called from main,
\* main2 keeps every promise it makes when it is alone (mainX.cpp:119-126).
THEOREM DecoderKeepsItsWord ==
  MainSpec => [](ReleasedOnReturn /\ GoodMeansNoFailure /\ CrashNeedsStaleStream)
<1>1. MainInv => ReleasedOnReturn /\ GoodMeansNoFailure /\ CrashNeedsStaleStream
  BY DecoderInvSuffices DEF MainInv
<1> QED BY <1>1, MainInductive, PTL
=============================================================================
