--------------------------- MODULE FFmpegDecode ---------------------------
(***************************************************************************)
(* FFmpegDecode (Main/ffmpegDecoder.h): main2 decodes one encoded picture  *)
(* with FFmpeg and judges it: 0 is good, anything else is not.  One object *)
(* judges every picture of the run, so the members it leaves behind are    *)
(* the state the next call starts from.                                    *)
(*                                                                         *)
(* FFmpeg itself is external: each of its calls may succeed, fail and log. *)
(* Messages may come from any of them; of the messages of a call what      *)
(* matters is whether any was an error and whether the last one was.       *)
(***************************************************************************)
EXTENDS Integers, FiniteSets

CONSTANTS Streams,    \* the stream indices an input may have
          MaxData,    \* bound on the size of an input, in units
          IoBuffer,   \* avio_ctx_buffer_size, in the same units
          MaxFrames,  \* bound on the frames a decoder has ready at a time
          MaxCalls    \* bound on the calls of main2

ASSUME FFmpegDecodeAssumption ==
  /\ Streams \subseteq Nat /\ IsFiniteSet(Streams)
  /\ MaxData \in Nat \ {0} /\ IoBuffer \in Nat \ {0}
  /\ MaxFrames \in Nat /\ MaxCalls \in Nat

VARIABLES
  at,          \* where main2 is
  \* members
  dec_ctx,     \* video_dec_ctx: "null", "alloc" (not opened) or "open"
  stream,      \* video_stream: "null", "live" or "dangling"
  stream_idx,  \* video_stream_idx
  frame, pkt,  \* whether they are allocated
  \* locals and what they own
  fmt_ctx,     \* "null", "alloc" or "open"
  avio,        \* "null", "buffer" (avio_ctx_buffer only) or "context"
  bdSize,      \* bd.size: what read_packet has not handed out
  buffered,    \* what FFmpeg has been handed and has not made packets of
  ready,       \* frames the decoder has ready for the current packet
  ret,
  bError,      \* the global FFmpegLogFunc sets
  \* history
  logged,      \* avformat_find_stream_info logged an error in this call
  call         \* of this call: found a stream, which of its calls failed, got a
               \* packet decoded; of all calls: found a stream, leaks

members == <<dec_ctx, stream, stream_idx, frame, pkt>>
input   == <<bdSize, buffered, ready>>
log     == <<bError, logged>>
vars    == <<at, members, fmt_ctx, avio, input, ret, log, call>>

ENOMEM   == -12
EINVAL   == -22
LogFound == -99999

NoCall == [n |-> 0, found |-> FALSE, failed |-> {}, decoded |-> FALSE,
           everFound |-> FALSE, avioFailed |-> FALSE, leaked |-> FALSE]

\* A step of main2 from one place to the next.
Goto(from, to) == at = from /\ at' = to

\* What main2 calls fails; it is named by the place it is called from.
Fails(what) == call' = [call EXCEPT !.failed = @ \cup {what}]

\* FFmpegLogFunc, for the messages of one FFmpeg call: each overwrites bError,
\* so what stays is the level of the last.
FFmpegLogFunc ==
  \/ UNCHANGED log
  \/ /\ bError' \in BOOLEAN
     /\ logged' \in IF at = "probe" THEN {b \in BOOLEAN : logged \/ bError' => b} ELSE {logged}

-----------------------------------------------------------------------------

Init ==
  /\ at = "idle"
  /\ dec_ctx = "null" /\ stream = "null" /\ stream_idx = -1
  /\ frame = FALSE /\ pkt = FALSE
  /\ fmt_ctx = "null" /\ avio = "null"
  /\ bdSize = 0 /\ buffered = 0 /\ ready = 0
  /\ ret = 0 /\ bError = FALSE /\ logged = FALSE
  /\ call = NoCall

Main2(size) ==
  /\ Goto("idle", "alloc") /\ call.n < MaxCalls
  /\ bError' = FALSE /\ logged' = FALSE /\ ret' = 0
  /\ bdSize' = size /\ buffered' = 0 /\ ready' = 0
  /\ call' = [call EXCEPT !.n = @ + 1, !.found = FALSE, !.failed = {}, !.decoded = FALSE]
  /\ UNCHANGED <<members, fmt_ctx, avio>>

\* avformat_alloc_context, av_malloc and avio_alloc_context: each may fail,
\* which goes to end with ENOMEM.
AllocFails(from) ==
  /\ Goto(from, "end")
  /\ ret' = ENOMEM /\ Fails(from)
  /\ UNCHANGED <<members, fmt_ctx, avio, input, log>>

AllocFormat ==
  \/ /\ Goto("alloc", "buffer") /\ fmt_ctx' = "alloc"
     /\ UNCHANGED <<members, avio, input, ret, log, call>>
  \/ AllocFails("alloc")

AllocBuffer ==
  \/ /\ Goto("buffer", "avio") /\ avio' = "buffer"
     /\ UNCHANGED <<members, fmt_ctx, input, ret, log, call>>
  \/ AllocFails("buffer")

AllocAvio ==
  \/ /\ Goto("avio", "open") /\ avio' = "context"
     /\ UNCHANGED <<members, fmt_ctx, input, ret, log, call>>
  \/ /\ Goto("avio", "end") /\ ret' = ENOMEM
     /\ call' = [call EXCEPT !.failed = @ \cup {"avio"}, !.avioFailed = TRUE]
     /\ UNCHANGED <<members, fmt_ctx, avio, input, log>>

\* Mutation: a read_packet that does not move on.
read_packetAgain ==
  /\ at \in {"open", "probe", "read"} /\ bdSize > 0 /\ buffered = 0
  /\ buffered' = IF IoBuffer <= bdSize THEN IoBuffer ELSE bdSize
  /\ UNCHANGED <<at, members, fmt_ctx, avio, bdSize, ready, ret, log, call>>

\* read_packet, asked when FFmpeg has nothing left: a buffer full, or the rest.
read_packet ==
  /\ at \in {"open", "probe", "read"} /\ bdSize > 0 /\ buffered = 0
  /\ LET n == IF IoBuffer <= bdSize THEN IoBuffer ELSE bdSize
     IN  bdSize' = bdSize - n /\ buffered' = n
  /\ UNCHANGED <<at, members, fmt_ctx, avio, ready, ret, log, call>>

\* avformat_open_input frees the context it was given when it fails.
OpenInput ==
  /\ FFmpegLogFunc
  /\ \/ Goto("open", "probe") /\ fmt_ctx' = "open" /\ UNCHANGED <<ret, call>>
     \/ Goto("open", "end") /\ fmt_ctx' = "null" /\ ret' = EINVAL /\ Fails("open")
  /\ UNCHANGED <<members, avio, input>>

\* ret stays what avformat_find_stream_info gave: 0 or more, when it succeeds.
FindStreamInfo ==
  /\ FFmpegLogFunc
  /\ \/ Goto("probe", "check") /\ ret' \in {0, 1} /\ UNCHANGED call
     \/ Goto("probe", "end") /\ ret' = EINVAL /\ Fails("probe")
  /\ UNCHANGED <<members, fmt_ctx, avio, input>>

\* The last message before this point was an error.
CheckError ==
  /\ IF bError THEN Goto("check", "end") /\ ret' = LogFound /\ Fails("check")
               ELSE Goto("check", "codec") /\ UNCHANGED <<ret, call>>
  /\ UNCHANGED <<members, fmt_ctx, avio, input, log>>

\* Mutation: the stream and its index are set before the codec is opened.
OpenCodecFailsLate ==
  /\ Goto("codec", "stream")
  /\ dec_ctx' \in {dec_ctx, "null", "alloc"}
  /\ stream' = "live" /\ stream_idx' \in Streams
  /\ Fails("codec")
  /\ UNCHANGED <<frame, pkt, fmt_ctx, avio, input, ret>>
  /\ FFmpegLogFunc

\* open_codec_context: no stream or no decoder leaves everything alone; a
\* codec that does not open leaves its context behind; a success sets the
\* stream and its index.  Nothing resets them when it fails.
OpenCodecFails ==
  /\ Goto("codec", "stream")
  /\ dec_ctx' \in {dec_ctx, "null", "alloc"}
  /\ Fails("codec")
  /\ UNCHANGED <<stream, stream_idx, frame, pkt, fmt_ctx, avio, input, ret>>
  /\ FFmpegLogFunc

OpenCodec ==
  /\ Goto("codec", "stream")
  /\ dec_ctx' = "open" /\ stream' = "live" /\ stream_idx' \in Streams
  /\ call' = [call EXCEPT !.found = TRUE, !.everFound = TRUE]
  /\ FFmpegLogFunc
  /\ UNCHANGED <<frame, pkt, fmt_ctx, avio, input, ret>>

CheckStream ==
  /\ IF stream = "null" THEN Goto("stream", "end") /\ ret' = 1
                        ELSE Goto("stream", "frame") /\ UNCHANGED ret
  /\ UNCHANGED <<members, fmt_ctx, avio, input, log, call>>

AllocFrame ==
  \/ /\ Goto("frame", "pkt") /\ frame' = TRUE
     /\ UNCHANGED <<dec_ctx, stream, stream_idx, pkt, fmt_ctx, avio, input, ret, log, call>>
  \/ AllocFails("frame")

AllocPacket ==
  \/ /\ Goto("pkt", "read") /\ pkt' = TRUE
     /\ UNCHANGED <<dec_ctx, stream, stream_idx, frame, fmt_ctx, avio, input, ret, log, call>>
  \/ AllocFails("pkt")

\* av_read_frame: a packet of some stream, sent to the decoder if the stream
\* is the one in video_stream_idx; the end, or an error, which is taken for it.
ReadFrame ==
  \/ /\ at = "read" /\ buffered > 0
     /\ buffered' = buffered - 1
     /\ \E s \in Streams : at' = IF s = stream_idx THEN "send" ELSE "read"
     /\ UNCHANGED <<members, fmt_ctx, avio, bdSize, ready, ret, log, call>>
  \/ /\ Goto("read", "flush")
     /\ Fails("read") \/ UNCHANGED call
     /\ UNCHANGED <<members, fmt_ctx, avio, input, ret, log>>

\* decode_packet, avcodec_send_packet: through a null context the program
\* dies; a context that was never opened refuses.
SendPacket ==
  /\ at = "send"
  /\ \/ /\ dec_ctx = "null" /\ at' = "crashed"
        /\ UNCHANGED <<ready, ret, call>>
     \/ /\ dec_ctx # "null" /\ at' = "flush" /\ ret' = EINVAL /\ Fails("send")
        /\ UNCHANGED ready
     \/ /\ dec_ctx = "open" /\ at' = "receive" /\ ready' \in 0 .. MaxFrames
        /\ call' = [call EXCEPT !.decoded = TRUE] /\ UNCHANGED ret
  /\ FFmpegLogFunc
  /\ UNCHANGED <<members, fmt_ctx, avio, bdSize, buffered>>

\* avcodec_receive_frame and output_video_frame: a frame of the expected
\* width, height and format; one of another, or an error of the decoder; no
\* more frames for this packet.
GoodFrame ==
  /\ Goto("receive", "receive") /\ ready > 0 /\ ready' = ready - 1
  /\ UNCHANGED <<bdSize, buffered, ret, call>>

BadFrame ==
  /\ Goto("receive", "flush") /\ ret' = -1 /\ ready' = 0 /\ Fails("receive")
  /\ UNCHANGED <<bdSize, buffered>>

NoMoreFrames ==
  /\ Goto("receive", "read") /\ ready = 0 /\ ret' = 0
  /\ UNCHANGED <<input, call>>

\* Mutation: what output_video_frame returns is not looked at.
BadFrameIgnored ==
  /\ Goto("receive", "receive") /\ ready > 0 /\ ready' = ready - 1 /\ Fails("receive")
  /\ UNCHANGED <<bdSize, buffered, ret>>

ReceiveFrameLenient ==
  /\ GoodFrame \/ BadFrameIgnored \/ NoMoreFrames
  /\ FFmpegLogFunc
  /\ UNCHANGED <<members, fmt_ctx, avio>>

ReceiveFrame ==
  /\ GoodFrame \/ BadFrame \/ NoMoreFrames
  /\ FFmpegLogFunc
  /\ UNCHANGED <<members, fmt_ctx, avio>>

\* The flush drains the decoder, if there is one: one that was never opened
\* refuses.  What decode_packet returns is dropped.
Flush ==
  /\ Goto("flush", "end")
  /\ IF dec_ctx = "null" THEN UNCHANGED <<log, call>>
     ELSE /\ FFmpegLogFunc
          /\ Fails("flush") \/ (dec_ctx = "open" /\ UNCHANGED call)
  /\ UNCHANGED <<members, fmt_ctx, avio, input, ret>>

\* end: everything goes, but the I/O buffer is reached only through avio_ctx
\* and video_stream and video_stream_idx are left.  Mutation: no av_packet_free.
Return(packet) ==
  /\ Goto("end", "idle")
  /\ dec_ctx' = "null" /\ fmt_ctx' = "null"
  /\ frame' = FALSE /\ pkt' = packet
  /\ avio' = "null"
  /\ stream' = IF stream = "null" THEN "null" ELSE "dangling"
  /\ call' = [call EXCEPT !.leaked = @ \/ avio = "buffer"]
  /\ UNCHANGED <<stream_idx, input, ret, log>>

EndNoPacketFree == Return(pkt)
End == Return(FALSE)

Step ==
  \/ AllocFormat \/ AllocBuffer \/ AllocAvio \/ read_packet \/ OpenInput \/ FindStreamInfo
  \/ CheckError \/ OpenCodecFails \/ OpenCodec \/ CheckStream \/ AllocFrame \/ AllocPacket
  \/ ReadFrame \/ SendPacket \/ ReceiveFrame \/ Flush \/ End

Next == Step \/ \E size \in 1 .. MaxData : Main2(size)

Spec == Init /\ [][Next]_vars

-----------------------------------------------------------------------------

Returned == at = "idle" /\ call.n > 0

\* Whichever goto is taken, main2 returns owning nothing; the one thing it can
\* leak is the I/O buffer, when avio_alloc_context fails (ffmpegDecoder.h:332-349).
ReleasedOnReturn ==
  /\ Returned => dec_ctx = "null" /\ fmt_ctx = "null" /\ ~frame /\ ~pkt /\ avio = "null"
  /\ call.leaked => call.avioFailed

\* A picture judged good may have met three failures and no other: its codec did
\* not open, a read ended in an error, the flush failed.  The first needs the
\* stream of an earlier picture, and nothing of the picture was then decoded: it
\* is good unseen (ffmpegDecoder.h:79-115, 236-330).
GoodMeansNoFailure ==
  Returned /\ ret = 0 =>
    /\ call.failed \subseteq {"codec", "read", "flush"}
    /\ "codec" \in call.failed => call.everFound /\ ~call.found /\ ~call.decoded

\* The program dies in the decoder only on a picture without a stream of its
\* own, judged with the index an earlier picture left (ffmpegDecoder.h:53, 317-321).
CrashNeedsStaleStream == at = "crashed" => ~call.found /\ call.everFound

\* What the message of ffmpegDecoder.h:297 says: "Could not find audio or video
\* stream in the input, aborting".  A picture without a stream is not good.
NoStreamAborts == Returned /\ ret = 0 => call.found

\* What the message of ffmpegDecoder.h:268 says: "avformat_find_stream_info find
\* error".  A picture FFmpeg complained of while probing it is not good.
ProbeErrorsFound == Returned /\ ret = 0 => ~logged
=============================================================================
