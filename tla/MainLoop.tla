------------------------------ MODULE MainLoop ------------------------------
(***************************************************************************)
(* main (Main/mainX.cpp): one picture after another is read, marked, given *)
(* a time code, converted and encoded on the GPU, decoded and judged by    *)
(* FFmpegDecode, and saved when it is not good.  One FFmpegDecode, one     *)
(* Build_Marker, one AJA_TcOSD and six frames serve the whole run.  The    *)
(* variables of FFmpegDecode are its own: place is where main is, at where *)
(* main2 is.                                                               *)
(*                                                                         *)
(* The frames, the GPU and the files are external: a call of the GPU       *)
(* copies what its source frame holds or fails, saving does not.           *)
(***************************************************************************)
EXTENDS FFmpegDecode, Sequences

CONSTANTS FileLength,  \* whole pictures in the file
          Height       \* of the pictures

ASSUME MainLoopAssumption ==
  /\ FileLength \in 0 .. MaxCalls
  /\ Height \in Nat /\ Height \div 16 > 4

VARIABLES
  place,      \* where main is
  loopcount,
  frames,     \* what each of the six frames holds: whose picture, which marks
  saved,      \* the files in destFolder: their names and what they hold
  verdicts,   \* history: what main2 returned, by picture
  \* the other components
  totalBLocks, halfBlocks, fieldInx, column, before, marked,
  m_ajaTimeCodeBurn, m_vitc, bRendered, font, rowBytes, asked, failed,
  m_format, tc, pc, num, since, switched, late

decoder == vars
marker  == <<totalBLocks, halfBlocks, fieldInx, column, before, marked>>
osd     == <<m_ajaTimeCodeBurn, m_vitc, bRendered, font, rowBytes, asked, failed,
             m_format, tc, pc, num, since, switched, late>>
mainVars == <<place, loopcount, frames, saved, verdicts, decoder, marker, osd>>

m_Build_Marker == INSTANCE Marker WITH Heights <- {Height}
TcOSD == INSTANCE AJA_TcOSD WITH Formats <- {"1080i_5000"}, PixFormats <- {"10BIT_YCBCR"},
                                 MaxCount <- FileLength

FrameNames == {"vfCPU_V210", "vfGPU_v210", "vfGPU", "vfCPU", "vfDnxGPU", "vfDnxCPU"}
NoPicture  == [number |-> -1, column |-> {}, time |-> {}]

GoOn(from, to) == place = from /\ place' = to

-----------------------------------------------------------------------------

\* What main builds before its loop.
MainInit ==
  /\ place = "open" /\ loopcount = 0
  /\ frames = [f \in FrameNames |-> NoPicture]
  /\ saved = {} /\ verdicts = <<>>
  /\ Init /\ m_Build_Marker!Init /\ TcOSD!Init

Open ==
  /\ GoOn("open", "render") \/ GoOn("open", "exit")
  /\ UNCHANGED <<loopcount, frames, saved, verdicts, decoder, marker, osd>>

\* What RenderTimeCodeFont returns is not looked at.
Render ==
  /\ GoOn("render", "read")
  /\ TcOSD!RenderTimeCodeFont("1080i_5000", "10BIT_YCBCR")
  /\ UNCHANGED <<loopcount, frames, saved, verdicts, decoder, marker>>

\* fread: a whole picture, or the end of the file and of the program.
Read ==
  /\ \/ /\ GoOn("read", "mark") /\ loopcount < FileLength
        /\ frames' = [frames EXCEPT !["vfCPU_V210"] = [NoPicture EXCEPT !.number = loopcount]]
     \/ GoOn("read", "exit") /\ loopcount = FileLength /\ UNCHANGED frames
  /\ UNCHANGED <<loopcount, saved, verdicts, decoder, marker, osd>>

Mark ==
  /\ GoOn("mark", "burn")
  /\ m_Build_Marker!buildMarker
  /\ frames' = [frames EXCEPT !["vfCPU_V210"].column = column'["A"]]
  /\ UNCHANGED <<loopcount, saved, verdicts, decoder, osd>>

\* Mutation: the time code is counted on after it was burned.
BurnThenCount ==
  /\ GoOn("burn", "upload")
  /\ TcOSD!BurnTimeCode
  /\ frames' = [frames EXCEPT !["vfCPU_V210"].time = {tc}]
  /\ UNCHANGED <<loopcount, saved, verdicts, decoder, marker>>

Burn ==
  /\ IF m_vitc
     THEN /\ GoOn("burn", "upload")
          /\ TcOSD!BurnTimeCode
          /\ frames' = [frames EXCEPT !["vfCPU_V210"].time = TcOSD!Burned]
     ELSE GoOn("burn", "crashed") /\ UNCHANGED <<frames, osd>>
  /\ UNCHANGED <<loopcount, saved, verdicts, decoder, marker>>

\* GpuDMA::copy, FrameConvGPU::conv, encodeDNxHDSync: cheeck_Ret ends the
\* program when one fails.
Gpu(from, to, source, dest) ==
  /\ \/ GoOn(from, to) /\ frames' = [frames EXCEPT ![dest] = frames[source]]
     \/ GoOn(from, "exit") /\ UNCHANGED frames
  /\ UNCHANGED <<loopcount, saved, verdicts, decoder, marker, osd>>

\* Mutation: the converted picture is not copied back.
GpuStepsNoDownload ==
  \/ Gpu("upload", "convert", "vfCPU_V210", "vfGPU_v210")
  \/ Gpu("convert", "encode", "vfGPU_v210", "vfGPU")
  \/ Gpu("encode", "fetch", "vfGPU", "vfDnxGPU")
  \/ Gpu("fetch", "decode", "vfDnxGPU", "vfDnxCPU")

GpuSteps ==
  \/ Gpu("upload", "convert", "vfCPU_V210", "vfGPU_v210")
  \/ Gpu("convert", "download", "vfGPU_v210", "vfGPU")
  \/ Gpu("download", "encode", "vfGPU", "vfCPU")
  \/ Gpu("encode", "fetch", "vfGPU", "vfDnxGPU")
  \/ Gpu("fetch", "decode", "vfDnxGPU", "vfDnxCPU")

\* main2 is called, runs, and returns; a crash of it is one of the program.
Decode ==
  /\ GoOn("decode", "judge")
  /\ \E size \in 1 .. MaxData : Main2(size)
  /\ UNCHANGED <<loopcount, frames, saved, verdicts, marker, osd>>

DecodeStep ==
  /\ place = "judge"
  /\ Step
  /\ UNCHANGED <<place, loopcount, frames, saved, verdicts, marker, osd>>

File(kind, source) == [name |-> <<kind, loopcount>>, holds |-> frames[source]]

Judge ==
  /\ GoOn("judge", "read") /\ at = "idle"
  /\ verdicts' = Append(verdicts, ret)
  /\ saved' = IF ret # 0 THEN saved \cup {File("yuv", "vfCPU"), File("dnx", "vfDnxCPU")}
                         ELSE saved
  /\ loopcount' = loopcount + 1
  /\ UNCHANGED <<frames, decoder, marker, osd>>

MainNext ==
  Open \/ Render \/ Read \/ Mark \/ Burn \/ GpuSteps \/ Decode \/ DecodeStep \/ Judge

\* One thread: it goes on whenever it can.
MainSpec == MainInit /\ [][MainNext]_mainVars /\ WF_mainVars(MainNext)

-----------------------------------------------------------------------------

\* The files are those of the pictures main2 did not judge good, two for each:
\* the encoded picture that was judged and the picture it was encoded from.
\* No frame still holds an earlier picture when it is saved (mainX.cpp:112-131).
SavedAreTheBad ==
  /\ {f.name : f \in saved} =
       {"yuv", "dnx"} \X {n \in 0 .. loopcount - 1 : verdicts[n + 1] # 0}
  /\ \A f \in saved : f.holds.number = f.name[2]

\* The number in the name of a file, the marker and the time code in its
\* picture tell the same: the counters of three objects move together through
\* failures and bad pictures, the marker's round its column, the time code round
\* the day, and the time code is in every picture, one ahead of the name
\* (mainX.cpp:89, 102-105, 128-131, tcOSD.cpp:491-512, MarkerBuilder.h:82-111).
SavedTellTheirNumber ==
  \A f \in saved :
    /\ m_Build_Marker!Reads(f.holds.column, f.name[2] % totalBLocks)
    /\ \E time \in f.holds.time :
         TcOSD!vitc!Shown(time, 25) = (f.name[2] + 1) % TcOSD!vitc!DayAt(25)

\* main ends, by an exit of its own or in a crash of the decoder: the file does,
\* main2 comes back each time, and the time code was rendered before it is
\* burned (mainX.cpp:89-132, tcOSD.cpp:507-511).
MainEnds == <>(place = "exit" \/ at = "crashed")
=============================================================================
