----------------------------- MODULE AudioFrame -----------------------------
(***************************************************************************)
(* AudioFrame (Lib.Base/audioFrame.cpp): a buffer for interleaved samples  *)
(* of four bytes, its size, and the counts of channels and of samples a    *)
(* channel.  Each call of a frame is an operator on its record; a frame    *)
(* belongs to one caller at a time.                                        *)
(*                                                                         *)
(* Products past 32 bits are left out, and so is a count of zero channels, *)
(* by which setBufferSize divides.                                         *)
(***************************************************************************)
EXTENDS Integers

CONSTANT Samples  \* 1920 in the code, the samples a frame is constructed for

\* What is known of the counts, a history: nothing for a new frame, which holds
\* no data but counts all of its buffer.
Constructed == [total |-> Samples * 16 * 4, data |-> 0, mono |-> 16, sample |-> Samples, told |-> "nothing"]

setBufferSize(f, size) ==
  [f EXCEPT !.data = size, !.sample = size \div (f.mono * 4),
            !.total = IF size > @ THEN size ELSE @, !.told = "set"]

\* Mutation: the size is set again only if it grows.
SetMonoCntGrow(f, cnt) ==
  LET g == [f EXCEPT !.mono = cnt, !.told = "set"]
      size == cnt * f.sample * 4
  IN  IF size > f.data THEN setBufferSize(g, size) ELSE g

SetMonoCnt(f, cnt) ==
  LET g == [f EXCEPT !.mono = cnt, !.told = "set"]
      size == cnt * f.sample * 4
  IN  IF size # f.data THEN setBufferSize(g, size) ELSE g

SetSampleCnt(f, sampleCnt) ==
  LET g == [f EXCEPT !.sample = sampleCnt, !.told = "set"]
      size == sampleCnt * 4 * f.mono
  IN  IF size # f.data THEN setBufferSize(g, size) ELSE g

\* The samples are taken for those of sixteen channels; the counts stay.
trimStero(f) ==
  [f EXCEPT !.data = @ \div 8,
            !.told = IF f.told = "set" /\ f.mono = 16 THEN "trimmed" ELSE "lost"]

\* The loop of trimStero, in place: two of sixteen channels move to the front.
get2AudioCnl(samples, buffer, cn1ID, cn2ID) ==
  LET copied[i \in 0 .. samples] ==
        IF i = 0 THEN buffer
        ELSE LET a == copied[i - 1]
                 b == [a EXCEPT ![2 * (i - 1)] = a[16 * (i - 1) + cn1ID]]
             IN  [b EXCEPT ![2 * (i - 1) + 1] = b[16 * (i - 1) + cn2ID]]
  IN  copied[samples]

-----------------------------------------------------------------------------

\* So many samples of so many channels are all that the data holds in full.
Describe(mono, sample, data) == mono * sample * 4 <= data /\ data < mono * (sample + 1) * 4

\* The data fits the buffer; once a count or the size was set the counts
\* describe it; after one trimming of sixteen channels the sample count still
\* does, for the two that are left (audioFrame.cpp:46-60, 82-96).
CountsAgree(f) ==
  /\ f.data <= f.total
  /\ f.told = "set"     => Describe(f.mono, f.sample, f.data)
  /\ f.told = "trimmed" => Describe(2, f.sample, f.data)

\* Trimming leaves, sample by sample, the pair asked for, though it reads what
\* it may have overwritten; each word stands for its place in the data
\* (audioFrame.cpp:56-60, 118-126).
TrimKeepsPair(f) ==
  LET samples == f.data \div (16 * 4)
  IN  \A steroID \in 0 .. 7 :
        LET buffer == get2AudioCnl(samples, [i \in 0 .. f.data \div 4 |-> i], 2 * steroID, 2 * steroID + 1)
        IN  \A i \in 0 .. samples - 1, j \in 0 .. 1 : buffer[2 * i + j] = 16 * i + 2 * steroID + j
=============================================================================
