----------------------------- MODULE DropFrame -----------------------------
(***************************************************************************)
(* The reference Timecode and CVITC are measured against: a time code is   *)
(* the number of a frame of the day, written in hours, minutes, seconds    *)
(* and frames.  A drop-frame count leaves out the first numbers of every   *)
(* minute but each tenth.                                                  *)
(***************************************************************************)
EXTENDS Integers

Minutes(t) == 60 * t.hour + t.minute

\* rate: numbers per second; dropped: numbers left out of a minute.
IsTimecode(t, rate, dropped) ==
  /\ t.hour \in 0 .. 23 /\ t.minute \in 0 .. 59 /\ t.second \in 0 .. 59
  /\ t.frame \in 0 .. rate - 1
  /\ t.second = 0 /\ t.minute % 10 # 0 => t.frame >= dropped

FrameNumber(t, rate, dropped) ==
  (60 * Minutes(t) + t.second) * rate + t.frame - dropped * (Minutes(t) - Minutes(t) \div 10)

FramesPerDay(rate, dropped) == 86400 * rate - 1296 * dropped
=============================================================================
