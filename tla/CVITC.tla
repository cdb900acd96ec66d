------------------------------- MODULE CVITC -------------------------------
(***************************************************************************)
(* CVITC (Lib.TCMarker/vitc.cpp): the time code AJA_TcOSD burns into the   *)
(* pictures, one inc for each.  Its fields are bytes.  The main program    *)
(* sets the format once and counts; a caller may also set the time code    *)
(* from a frame number, or take the time of the PC and count on from it    *)
(* with add.  m_real has no reader and is left out.                        *)
(***************************************************************************)
EXTENDS DropFrame

CONSTANTS Formats,   \* the m_format that setFormat may leave
          Numbers,   \* the frame numbers set is given
          Adds,      \* the frameNum add is given
          PcTimes,   \* the times of the PC: time codes of frame 0 ...
          Millis,    \* ... and their milliseconds
          MaxCount,  \* bound on the pictures between two calls that are not inc
          CallsAfter, \* bound on those calls: after how many pictures they come
          MaxSwitches \* bound on the setFormat of one time code

ASSUME CVITCAssumption ==
  /\ Formats \subseteq {24, 25, 29, 30, 50, 59, 60}
  /\ Numbers \subseteq Nat /\ Adds \subseteq Nat
  /\ PcTimes \subseteq [hour : 0 .. 23, minute : 0 .. 59, second : 0 .. 59, frame : {0}]
  /\ Millis \subseteq 0 .. 999
  /\ MaxCount \in Nat /\ CallsAfter \subseteq Nat /\ MaxSwitches \in Nat

VARIABLES
  m_format,
  tc,        \* m_hours, m_minutes, m_seconds, m_frames
  pc,        \* what loadFromPCtime gave the caller for add, in which format and
             \* whether its frame is a 31st
  \* history
  num,       \* the frame of the day the time code should show, or Unknown
  since,     \* pictures since the last call that was not inc
  switched,  \* how often the format changed under the time code
  late       \* the time code was counted on from a 31st frame

history == <<num, since, switched, late>>
vars    == <<m_format, tc, pc, history>>

Unknown == -1

\* Formats whose numbers are frames, their rate and what they leave out.
Counts(format)    == format \in {25, 29, 30}
Rate(format)      == IF format = 25 THEN 25 ELSE 30
DroppedAt(format) == IF format = 29 THEN 2 ELSE 0
Shown(t, format) == IF Counts(format) /\ IsTimecode(t, Rate(format), DroppedAt(format))
                    THEN FrameNumber(t, Rate(format), DroppedAt(format)) ELSE Unknown
DayAt(format)    == FramesPerDay(Rate(format), DroppedAt(format))

MayCall == since \in CallsAfter

time(h, m, s, f) == [hour |-> h, minute |-> m, second |-> s, frame |-> f]

NoTime == [time |-> time(0, 0, 0, 0), format |-> 0, late |-> FALSE]

-----------------------------------------------------------------------------

Init ==
  /\ m_format = 25 /\ tc = time(0, 0, 0, 0) /\ pc = NoTime
  /\ num = 0 /\ since = 0 /\ switched = 0 /\ late = FALSE

\* The time code keeps its numbers, whatever they mean in the new format.
setFormat(format) ==
  /\ MayCall /\ switched < MaxSwitches /\ format # m_format
  /\ m_format' = format
  /\ num' = Shown(tc, format) /\ since' = 0 /\ switched' = switched + 1
  /\ UNCHANGED <<tc, pc, late>>

\* maxFrame of inc and of add
maxFrame == CASE m_format \in {29, 30} -> 30
              [] m_format = 50 -> 50
              [] m_format = 59 -> 60
              [] OTHER -> 25
maxFrameOfAdd == IF m_format \in {25, 50} THEN 25 ELSE 30

\* Mutation: a frame is an int.
incByteInt(f) == f + 1

\* ++m_frames
incByte(f) == (f + 1) % 256

\* The frame the second after t begins with.
firstFrame(t) == IF m_format = 29 /\ t.second = 59 /\ t.minute % 10 # 9 THEN 2 ELSE 0

\* One picture on: a frame past the rate runs through the byte.
tick(t, max) ==
  IF incByte(t.frame) # max THEN [t EXCEPT !.frame = incByte(@)]
  ELSE IF t.second + 1 # 60 THEN time(t.hour, t.minute, t.second + 1, firstFrame(t))
  ELSE IF t.minute + 1 # 60 THEN time(t.hour, t.minute + 1, 0, firstFrame(t))
  ELSE time(IF t.hour + 1 = 24 THEN 0 ELSE t.hour + 1, 0, 0, firstFrame(t))

inc ==
  /\ pc = NoTime /\ since < MaxCount
  /\ tc' = tick(tc, maxFrame)
  /\ num' = IF num = Unknown THEN Unknown ELSE (num + 1) % DayAt(m_format)
  /\ since' = since + 1
  /\ UNCHANGED <<m_format, pc, switched, late>>

\* Mutation: the first frame of a minute is taken for the last of another.
UndroppedLate(n) ==
  LET within == n % 17982
  IN  IF m_format \notin {29, 59} THEN n
      ELSE n + (IF within > 1800 THEN ((within - 2) \div 1798) * 2 ELSE 0) + (n \div 17982) * 18

\* set(real, n): n counts the frames of the day; the numbers left out before
\* it are added, eighteen for ten minutes and two for a minute but the first.
framePerSec == CASE m_format \in {29, 59, 60} -> 30 [] m_format = 50 -> 25 [] OTHER -> m_format

Undropped(n) ==
  LET within == n % 17982
  IN  IF m_format \notin {29, 59} THEN n
      ELSE n + (IF within >= 1800 THEN ((within - 2) \div 1798) * 2 ELSE 0) + (n \div 17982) * 18

set(n) ==
  /\ pc = NoTime /\ MayCall /\ n < FramesPerDay(framePerSec, DroppedAt(m_format))
  /\ LET seconds == Undropped(n) \div framePerSec
     IN  tc' = time((seconds \div 3600) % 256, (seconds \div 60) % 60, seconds % 60,
                    Undropped(n) % framePerSec)
  /\ num' = IF Counts(m_format) THEN n ELSE Unknown
  /\ since' = 0 /\ switched' = 0 /\ late' = FALSE
  /\ UNCHANGED <<m_format, pc>>

\* loadFromPCtime: the time of day, its frame by whole milliseconds.  The caller
\* holds it for add, which comes next but for a setFormat.
msperframe == CASE m_format = 30 -> 1000 \div 30 [] m_format = 29 -> 1001 \div 29 [] OTHER -> 40

loadFromPCtime(t, ms) ==
  /\ pc = NoTime /\ MayCall
  /\ pc' = [time |-> [t EXCEPT !.frame = ms \div msperframe],
            format |-> m_format, late |-> m_format = 30 /\ ms >= 990]
  /\ UNCHANGED <<m_format, tc, history>>

\* add: counts frameNum frames on from what the caller passes, here what
\* loadFromPCtime gave it.
add(frameNum) ==
  /\ pc # NoTime /\ pc' = NoTime
  /\ LET count[i \in 0 .. frameNum] ==
           IF i = 0 THEN pc.time ELSE tick(count[i - 1], maxFrameOfAdd)
     IN  tc' = count[frameNum]
  /\ num' = IF Shown(pc.time, m_format) = Unknown THEN Unknown
            ELSE (Shown(pc.time, m_format) + frameNum) % DayAt(m_format)
  /\ since' = 0 /\ switched' = (IF pc.format = m_format THEN 0 ELSE 1) /\ late' = pc.late
  /\ UNCHANGED m_format

Next ==
  \/ inc
  \/ \E format \in Formats : setFormat(format)
  \/ \E n \in Numbers : set(n)
  \/ \E t \in PcTimes, ms \in Millis : loadFromPCtime(t, ms)
  \/ \E frameNum \in Adds : add(frameNum)

Spec == Init /\ [][Next]_vars

-----------------------------------------------------------------------------

\* As long as the counts make sense, set, inc and add agree on the frame of
\* the day: what they show exists and is the frame that was set or passed
\* plus those counted since, across minutes, tenth minutes and midnight
\* (vitc.cpp:67-134, 152-182).
ShowsTheFrame == num # Unknown => Shown(tc, m_format) = num

\* A frame past the rate is never shown unless the format was changed under
\* the time code, or the time code was counted on from the last ten
\* milliseconds of a second of 30 frames, which loadFromPCtime calls frame
\* 30, or in the formats 24 and 60, where inc counts seconds of 25 frames and
\* add, or set, of 30 (vitc.cpp:67-134, 152-208).  Nor does it stay: inc tests
\* for equality only, but the byte runs out after at most 255 - maxFrame more
\* pictures (vitc.cpp:78).
PastRateHasReason ==
  tc.frame >= maxFrame =>
    /\ switched > 0 \/ late \/ m_format \in {24, 60}
    /\ since <= 255 - maxFrame
=============================================================================
