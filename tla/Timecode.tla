------------------------------ MODULE Timecode ------------------------------
(***************************************************************************)
(* Timecode (Lib.Base/timecode.cpp): hour, minute, second and frame, moved *)
(* forwards and backwards one frame at a time.  The calls take _maxFrame;  *)
(* a caller passes the same one to every call of a time code, and 30 and   *)
(* 60 stand for the drop-frame counts.  Definitions that CVITC has too are *)
(* named for the component, so that a module may extend both.              *)
(***************************************************************************)
EXTENDS DropFrame

CONSTANTS MaxFrame,  \* _maxFrame, which a char holds
          Starts,    \* the time codes setTC or the constructor is given
          Offsets,   \* the _nOffset decrease is called with
          MaxSteps   \* bound on the calls

Dropped == CASE MaxFrame = 30 -> 2 [] MaxFrame = 60 -> 4 [] OTHER -> 0

ASSUME TimecodeAssumption ==
  /\ MaxFrame \in 1 .. 127
  /\ \A t \in Starts : IsTimecode(t, MaxFrame, Dropped)
  /\ Starts \subseteq [hour : Int, minute : Int, second : Int, frame : Int]
  /\ Offsets \subseteq Nat
  /\ MaxSteps \in Nat

VARIABLES timecode,
          left,  \* the turns decrease(_maxFrame, _nOffset) has left
          steps  \* history: the calls made

timecodeVars == <<timecode, left, steps>>

TimecodeInit == timecode \in Starts /\ left = 0 /\ steps = 0

Call == left = 0 /\ steps < MaxSteps /\ steps' = steps + 1

-----------------------------------------------------------------------------

make_tc(h, m, s, f) == [hour |-> h, minute |-> m, second |-> s, frame |-> f]

\* Mutation: numbers are left out of every minute.
StepTenth(t) ==
  IF t.frame + 1 # MaxFrame  THEN make_tc(t.hour, t.minute, t.second, t.frame + 1)
  ELSE IF t.second + 1 # 60  THEN make_tc(t.hour, t.minute, t.second + 1, 0)
  ELSE IF t.minute + 1 # 60  THEN make_tc(t.hour, t.minute + 1, 0, Dropped)
  ELSE make_tc(IF t.hour + 1 = 24 THEN 0 ELSE t.hour + 1, 0, 0, 0)

\* The next number: those a minute begins with are left out unless it is a
\* tenth one, as that of an hour is.
Step(t) ==
  IF t.frame + 1 # MaxFrame  THEN make_tc(t.hour, t.minute, t.second, t.frame + 1)
  ELSE IF t.second + 1 # 60  THEN make_tc(t.hour, t.minute, t.second + 1, 0)
  ELSE IF t.minute + 1 # 60  THEN make_tc(t.hour, t.minute + 1, 0,
                                    IF (t.minute + 1) % 10 # 0 THEN Dropped ELSE 0)
  ELSE make_tc(IF t.hour + 1 = 24 THEN 0 ELSE t.hour + 1, 0, 0, 0)

\* inc (that of CVITC has the name in lower case)
Inc == Call /\ timecode' = Step(timecode) /\ UNCHANGED left

\* The last number of the second before.
SecondBefore(t) ==
  IF t.second # 0      THEN make_tc(t.hour, t.minute, t.second - 1, MaxFrame - 1)
  ELSE IF t.minute # 0 THEN make_tc(t.hour, t.minute - 1, 59, MaxFrame - 1)
  ELSE make_tc(IF t.hour = 0 THEN 23 ELSE t.hour - 1, 59, 59, MaxFrame - 1)

\* A first number of a minute, as decrease sees it: the second is not looked at.
LooksFirst(t) == Dropped > 0 /\ t.frame = Dropped /\ t.minute % 10 # 0

\* Mutation: the first number of a minute is not looked for.
StepBackPlain(t) ==
  IF t.frame = 0 THEN SecondBefore(t)
                 ELSE make_tc(t.hour, t.minute, t.second, t.frame - 1)

\* decrease(_maxFrame)
StepBack(t) ==
  IF LooksFirst(t) \/ t.frame = 0
  THEN SecondBefore(t)
  ELSE make_tc(t.hour, t.minute, t.second, t.frame - 1)

\* decrease(_maxFrame, _nOffset): its loop, one turn at a time.
decrease(nOffset) ==
  /\ Call
  /\ left' = nOffset
  /\ UNCHANGED timecode

Turn ==
  /\ left > 0 /\ left' = left - 1
  /\ timecode' = StepBack(timecode)
  /\ UNCHANGED steps

TimecodeNext == Inc \/ Turn \/ \E nOffset \in Offsets : decrease(nOffset)

TimecodeSpec == TimecodeInit /\ [][TimecodeNext]_timecodeVars

-----------------------------------------------------------------------------

Number == FrameNumber(timecode, MaxFrame, Dropped)
Day    == FramesPerDay(MaxFrame, Dropped)

\* A caller that only starts at numbers that exist never sees one that does
\* not, whichever way it counts and across every boundary (timecode.cpp:16-60).
TypeOK ==
  /\ timecode \in [hour : 0 .. 23, minute : 0 .. 59, second : 0 .. 59, frame : 0 .. MaxFrame - 1]
  /\ left \in Nat /\ steps \in 0 .. MaxSteps
  /\ IsTimecode(timecode, MaxFrame, Dropped)

\* inc is the next frame of the day, and the last is followed by the first
\* (timecode.cpp:16-34).
IncIsNextFrame == [][Inc => Number' = (Number + 1) % Day]_timecodeVars

\* A turn of decrease is the frame before, except on the number that would be the first
\* of the minute in one of its later seconds: there it leaves out as many
\* frames as the count has no numbers for (timecode.cpp:42-60).
DecreaseIsFrameBefore ==
  [][Turn =>
       Number' = (Number - (IF LooksFirst(timecode) /\ timecode.second # 0 THEN 1 + Dropped ELSE 1)) % Day]_timecodeVars
=============================================================================
