----------------------------- MODULE MCTimecode -----------------------------
(***************************************************************************)
(* Timecode three frames before a boundary: of a second, of a minute, of a *)
(* tenth minute, of an hour and of the day.                                *)
(***************************************************************************)
EXTENDS Timecode

EndOf(h, m, s) == [hour |-> h, minute |-> m, second |-> s, frame |-> MaxFrame - 3]

MCStarts == {EndOf(0, 1, 2), EndOf(0, 0, 59), EndOf(0, 9, 59), EndOf(0, 10, 59),
             EndOf(0, 59, 59), EndOf(23, 59, 59)}
MCOffsets == {1, 3, MaxFrame + 1}
=============================================================================
