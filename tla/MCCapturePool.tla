--------------------------- MODULE MCCapturePool ---------------------------
(***************************************************************************)
(* CapturePool with the two frame sizes the code is used with, 1080 and    *)
(* 2160 lines, in units of 1382400 bytes, and four ways to use it: one     *)
(* capturer of both formats, two of one format, two that start while       *)
(* initialize is at work, and two users of audio frames.  A third thread   *)
(* consumes.                                                               *)
(***************************************************************************)
EXTENDS CapturePool

CONSTANTS f1080, f2160, c, d

MCNeed == [f \in Formats |-> IF f = f2160 THEN 12 ELSE 3]
MCV210 == [f \in Formats |-> IF f = f2160 THEN 16 ELSE 4]

MCUses ==
  {[capturers |-> {c}, formats |-> Formats, pixs |-> 0 .. 2, early |-> FALSE, kind |-> "video"],
   [capturers |-> {c, d}, formats |-> {f2160}, pixs |-> 0 .. 2, early |-> FALSE, kind |-> "video"],
   [capturers |-> {c, d}, formats |-> {f2160}, pixs |-> 0 .. 2, early |-> TRUE, kind |-> "video"],
   [capturers |-> {c, d}, formats |-> {f1080}, pixs |-> {1}, early |-> FALSE, kind |-> "audio"]}
=============================================================================
