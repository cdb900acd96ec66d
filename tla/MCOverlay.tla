----------------------------- MODULE MCOverlay -----------------------------
(***************************************************************************)
(* The heights of the formats, and the sizes a local that was never set    *)
(* may hold: none, or those of an earlier call.                            *)
(***************************************************************************)
EXTENDS Overlay

MCHeights == {TcBurn!size[fp].lines : fp \in Formats}
MCGarbage == {[pixels |-> 0, lines |-> 0], [pixels |-> 1920, lines |-> 1080]}
=============================================================================
