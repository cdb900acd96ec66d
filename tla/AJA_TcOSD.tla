----------------------------- MODULE AJA_TcOSD -----------------------------
(***************************************************************************)
(* AJA_TcOSD (Lib.TCMarker/tcOSD.cpp): the burner of main, an              *)
(* AJATimeCodeBurn and a CVITC, each made when it is first asked for.      *)
(* Only RenderTimeCodeFont makes the CVITC, which BurnTimeCode counts on.  *)
(* The other BurnTimeCode, which is given its string, has no caller.       *)
(***************************************************************************)
EXTENDS Integers

CONSTANTS Formats, PixFormats,  \* what RenderTimeCodeFont is asked for
          MaxCount              \* bound on the pictures

VARIABLES
  m_ajaTimeCodeBurn, m_vitc,  \* whether they exist
  bRendered, font, rowBytes, asked, failed,
  m_format, tc, pc, num, since, switched, late

\* The m_format of the video formats.
formatOf(fp) ==
  CASE fp \in {"720p_5000", "4Kp_5000", "8kp_5000"} -> 50 [] OTHER -> 25

burner == INSTANCE TimeCodeBurn WITH Percents <- {}, Garbage <- {[pixels |-> 0, lines |-> 0]}
vitc   == INSTANCE CVITC WITH Formats <- {formatOf(fp) : fp \in Formats}, Numbers <- {},
                              Adds <- {}, PcTimes <- {}, Millis <- {}, CallsAfter <- {0},
                              MaxSwitches <- 0

-----------------------------------------------------------------------------

\* Both are as their constructors will leave them.
Init ==
  /\ m_ajaTimeCodeBurn = FALSE /\ m_vitc = FALSE
  /\ burner!Init /\ vitc!Init

RenderTimeCodeFont(fp, pix) ==
  /\ m_ajaTimeCodeBurn' = TRUE /\ m_vitc' = TRUE
  /\ IF formatOf(fp) = m_format
     THEN UNCHANGED <<m_format, tc, pc, num, since, switched, late>>
     ELSE vitc!setFormat(formatOf(fp))
  /\ burner!RenderTimeCodeFont(fp, pix)

\* Where there is a CVITC; without one the program dies.
BurnTimeCode ==
  /\ m_ajaTimeCodeBurn' = TRUE /\ UNCHANGED m_vitc
  /\ vitc!inc
  /\ burner!BurnTimeCode

\* The time code that BurnTimeCode leaves in the picture: none without a font.
Burned == IF bRendered THEN {tc'} ELSE {}
=============================================================================
