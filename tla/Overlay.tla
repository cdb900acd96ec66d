------------------------------ MODULE Overlay ------------------------------
(***************************************************************************)
(* What is drawn into pictures.  main draws the column of Build_Marker,    *)
(* then the time code of AJATimeCodeBurn over it: both are set to a format *)
(* and then draw into picture after picture; neither knows of the other.   *)
(* mainXX, a second program of its own, draws with TcOSD only.             *)
(***************************************************************************)
EXTENDS Marker

CONSTANTS Formats, PixFormats, Percents, Garbage, Scales

VARIABLES
  bRendered, font, rowBytes, asked, failed,                            \* of TimeCodeBurn
  shape, osdOffset, loaded, room, drawn, initSuc, overrun, scales,     \* of TcOSD
  program                                                              \* which of the two runs

burnVars == <<bRendered, font, rowBytes, asked, failed>>
osdVars  == <<shape, osdOffset, loaded, room, drawn, initSuc, overrun, scales>>
overlayVars == <<vars, burnVars, osdVars, program>>

TcBurn == INSTANCE TimeCodeBurn
Osd    == INSTANCE TcOSD

\* Sizes have no sign; the fonts there are PNGs of go up to 150 percent.
ASSUME OverlayAssumption ==
  /\ Formats \subseteq DOMAIN TcBurn!size
  /\ Percents \subseteq Nat
  /\ Garbage \subseteq [pixels : Nat, lines : Nat]
  /\ Scales \subseteq 1 .. 150

OverlayInit == Init /\ TcBurn!Init /\ Osd!Init /\ program \in {"main", "mainXX"}

\* A new format for both.
SetFormat(fp, pix) == TcBurn!RenderTimeCodeFont(fp, pix) /\ reset(TcBurn!size[fp].lines)

Picture == buildMarker /\ TcBurn!BurnTimeCode

LoadFont == \E type \in Osd!WorkType, scale \in Scales : Osd!loadFont(type, scale)

OverlayNext ==
  /\ UNCHANGED program
  /\ \/ /\ program = "main" /\ UNCHANGED osdVars
        /\ Picture \/ \E fp \in Formats, pix \in PixFormats : SetFormat(fp, pix)
     \/ /\ program = "mainXX" /\ UNCHANGED <<vars, burnVars>>
        /\ LoadFont

OverlaySpec == OverlayInit /\ [][OverlayNext]_overlayVars

-----------------------------------------------------------------------------

\* Column and font keep their types, whatever formats follow each other: the
\* indices are in the column after a picture, and the font's map holds every
\* character where CopyDigit looks for it (MarkerBuilder.h:58-65, 107-117,
\* timecodeburn.cpp:371-378, 388-607).
OverlayOK == TypeOK /\ TcBurn!FontOK

\* The digits stay inside the pictures: those of main in the format asked for
\* last, see TimeCodeBurn (timecodeburn.cpp:30-72, 280-390, 609-635), those of
\* TcOSD after any loads (tcOSD.cpp:184-231, 340-454).
DigitsInPicture == TcBurn!DigitsInPicture /\ Osd!OSDInPicture

\* See TcOSD: with one percentage the digits are read in the shape they were
\* drawn in (tcOSD.cpp:184-236, 276-289, 374-454), and only a load of 2160
\* writes outside the bitmaps (tcOSD.cpp:46-80, 249, 264-279).
OSDReadsAsDrawn  == Osd!OSDReadsAsDrawn
OverrunNeeds2160 == Osd!OverrunNeeds2160

\* Where main draws: the fifth player's column, 16 bits a pixel, and eleven
\* characters at 45 percent (mainX.cpp:102-105, MarkerBuilder.h:66-85, 155).
ColumnX   == 16 * (100 - 5 * 5) * 2
LineBytes == TcBurn!size[asked.fp].pixels * 2
MainDigits == TcBurn!Digits(45, 11)

\* The lines of the column, sixteen bytes each, that the digits cover.
Covered ==
  LET d     == MainDigits
      first == (d.first * rowBytes) \div LineBytes - 1
      last  == ((d.first + d.lines) * rowBytes) \div LineBytes + 1
      Hides(byte) == LET row == byte \div rowBytes
                         col == byte % rowBytes
                     IN  /\ d.first <= row /\ row < d.first + d.lines
                         /\ d.x - 16 < col /\ col < d.x + d.bytes
  IN  {line \in first .. last : Hides(line * LineBytes + ColumnX)}

BlockLines(block, field) ==
  {16 * block + 2 * j + (IF field = "A" THEN 0 ELSE 1) : j \in 0 .. 7}

\* In the format of main the time code leaves some lines of each block of the
\* column, so that the marker can still be read: the lines of the two do not
\* have the same length (mainX.cpp:89, 102-105, timecodeburn.cpp:53, 74-85).
ColumnSurvives ==
  asked = [fp |-> "1080i_5000", pix |-> "10BIT_YCBCR"] /\ bRendered /\ ~failed /\ totalBLocks = 66 =>
    LET covered == Covered
    IN  \A block \in Blocks, field \in Fields : ~(BlockLines(block, field) \subseteq covered)
=============================================================================
