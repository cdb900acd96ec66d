------------------------------- MODULE TcOSD -------------------------------
(***************************************************************************)
(* TcOSD (Lib.TCMarker/tcOSD.cpp): the older burner of time codes.         *)
(* loadFont cuts the digits out of a PNG into bitmaps, one set for SD, one *)
(* for 720 lines and one for 1080 and 2160; incrustSD .. incrust2160 copy  *)
(* bitmaps into a picture.  The pixels are left out: the module is about   *)
(* which shape a bitmap was allocated, drawn and read in, and where it     *)
(* lands.                                                                  *)
(***************************************************************************)
EXTENDS Integers, FiniteSets

CONSTANT Scales  \* the percentages the fonts are loaded at

VARIABLES
  shape,      \* m_char_Num_Width, m_char_S_Width, m_char_Height
  osdOffset,  \* m_osdOffset
  loaded,     \* m_bLoaded, the same as m_bAllocaMem
  room,       \* the shape each set of bitmaps was allocated for
  drawn,      \* the shape it was drawn in
  initSuc,    \* m_bInitSuc
  \* history
  overrun,    \* the bitmaps were written past their end, or through null
  scales      \* the percentages loadFont was called with

osdVars == <<shape, osdOffset, loaded, room, drawn, initSuc, overrun, scales>>

WorkType == {"SD", "720", "1080", "2160"}
Bitmaps  == {"SD", "720", "1080"}

NoShape == [num |-> 0, sep |-> 0, height |-> 0]

\* Mutation: only the digits of 1080 and 2160 are as wide as in the PNG.
charShapeUneven(type, scale) ==
  CASE type = "SD" -> [num |-> 36, sep |-> 28, height |-> 47]
    [] type # "SD" /\ scale = 100 -> [num |-> 50, sep |-> 40, height |-> 94]
    [] OTHER -> [num |-> IF type = "720" THEN (50 * scale) \div 100 ELSE 76,
                 sep |-> (40 * scale) \div 100, height |-> (94 * scale) \div 100 - 2]

charShape(type, scale) ==
  CASE type = "SD" -> [num |-> 36, sep |-> 28, height |-> 47]
    [] type # "SD" /\ scale = 100 -> [num |-> 50, sep |-> 40, height |-> 94]
    [] OTHER -> [num |-> 76, sep |-> (40 * scale) \div 100, height |-> (94 * scale) \div 100 - 2]

offsetOf(type) == CASE type = "SD" -> 500 [] type = "720" -> 360 [] OTHER -> 540

\* The bitmaps loadFont draws: those of 1080 for 2160 too.
pTemp(type) == IF type = "2160" THEN "1080" ELSE type

\* Mutation: the bitmaps of 720 are allocated for the shape of the load before.
allocationMemStale(type) ==
  IF type \in Bitmaps THEN [room EXCEPT ![type] = IF type = "720" THEN shape ELSE shape'] ELSE room

\* Nobody draws into the bitmaps allocated for 2160.
allocationMem(type) == IF type \in Bitmaps THEN [room EXCEPT ![type] = shape'] ELSE room

\* A character takes two bytes a pixel.
Fits(s, r) == s.num * s.height <= r.num * r.height /\ s.sep * s.height <= r.sep * r.height

\* The PNGs that are installed: there is no 720_150.PNG.
Installed(type, scale) == type = "720" => scale = 100

-----------------------------------------------------------------------------

Init ==
  /\ shape = NoShape /\ osdOffset = 0
  /\ loaded = {} /\ initSuc = {}
  /\ room = [b \in Bitmaps |-> NoShape] /\ drawn = room
  /\ overrun = FALSE /\ scales = {}

Draw(type) ==
  /\ drawn' = [drawn EXCEPT ![pTemp(type)] = shape']
  /\ overrun' = ~Fits(shape', room'[pTemp(type)])
  /\ initSuc' = initSuc \cup (IF type \in {"SD", "720"} THEN {type} ELSE {"1080", "2160"})

\* The shape is set before the early return, and a type counts as loaded before
\* its PNG is read, which may fail.
loadFont(type, scale) ==
  /\ ~overrun
  /\ shape' = charShape(type, scale) /\ osdOffset' = offsetOf(type)
  /\ scales' = scales \cup {scale}
  /\ \/ type \in loaded /\ UNCHANGED <<loaded, room, drawn, initSuc, overrun>>
     \/ /\ type \notin loaded
        /\ loaded' = loaded \cup {type}
        /\ room' = allocationMem(type)
        /\ (Installed(type, scale) /\ Draw(type)) \/ UNCHANGED <<drawn, initSuc, overrun>>

Next == \E type \in WorkType, scale \in Scales : loadFont(type, scale)

Spec == Init /\ [][Next]_osdVars

-----------------------------------------------------------------------------

\* incrustSD .. incrust2160 change the picture only: the shape they read the
\* bitmaps in, and the lines and bytes they write.  Those of 1080 take back two
\* words of each character.
readShape(type) ==
  CASE type = "SD" -> charShape("SD", 100) [] type = "2160" -> charShape("2160", 100) [] OTHER -> shape

words(s) == (8 * s.num + 3 * s.sep) \div 2

lineBytes(type) ==
  LET w == words(readShape(type))
  IN  4 * CASE type = "2160" -> w [] type = "1080" -> w + 4 - 2 * 11 [] OTHER -> w + 4

startByte(type) ==
  CASE type = "SD" -> 720 - 380 [] type = "720" -> 1280 - 528 [] type = "1080" -> 1920 - 528 [] OTHER -> 3840 - 528

\* The lines it may start at: in SD for 576, 480 and 404 lines.
startLines(type) == CASE type = "SD" -> {500, 400, 404 - 80} [] type = "2160" -> {2 * 900} [] OTHER -> {osdOffset}

picture ==
  [type \in WorkType |->
     CASE type = "SD"   -> [pixels |-> 720, lines |-> 576]
       [] type = "720"  -> [pixels |-> 1280, lines |-> 720]
       [] type = "1080" -> [pixels |-> 1920, lines |-> 1080]
       [] OTHER         -> [pixels |-> 3840, lines |-> 2160]]

\* Whatever was loaded before, in whatever order, the digits stay inside the
\* picture: each set may be read in the shape, and at the line, of another
\* (tcOSD.cpp:184-231, 340-454).
OSDInPicture ==
  \A type \in initSuc :
    /\ startByte(type) + lineBytes(type) <= picture[type].pixels * 2
    /\ \A line \in startLines(type) : line + readShape(type).height <= picture[type].lines

\* With one percentage, and unless SD was loaded last, every digit is read in
\* the shape it was drawn in: the one shape of the object then fits all its
\* bitmaps.  2160 always reads those of 100 percent (tcOSD.cpp:184-236,
\* 276-289, 374-454).
OSDReadsAsDrawn ==
  Cardinality(scales) = 1 /\ ~overrun =>
    \A type \in initSuc :
      \/ type \in {"720", "1080"} /\ shape = charShape("SD", 100)
      \/ type = "2160" /\ scales # {100}
      \/ readShape(type) = drawn[pTemp(type)]

\* Bitmaps are written past their end, or through null pointers, only by a
\* load of 2160 where those of 1080 were never allocated, or were at another
\* percentage (tcOSD.cpp:46-80, 249, 264-279).
OverrunNeeds2160 ==
  overrun => "2160" \in loaded /\ (room["1080"] = NoShape \/ Cardinality(scales) > 1)
=============================================================================
