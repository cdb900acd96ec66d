---------------------------- MODULE TimeCodeBurn ----------------------------
(***************************************************************************)
(* AJATimeCodeBurn (Lib.TCMarker/timecodeburn.cpp): RenderTimeCodeFont     *)
(* draws the digits for a picture format once, BurnTimeCode copies them    *)
(* into pictures.  What the digits look like is left out: the module is    *)
(* about how many bytes are drawn and where they land.                     *)
(*                                                                         *)
(* One video format stands for those of its size, one pixel format for     *)
(* those of its layout.                                                    *)
(***************************************************************************)
EXTENDS Integers

CONSTANTS Formats,     \* the video formats asked for, of DOMAIN size
          PixFormats,  \* the pixel formats asked for
          Percents,    \* the heights to burn at
          Garbage      \* sizes that uninitialized locals may hold

VARIABLES
  bRendered,
  font,      \* _charRenderPixelFormat, its size, _charWidthBytes, _charHeightLines, _charPositionX,
             \* and the bytes drawn for each character
  rowBytes,  \* _rowBytes
  \* history
  asked,     \* the formats of the last RenderTimeCodeFont
  failed     \* a render failed since the font was drawn

kTCMaxTCChars     == 15
kTCNumBurnInChars == 11
kTCDigitDotWidth  == 24
kTCDigitDotHeight == 18

\* The pictures of a format.
size ==
  [f \in {"1080i_5000", "1080p_2398", "720p_5000", "4Kp_5000", "8kp_5000", "SD_625_5000"} |->
     CASE f = "720p_5000"   -> [pixels |-> 1280, lines |-> 720]
       [] f = "4Kp_5000"    -> [pixels |-> 3840, lines |-> 2160]
       [] f = "8kp_5000"    -> [pixels |-> 7680, lines |-> 4320]
       [] f = "SD_625_5000" -> [pixels |-> 720, lines |-> 576]
       [] OTHER             -> [pixels |-> 1920, lines |-> 1080]]

\* What formatDescriptorTable holds: its entries for formats that are not
\* supported have three values instead of four and move all that follow.  Of
\* the formats here that matters to 3840x2160p from the 24 bit ones on.
Shifted(fp, pix) == fp = "4Kp_5000" /\ pix \in {"24BIT_RGB", "48BIT_RGB"}

descriptors(fp, pix) ==
  IF Shifted(fp, pix)
  THEN {[pixels |-> 0, lines |-> IF pix = "24BIT_RGB" THEN 2880 ELSE 5760]}
  ELSE IF fp = "SD_625_5000" THEN Garbage ELSE {size[fp]}

\* The layouts of the pixel formats; there is none for the planar ones, which
\* could be drawn.
GetAJAPixelFormat(pix) ==
  CASE pix = "8BIT_YCBCR"  -> "YCbCr8"
    [] pix = "10BIT_YCBCR" -> "YCbCr10"
    [] pix = "24BIT_RGB"   -> "RGB8_PACK"
    [] pix = "ARGB"        -> "ARGB8"
    [] pix = "48BIT_RGB"   -> "RGB16"
    [] OTHER               -> "Unknown"

\* Mutation: the 10 bit lines are as long as the 8 bit ones.
AJA_CalcRowBytesNarrow(aja, width) ==
  CASE aja \in {"YCbCr8", "YCbCr10"} -> width * 2
    [] aja = "RGB8_PACK" -> width * 3
    [] aja = "ARGB8"     -> width * 4
    [] aja = "RGB16"     -> width * 6
    [] aja = "Unknown"   -> 0

AJA_CalcRowBytesForFormat(aja, width) ==
  CASE aja = "YCbCr8"    -> width * 2
    [] aja = "YCbCr10"   -> (((width + 47) \div 48) * 48 * 8) \div 3
    [] aja = "RGB8_PACK" -> width * 3
    [] aja = "ARGB8"     -> width * 4
    [] aja = "RGB16"     -> width * 6
    [] aja = "Unknown"   -> 0

\* The layouts that can be drawn.
bytesPerPixel ==
  [aja \in {"YCbCr8", "YCbCr10", "RGB8_PACK", "ARGB8"} |->
     CASE aja = "YCbCr8" -> 2 [] aja = "ARGB8" -> 4 [] OTHER -> 3]

dotScale(lines) ==
  CASE lines > 2160 -> 10
    [] lines > 900 /\ lines <= 2160 -> 3
    [] lines > 650 /\ lines <= 900 -> 2
    [] lines <= 650 -> 1

dotWidth(pixels, lines) == IF lines > 900 /\ pixels <= 1440 THEN 2 ELSE dotScale(lines)

\* Six pixels are sixteen bytes in the 10 bit format.
bytes(aja, pixels) ==
  IF aja = "YCbCr10" THEN (pixels * 16) \div 6 ELSE pixels * bytesPerPixel[aja]

\* Mutation: the pointer moves on for the second pixel of three only.
writeV210PixelOnce(x) == IF x % 3 = 1 THEN 4 ELSE 0

\* How far the pointer moves for the pixel x of a line: V210 writes three
\* pixels into two words of four bytes.
writeV210Pixel(x) == IF x % 3 = 0 THEN 0 ELSE 4

writePixel(aja, x) ==
  CASE aja = "YCbCr8"    -> 2
    [] aja = "YCbCr10"   -> writeV210Pixel(x)
    [] aja = "RGB8_PACK" -> 3
    [] aja = "ARGB8"     -> 4

\* The loops for the dots of a line, width pixels each: whole threes.
drawnLine(aja, width) ==
  ((kTCDigitDotWidth * width) \div 3) * (writePixel(aja, 0) + writePixel(aja, 1) + writePixel(aja, 2))

Rendered(aja, s) ==
  LET dots   == dotWidth(s.pixels, s.lines)
      width  == bytes(aja, kTCDigitDotWidth * dots)
      height == kTCDigitDotHeight * 2 * dotScale(s.lines)
  IN  [pix |-> aja, pixels |-> s.pixels, lines |-> s.lines,
       charWidth |-> width, charHeight |-> height, drawn |-> height * drawnLine(aja, dots),
       x |-> (bytes(aja, s.pixels) - kTCNumBurnInChars * width) \div 2]

NoFont == [pix |-> "none", pixels |-> 0, lines |-> 0,
           charWidth |-> 0, charHeight |-> 0, drawn |-> 0, x |-> 0]

-----------------------------------------------------------------------------

Init ==
  /\ bRendered = FALSE /\ font = NoFont
  /\ rowBytes \in {0, 5120}  \* the constructor leaves it
  /\ asked = [fp |-> "none", pix |-> "none"] /\ failed = FALSE

\* Mutation: the size is not compared.
alreadyRenderedFormat(aja, s) == bRendered /\ font.pix = aja /\ s.lines >= 0

alreadyRendered(aja, s) ==
  bRendered /\ font.pix = aja /\ font.pixels = s.pixels /\ font.lines = s.lines

\* The row bytes are set before the layout is looked at, and stay when it
\* cannot be drawn; the next call for the font's own format does nothing.
RenderForSize(aja, s) ==
  \/ alreadyRendered(aja, s) /\ UNCHANGED <<bRendered, font, rowBytes, failed>>
  \/ /\ ~alreadyRendered(aja, s)
     /\ rowBytes' = AJA_CalcRowBytesForFormat(aja, s.pixels)
     /\ \/ /\ aja \in DOMAIN bytesPerPixel
           /\ bRendered' = TRUE /\ font' = Rendered(aja, s) /\ failed' = FALSE
        \/ /\ aja \notin DOMAIN bytesPerPixel
           /\ failed' = TRUE
           /\ UNCHANGED <<bRendered, font>>

\* The switch has no case for 1080p_2398: nothing is done.
RenderTimeCodeFont(fp, pix) ==
  /\ asked' = [fp |-> fp, pix |-> pix]
  /\ \/ fp = "1080p_2398" /\ UNCHANGED <<bRendered, font, rowBytes, failed>>
     \/ /\ fp # "1080p_2398"
        /\ \E s \in descriptors(fp, pix) : RenderForSize(GetAJAPixelFormat(pix), s)

charPositionX == IF font.pix = "YCbCr10" THEN font.x - (font.x % 16) ELSE font.x

charPositionY(percentY) ==
  IF percentY = 0 THEN (font.lines * 8) \div 10 ELSE (font.lines * percentY) \div 100

\* What CopyDigit writes for length characters: lines of bytes, rowBytes apart.
Digits(percentY, length) ==
  [first |-> charPositionY(percentY), lines |-> font.charHeight,
   x |-> charPositionX, bytes |-> length * font.charWidth]

\* The position is kept aligned.
BurnTimeCode ==
  /\ font' = IF bRendered THEN [font EXCEPT !.x = charPositionX] ELSE font
  /\ UNCHANGED <<bRendered, rowBytes, asked, failed>>

-----------------------------------------------------------------------------

\* The font is one of the layouts, and each character takes just the bytes
\* CopyDigit steps over to find the next one: the map holds them all
\* (timecodeburn.cpp:74-85, 371-378, 388-607, 641-676).
FontOK ==
  /\ bRendered \in BOOLEAN /\ failed \in BOOLEAN
  /\ rowBytes \in Nat
  /\ asked.fp \in Formats \cup {"none"} /\ asked.pix \in PixFormats \cup {"none"}
  /\ font.pix \in DOMAIN bytesPerPixel \cup {"none"}
  /\ font.x \in Int /\ {font.pixels, font.lines, font.charWidth, font.charHeight} \subseteq Nat
  /\ bRendered <=> font.charWidth > 0
  /\ font.drawn = font.charWidth * font.charHeight

\* Up to fifteen characters, burned no lower than ninety percent, lie inside
\* the picture, one line below the other, if its format was asked for last and
\* no render failed since the font was drawn (timecodeburn.cpp:30-72, 280-390,
\* 609-635): the sizes of 1080p_2398, of SD and, after the shift of the table,
\* of 24 bit pictures of 2160 lines excepted.
DigitsInPicture ==
  LET known == /\ asked.fp \notin {"none", "SD_625_5000", "1080p_2398"}
               /\ ~Shifted(asked.fp, asked.pix)
  IN  bRendered /\ known /\ ~failed =>
        LET row == AJA_CalcRowBytesForFormat(GetAJAPixelFormat(asked.pix), size[asked.fp].pixels)
        IN  /\ rowBytes = row
            /\ \A percentY \in Percents :
                 LET d == Digits(percentY, kTCMaxTCChars)
                 IN  percentY <= 90 => /\ d.x >= 0 /\ d.x + d.bytes <= row
                                       /\ d.first + d.lines <= size[asked.fp].lines
=============================================================================
