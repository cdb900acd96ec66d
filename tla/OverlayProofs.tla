---------------------------- MODULE OverlayProofs ---------------------------
(***************************************************************************)
(* Proofs about what is drawn into pictures, for any sequence of formats,  *)
(* pictures and loads.  Of Build_Marker, for columns of any height: the    *)
(* column of a picture shows one number, and the numbers of two pictures   *)
(* in a row follow each other.  Of the time codes: where the digits land,  *)
(* what they leave of the column, and in which shape they are read.        *)
(***************************************************************************)
EXTENDS Overlay, FiniteSetTheorems, TLAPS

\* Where the indices stand after the pictures of a reset, and what they drew.
Drawn ==
  /\ marked >= 1 => \A f \in Fields : fieldInx[f] \in Blocks
  /\ marked >= 2 =>
       \E n \in Blocks : \A f \in Fields :
         column[f] = whiteBlocks(n) /\ fieldInx[f] = (n + 1) % totalBLocks
  /\ marked = 3 =>
       \E n \in Blocks : \A f \in Fields :
         before[f] = whiteBlocks(n) /\ column[f] = whiteBlocks((n + 1) % totalBLocks)

\* The fields move together; a half column is longer than the step of a block.
IInv ==
  /\ totalBLocks \in Nat /\ halfBlocks = totalBLocks \div 2 /\ totalBLocks >= 4
  /\ fieldInx \in [Fields -> Nat] /\ fieldInx["A"] = fieldInx["B"]
  /\ marked \in 0 .. 3
  /\ column \in [Fields -> SUBSET Nat] /\ before \in [Fields -> SUBSET Nat]
  /\ Drawn

-----------------------------------------------------------------------------

HighEnough == {h \in Nat : h \div 16 > 4}

LEMMA HeightsAreHigh ==
  ASSUME NEW h \in HighEnough
  PROVE  blocksOf(h) \in Nat /\ blocksOf(h) >= 4
<1>1. h \in Nat /\ h \div 16 > 4
  BY DEF HighEnough
<1>2. (h \div 2) \div 8 > 4
  BY <1>1
<1> QED BY <1>1, <1>2 DEF blocksOf

\* The index stays in the column: the remainder of a natural number.
LEMMA NextIndex ==
  ASSUME NEW t \in Nat, t > 0, NEW n \in Nat
  PROVE  (n + 1) % t \in 0 .. t - 1
OBVIOUS

\* A column drawn at index n has its one edge at n, or none for the first: the
\* blocks before the gap end above the index (MarkerBuilder.h:82-117).
LEMMA ColumnReads ==
  ASSUME totalBLocks \in Nat, totalBLocks >= 4, halfBlocks = totalBLocks \div 2,
         NEW n \in Blocks
  PROVE  Reads(whiteBlocks(n), n)
<1>1. n \in Nat /\ halfBlocks \in Nat /\ halfBlocks >= 2 /\ halfBlocks <= totalBLocks
  BY DEF Blocks
<1>2. gap(n) \in Nat /\ (n > 0 => gap(n) < n) /\ (n = 0 => gap(n) = 0)
  BY <1>1 DEF gap
<1>3. \A i : i \in whiteBlocks(n) <=>
               i \in Blocks /\ ((n <= i /\ i < n + 33) \/ i < gap(n))
  BY DEF whiteBlocks
<1>4. ASSUME NEW i \in Edges(whiteBlocks(n)) PROVE i = n /\ n > 0
  <2>1. i \in whiteBlocks(n) /\ i > 0 /\ i - 1 \notin whiteBlocks(n)
    BY DEF Edges
  <2>2. i \in Int /\ i - 1 \in Blocks
    BY <1>3, <2>1 DEF Blocks
  <2> QED BY <1>1, <1>2, <1>3, <2>1, <2>2
<1>5. ASSUME n > 0 PROVE n \in Edges(whiteBlocks(n))
  <2>1. n \in whiteBlocks(n)
    BY <1>1, <1>3
  <2>2. n - 1 \notin whiteBlocks(n)
    BY <1>1, <1>2, <1>3, <1>5
  <2> QED BY <2>1, <2>2, <1>5 DEF Edges
<1> QED BY <1>1, <1>4, <1>5 DEF Reads

LEMMA InitIInv == Init => IInv
<1> SUFFICES ASSUME Init PROVE IInv
  OBVIOUS
<1>1. PICK h \in HighEnough : totalBLocks = blocksOf(h)
  BY MarkerAssumption DEF Init, HighEnough
<1>2. column \in [Fields -> SUBSET Nat] /\ before \in [Fields -> SUBSET Nat]
  BY DEF Init, NoColumns
<1> QED BY <1>1, <1>2, HeightsAreHigh DEF Init, IInv, Drawn, Fields

\* A reset starts anew, and leaves the indices where they are.
LEMMA resetIInv ==
  ASSUME IInv, NEW h \in HighEnough, reset(h)
  PROVE  IInv'
<1>1. column' \in [Fields -> SUBSET Nat] /\ before' \in [Fields -> SUBSET Nat]
  BY DEF reset, NoColumns
<1> QED BY <1>1, HeightsAreHigh DEF IInv, Drawn, reset

\* A picture moves both indices on, into the column.
LEMMA buildMarkerIInv ==
  ASSUME IInv, buildMarker
  PROVE  IInv'
<1> DEFINE n == fieldInx["A"]
<1>1. \A f \in Fields : fieldInx[f] = n /\ fieldInx'[f] = (n + 1) % totalBLocks
  BY DEF IInv, buildMarker, Fields
<1>2. /\ totalBLocks' = totalBLocks /\ halfBlocks' = halfBlocks /\ totalBLocks \in Nat
      /\ totalBLocks >= 4 /\ n \in Nat /\ marked \in 0 .. 3
      /\ marked' = IF marked < 3 THEN marked + 1 ELSE 3
      /\ before' = column
      /\ \A f \in Fields : column'[f] = whiteBlocks(n)
  BY DEF IInv, buildMarker, Fields
<1>3. (n + 1) % totalBLocks \in Blocks /\ Blocks' = Blocks
  BY <1>2, NextIndex DEF Blocks
<1>4. \A i : whiteBlocks(i)' = whiteBlocks(i)
  BY <1>2 DEF whiteBlocks, gap, Blocks
<1>5. marked >= 1 => n \in Blocks
  BY <1>1 DEF IInv, Drawn, Fields
<1>6. ASSUME marked' >= 2
      PROVE  \E m \in Blocks' : \A f \in Fields :
               column'[f] = whiteBlocks(m)' /\ fieldInx'[f] = (m + 1) % totalBLocks'
  BY <1>1, <1>2, <1>3, <1>4, <1>5, <1>6
<1>7. ASSUME marked' = 3
      PROVE  \E m \in Blocks' : \A f \in Fields :
               before'[f] = whiteBlocks(m)' /\ column'[f] = whiteBlocks((m + 1) % totalBLocks)'
  <2>1. marked >= 2
    BY <1>2, <1>7
  <2>2. PICK m \in Blocks : \A f \in Fields :
               column[f] = whiteBlocks(m) /\ fieldInx[f] = (m + 1) % totalBLocks
    BY <2>1 DEF IInv, Drawn
  <2>3. n = (m + 1) % totalBLocks
    BY <1>1, <2>2 DEF Fields
  <2> QED BY <1>1, <1>2, <1>3, <1>4, <2>2, <2>3
<1>8. Drawn'
  BY <1>1, <1>2, <1>3, <1>6, <1>7 DEF Drawn
<1>9. fieldInx' \in [Fields -> Nat] /\ fieldInx'["A"] = fieldInx'["B"] /\ marked' \in 0 .. 3
  BY <1>1, <1>2, <1>3 DEF buildMarker, IInv, Fields, Blocks
<1>10. column' \in [Fields -> SUBSET Nat] /\ before' \in [Fields -> SUBSET Nat]
  BY DEF buildMarker, IInv, whiteBlocks, Blocks
<1> QED BY <1>2, <1>8, <1>9, <1>10 DEF IInv

-----------------------------------------------------------------------------

LEMMA MarkerIInv ==
  ASSUME IInv, [Next]_vars
  PROVE  IInv'
<1>1. CASE UNCHANGED vars
  <2>1. UNCHANGED <<totalBLocks, halfBlocks, fieldInx, column, before, marked>>
    BY <1>1 DEF vars
  <2>2. Blocks' = Blocks /\ \A i : whiteBlocks(i)' = whiteBlocks(i)
    BY <2>1 DEF Blocks, whiteBlocks, gap
  <2>3. Drawn'
    BY <2>1, <2>2 DEF IInv, Drawn
  <2> QED BY <2>1, <2>3 DEF IInv
<1>2. ASSUME NEW h \in Heights, reset(h) PROVE IInv'
  BY <1>2, resetIInv, MarkerAssumption DEF HighEnough
<1> QED BY <1>1, <1>2, buildMarkerIInv DEF Next

LEMMA ToldApart == IInv => PicturesToldApart
<1> SUFFICES ASSUME IInv, marked = 3 PROVE PicturesToldApart
  BY DEF PicturesToldApart
<1>1. PICK n \in Blocks : \A f \in Fields :
        before[f] = whiteBlocks(n) /\ column[f] = whiteBlocks((n + 1) % totalBLocks)
  BY DEF IInv, Drawn
<1>2. (n + 1) % totalBLocks \in Blocks
  BY NextIndex DEF IInv, Blocks
<1>3. Reads(whiteBlocks(n), n) /\ Reads(whiteBlocks((n + 1) % totalBLocks), (n + 1) % totalBLocks)
  BY <1>2, ColumnReads DEF IInv
<1> QED BY <1>1, <1>3 DEF PicturesToldApart

\* From the third picture after a reset on, and whatever the indices were
\* before it, the pictures of any column are told apart
\* (MarkerBuilder.h:58-65, 82-117).
THEOREM AlwaysToldApart == Spec => []PicturesToldApart
BY InitIInv, MarkerIInv, ToldApart, PTL DEF Spec
-----------------------------------------------------------------------------
\* The time code of AJATimeCodeBurn.

Layouts == DOMAIN TcBurn!bytesPerPixel

Fonts == [pix : Layouts \cup {"none"}, pixels : Nat, lines : Nat, charWidth : Nat,
          charHeight : Nat, drawn : Nat, x : Int]

Aligned(pix, x) == IF pix = "YCbCr10" THEN x - (x % 16) ELSE x

\* A font is what Rendered made of its layout and its size, moved or not.
FontDrawn(f) ==
  LET r == TcBurn!Rendered(f.pix, f)
  IN  /\ f.charWidth = r.charWidth /\ f.charHeight = r.charHeight /\ f.drawn = r.drawn
      /\ f.x = r.x \/ f.x = Aligned(f.pix, r.x)

\* The formats whose pictures descriptors tells the size of.
Known(fp, pix) ==
  /\ fp \in DOMAIN TcBurn!size /\ fp \notin {"SD_625_5000", "1080p_2398"}
  /\ ~TcBurn!Shifted(fp, pix)

FontOf(aja, fp) ==
  font.pix = aja /\ font.pixels = TcBurn!size[fp].pixels /\ font.lines = TcBurn!size[fp].lines

FontInv ==
  /\ ~bRendered => font = TcBurn!NoFont
  /\ bRendered => font.pix \in Layouts /\ FontDrawn(font)

RowsInv ==
  bRendered /\ ~failed =>
    /\ rowBytes = TcBurn!AJA_CalcRowBytesForFormat(font.pix, font.pixels)
    /\ Known(asked.fp, asked.pix) => FontOf(TcBurn!GetAJAPixelFormat(asked.pix), asked.fp)

BurnTypes ==
  /\ bRendered \in BOOLEAN /\ failed \in BOOLEAN /\ rowBytes \in Nat /\ font \in Fonts
  /\ asked.fp \in Formats \cup {"none"} /\ asked.pix \in PixFormats \cup {"none"}

BurnInv == BurnTypes /\ FontInv /\ RowsInv

LEMMA Sizes ==
  ASSUME NEW fp \in DOMAIN TcBurn!size
  PROVE  /\ TcBurn!size[fp].pixels \in Nat
         /\ TcBurn!size[fp].lines \in HighEnough
BY DEF TcBurn!size, HighEnough

LEMMA LayoutsAre == Layouts = {"YCbCr8", "YCbCr10", "RGB8_PACK", "ARGB8"}
BY DEF Layouts, TcBurn!bytesPerPixel

LEMMA DotsAre ==
  ASSUME NEW pixels \in Nat, NEW lines \in Nat
  PROVE  /\ TcBurn!dotScale(lines) \in {1, 2, 3, 10}
         /\ TcBurn!dotWidth(pixels, lines) \in {1, 2, 3, 10}
BY DEF TcBurn!dotScale, TcBurn!dotWidth

\* The bytes of a character's line: what the loops draw is what CopyDigit
\* steps over, in each layout.
LEMMA LineIsDrawn ==
  ASSUME NEW aja \in Layouts, NEW dots \in {1, 2, 3, 10}
  PROVE  /\ TcBurn!bytes(aja, TcBurn!kTCDigitDotWidth * dots) \in Nat \ {0}
         /\ TcBurn!drawnLine(aja, dots) = TcBurn!bytes(aja, TcBurn!kTCDigitDotWidth * dots)
<1> USE DEF TcBurn!bytes, TcBurn!drawnLine, TcBurn!writePixel, TcBurn!writeV210Pixel,
            TcBurn!kTCDigitDotWidth, TcBurn!bytesPerPixel
<1>1. CASE aja = "YCbCr8"
  BY <1>1
<1>2. CASE aja = "YCbCr10"
  BY <1>2
<1>3. CASE aja = "RGB8_PACK"
  BY <1>3
<1>4. CASE aja = "ARGB8"
  BY <1>4
<1> QED BY <1>1, <1>2, <1>3, <1>4, LayoutsAre

LEMMA BytesType ==
  ASSUME NEW aja \in Layouts, NEW pixels \in Nat
  PROVE  TcBurn!bytes(aja, pixels) \in Nat
BY LayoutsAre DEF TcBurn!bytes, TcBurn!bytesPerPixel

\* What Rendered makes: characters of some size, that are drawn in full.
RenderedOK(r, aja, s) ==
  /\ r \in Fonts
  /\ r.pix = aja /\ r.pixels = s.pixels /\ r.lines = s.lines
  /\ r.charWidth \in Nat \ {0} /\ r.charHeight \in Nat \ {0} /\ r.x \in Int
  /\ r.drawn = r.charWidth * r.charHeight

LEMMA RenderedIsOK ==
  ASSUME NEW aja \in Layouts, NEW s, s.pixels \in Nat, s.lines \in Nat
  PROVE  RenderedOK(TcBurn!Rendered(aja, s), aja, s)
<1> DEFINE dots == TcBurn!dotWidth(s.pixels, s.lines)
           width == TcBurn!bytes(aja, TcBurn!kTCDigitDotWidth * dots)
           height == TcBurn!kTCDigitDotHeight * 2 * TcBurn!dotScale(s.lines)
           r == TcBurn!Rendered(aja, s)
<1>1. dots \in {1, 2, 3, 10} /\ TcBurn!dotScale(s.lines) \in {1, 2, 3, 10}
  BY DotsAre
<1>2. width \in Nat \ {0} /\ TcBurn!drawnLine(aja, dots) = width
  BY <1>1, LineIsDrawn
<1>3. height \in Nat \ {0}
  BY <1>1 DEF TcBurn!kTCDigitDotHeight
<1>4. /\ r.pix = aja /\ r.pixels = s.pixels /\ r.lines = s.lines
      /\ r.charWidth = width /\ r.charHeight = height
      /\ r.drawn = height * TcBurn!drawnLine(aja, dots)
      /\ r.x = (TcBurn!bytes(aja, s.pixels) - TcBurn!kTCNumBurnInChars * width) \div 2
  BY DEF TcBurn!Rendered
<1>5. /\ height * TcBurn!drawnLine(aja, dots) = width * height
      /\ height * TcBurn!drawnLine(aja, dots) \in Nat
  <2> HIDE DEF dots, width, height
  <2> QED BY <1>2, <1>3
<1>6. TcBurn!bytes(aja, s.pixels) \in Nat
  BY BytesType
<1>7. (TcBurn!bytes(aja, s.pixels) - TcBurn!kTCNumBurnInChars * width) \div 2 \in Int
  <2> DEFINE all == TcBurn!bytes(aja, s.pixels)
  <2>1. all \in Int /\ width \in Int
    BY <1>2, <1>6
  <2> HIDE DEF dots, width, all
  <2>2. (all - 11 * width) \div 2 \in Int
    BY <2>1
  <2> QED BY <2>2 DEF TcBurn!kTCNumBurnInChars, all
<1>9. r \in Fonts
  <2> DEFINE drawnAll == height * TcBurn!drawnLine(aja, dots)
             left == (TcBurn!bytes(aja, s.pixels) - TcBurn!kTCNumBurnInChars * width) \div 2
  <2>1. r = [pix |-> aja, pixels |-> s.pixels, lines |-> s.lines, charWidth |-> width,
             charHeight |-> height, drawn |-> drawnAll, x |-> left]
    BY DEF TcBurn!Rendered
  <2>2. width \in Nat /\ height \in Nat /\ drawnAll \in Nat /\ left \in Int
    BY <1>2, <1>3, <1>5, <1>7
  <2> HIDE DEF dots, width, height, r, drawnAll, left
  <2> QED BY <2>1, <2>2 DEF Fonts
<1> HIDE DEF dots, width, height, r
<1>8. RenderedOK(r, aja, s)
  BY <1>2, <1>3, <1>4, <1>5, <1>7, <1>9 DEF RenderedOK
<1> QED BY <1>8 DEF r

\* The sizes that are asked for, or found.
LEMMA DescriptorsAre ==
  ASSUME NEW fp \in Formats, NEW pix, NEW s \in TcBurn!descriptors(fp, pix)
  PROVE  s.pixels \in Nat /\ s.lines \in Nat
BY OverlayAssumption, Sizes DEF TcBurn!descriptors, TcBurn!Shifted, HighEnough

LEMMA RowBytesType ==
  ASSUME NEW pix, NEW pixels \in Nat
  PROVE  TcBurn!AJA_CalcRowBytesForFormat(TcBurn!GetAJAPixelFormat(pix), pixels) \in Nat
<1> DEFINE aja == TcBurn!GetAJAPixelFormat(pix)
<1>1. aja \in {"YCbCr8", "YCbCr10", "RGB8_PACK", "ARGB8", "RGB16", "Unknown"}
  BY DEF TcBurn!GetAJAPixelFormat
<1>2. \A a \in {"YCbCr8", "YCbCr10", "RGB8_PACK", "ARGB8", "RGB16", "Unknown"} :
        TcBurn!AJA_CalcRowBytesForFormat(a, pixels) \in Nat
  BY DEF TcBurn!AJA_CalcRowBytesForFormat
<1> QED BY <1>1, <1>2

LEMMA BurnInit == TcBurn!Init => BurnInv
<1> SUFFICES ASSUME TcBurn!Init PROVE BurnInv
  OBVIOUS
<1>1. /\ bRendered = FALSE /\ failed = FALSE /\ rowBytes \in Nat /\ font = TcBurn!NoFont
      /\ asked.fp = "none" /\ asked.pix = "none"
  BY DEF TcBurn!Init
<1>2. font \in Fonts
  BY <1>1 DEF TcBurn!NoFont, Fonts
<1> QED BY <1>1, <1>2 DEF BurnInv, BurnTypes, FontInv, RowsInv

\* A font for the format asked for, or a failure that is remembered.
LEMMA BurnRender ==
  ASSUME BurnInv, NEW fp \in Formats, NEW pix \in PixFormats, TcBurn!RenderTimeCodeFont(fp, pix)
  PROVE  BurnInv'
<1> DEFINE aja == TcBurn!GetAJAPixelFormat(pix)
<1>1. asked' = [fp |-> fp, pix |-> pix] /\ asked'.fp = fp /\ asked'.pix = pix
  BY DEF TcBurn!RenderTimeCodeFont
<1>2. CASE fp = "1080p_2398"
  <2>1. UNCHANGED <<bRendered, font, rowBytes, failed>>
    BY <1>2 DEF TcBurn!RenderTimeCodeFont
  <2>2. ~Known(fp, pix)
    BY <1>2 DEF Known
  <2> QED BY <1>1, <2>1, <2>2 DEF BurnInv, BurnTypes, FontInv, RowsInv
<1>3. CASE fp # "1080p_2398"
  <2>1. PICK s \in TcBurn!descriptors(fp, pix) : TcBurn!RenderForSize(aja, s)
    BY <1>3 DEF TcBurn!RenderTimeCodeFont
  <2>2. s.pixels \in Nat /\ s.lines \in Nat
    BY DescriptorsAre
  <2>3. Known(fp, pix) => s = TcBurn!size[fp]
    BY <2>1 DEF Known, TcBurn!descriptors
  <2>4. CASE TcBurn!alreadyRendered(aja, s)
    <3>1. /\ UNCHANGED <<bRendered, font, rowBytes, failed>>
          /\ font.pix = aja /\ font.pixels = s.pixels /\ font.lines = s.lines
      BY <2>1, <2>4 DEF TcBurn!RenderForSize, TcBurn!alreadyRendered
    <3>2. Known(fp, pix) => FontOf(aja, fp)
      BY <2>3, <3>1 DEF FontOf
    <3>3. RowsInv'
      BY <1>1, <3>1, <3>2 DEF BurnInv, RowsInv, FontOf
    <3> QED BY <1>1, <3>1, <3>3 DEF BurnInv, BurnTypes, FontInv
  <2>5. CASE ~TcBurn!alreadyRendered(aja, s)
    <3>1. rowBytes' = TcBurn!AJA_CalcRowBytesForFormat(aja, s.pixels) /\ rowBytes' \in Nat
      BY <2>1, <2>2, <2>5, RowBytesType DEF TcBurn!RenderForSize
    <3>2. CASE aja \in Layouts
      <4>1. bRendered' = TRUE /\ font' = TcBurn!Rendered(aja, s) /\ failed' = FALSE
        BY <2>1, <2>5, <3>2 DEF TcBurn!RenderForSize, Layouts
      <4>2. RenderedOK(font', aja, s)
        BY <2>2, <3>2, <4>1, RenderedIsOK
      <4>3. TcBurn!Rendered(font'.pix, font') = font'
        <5>1. TcBurn!Rendered(aja, font') = TcBurn!Rendered(aja, s)
          BY <4>2 DEF TcBurn!Rendered, RenderedOK
        <5> QED BY <4>1, <4>2, <5>1 DEF RenderedOK
      <4>4. FontInv'
        BY <2>2, <3>2, <4>1, <4>2, <4>3 DEF FontInv, FontDrawn, RenderedOK
      <4>5. Known(fp, pix) => FontOf(aja, fp)'
        BY <2>3, <4>2 DEF FontOf, RenderedOK
      <4>6. RowsInv'
        BY <1>1, <3>1, <4>2, <4>5 DEF RowsInv, RenderedOK, FontOf
      <4> QED BY <1>1, <3>1, <4>1, <4>2, <4>4, <4>6 DEF BurnInv, BurnTypes, RenderedOK
    <3>3. CASE aja \notin Layouts
      <4>1. failed' = TRUE /\ UNCHANGED <<bRendered, font>>
        BY <2>1, <2>5, <3>3 DEF TcBurn!RenderForSize, Layouts
      <4> QED BY <1>1, <3>1, <4>1 DEF BurnInv, BurnTypes, FontInv, RowsInv
    <3> QED BY <3>2, <3>3
  <2> QED BY <2>4, <2>5
<1> QED BY <1>2, <1>3

\* The position that is kept is aligned already.
LEMMA BurnPicture ==
  ASSUME BurnInv, TcBurn!BurnTimeCode
  PROVE  BurnInv'
<1>1. UNCHANGED <<bRendered, rowBytes, asked, failed>>
  BY DEF TcBurn!BurnTimeCode
<1>2. CASE ~bRendered
  BY <1>1, <1>2 DEF TcBurn!BurnTimeCode, BurnInv, BurnTypes, FontInv, RowsInv
<1>3. CASE bRendered
  <2>1. font' = [font EXCEPT !.x = TcBurn!charPositionX]
    BY <1>3 DEF TcBurn!BurnTimeCode
  <2>2. TcBurn!charPositionX = Aligned(font.pix, font.x)
    BY DEF TcBurn!charPositionX, Aligned
  <2>3. font \in Fonts
    BY DEF BurnInv, BurnTypes
  <2>4. Aligned(font.pix, font.x) \in Int
    BY <2>3 DEF Fonts, Aligned
  <2>5. /\ font' \in Fonts /\ font'.x = Aligned(font.pix, font.x)
        /\ font'.pix = font.pix /\ font'.pixels = font.pixels /\ font'.lines = font.lines
        /\ font'.charWidth = font.charWidth /\ font'.charHeight = font.charHeight
        /\ font'.drawn = font.drawn
    <3>1. PICK x \in Int : font' = [font EXCEPT !.x = x] /\ x = Aligned(font.pix, font.x)
      BY <2>1, <2>2, <2>4
    <3> QED BY <2>3, <3>1 DEF Fonts
  <2>6. TcBurn!Rendered(font'.pix, font') = TcBurn!Rendered(font.pix, font)
    BY <2>5 DEF TcBurn!Rendered
  <2>7. FontDrawn(font')
    <3> DEFINE r == TcBurn!Rendered(font.pix, font)
    <3>1. FontDrawn(font) /\ font.pix \in Layouts
      BY <1>3 DEF BurnInv, FontInv
    <3>2. r.x \in Int
      BY <2>3, <3>1, RenderedIsOK DEF Fonts, RenderedOK
    <3>3. Aligned(font.pix, Aligned(font.pix, r.x)) = Aligned(font.pix, r.x)
      BY <3>2 DEF Aligned
    <3>4. font.x = r.x \/ font.x = Aligned(font.pix, r.x)
      BY <3>1 DEF FontDrawn
    <3>5. font'.x = Aligned(font'.pix, r.x)
      BY <2>5, <3>3, <3>4
    <3> QED BY <2>5, <2>6, <3>1, <3>5 DEF FontDrawn
  <2>8. FontInv'
    BY <1>1, <1>3, <2>5, <2>7 DEF BurnInv, FontInv
  <2>9. RowsInv'
    BY <1>1, <2>5 DEF BurnInv, RowsInv, FontOf
  <2> QED BY <1>1, <2>5, <2>8, <2>9 DEF BurnInv, BurnTypes
<1> QED BY <1>2, <1>3

LEMMA FontIsOK == BurnInv => TcBurn!FontOK
<1> SUFFICES ASSUME BurnInv PROVE TcBurn!FontOK
  OBVIOUS
<1>1. font \in Fonts
  BY DEF BurnInv, BurnTypes
<1>2. /\ font.pix \in Layouts \cup {"none"} /\ font.x \in Int
      /\ {font.pixels, font.lines, font.charWidth, font.charHeight} \subseteq Nat
  BY <1>1 DEF Fonts
<1>3. (bRendered <=> font.charWidth > 0) /\ font.drawn = font.charWidth * font.charHeight
  <2>1. CASE ~bRendered
    <3>1. font.charWidth = 0 /\ font.charHeight = 0 /\ font.drawn = 0
      BY <2>1 DEF BurnInv, FontInv, TcBurn!NoFont
    <3> QED BY <2>1, <3>1
  <2>2. CASE bRendered
    <3> DEFINE r == TcBurn!Rendered(font.pix, font)
    <3>1. font.pix \in Layouts /\ FontDrawn(font)
      BY <2>2 DEF BurnInv, FontInv
    <3>2. RenderedOK(r, font.pix, font)
      BY <1>2, <3>1, RenderedIsOK
    <3>3. font.charWidth = r.charWidth /\ font.charHeight = r.charHeight /\ font.drawn = r.drawn
      BY <3>1 DEF FontDrawn
    <3>4. r.charWidth \in Nat \ {0} /\ r.drawn = r.charWidth * r.charHeight
      BY <3>2 DEF RenderedOK
    <3> HIDE DEF r
    <3> QED BY <2>2, <3>3, <3>4
  <2> QED BY <2>1, <2>2
<1>4. /\ bRendered \in BOOLEAN /\ failed \in BOOLEAN /\ rowBytes \in Nat
      /\ asked.fp \in Formats \cup {"none"} /\ asked.pix \in PixFormats \cup {"none"}
  BY DEF BurnInv, BurnTypes
<1>5. font.pix \in DOMAIN TcBurn!bytesPerPixel \cup {"none"}
  BY <1>2 DEF Layouts
<1> QED BY <1>2, <1>3, <1>4, <1>5 DEF TcBurn!FontOK

\* Each size with each layout: the digits are centred, fifteen of them fit in a
\* line and their lines fit below ninety percent of the picture.
FitsFrom(x, r, row) == x >= 0 /\ x + TcBurn!kTCMaxTCChars * r.charWidth <= row

DigitsFit(r, aja, fp) ==
  /\ FitsFrom(r.x, r, TcBurn!AJA_CalcRowBytesForFormat(aja, TcBurn!size[fp].pixels))
  /\ FitsFrom(Aligned(aja, r.x), r, TcBurn!AJA_CalcRowBytesForFormat(aja, TcBurn!size[fp].pixels))
  /\ (TcBurn!size[fp].lines * 8) \div 10 + r.charHeight <= TcBurn!size[fp].lines
  /\ \A percentY \in 0 .. 90 :
       (TcBurn!size[fp].lines * percentY) \div 100 + r.charHeight <= TcBurn!size[fp].lines

LEMMA AllDigitsFit ==
  ASSUME NEW aja \in Layouts, NEW fp \in {"1080i_5000", "720p_5000", "4Kp_5000", "8kp_5000"},
         NEW s, s.pixels = TcBurn!size[fp].pixels, s.lines = TcBurn!size[fp].lines
  PROVE  DigitsFit(TcBurn!Rendered(aja, s), aja, fp)
<1> DEFINE r == TcBurn!Rendered(aja, s)
           dots == TcBurn!dotScale(s.lines)
           row == TcBurn!AJA_CalcRowBytesForFormat(aja, s.pixels)
<1>1. \/ s.pixels = 1920 /\ s.lines = 1080
      \/ s.pixels = 1280 /\ s.lines = 720
      \/ s.pixels = 3840 /\ s.lines = 2160
      \/ s.pixels = 7680 /\ s.lines = 4320
  BY DEF TcBurn!size
<1>2. /\ dots = IF s.lines = 1080 \/ s.lines = 2160 THEN 3 ELSE IF s.lines = 720 THEN 2 ELSE 10
      /\ TcBurn!dotWidth(s.pixels, s.lines) = dots
  BY <1>1 DEF TcBurn!dotScale, TcBurn!dotWidth
<1>3. /\ r.charWidth = TcBurn!bytes(aja, 24 * dots) /\ r.charHeight = 36 * dots
      /\ r.x = (TcBurn!bytes(aja, s.pixels) - 11 * TcBurn!bytes(aja, 24 * dots)) \div 2
  <2>1. dots \in Nat
    BY <1>1, <1>2
  <2> HIDE DEF dots
  <2>2. /\ r.charWidth = TcBurn!bytes(aja, TcBurn!kTCDigitDotWidth * TcBurn!dotWidth(s.pixels, s.lines))
        /\ r.charHeight = TcBurn!kTCDigitDotHeight * 2 * dots
        /\ r.x = (TcBurn!bytes(aja, s.pixels)
                   - TcBurn!kTCNumBurnInChars
                     * TcBurn!bytes(aja, TcBurn!kTCDigitDotWidth * TcBurn!dotWidth(s.pixels, s.lines))) \div 2
    BY DEF TcBurn!Rendered, dots
  <2> QED BY <1>2, <2>1, <2>2 DEF TcBurn!kTCDigitDotWidth, TcBurn!kTCDigitDotHeight, TcBurn!kTCNumBurnInChars
<1>4. /\ r.charHeight \in Nat
      /\ (s.lines * 8) \div 10 + r.charHeight <= s.lines
      /\ \A percentY \in 0 .. 90 : (s.lines * percentY) \div 100 + r.charHeight <= s.lines
  <2> HIDE DEF r, dots
  <2>1. \/ s.lines = 1080 /\ r.charHeight = 108
        \/ s.lines = 720 /\ r.charHeight = 72
        \/ s.lines = 2160 /\ r.charHeight = 108
        \/ s.lines = 4320 /\ r.charHeight = 360
    BY <1>1, <1>2, <1>3
  <2>2. \A percentY \in 0 .. 90 :
          /\ (1080 * percentY) \div 100 + 108 <= 1080
          /\ (720 * percentY) \div 100 + 72 <= 720
          /\ (2160 * percentY) \div 100 + 108 <= 2160
          /\ (4320 * percentY) \div 100 + 360 <= 4320
    OBVIOUS
  <2>3. \A percentY \in 0 .. 90 : (s.lines * percentY) \div 100 + r.charHeight <= s.lines
    BY <2>1, <2>2
  <2>4. r.charHeight \in Nat /\ (s.lines * 8) \div 10 + r.charHeight <= s.lines
    BY <2>1
  <2> QED BY <2>3, <2>4
<1>5. FitsFrom(r.x, r, row) /\ FitsFrom(Aligned(aja, r.x), r, row)
  <2> USE DEF TcBurn!bytes, TcBurn!bytesPerPixel, TcBurn!AJA_CalcRowBytesForFormat, Aligned, FitsFrom,
              TcBurn!kTCMaxTCChars
  <2> HIDE DEF r, dots
  <2>1. CASE aja = "YCbCr8"
    BY <1>1, <1>2, <1>3, <2>1
  <2>2. CASE aja = "YCbCr10"
    BY <1>1, <1>2, <1>3, <2>2
  <2>3. CASE aja = "RGB8_PACK"
    BY <1>1, <1>2, <1>3, <2>3
  <2>4. CASE aja = "ARGB8"
    BY <1>1, <1>2, <1>3, <2>4
  <2> QED BY <2>1, <2>2, <2>3, <2>4, LayoutsAre
<1> QED BY <1>4, <1>5 DEF DigitsFit

\* The digits of main, in the picture asked for last.
LEMMA BurnedInPicture == BurnInv => TcBurn!DigitsInPicture
<1> DEFINE aja == TcBurn!GetAJAPixelFormat(asked.pix)
           fp == asked.fp
           r == TcBurn!Rendered(aja, font)
           row == TcBurn!AJA_CalcRowBytesForFormat(aja, TcBurn!size[fp].pixels)
<1> SUFFICES ASSUME BurnInv, bRendered, ~failed, fp \notin {"none", "SD_625_5000", "1080p_2398"},
                    ~TcBurn!Shifted(fp, asked.pix)
             PROVE  /\ rowBytes = row
                    /\ \A percentY \in Percents :
                         percentY <= 90 =>
                           LET d == TcBurn!Digits(percentY, TcBurn!kTCMaxTCChars)
                           IN  /\ d.x >= 0 /\ d.x + d.bytes <= row
                               /\ d.first + d.lines <= TcBurn!size[fp].lines
  BY DEF TcBurn!DigitsInPicture
<1>1. fp \in {"1080i_5000", "720p_5000", "4Kp_5000", "8kp_5000"} /\ Known(fp, asked.pix)
  <2>1. fp \in DOMAIN TcBurn!size
    BY OverlayAssumption DEF BurnInv, BurnTypes
  <2> QED BY <2>1 DEF TcBurn!size, Known
<1>2. /\ font.pix = aja /\ font.pixels = TcBurn!size[fp].pixels /\ font.lines = TcBurn!size[fp].lines
      /\ rowBytes = row /\ aja \in Layouts /\ FontDrawn(font)
  BY <1>1 DEF BurnInv, RowsInv, FontInv, FontOf
<1>3. DigitsFit(r, aja, fp)
  BY <1>1, <1>2, AllDigitsFit
<1>4. font.charWidth = r.charWidth /\ font.charHeight = r.charHeight /\ (font.x = r.x \/ font.x = Aligned(aja, r.x))
  BY <1>2 DEF FontDrawn
<1>5. r.x \in Int /\ r.charWidth \in Nat /\ TcBurn!size[fp].lines \in Nat
  <2>1. font.pixels \in Nat /\ font.lines \in Nat
    BY DEF BurnInv, BurnTypes, Fonts
  <2>2. RenderedOK(r, aja, font)
    BY <1>2, <2>1, RenderedIsOK
  <2> QED BY <1>2, <2>1, <2>2 DEF RenderedOK
<1>6. TcBurn!charPositionX = r.x \/ TcBurn!charPositionX = Aligned(aja, r.x)
  <2>1. TcBurn!charPositionX = Aligned(aja, font.x)
    BY <1>2 DEF TcBurn!charPositionX, Aligned
  <2>2. Aligned(aja, Aligned(aja, r.x)) = Aligned(aja, r.x)
    BY <1>5 DEF Aligned
  <2> QED BY <1>4, <2>1, <2>2
<1>7. ASSUME NEW percentY \in Percents, percentY <= 90
      PROVE  LET d == TcBurn!Digits(percentY, TcBurn!kTCMaxTCChars)
             IN  /\ d.x >= 0 /\ d.x + d.bytes <= row
                 /\ d.first + d.lines <= TcBurn!size[fp].lines
  <2> DEFINE d == TcBurn!Digits(percentY, TcBurn!kTCMaxTCChars)
  <2>1. percentY \in 0 .. 90
    BY <1>7, OverlayAssumption
  <2>2. /\ d.first = TcBurn!charPositionY(percentY) /\ d.lines = r.charHeight
        /\ d.x = TcBurn!charPositionX /\ d.bytes = TcBurn!kTCMaxTCChars * r.charWidth
    BY <1>4 DEF TcBurn!Digits
  <2>3. FitsFrom(TcBurn!charPositionX, r, row)
    BY <1>3, <1>6 DEF DigitsFit
  <2>4. TcBurn!charPositionY(percentY) + r.charHeight <= TcBurn!size[fp].lines
    <3>1. CASE percentY = 0
      BY <1>2, <1>3, <3>1 DEF TcBurn!charPositionY, DigitsFit
    <3>2. CASE percentY # 0
      BY <1>2, <1>3, <2>1, <3>2 DEF TcBurn!charPositionY, DigitsFit
    <3> QED BY <3>1, <3>2
  <2> HIDE DEF d, r, row
  <2>5. d.x >= 0 /\ d.x + d.bytes <= row /\ d.first + d.lines <= TcBurn!size[fp].lines
    BY <2>2, <2>3, <2>4 DEF FitsFrom
  <2> QED BY <2>5 DEF d
<1> QED BY <1>2, <1>7

\* Lines of 3840 bytes against lines of 5120: the column's place in the line
\* moves on with each line, and returns after four.
LEMMA Survives == BurnInv => ColumnSurvives
<1> SUFFICES ASSUME BurnInv, asked = [fp |-> "1080i_5000", pix |-> "10BIT_YCBCR"], bRendered, ~failed,
                    NEW block \in Blocks, NEW field \in Fields,
                    totalBLocks = 66
             PROVE  ~(BlockLines(block, field) \subseteq Covered)
  BY DEF ColumnSurvives
<1> DEFINE r == TcBurn!Rendered("YCbCr10", font)
<1>1. asked.fp = "1080i_5000" /\ asked.pix = "10BIT_YCBCR"
  OBVIOUS
<1>2. /\ TcBurn!GetAJAPixelFormat(asked.pix) = "YCbCr10" /\ Known(asked.fp, asked.pix)
      /\ TcBurn!size[asked.fp].pixels = 1920 /\ TcBurn!size[asked.fp].lines = 1080
  BY <1>1 DEF TcBurn!GetAJAPixelFormat, Known, TcBurn!Shifted, TcBurn!size
<1>3. font.pix = "YCbCr10" /\ font.pixels = 1920 /\ font.lines = 1080 /\ FontDrawn(font)
  BY <1>2 DEF BurnInv, RowsInv, FontInv, FontOf
<1>4. rowBytes = 5120 /\ LineBytes = 3840 /\ ColumnX = 2400
  BY <1>2, <1>3 DEF BurnInv, RowsInv, TcBurn!AJA_CalcRowBytesForFormat, LineBytes, ColumnX
<1>5. r.charWidth = 192 /\ r.x = 1504
  BY <1>3 DEF TcBurn!Rendered, TcBurn!dotWidth, TcBurn!dotScale, TcBurn!bytes, TcBurn!kTCDigitDotWidth,
     TcBurn!kTCNumBurnInChars
<1>6. font.x = 1504 /\ font.charWidth = 192
  BY <1>3, <1>5 DEF FontDrawn, Aligned
<1>7. MainDigits.x = 1504 /\ MainDigits.bytes = 11 * 192
  BY <1>3, <1>6 DEF MainDigits, TcBurn!Digits, TcBurn!charPositionX
<1>8. \A line \in Covered :
        LET col == (line * 3840 + 2400) % 5120
        IN  1504 - 16 < col /\ col < 1504 + 11 * 192
  BY <1>4, <1>7 DEF Covered
<1>9. block \in Nat
  BY DEF Blocks
<1> DEFINE line == IF field = "A" THEN 16 * block + 2 ELSE 16 * block + 1
<1>10. line \in BlockLines(block, field)
  <2>1. CASE field = "A"
    <3>1. line = 16 * block + 2 * 1 + 0
      BY <1>9, <2>1
    <3> QED BY <2>1, <3>1 DEF BlockLines
  <2>2. CASE field # "A"
    <3>1. line = 16 * block + 2 * 0 + 1
      BY <1>9, <2>2
    <3> QED BY <2>2, <3>1 DEF BlockLines
  <2> QED BY <2>1, <2>2
<1>11. (line * 3840 + 2400) % 5120 = IF field = "A" THEN 4960 ELSE 1120
  <2>1. CASE field = "A"
    <3>1. line * 3840 + 2400 = 5120 * (12 * block + 1) + 4960
      BY <1>9, <2>1
    <3>2. \A k \in Nat : (5120 * k + 4960) % 5120 = 4960
      OBVIOUS
    <3> QED BY <1>9, <2>1, <3>1, <3>2
  <2>2. CASE field # "A"
    <3>1. line * 3840 + 2400 = 5120 * (12 * block + 1) + 1120
      BY <1>9, <2>2
    <3>2. \A k \in Nat : (5120 * k + 1120) % 5120 = 1120
      OBVIOUS
    <3> QED BY <1>9, <2>2, <3>1, <3>2
  <2> QED BY <2>1, <2>2
<1>12. line \notin Covered
  <2> HIDE DEF line
  <2> QED BY <1>8, <1>11
<1> QED BY <1>10, <1>12

-----------------------------------------------------------------------------
\* The digits of TcOSD.

\* The shapes a load sets: the one of SD, or the one of the percentage.
Shapes(percents) == {Osd!charShape(type, scale) : type \in Osd!WorkType, scale \in percents}

OsdTypes ==
  /\ IsFiniteSet(scales) /\ scales \subseteq Scales
  /\ loaded \subseteq Osd!WorkType /\ initSuc \subseteq Osd!WorkType
  /\ DOMAIN room = Osd!Bitmaps /\ DOMAIN drawn = Osd!Bitmaps
  /\ osdOffset \in {0, 500, 360, 540}

ShapesInv ==
  /\ IF scales = {} THEN shape = Osd!NoShape ELSE shape \in Shapes(scales)
  /\ \A b \in Osd!Bitmaps :
       room[b] = Osd!NoShape \/ \E scale \in scales : room[b] = Osd!charShape(b, scale)
  /\ \A type \in initSuc :
       \E scale \in scales : drawn[Osd!pTemp(type)] = Osd!charShape(Osd!pTemp(type), scale)

OsdInv == OsdTypes /\ ShapesInv /\ Osd!OverrunNeeds2160

LEMMA CardinalityOf ==
  ASSUME NEW S
  PROVE  Osd!Cardinality(S) = Cardinality(S)
BY DEF Osd!Cardinality, Cardinality

LEMMA HdShapesSame ==
  ASSUME NEW type \in {"720", "1080", "2160"}, NEW scale
  PROVE  Osd!charShape(type, scale) = Osd!charShape("1080", scale)
BY DEF Osd!charShape

LEMMA SdShapesSame ==
  ASSUME NEW scale
  PROVE  Osd!charShape("SD", scale) = Osd!charShape("SD", 100)
BY DEF Osd!charShape

SmallShape(s) ==
  s.num \in 0 .. 76 /\ s.sep \in 0 .. 60 /\ s.height \in -2 .. 139

LEMMA ShapesAreSmall ==
  ASSUME NEW type \in Osd!WorkType, NEW scale \in 1 .. 150
  PROVE  SmallShape(Osd!charShape(type, scale))
<1>1. CASE type = "SD"
  BY <1>1 DEF Osd!charShape, SmallShape
<1>2. CASE type # "SD" /\ scale = 100
  BY <1>2 DEF Osd!charShape, SmallShape
<1>3. CASE type # "SD" /\ scale # 100
  <2>1. Osd!charShape(type, scale)
          = [num |-> 76, sep |-> (40 * scale) \div 100, height |-> (94 * scale) \div 100 - 2]
    BY <1>3 DEF Osd!charShape
  <2>2. (40 * scale) \div 100 \in 0 .. 60 /\ (94 * scale) \div 100 - 2 \in -2 .. 139
    OBVIOUS
  <2> QED BY <2>1, <2>2 DEF SmallShape
<1> QED BY <1>1, <1>2, <1>3

\* What is allocated for a shape has room for it.
LEMMA FitsItself ==
  ASSUME NEW s, SmallShape(s)
  PROVE  Osd!Fits(s, s)
<1>1. s.num \in Int /\ s.sep \in Int /\ s.height \in Int
  BY DEF SmallShape
<1>2. s.num * s.height \in Int /\ s.sep * s.height \in Int
  BY <1>1
<1> QED BY <1>2 DEF Osd!Fits

LEMMA OneScale ==
  ASSUME IsFiniteSet(scales), Cardinality(scales) = 1
  PROVE  \E scale : scales = {scale}
BY FS_Singleton

LEMMA OsdInit == Osd!Init => OsdInv
<1> SUFFICES ASSUME Osd!Init PROVE OsdInv
  OBVIOUS
<1>1. IsFiniteSet(scales) /\ scales = {}
  BY FS_EmptySet DEF Osd!Init
<1> QED BY <1>1 DEF Osd!Init, OsdInv, OsdTypes, ShapesInv, Osd!OverrunNeeds2160

\* The bitmaps a load allocates get the shape it has set, and so do those it
\* draws: only 2160 draws into bitmaps another load allocated.
LEMMA OsdLoad ==
  ASSUME OsdInv, NEW type \in Osd!WorkType, NEW scale \in Scales, Osd!loadFont(type, scale)
  PROVE  OsdInv'
<1>0. scale \in 1 .. 150
  BY OverlayAssumption
<1>1. /\ shape' = Osd!charShape(type, scale) /\ osdOffset' \in {500, 360, 540}
      /\ scales' = scales \cup {scale} /\ ~overrun
  BY DEF Osd!loadFont, Osd!offsetOf
<1>2. IsFiniteSet(scales') /\ scales' \subseteq Scales /\ scale \in scales'
  BY <1>1, FS_AddElement DEF OsdInv, OsdTypes
<1>3. scales' # {} /\ shape' \in Shapes(scales')
  BY <1>1, <1>2 DEF Shapes
<1>4. SmallShape(shape')
  BY <1>0, <1>1, ShapesAreSmall
<1>5. CASE UNCHANGED <<loaded, room, drawn, initSuc, overrun>>
  <2>1. OsdTypes'
    BY <1>1, <1>2, <1>5 DEF OsdInv, OsdTypes
  <2>2. ShapesInv'
    BY <1>1, <1>3, <1>5 DEF OsdInv, ShapesInv
  <2> QED BY <1>1, <1>5, <2>1, <2>2 DEF OsdInv, Osd!OverrunNeeds2160
<1>6. CASE /\ loaded' = loaded \cup {type} /\ room' = Osd!allocationMem(type)
           /\ Osd!Draw(type) \/ UNCHANGED <<drawn, initSuc, overrun>>
  <2>1. /\ DOMAIN room' = Osd!Bitmaps
        /\ \A b \in Osd!Bitmaps : room'[b] = IF b = type THEN shape' ELSE room[b]
    BY <1>6 DEF Osd!allocationMem, OsdInv, OsdTypes
  <2>2. \A b \in Osd!Bitmaps :
          room'[b] = Osd!NoShape \/ \E s \in scales' : room'[b] = Osd!charShape(b, s)
    BY <1>1, <2>1 DEF OsdInv, ShapesInv
  <2>3. CASE UNCHANGED <<drawn, initSuc, overrun>>
    <3>1. OsdTypes'
      BY <1>1, <1>2, <1>6, <2>1, <2>3 DEF OsdInv, OsdTypes
    <3>2. ShapesInv'
      BY <1>1, <1>3, <2>2, <2>3 DEF OsdInv, ShapesInv
    <3> QED BY <1>1, <2>3, <3>1, <3>2 DEF OsdInv, Osd!OverrunNeeds2160
  <2>4. CASE Osd!Draw(type)
    <3>1. /\ DOMAIN drawn' = Osd!Bitmaps /\ Osd!pTemp(type) \in Osd!Bitmaps
          /\ \A b \in Osd!Bitmaps : drawn'[b] = IF b = Osd!pTemp(type) THEN shape' ELSE drawn[b]
      BY <2>4 DEF Osd!Draw, Osd!pTemp, Osd!WorkType, Osd!Bitmaps, OsdInv, OsdTypes
    <3>2. shape' = Osd!charShape(Osd!pTemp(type), scale)
      BY <1>1, HdShapesSame DEF Osd!pTemp
    <3>3. /\ initSuc' \subseteq Osd!WorkType
          /\ \A t \in initSuc' : t \in initSuc \/ Osd!pTemp(t) = Osd!pTemp(type)
      BY <2>4 DEF Osd!Draw, Osd!pTemp, Osd!WorkType, OsdInv, OsdTypes
    <3>4. ASSUME NEW t \in initSuc'
          PROVE  \E s \in scales' : drawn'[Osd!pTemp(t)] = Osd!charShape(Osd!pTemp(t), s)
      <4>1. CASE Osd!pTemp(t) = Osd!pTemp(type)
        BY <1>2, <3>1, <3>2, <4>1
      <4>2. CASE Osd!pTemp(t) # Osd!pTemp(type)
        <5>1. t \in initSuc /\ Osd!pTemp(t) \in Osd!Bitmaps
          BY <3>3, <4>2 DEF Osd!pTemp, Osd!WorkType, Osd!Bitmaps
        <5> QED BY <1>1, <3>1, <4>2, <5>1 DEF OsdInv, ShapesInv
      <4> QED BY <4>1, <4>2
    <3>5. OsdTypes'
      BY <1>1, <1>2, <1>6, <2>1, <3>1, <3>3 DEF OsdInv, OsdTypes
    <3>6. ShapesInv'
      BY <1>3, <2>2, <3>4 DEF ShapesInv
    <3>7. ASSUME overrun', room'["1080"] # Osd!NoShape, ~(Cardinality(scales') > 1)
          PROVE  FALSE
      <4>1. PICK s \in scales' : room'["1080"] = Osd!charShape("1080", s)
        BY <2>2, <3>7 DEF Osd!Bitmaps
      <4>2. s = scale
        <5>1. {s, scale} \subseteq scales'
          BY <1>2
        <5>2. Cardinality(scales') \in Nat /\ Cardinality(scales') # 0
          BY <1>2, FS_CardinalityType, FS_EmptySet
        <5>3. Cardinality(scales') = 1
          BY <3>7, <5>2
        <5> QED BY <1>2, <5>1, <5>3, FS_Singleton
      <4>3. room'[Osd!pTemp(type)] = shape'
        <5>1. CASE type \in {"1080", "2160"}
          BY <1>1, <4>1, <4>2, <5>1, HdShapesSame DEF Osd!pTemp
        <5>2. CASE type \in {"SD", "720"}
          BY <2>1, <5>2 DEF Osd!pTemp, Osd!Bitmaps
        <5> QED BY <5>1, <5>2 DEF Osd!WorkType
      <4> QED BY <1>4, <2>4, <3>7, <4>3, FitsItself DEF Osd!Draw
    <3>8. overrun' => type = "2160"
      <4> SUFFICES ASSUME type # "2160" PROVE ~overrun'
        OBVIOUS
      <4>1. room'[Osd!pTemp(type)] = shape'
        BY <2>1 DEF Osd!pTemp, Osd!Bitmaps, Osd!WorkType
      <4> QED BY <1>4, <2>4, <4>1, FitsItself DEF Osd!Draw
    <3>9. Osd!OverrunNeeds2160'
      <4>1. "2160" \in Osd!WorkType /\ Osd!Cardinality(scales') = Cardinality(scales')
        BY CardinalityOf DEF Osd!WorkType
      <4> QED BY <1>6, <3>7, <3>8, <4>1 DEF Osd!OverrunNeeds2160
    <3> QED BY <3>5, <3>6, <3>9 DEF OsdInv
  <2> QED BY <1>6, <2>3, <2>4
<1> QED BY <1>5, <1>6 DEF Osd!loadFont

\* With one percentage there are two shapes, the one of SD and the one of all
\* the others.
LEMMA ReadsAsDrawn == OsdInv => OSDReadsAsDrawn
<1> SUFFICES ASSUME OsdInv, Cardinality(scales) = 1, NEW type \in initSuc
             PROVE  \/ type \in {"720", "1080"} /\ shape = Osd!charShape("SD", 100)
                    \/ type = "2160" /\ scales # {100}
                    \/ Osd!readShape(type) = drawn[Osd!pTemp(type)]
  BY CardinalityOf DEF OSDReadsAsDrawn, Osd!OSDReadsAsDrawn
<1>1. PICK scale : scales = {scale}
  BY OneScale DEF OsdInv, OsdTypes
<1>2. drawn[Osd!pTemp(type)] = Osd!charShape(Osd!pTemp(type), scale) /\ type \in Osd!WorkType
  BY <1>1 DEF OsdInv, OsdTypes, ShapesInv
<1>3. CASE type = "SD"
  BY <1>2, <1>3, SdShapesSame DEF Osd!readShape, Osd!pTemp
<1>4. CASE type = "2160"
  BY <1>1, <1>2, <1>4, HdShapesSame DEF Osd!readShape, Osd!pTemp
<1>5. CASE type \in {"720", "1080"}
  <2>1. Osd!readShape(type) = shape /\ Osd!pTemp(type) = type
    BY <1>5 DEF Osd!readShape, Osd!pTemp
  <2>2. PICK t \in Osd!WorkType : shape = Osd!charShape(t, scale)
    BY <1>1 DEF OsdInv, ShapesInv, Shapes
  <2>3. CASE t = "SD"
    BY <1>5, <2>2, <2>3, SdShapesSame
  <2>4. CASE t # "SD"
    <3>1. shape = Osd!charShape("1080", scale)
      BY <2>2, <2>4, HdShapesSame DEF Osd!WorkType
    <3>2. Osd!charShape(type, scale) = Osd!charShape("1080", scale)
      BY <1>5, HdShapesSame
    <3> QED BY <1>2, <2>1, <3>1, <3>2
  <2> QED BY <2>3, <2>4
<1> QED BY <1>2, <1>3, <1>4, <1>5 DEF Osd!WorkType

\* The widest digits, at the lowest line any load sets, end inside the picture.
LEMMA OsdInPicture == OsdInv => Osd!OSDInPicture
<1> SUFFICES ASSUME OsdInv, NEW type \in initSuc
             PROVE  /\ Osd!startByte(type) + Osd!lineBytes(type) <= Osd!picture[type].pixels * 2
                    /\ \A line \in Osd!startLines(type) :
                         line + Osd!readShape(type).height <= Osd!picture[type].lines
  BY DEF Osd!OSDInPicture
<1>1. type \in Osd!WorkType /\ osdOffset \in {0, 500, 360, 540}
  BY DEF OsdInv, OsdTypes
<1>2. SmallShape(shape)
  <2>1. SmallShape(Osd!NoShape)
    BY DEF SmallShape, Osd!NoShape
  <2>2. \A t \in Osd!WorkType, s \in scales : SmallShape(Osd!charShape(t, s))
    BY OverlayAssumption, ShapesAreSmall DEF OsdInv, OsdTypes
  <2> QED BY <2>1, <2>2 DEF OsdInv, ShapesInv, Shapes
<1>3. CASE type = "SD"
  BY <1>3 DEF Osd!startByte, Osd!lineBytes, Osd!words, Osd!readShape, Osd!charShape, Osd!startLines,
     Osd!picture, Osd!WorkType
<1>4. CASE type = "2160"
  BY <1>4 DEF Osd!startByte, Osd!lineBytes, Osd!words, Osd!readShape, Osd!charShape, Osd!startLines,
     Osd!picture, Osd!WorkType
<1>5. CASE type \in {"720", "1080"}
  <2>1. Osd!readShape(type) = shape
    BY <1>5 DEF Osd!readShape
  <2> DEFINE w == (8 * shape.num + 3 * shape.sep) \div 2
  <2>2. w \in 0 .. 394
    <3>1. shape.num \in 0 .. 76 /\ shape.sep \in 0 .. 60
      BY <1>2 DEF SmallShape
    <3>2. \A num \in 0 .. 76, sep \in 0 .. 60 : (8 * num + 3 * sep) \div 2 \in 0 .. 394
      OBVIOUS
    <3> QED BY <3>1, <3>2
  <2>3. Osd!lineBytes(type) = 4 * (IF type = "1080" THEN w + 4 - 2 * 11 ELSE w + 4)
    BY <1>5, <2>1 DEF Osd!lineBytes, Osd!words
  <2>4. Osd!startLines(type) = {osdOffset} /\ shape.height \in -2 .. 139
    BY <1>2, <1>5 DEF Osd!startLines, SmallShape
  <2> HIDE DEF w
  <2> QED BY <1>1, <1>5, <2>1, <2>2, <2>3, <2>4 DEF Osd!startByte, Osd!picture, Osd!WorkType
<1> QED BY <1>1, <1>3, <1>4, <1>5 DEF Osd!WorkType

-----------------------------------------------------------------------------
\* The two programs.

OverlayInv == IInv /\ BurnInv /\ OsdInv

LEMMA OverlayInductive == OverlaySpec => []OverlayInv
<1>1. OverlayInit => OverlayInv
  BY InitIInv, BurnInit, OsdInit DEF OverlayInit, OverlayInv
<1>2. OverlayInv /\ [OverlayNext]_overlayVars => OverlayInv'
  <2> SUFFICES ASSUME OverlayInv, [OverlayNext]_overlayVars PROVE OverlayInv'
    OBVIOUS
  <2>1. UNCHANGED vars => IInv'
    BY MarkerIInv DEF OverlayInv
  <2>2. UNCHANGED burnVars => BurnInv'
    BY DEF burnVars, OverlayInv, BurnInv, BurnTypes, FontInv, RowsInv, FontOf
  <2>3. UNCHANGED osdVars => OsdInv'
    BY DEF osdVars, OverlayInv, OsdInv, OsdTypes, ShapesInv, Osd!OverrunNeeds2160
  <2>4. CASE UNCHANGED overlayVars
    BY <2>1, <2>2, <2>3, <2>4 DEF overlayVars, OverlayInv
  <2>5. CASE Picture /\ UNCHANGED osdVars
    BY <2>3, <2>5, buildMarkerIInv, BurnPicture DEF Picture, OverlayInv
  <2>6. ASSUME NEW fp \in Formats, NEW pix \in PixFormats, SetFormat(fp, pix), UNCHANGED osdVars
        PROVE  OverlayInv'
    <3>1. TcBurn!size[fp].lines \in HighEnough
      BY OverlayAssumption, Sizes
    <3> QED BY <2>3, <2>6, <3>1, resetIInv, BurnRender DEF SetFormat, OverlayInv
  <2>7. CASE LoadFont /\ UNCHANGED <<vars, burnVars>>
    BY <2>1, <2>2, <2>7, OsdLoad DEF LoadFont, OverlayInv
  <2> QED BY <2>4, <2>5, <2>6, <2>7 DEF OverlayNext
<1> QED BY <1>1, <1>2, PTL DEF OverlaySpec

LEMMA TypesOK == OverlayInv => OverlayOK
<1> SUFFICES ASSUME OverlayInv PROVE OverlayOK
  OBVIOUS
<1>1. TcBurn!FontOK
  BY FontIsOK DEF OverlayInv
<1>2. TypeOK
  BY DEF OverlayInv, IInv, Drawn, TypeOK
<1> QED BY <1>1, <1>2 DEF OverlayOK

\* Column and font keep their types, in whatever order formats follow each
\* other (MarkerBuilder.h:58-65, 107-117, timecodeburn.cpp:371-378, 388-607).
THEOREM OverlayAlwaysOK == OverlaySpec => []OverlayOK
BY OverlayInductive, TypesOK, PTL

\* What marks the pictures apart does so in the program that changes formats
\* (MarkerBuilder.h:58-65, 82-117).
THEOREM ToldApartInOverlay == OverlaySpec => []PicturesToldApart
BY OverlayInductive, ToldApart, PTL DEF OverlayInv

\* No burner draws outside the picture, for any formats, percentages of the
\* height and fonts of up to 150 percent (timecodeburn.cpp:30-72, 280-390,
\* 609-635, tcOSD.cpp:184-231, 340-454).
THEOREM DigitsAlwaysInPicture == OverlaySpec => []DigitsInPicture
<1>1. OverlayInv => DigitsInPicture
  BY BurnedInPicture, OsdInPicture DEF OverlayInv, DigitsInPicture
<1> QED BY <1>1, OverlayInductive, PTL

\* The time code leaves a line of each block of the column, for any formats
\* before (mainX.cpp:89, 102-105, timecodeburn.cpp:53, 74-85).
THEOREM ColumnAlwaysSurvives == OverlaySpec => []ColumnSurvives
BY OverlayInductive, Survives, PTL DEF OverlayInv

\* For any one percentage and any order of loads, digits are read as they were
\* drawn, SD loaded last excepted (tcOSD.cpp:184-236, 276-289, 374-454).
THEOREM AlwaysReadsAsDrawn == OverlaySpec => []OSDReadsAsDrawn
BY OverlayInductive, ReadsAsDrawn, PTL DEF OverlayInv

\* Nothing but a load of 2160 writes past the end of bitmaps, for any
\* percentages and any order of loads (tcOSD.cpp:46-80, 249, 264-279).
THEOREM OverrunAlwaysNeeds2160 == OverlaySpec => []OverrunNeeds2160
<1>1. OverlayInv => OverrunNeeds2160
  BY DEF OverlayInv, OsdInv, OverrunNeeds2160
<1> QED BY <1>1, OverlayInductive, PTL

=============================================================================
