------------------------------- MODULE Marker -------------------------------
(***************************************************************************)
(* Build_Marker (Lib.TCMarker/MarkerBuilder.h): a column of blocks, black  *)
(* or white, that moves one block per picture, so that a player's pictures *)
(* can be told apart.  Each field of the picture has a column and an index *)
(* of its own.  Only the column is modelled: the label (putMark) and the   *)
(* bits of the frame number (writeMarker) are written elsewhere in the     *)
(* picture and depend on the number alone.                                 *)
(***************************************************************************)
EXTENDS Integers

CONSTANT Heights  \* the heights reset and the constructor are given

\* A column of fewer blocks has no room for the bar and a gap.
ASSUME MarkerAssumption == Heights \subseteq {h \in Nat : h \div 16 > 4}

Fields == {"A", "B"}

VARIABLES
  totalBLocks, halfBlocks, fieldInx,
  \* history, since the last reset
  column,  \* per field: the white blocks of the last picture
  before,  \* per field: the white blocks of the picture before
  marked   \* pictures marked, up to 3

vars == <<totalBLocks, halfBlocks, fieldInx, column, before, marked>>

Blocks == 0 .. totalBLocks - 1

\* Blocks of eight lines of a field, without the last.
blocksOf(height) == ((height \div 2) \div 8) - 1

NoColumns == [f \in Fields |-> {}]

-----------------------------------------------------------------------------

\* The constructor calls reset.
Init ==
  /\ totalBLocks \in {blocksOf(h) : h \in Heights}
  /\ halfBlocks = totalBLocks \div 2
  /\ fieldInx = [f \in Fields |-> 0]
  /\ column = NoColumns /\ before = NoColumns
  /\ marked = 0

\* The indices stay: they may be past the end of the new column.
reset(height) ==
  /\ totalBLocks' = blocksOf(height)
  /\ halfBlocks' = totalBLocks' \div 2
  /\ column' = NoColumns /\ before' = NoColumns
  /\ marked' = 0
  /\ UNCHANGED fieldInx

gap(inx) == IF inx < halfBlocks THEN 0 ELSE inx - halfBlocks + 1

\* Mutation: the gap is as long as the blocks past the half column and the half.
whiteBlocksNoGap(inx) == {i \in Blocks : (inx <= i /\ i < inx + 33) \/ i <= gap(inx)}

\* Mark2OnField: 33 blocks from the index to the end of the column, and those
\* before the gap.
whiteBlocks(inx) == {i \in Blocks : (inx <= i /\ i < inx + 33) \/ i < gap(inx)}

\* writeMarker2: both fields, each index moves on, through the column.
buildMarker ==
  /\ column' = [f \in Fields |-> whiteBlocks(fieldInx[f])]
  /\ before' = column
  /\ fieldInx' = [f \in Fields |-> (fieldInx[f] + 1) % totalBLocks]
  /\ marked' = IF marked < 3 THEN marked + 1 ELSE 3
  /\ UNCHANGED <<totalBLocks, halfBlocks>>

Next == buildMarker \/ \E height \in Heights : reset(height)

Spec == Init /\ [][Next]_vars

-----------------------------------------------------------------------------

TypeOK ==
  /\ totalBLocks \in Nat \ {0} /\ halfBlocks \in Nat
  /\ fieldInx \in [Fields -> Nat]
  /\ marked > 0 => \A f \in Fields : fieldInx[f] \in Blocks
  /\ column \in [Fields -> SUBSET Nat] /\ before \in [Fields -> SUBSET Nat]
  /\ marked \in 0 .. 3

\* How a reader finds the number: the first white block below a black one, or
\* the top of the column.
Edges(white)   == {i \in white : i > 0 /\ i - 1 \notin white}
Reads(white, n) == Edges(white) = IF n = 0 THEN {} ELSE {n}

\* From the third picture after a reset, at the latest, the column of each
\* picture shows one number, both fields the same, and it is the one after
\* that of the picture before: a lost or repeated picture can be seen
\* (MarkerBuilder.h:58-65, 82-117).
PicturesToldApart ==
  marked = 3 =>
    \E n \in Blocks : \A f \in Fields :
      Reads(before[f], n) /\ Reads(column[f], (n + 1) % totalBLocks)
=============================================================================
