------------------------------ MODULE MCCVITC ------------------------------
(***************************************************************************)
(* CVITC started shortly before a minute, a tenth minute and midnight.     *)
(***************************************************************************)
EXTENDS CVITC

MCPcTimes == {time(23, 59, 59, 0), time(4, 8, 59, 0), time(4, 9, 59, 0)}

\* The last frames of a minute, of ten minutes and of a day, of 25, 29 and 30,
\* and the first of a minute that leaves numbers out.
MCNumbers == {1497, 1797, 1799, 1800, 3597, 17979, 26970, 2159997, 2589405, 2591997}
=============================================================================
