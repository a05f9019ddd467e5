------------------------------- MODULE MCPMM -------------------------------
(* Small instances of PMM for TLC.                                         *)
EXTENDS PMM

E(b, l, u) == [base |-> b, length |-> l, usable |-> u]

\* Memory maps: two usable regions of equal length of which the first is
\* taken; a region longer than the bitmap, with a hole; a long region below
\* 1MB that must not be taken; no usable memory above 1MB at all.
MCMemMaps ==
  { << E(0, 1, TRUE), E(1, 1, FALSE), E(2, 4, TRUE), E(6, 4, TRUE) >>,
    << E(2, 7, TRUE), E(5, 1, FALSE), E(0, 3, FALSE) >>,
    << E(0, 9, TRUE), E(9, 3, TRUE), E(11, 4, FALSE) >>,
    << E(0, 2, TRUE), E(2, 1, FALSE) >> }
=============================================================================
