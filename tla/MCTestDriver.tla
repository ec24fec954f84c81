--------------------------- MODULE MCTestDriver ---------------------------
(***************************************************************************)
(* Small instances of TestDriver.  A scaled-down machine: the image takes  *)
(* pages 1 and 2, "640K" ends at page 4 and "1M" at page 5, the high copy  *)
(* goes to page 6 or, with memory above page 10, to page 8, "2GB" is page  *)
(* 12, and windows[] has four entries.                                     *)
(***************************************************************************)
EXTENDS TestDriver

Entry(a, b) == [start |-> a, end |-> b]

(* A machine with memory below the big threshold, and one with two blocks    *)
(* of memory above 2GB.                                                      *)
SmallMap == <<Entry(0, 4), Entry(5, 10)>>
TinyMap  == <<Entry(0, 4), Entry(5, 7)>>
LargeMap == <<Entry(0, 4), Entry(5, 14), Entry(25, 27)>>

MCSmallMaps == {SmallMap, TinyMap}
MCLargeMaps == {LargeMap}
MCAllMaps == {TinyMap, SmallMap, LargeMap}

MCTestInputs == {-2, 1, 2, 3}
MCMinTest == -2
=============================================================================
