----------------------------- MODULE MCErrorLog -----------------------------
(***************************************************************************)
(* A small ErrorLog: eight words in four pages, the upper two of which are *)
(* seen through window 1 or 2, a word of two bits, and three slots, one of *)
(* them for memory above the addresses of the processor.                   *)
(***************************************************************************)
EXTENDS ErrorLog

Data1(adr, bits) == [adr |-> adr, bits |-> bits, test |-> 1, window |-> 1]

(* For the runs: any of a few words, and an ECC error *)
RunErrors == {Data1(a, {0}) : a \in {0, 1, 3, 4, 6}} \cup {Data1(3, {0, 1})}
RunEccErrors == {[page |-> 3, offset |-> 1, corrected |-> TRUE, test |-> 1]}

(* For the printing modes: all kinds, in any test and window where it matters *)
MCDataErrors ==
  {Data1(a, {0}) : a \in {0, 1, 3, 5, 7}} \cup
  {Data1(3, {0, 1}),
   [adr |-> 5, bits |-> {1}, test |-> 5, window |-> 2]}
MCAddrErrors == {Data1(5, {0, 1})}
MCEccErrors ==
  {[page |-> 1, offset |-> 1, corrected |-> FALSE, test |-> 1],
   [page |-> 3, offset |-> 0, corrected |-> TRUE, test |-> 1]}
MCParityErrors == {[edi |-> 4, esi |-> 1, test |-> 5, window |-> 1]}

MCOffsetBits == [o \in 0 .. 1 |-> IF o = 0 THEN {} ELSE {1}]
(* The last structure is one more than the table is said to have, and there    *)
(* is one behind it.                                                           *)
Struct(type, handle, device, start, end) ==
  [type |-> type, handle |-> handle, device |-> device, start |-> start, end |-> end]
MCStructures == <<
  Struct(17, "A", "", 0, 0), Struct(20, "x", "A", 0, 1),
  Struct(17, "B", "", 0, 0), Struct(20, "y", "B", 2, 3),
  Struct(17, "C", "", 0, 0), Struct(16, "v", "", 0, 0),
  Struct(20, "z", "C", 4, 5), Struct(20, "w", "A", 2, 3)>>
=============================================================================
