------------------------------ MODULE MCMemMap ------------------------------
(***************************************************************************)
(* Small machines for MemMap.  Tables: all pairs of entries over a few     *)
(* addresses that lie before, in and after the hole, aligned to pages or   *)
(* not, triples over fewer, one entry that wraps around, an empty one and  *)
(* some that are split into more parts than there is room for.  Memory to  *)
(* be probed: all patterns of a few blocks below and above the hole, with  *)
(* as much of the address space decoded as there is, half or a quarter.    *)
(***************************************************************************)
EXTENDS MemMap

Entries(addrs, sizes, types) ==
  {[addr |-> a, size |-> s, type |-> t] : a \in addrs, s \in sizes, t \in types}

Tuples(S, n) == [1 .. n -> S]

MCTables ==
  {<<>>} \cup
  Tuples(Entries({8, 10, 11, 13, 16, 17}, {1, 4, 6}, {1, 2, 3}), 2) \cup
  Tuples(Entries({8, 11, 16}, {2, 5}, {1, 4}), 3) \cup
  {<<[addr |-> 16, size |-> 12, type |-> 1]>>} \cup
  {<<[addr |-> 8, size |-> 0, type |-> t], [addr |-> 10, size |-> 8, type |-> 1]>> :
     t \in {1, 2}} \cup
  {<<[addr |-> 8, size |-> 15, type |-> 1], [addr |-> 10, size |-> 2, type |-> t],
     [addr |-> 16, size |-> 2, type |-> 2]>> : t \in {2, 4}}

(* With a table of the firmware, found or not *)
Record(tag, map, null) ==
  [tag |-> tag, size |-> 2 + 5 * Len(map), map |-> map, null |-> null]
Other == Record("other", <<>>, FALSE)
Table(records) ==
  [right |-> TRUE, bytes |-> 2 * Len(records) + 15, entries |-> Len(records),
   records |-> records]
Board(lb, forwarded, table, memory, decoded) ==
  [lb |-> lb, forwarded |-> forwarded, table |-> table, ram |-> memory,
   decode |-> decoded]
Mem(map) == Record("memory", map, FALSE)
Two == <<[addr |-> 8, size |-> 4, type |-> 1], [addr |-> 16, size |-> 5, type |-> 2],
         [addr |-> 21, size |-> 3, type |-> 1]>>
One == <<[addr |-> 16, size |-> 4, type |-> 1]>>
Lone == Table(<<Other, Mem(One)>>)
Forward(null) == Table(<<Record("forward", <<>>, null), Mem(Two)>>)

MCBoards ==
  {Board(lb, forwarded, One, {}, 32) :
     forwarded \in {Lone, Table(<<Other>>), [Lone EXCEPT !.right = FALSE]},
     lb \in {<<Table(<<Other, Mem(Two), Mem(One)>>)>>,
            <<Table(<<Mem(<<>>), Mem(Two)>>)>>,
            <<[Lone EXCEPT !.right = FALSE], Table(<<Mem(Two)>>)>>,
            <<[Lone EXCEPT !.bytes = 3], Table(<<Mem(Two \o One)>>)>>,
            <<[Lone EXCEPT !.bytes = 3, !.entries = 1]>>,
            <<Table(<<[Other EXCEPT !.size = 0], Mem(One)>>)>>,
            <<Forward(FALSE)>>, <<Forward(TRUE), Lone>>}}

(* Blocks as they are probed; the last ones are the whole address space. *)
Blocks == {0 .. 10, 11 .. 12, 16 .. 19, 20 .. 23, 24 .. 27, 28 .. 31, 32 .. 63}

MCMachines ==
  MCBoards \cup
  {Board(<<>>, Lone, t, 0 .. 63, 32) : t \in MCTables} \cup
  {Board(<<Table(<<Mem(t)>>)>>, Lone, <<>>, {}, 32) : t \in MCTables} \cup
  {Board(<<>>, Lone, <<>>, UNION S, d) : S \in SUBSET Blocks, d \in {16, 32, 64}}
=============================================================================
