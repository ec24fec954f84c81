----------------------------- MODULE MCMemTests -----------------------------
(***************************************************************************)
(* Small memories for the test algorithms: an address space of 96 words,   *)
(* chunks of 16, words of four bits, segments at both ends of the address  *)
(* space, of which one is less than a chunk and one is more.               *)
(***************************************************************************)
EXTENDS MemTests

Seg(a, b) == [start |-> a, end |-> b]
TwoSegs == <<Seg(4, 12), Seg(72, 92)>>
OneSeg == <<Seg(8, 48)>>
LastBank == <<Seg(4, 12), Seg(89, 93)>>
BlockSegs == <<Seg(0, 32), Seg(48, 88)>>

(* Ends of segments and chunks, in both directions *)
Ends4 == {4, 11, 75, 91}

Stuck == [kind : {"stuck"}, word : Ends4 \cup {72, 88}, bit : {0, 3}, value : BOOLEAN]
Couple == {f \in [kind : {"couple"}, word : Ends4, other : Ends4, bit : {1},
                  value : BOOLEAN] : f.word # f.other}
Alias == {f \in [kind : {"alias"}, word : Ends4, other : Ends4] : f.word > f.other}
Line == [kind : {"line"}, word : {1, 2, 4, 8, 16, 32, 64}]
Fade == [kind : {"fade"}, word : {4, 91}, bit : {0}, value : BOOLEAN]

Trial(maps, pats, iters, faults) ==
  [map : maps, pat : pats, iter : iters, fault : faults]

MCTrials ==
  Trial({TwoSegs, OneSeg}, {0, 1, 2, 3, 5, 6, 8, 9, 10, 11}, {1, 2}, {NoFault})
  \cup Trial({TwoSegs}, {0, 10}, {2}, Stuck \cup Couple \cup Alias)
  \cup Trial({TwoSegs}, {3, 8, 9}, {1}, Stuck)
  \cup Trial({TwoSegs}, {0, 1, 2}, {1, 2}, Couple \cup Alias)
  \cup Trial({TwoSegs}, {4, 11}, {1}, {NoFault, [kind |-> "stuck", word |-> 75,
                                                 bit |-> 0, value |-> TRUE]})
  \cup Trial({TwoSegs}, {6}, {1}, Alias)
  \cup Trial({TwoSegs}, {5}, {1}, Line)
  \cup Trial({LastBank}, {5}, {1}, {NoFault})
  \cup Trial({TwoSegs}, {8}, {1}, Fade)
  \cup Trial({BlockSegs}, {7}, {1, 2, 3}, {NoFault})

MCRand(n) == {b \in 0 .. 3 : ((n * n + 3 * n + b) \div 2) % 3 = 1}
Garbage == [a \in 0 .. 95 |-> {b \in 0 .. 3 : (a + b) % 3 = 0}]
MCContents == {Garbage}
=============================================================================
