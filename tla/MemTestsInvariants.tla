------------------------ MODULE MemTestsInvariants ------------------------
(***************************************************************************)
(* The inductive invariants that the theorems of MemTests_proofs rest on.  *)
(*                                                                         *)
(* IInv says where the pointers of a loop are, what its registers hold     *)
(* there, and what is in memory before and behind them.  MInv adds which   *)
(* calls and loops are left and which words the current loop has been at;  *)
(* TInv, how often a loop has ticked where its pointer is; FInv and        *)
(* FadeInv, what became of a faulty word from sweep to sweep.              *)
(***************************************************************************)
EXTENDS MemTests

(***************************************************************************)
(* Which function a test calls, with which arguments, and which loop may   *)
(* follow which.                                                           *)
(***************************************************************************)
Fn(pt) ==
  CASE pt \in {0, 1, 10} -> "movinv1"
    [] pt = 2 -> "movinv32"
    [] pt \in {3, 4, 11} -> "modtst"
    [] pt = 5 -> "addr_tst1"
    [] pt = 6 -> "addr_tst2"
    [] pt = 7 -> "block_move"
    [] pt = 8 -> "bit_fade"
    [] pt = 9 -> "movinvr"

CallsOf(fn) ==
  CASE fn = "movinv1" -> [fn : {fn}, iter : Nat, p1 : SUBSET Bits]
    [] fn = "movinv32" ->
         {c \in [fn : {fn}, iter : Nat, p1 : SUBSET Bits, lb : SUBSET Bits, off : Bits] :
            c.p1 = Rol(c.lb, c.off)}
    [] fn = "modtst" ->
         [fn : {fn}, off : 0 .. ModSz - 1, iter : Nat, p1 : SUBSET Bits]
    [] fn = "block_move" -> [fn : {fn}, iter : Nat]
    [] fn = "bit_fade" -> [fn : {fn}, p1 : SUBSET Bits]
    [] OTHER -> [fn : {fn}]

First(fn) ==
  CASE fn \in {"movinv1", "movinv32", "movinvr", "bit_fade"} -> "fill"
    [] fn = "modtst" -> "every"
    [] fn = "addr_tst1" -> "line"
    [] fn = "addr_tst2" -> "own"
    [] fn = "block_move" -> "blocks"

Following(fn) ==
  CASE fn \in {"movinv1", "movinv32"} ->
         {<<"fill", "up">>, <<"up", "down">>, <<"down", "up">>}
    [] fn = "movinvr" -> {<<"fill", "up">>, <<"up", "upNot">>}
    [] fn = "modtst" -> {<<"every", "rest">>, <<"every", "check">>,
                         <<"rest", "rest">>, <<"rest", "check">>}
    [] fn = "addr_tst1" -> {<<"line", "line">>, <<"line", "bank">>, <<"bank", "bank">>}
    [] fn = "addr_tst2" -> {<<"own", "check">>}
    [] fn = "block_move" -> {<<"blocks", "move">>, <<"move", "pairs">>}
    [] fn = "bit_fade" -> {<<"fill", "sleep">>, <<"sleep", "check">>}

LoopNames(fn) == {First(fn)} \cup {q[2] : q \in Following(fn)}

LoopsOf(fn) ==
  {s \in Seq(LoopNames(fn)) :
     \A i \in 1 .. Len(s) - 1 : <<s[i], s[i + 1]>> \in Following(fn)}

Looping == pc \notin {"call", "done"}

Shape ==
  /\ pc \in {"segment", "chunk", "word", "mask", "bank", "tick", "over", "call", "done"}
  /\ trial \in Trials
  /\ calls \in Seq(CallsOf(Fn(trial.pat))) /\ calls # <<>>
  /\ loops \in LoopsOf(Fn(trial.pat)) /\ (Looping => loops # <<>>)
  /\ j \in 1 .. segs
  /\ p \in Nat /\ pe \in 0 .. Space - 1
  /\ k \in Nat /\ mask \in Nat /\ pat \subseteq Bits
  /\ mem = [a \in 0 .. Space - 1 |-> mem[a]]

-----------------------------------------------------------------------------
(***************************************************************************)
(* Where the pointers are in the segment, for each kind of loop.           *)
(***************************************************************************)
Modular == call.fn = "modtst" /\ loop \in {"every", "check"}
Stepwise ==
  call.fn \notin {"addr_tst1", "block_move"} /\ ~Down /\ ~Modular /\ loop # "sleep"
Whole(n) == n % Spin = 0

UpPlace ==
  Looping /\ Stepwise =>
    /\ pc = "chunk" => start <= pe /\ pe < end /\ p = pe
    /\ pc = "word" => start <= p /\ p < pe /\ pe <= end /\ done = (pe = end)
    /\ pc = "tick" => start < pe /\ pe <= end /\ p = pe /\ done = (pe = end)

ModPlace ==
  Looping /\ Modular =>
    /\ pc \in {"chunk", "word", "tick"} =>
         start <= p /\ (p - start) % ModSz = call.off
    /\ pc = "chunk" =>
         start <= pe /\ pe < end /\ pe <= p /\ p < pe + ModSz /\ Whole(pe - start)
    /\ pc \in {"word", "tick"} =>
         start < pe /\ pe <= end /\ done = (pe = end) /\ (done \/ Whole(pe - start))
    /\ pc = "word" => p < pe
    /\ pc = "tick" => pe <= p /\ p < pe + ModSz

DownPlace ==
  Looping /\ Down =>
    /\ pc \in {"chunk", "word", "tick"} =>
         start <= pe /\ pe < end /\ (pe = start \/ (end - 1 - pe) % Width = 0)
    /\ pc = "chunk" => start < pe /\ (p = pe - 1 \/ (p = pe /\ pe = end - 1))
    /\ pc = "word" => pe <= p /\ p < end /\ done = (pe = start)
    /\ pc = "tick" => done = (pe = start) /\ (~done => p = pe - 1)

(* The chunk that a loop of block_move() is in: from p to pe                 *)
BlockPlace ==
  call.fn = "block_move" /\ pc \in {"chunk", "word", "tick"} =>
    /\ SegmentStart <= p /\ p <= pe /\ pe <= end
    /\ pc = "chunk" => pe < end /\ p = pe /\ Whole(pe - SegmentStart)
    /\ pc # "chunk" =>
         SegmentStart < pe /\ done = (pe = end) /\ (done \/ Whole(pe - SegmentStart))
    /\ pc = "word" => p < pe
    /\ loop = "pairs" => (pe - p) % 2 = 0
    /\ (pc = "word" /\ loop = "blocks") \/ (pc # "chunk" /\ loop = "move") =>
         /\ Whole(p - SegmentStart) /\ p < pe
         /\ pe = p + Spin \/ (pe = end /\ end <= p + Spin)
    /\ pc = "tick" /\ loop # "move" => done \/ p = pe
    /\ loop = "move" => k = 0 \/ pc # "chunk"
    /\ loop = "move" /\ pc = "tick" => k > 0

(* Rounding up the start of a segment in the last bank wraps around to 0. *)
Ahead == start + Bank <= Space => start <= p

AddrPlace ==
  /\ pc \in {"mask", "bank"} => call.fn = "addr_tst1"
  /\ pc \in {"chunk", "word"} => call.fn # "addr_tst1" /\ loop # "sleep"
  /\ pc = "tick" => loop # "sleep"
  /\ pc = "mask" => mask # 0 /\ p < Space
  /\ pc = "bank" => loop = "bank"
  /\ pc \in {"mask", "bank"} /\ loop = "bank" =>
       pe = end /\ Ahead /\ (pc = "mask" => p < pe)

-----------------------------------------------------------------------------
(***************************************************************************)
(* What the registers are, wherever the pointer is.                        *)
(***************************************************************************)
Registers32 ==
  Looping /\ call.fn = "movinv32" =>
    /\ ~Down /\ pc \in {"chunk", "word", "tick"} =>
         k = (call.off + (p - start)) % Width /\ pat = Rol(call.lb, k)
    /\ loop = "up" /\ pc = "over" => k = call.off
    /\ Down =>
         /\ pc = "segment" => pat = Rol(call.lb, call.off - 1)
         /\ pc \in {"chunk", "word"} => pat = Rol(call.lb, call.off + (p - start))
         /\ pc = "tick" => pat = Rol(call.lb, call.off + (pe - 1 - start))

RegistersR ==
  call.fn = "movinvr" =>
    /\ pc = "segment" => k = Before(trial, start)
    /\ pc \in {"chunk", "word", "tick"} => k = Before(trial, p)
    /\ pc = "call" => k = 0

RegistersMod ==
  Looping /\ call.fn = "modtst" /\ loop = "rest" /\ pc \in {"chunk", "word", "tick"} =>
    k = (p - start) % ModSz

-----------------------------------------------------------------------------
(***************************************************************************)
(* What is in a memory without a fault.                                    *)
(***************************************************************************)
Good == trial.fault.kind = "none"

(* The word a of segment i between the loops, but for its complement         *)
Holds(c, t, i, a) ==
  CASE c.fn = "movinv32" -> Rol(c.lb, c.off + (a - t.map[i].start))
    [] c.fn = "movinvr" -> Rand(Before(t, a))
    [] c.fn = "addr_tst2" -> Own(a)
    [] OTHER -> c.p1

(* What loop l finds there, if it is not the first, and what it leaves       *)
Filling == {"fill", "every", "own"}
Found(l, c, t, i, a) ==
  IF l \in {"down", "upNot"} THEN Not(Holds(c, t, i, a)) ELSE Holds(c, t, i, a)
Left(l, c, t, i, a) ==
  IF l = "up" THEN Not(Holds(c, t, i, a)) ELSE Holds(c, t, i, a)

(* modtst() does not care about the words between. *)
Relevant(c, t, i, a) == c.fn = "modtst" => (a - t.map[i].start) % ModSz = c.off

Dealt(a) ==
  \/ pc = "over"
  \/ pc = "segment" /\ (IF Down THEN a >= end ELSE a < start)
  \/ pc \in {"chunk", "word"} /\ (IF Down THEN a > p ELSE a < p)
  \/ pc = "tick" /\ (IF Down THEN a >= pe ELSE a < pe)

Filled ==
  Good /\ Looping /\ call.fn \notin {"addr_tst1", "block_move"} =>
    \A i \in 1 .. segs : \A a \in WordsOf(trial, i) : Relevant(call, trial, i, a) =>
      /\ Dealt(a) => mem[a] = Left(loop, call, trial, i, a)
      /\ ~Dealt(a) /\ loop \notin Filling => mem[a] = Found(loop, call, trial, i, a)

(* The word that addr_tst1() looks at *)
Planted == Good /\ pc = "mask" => mem[p] = Not(pat)

(* block_move(): adjacent words are the same, from from up to to            *)
FirstOf(t, i) == IF t.map[i].start < UsbEnd THEN UsbEnd ELSE t.map[i].start
Paired(m, first, from, to) ==
  \A a \in from .. to - 2 : (a - first) % 2 = 0 => m[a] = m[a + 1]
(* ... in the lower half of the chunk at c; the moves overwrite the other    *)
UpTo(t, i, c) == IF c + Spin < t.map[i].end THEN c + Spin ELSE t.map[i].end
LowerPaired(m, t, i, c) ==
  Paired(m, FirstOf(t, i), c, c + ((UpTo(t, i, c) - c) \div 2))

Blocked ==
  Good /\ Looping /\ call.fn = "block_move" =>
    \A i \in 1 .. segs :
      /\ \A c \in FirstOf(trial, i) .. trial.map[i].end - 1 :
           /\ Whole(c - FirstOf(trial, i))
           /\ loop = "blocks" /\ pc # "over" =>
                i < j \/ (i = j /\ pc # "segment" /\ c < (IF pc = "tick" THEN pe ELSE p))
           => LowerPaired(mem, trial, i, c)
      /\ loop = "pairs" \/ (loop = "move" /\ (i < j \/ pc = "over")) =>
           Paired(mem, FirstOf(trial, i), FirstOf(trial, i), trial.map[i].end)
      /\ loop = "move" /\ i = j /\ pc \in {"chunk", "word", "tick"} =>
           Paired(mem, FirstOf(trial, i), FirstOf(trial, i), IF k > 0 THEN pe ELSE p)

Places == UpPlace /\ ModPlace /\ DownPlace /\ BlockPlace /\ AddrPlace
Marked == Registers32 /\ RegistersR /\ RegistersMod
IInv == Shape /\ Places /\ Marked /\ Filled /\ Planted /\ Blocked /\ NoFalseAlarm

-----------------------------------------------------------------------------
(***************************************************************************)
(* The books that the refinement keeps: which calls and loops are left of  *)
(* those that the trial began with, and which words have been dealt with.  *)
(***************************************************************************)
Rest(s, all) ==
  /\ Len(s) <= Len(all)
  /\ \A m \in 1 .. Len(s) : s[m] = all[Len(all) - Len(s) + m]

Targets == {a \in Covers(trial) : Modular => AtOffset(trial, call, a)}

Finished == Len(Calls(trial)) - Len(calls)
SweepIs == sweep = Finished * PerCall(trial) + PerCall(trial) - Len(loops) + 1
SeenIs == Looping => seen = {a \in Targets : Dealt(a)}
CallOver == pc = "call" => loops = <<>> /\ seen = {}

Books ==
  /\ Rest(calls, Calls(trial)) /\ Rest(loops, Loops(call))
  /\ SweepIs /\ SeenIs /\ CallOver

MInv == IsMarch => Books

-----------------------------------------------------------------------------
(***************************************************************************)
(* How many ticks a test takes: the chunks of a length, of the segments    *)
(* before one, and of all.                                                 *)
(***************************************************************************)
Ceil(n) == (n + Spin - 1) \div Spin

(***************************************************************************)
(* What the tick counter is, wherever a test is: each loop before this one *)
(* has ticked once for each chunk of all segments, or as often as it moves *)
(* each block, and so has this loop for the chunks that are behind it.     *)
(***************************************************************************)
Exact == {0, 3, 4, 6, 7, 9, 10, 11}

(* Ticks for each chunk: of the loops before this one, and of this one     *)
Turns ==
  IF IsMarch THEN sweep - 1
  ELSE CASE Len(loops) = 3 -> 0
         [] Len(loops) = 2 -> 1
         [] Len(loops) = 1 -> 1 + trial.iter
         [] OTHER -> 2 + trial.iter
Weight == IF loop = "move" THEN trial.iter ELSE 1

(* Chunks of this segment that end at q or before                          *)
ChunksTo(q) == IF Down THEN Ceil(end - 1 - q) ELSE Ceil(q - SegmentStart)
Within ==
  CASE pc = "chunk" -> ChunksTo(pe)
    [] pc \in {"word", "tick"} -> ChunksTo(pe) - 1
    [] OTHER -> 0
(* ... and of the segments behind                                          *)
Behind ==
  IF Down THEN Chunks - ChunksBefore(trial)[j + 1] ELSE ChunksBefore(trial)[j]
Passed == IF pc = "over" THEN Chunks ELSE Behind + Within

(* What block_move() has moved of the chunk it is in                       *)
Moves ==
  CASE loop = "move" /\ pc = "word" -> k
    [] loop = "move" /\ pc = "tick" -> k - 1
    [] OTHER -> 0

Placed(q) ==
  IF Down THEN q = start \/ Whole(end - 1 - q) ELSE q = end \/ Whole(q - SegmentStart)
Inside == pc \in {"chunk", "word", "tick"} => Placed(pe)
Moving ==
  Looping /\ loop = "move" =>
    /\ pc = "word" => k < trial.iter
    /\ pc = "tick" => k \in 1 .. trial.iter
    /\ pc = "chunk" => k = 0
OneCallOnly ==
  trial.pat = 7 =>
    /\ calls = Calls(trial) /\ Rest(loops, Loops(call))
    /\ pc = "call" => loops = <<>>

Ticked ==
  /\ Looping => nticks = Turns * Chunks + (Weight * Passed + Moves)
  /\ pc = "call" => nticks = Turns * Chunks
  /\ pc = "done" /\ ~bail => nticks = test_ticks

TInv == trial.pat \in Exact => Ticked /\ Inside /\ Moving /\ OneCallOnly

-----------------------------------------------------------------------------
(***************************************************************************)
(* What a march test has found of a fault, sweep by sweep: the program of  *)
(* sweeps tells what was read and written where, and the fault what became *)
(* of it.                                                                  *)
(***************************************************************************)
Nth(n) == NthSweep(trial, n)
Plan == 1 .. Sweeps(trial)
Victim == trial.fault.word
Other == trial.fault.other
HasBit(w) == trial.fault.bit \in w
IsOne == trial.fault.value = TRUE

(* The word a has been dealt with in the nth sweep.                         *)
Had(n, a) == n < sweep \/ (n = sweep /\ a \in seen)

(* The words of a sweep are dealt with in their order.                      *)
InOrder ==
  sweep \in Plan =>
    /\ seen \subseteq Nth(sweep).words
    /\ \A a \in seen : \A b \in Nth(sweep).words :
         (IF Nth(sweep).down THEN a <= b ELSE b <= a) => b \in seen

Swept ==
  /\ sweep \in Nat \ {0}
  /\ sweep \notin Plan => seen = {}
  /\ pc = "done" /\ ~bail => sweep = Sweeps(trial) + 1

(* A stuck bit shows in each sweep that expects the other value.            *)
Shows(n) ==
  /\ Victim \in Nth(n).words /\ Nth(n).read[Victim] # NoWord
  /\ ~(HasBit(Nth(n).read[Victim]) <=> IsOne)

StuckFound ==
  trial.fault.kind = "stuck" =>
    /\ HasBit(mem[Victim]) <=> IsOne
    /\ \A n \in Plan : Shows(n) /\ Had(n, Victim) => reported # {}

(* Two words that are one show when the second sweep reads the lower of     *)
(* them, or when it reads the upper one after it has written the lower.     *)
Lower == IF Victim < Other THEN Victim ELSE Other
Upper == IF Victim < Other THEN Other ELSE Victim

Clash(n) ==
  /\ n + 1 \in Plan
  /\ ~Nth(n).down /\ ~Nth(n + 1).down
  /\ {Lower, Upper} \subseteq Nth(n).words /\ {Lower, Upper} \subseteq Nth(n + 1).words
  /\ \A a \in {Lower, Upper} :
       Nth(n).write[a] # NoWord /\ Nth(n + 1).read[a] = Nth(n).write[a]
  /\ IF Nth(n + 1).write[Lower] = NoWord
     THEN Nth(n).write[Lower] # Nth(n).write[Upper]
     ELSE Nth(n + 1).write[Lower] # Nth(n).write[Lower]

Aliased(n) ==
  /\ Had(n, Upper) /\ ~Had(n + 1, Lower) => mem[Other] = Nth(n).write[Upper]
  /\ Had(n + 1, Lower) /\ ~Had(n + 1, Upper) /\ reported = {} =>
       /\ Nth(n + 1).write[Lower] # NoWord
       /\ Nth(n).write[Upper] = Nth(n).write[Lower]
       /\ mem[Other] = Nth(n + 1).write[Lower]
  /\ Had(n + 1, Upper) => reported # {}

AliasFound == trial.fault.kind = "alias" => \A n \in Plan : Clash(n) => Aliased(n)

(* Two words are coupled at a bit, and an inversion writes x to the bit of  *)
(* both, inverts it upwards and inverts it again downwards.                 *)
Writes(n, x) ==
  \A a \in {Victim, Other} :
    /\ a \in Nth(n).words
    /\ Nth(n).write[a] # NoWord /\ (HasBit(Nth(n).write[a]) <=> x)
Reads(n, x) == Nth(n).read[Victim] # NoWord /\ (HasBit(Nth(n).read[Victim]) <=> x)

Inverts(n, x) ==
  /\ n + 1 \in Plan /\ n + 2 \in Plan
  /\ ~Nth(n).down /\ Writes(n, x)
  /\ ~Nth(n + 1).down /\ Reads(n + 1, x) /\ Writes(n + 1, ~x)
  /\ Nth(n + 2).down /\ Reads(n + 2, ~x) /\ Writes(n + 2, x)
InvertsTwice(n, x) ==
  /\ Inverts(n, x)
  /\ n + 3 \in Plan
  /\ ~Nth(n + 3).down /\ Reads(n + 3, x) /\ Writes(n + 3, ~x)

IsSet(a) == HasBit(mem[a])

(* What the other word holds, and what the victim does: before it is read   *)
(* it has been inverted by the other word, or has not been inverted with it *)
OtherHolds(n, x) ==
  /\ Had(n, Other) /\ ~Had(n + 1, Other) => (IsSet(Other) <=> x)
  /\ Had(n + 1, Other) /\ ~Had(n + 2, Other) => (IsSet(Other) <=> ~x)
AboveRising(n, x) ==
  /\ Had(n, Victim) /\ ~Had(n + 1, Other) => (IsSet(Victim) <=> x)
  /\ Had(n + 1, Other) /\ ~Had(n + 1, Victim) => (IsSet(Victim) <=> ~x)
  /\ Had(n + 1, Victim) => reported # {}
BelowRising(n, x) ==
  /\ Had(n + 1, Victim) /\ ~Had(n + 1, Other) => (IsSet(Victim) <=> ~x)
  /\ Had(n + 1, Other) /\ ~Had(n + 2, Victim) => (IsSet(Victim) <=> x)
  /\ Had(n + 2, Victim) => reported # {}
BelowFalling(n, x) ==
  /\ Had(n + 1, Victim) /\ ~Had(n + 2, Other) => (IsSet(Victim) <=> ~x)
  /\ Had(n + 2, Other) /\ ~Had(n + 2, Victim) => (IsSet(Victim) <=> x)
  /\ Had(n + 2, Victim) => reported # {}
AboveFalling(n, x) ==
  /\ Had(n + 1, Victim) /\ ~Had(n + 2, Victim) => (IsSet(Victim) <=> ~x)
  /\ Had(n + 2, Victim) /\ ~Had(n + 2, Other) => (IsSet(Victim) <=> x)
  /\ Had(n + 2, Other) /\ ~Had(n + 3, Victim) => (IsSet(Victim) <=> ~x)
  /\ Had(n + 3, Victim) => reported # {}

Coupled(n, x) ==
  /\ OtherHolds(n, x)
  /\ ~(x <=> IsOne) =>
       IF Other < Victim THEN AboveRising(n, x) ELSE BelowRising(n, x)
  /\ (x <=> IsOne) /\ Victim < Other => BelowFalling(n, x)
  /\ (x <=> IsOne) /\ Other < Victim /\ InvertsTwice(n, x) => AboveFalling(n, x)

CoupledFound ==
  trial.fault.kind = "couple" =>
    \A n \in Plan : \A x \in BOOLEAN : Inverts(n, x) => Coupled(n, x)

FInv == IsMarch => InOrder /\ Swept /\ StuckFound /\ AliasFound /\ CoupledFound

-----------------------------------------------------------------------------
(***************************************************************************)
(* What the bit fade test has found: the bit has its value at the end of   *)
(* each sleep, and one of the two checks expects the other.                *)
(***************************************************************************)
Fading == trial.pat = 8 /\ trial.fault.kind \in {"stuck", "fade"}
Zeros == [fn |-> "bit_fade", p1 |-> {}]
Ones == [fn |-> "bit_fade", p1 |-> Not({})]

Settled ==
  \/ trial.fault.kind = "stuck"
  \/ ~bail /\ Looping /\ (loop = "check" \/ (loop = "sleep" /\ pc = "over"))
Different == ~(HasBit(call.p1) <=> IsOne)
Checked == Looping /\ loop = "check" /\ Dealt(Victim)

FadeInv ==
  Fading =>
    /\ calls \in {<<Zeros, Ones>>, <<Ones>>}
    /\ loops \in {<<"fill", "sleep", "check">>, <<"sleep", "check">>, <<"check">>, <<>>}
    /\ pc = "call" => loops = <<>>
    /\ Settled => (HasBit(mem[Victim]) <=> IsOne)
    /\ ~bail =>
         /\ (Checked \/ pc = "call") /\ Different => reported # {}
         /\ calls = <<Ones>> /\ IsOne => reported # {}
         /\ pc = "done" => reported # {}

=============================================================================
