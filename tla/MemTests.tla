------------------------------ MODULE MemTests ------------------------------
(***************************************************************************)
(* The test algorithms of test.c, called as do_test() calls them.          *)
(*                                                                         *)
(* A test is a sequence of calls, a call a sequence of loops over all      *)
(* segments, and a loop goes over a segment in chunks of Spin words, with  *)
(* a tick after each.  p and pe are the pointers of the code: addresses    *)
(* are counted in words and wrap around at Space.  A segment is            *)
(* start .. end - 1; end is what emapping() returns, a few words before    *)
(* the end of the last page.                                               *)
(*                                                                         *)
(* A word is the set of its 1 bits, Width of them.  An address stored as   *)
(* data is a set of its own, since only their being different matters.     *)
(*                                                                         *)
(* An operator named Bad... is a plausible mistake in the definition that  *)
(* follows it; nothing refers to it.                                       *)
(***************************************************************************)
EXTENDS FaultyMemory, SequencesExt

CONSTANTS
  Space,       \* words that an address can tell apart
  Spin,        \* SPINSZ
  Width,       \* bits of a word (32)
  ModSz,       \* MOD_SZ
  Block,       \* words of a block of block_move() (16)
  Inverted,    \* ... those of them that hold the complement
  UsbEnd,      \* 0x4f0, where block_move() starts at the earliest
  Align, Bank, \* the multiples that addr_tst1() starts at
  Tries,       \* how often addr_tst1() writes to each address
  Rand(_),     \* rand(): the n-th number after rand_seed()
  Contents,    \* what the memory may contain at first
  Trials       \* [map, pat, iter, fault]: segments, tseq[].pat, c_iter

Bits == 0 .. Width - 1
Words == SUBSET (0 .. Width + Space - 1)
NoWord == {-1}             \* nothing to read or write: not a word
Segment == [start : 0 .. Space - 1, end : 0 .. Space - 1]

(* Segments are made of pages, less their last 256 bytes and perhaps the    *)
(* first 0x500.  So they begin and end at multiples of 64 words, and so do  *)
(* their chunks: multiples of the 32 patterns of a word, and, also the last *)
(* chunk of a segment, more than a step of the modulo test and than a block *)
(* of block_move().  A step from a segment never leaves the address space.  *)
(* The words below UsbEnd, which block_move() leaves out, are 316 at most,  *)
(* while a chunk, also the last of a segment, has the words of a page less  *)
(* 64 at least.                                                             *)
SegmentAssumption(s) ==
  /\ s \in Segment
  /\ s.start + ModSz < s.end /\ s.end + ModSz <= Space
  /\ (s.end - s.start) % Width = 0
  /\ LET last == (s.end - s.start) % Spin IN last = 0 \/ last >= ModSz

BlocksAssumption(s) ==
  LET first == IF s.start < UsbEnd THEN UsbEnd ELSE s.start
      last  == (s.end - first) % Spin
      all   == (s.end - s.start) % Spin
  IN /\ first < s.end /\ last % 4 = 0 /\ (last = 0 \/ last >= Block)
     /\ first - s.start < Spin /\ (all = 0 \/ first - s.start < all)

(* The words at which a memory has its fault *)
FaultyWords(fault) ==
  CASE fault.kind \in {"stuck", "fade"} -> {fault.word}
    [] fault.kind \in {"couple", "alias"} -> {fault.word, fault.other}
    [] OTHER -> {}

ASSUME TestsAssumption ==
  /\ {Space, Spin, Width, ModSz, Block, Align, Bank, Tries} \subseteq Nat \ {0}
  /\ Width > 2 /\ Spin % Width = 0
  /\ ModSz <= Spin /\ Block <= Spin /\ Spin < Space
  /\ Block % 4 = 0 /\ Spin % Block = 0
  /\ UsbEnd \in Nat /\ Inverted \subseteq 0 .. Block - 1
  /\ \A i \in 0 .. Block - 1 : i % 2 = 0 => (i \in Inverted) = (i + 1 \in Inverted)
  /\ \A n \in 0 .. Space - 1 : Rand(n) \subseteq Bits
  /\ Contents \subseteq [0 .. Space - 1 -> Words]

ASSUME TrialsAssumption ==
  \A t \in Trials :
    /\ t.pat \in 0 .. 11 /\ t.iter \in Nat
    /\ t.pat \in {7, 9, 10, 11} => t.iter > 0
    /\ \A i \in 1 .. t.iter : Rand(i) \subseteq Bits
    /\ t.map # <<>> /\ t.map \in Seq(Segment)
    /\ \A i \in DOMAIN t.map :
         /\ SegmentAssumption(t.map[i])
         /\ t.pat = 7 => BlocksAssumption(t.map[i])
         /\ \A i2 \in 1 .. i - 1 : t.map[i2].end < t.map[i].start
    /\ \A a \in FaultyWords(t.fault) :
         \E i \in DOMAIN t.map : a \in t.map[i].start .. t.map[i].end - 1

(* Half of any number of iterations in tseq[] is not 0, where they matter,   *)
(* and a fault that has a bit or two words has a bit of the 32, and two      *)
(* words that are not the same.                                              *)
ASSUME FaultsAssumption ==
  \A t \in Trials :
    /\ t.pat \in {0, 1, 2} => t.iter > 0
    /\ t.fault.kind \in {"stuck", "couple", "fade"} =>
         t.fault.bit \in Bits /\ t.fault.value \in BOOLEAN
    /\ t.fault.kind \in {"couple", "alias"} => t.fault.word # t.fault.other

VARIABLES
  pc,
  trial,       \* v->map, the test, c_iter, and the fault of the memory
  calls,       \* the calls that are left, the current one first
  loops,       \* the loops of the current call that are left
  j, p, pe, done,
  pat, k,      \* pattern and counter that a loop carries along
  mask,        \* of addr_tst1()
  nticks, bail,
  mem,
  reported,    \* the addresses error(), ad_err1() and ad_err2() were called with
  \* History, read by properties only:
  sweep, seen  \* loops before this one, and words dealt with in this one

pointers == <<j, p, pe, done>>
registers == <<pat, k, mask>>
history == <<sweep, seen>>
vars == <<pc, trial, calls, loops, pointers, registers, nticks, bail, mem,
          reported, history>>

call == Head(calls)
loop == Head(loops)
segs == Len(trial.map)
start == trial.map[j].start
end == trial.map[j].end

Not(w) == Bits \ w
Own(a) == {Width + a}                                       \* (ulong)p
Rol(w, n) == {(b + n) % Width : b \in w}
Times(n, s) == FlattenSeq([i \in 1 .. n |-> s])

-----------------------------------------------------------------------------
(* The switch of do_test(): which calls a test makes.                        *)
MovInv1(iter, p1) == [fn |-> "movinv1", iter |-> iter, p1 |-> p1]
MovInv32(iter, p1, lb, off) ==
  [fn |-> "movinv32", iter |-> iter, p1 |-> p1, lb |-> lb, off |-> off]
ModTst(off, iter, p1) == [fn |-> "modtst", off |-> off, iter |-> iter, p1 |-> p1]

(* A call with a pattern and then with its complement *)
Both(c) == <<c, [c EXCEPT !.p1 = Not(@)]>>

(* One call after the other for each offset; the patterns have been switched *)
(* when the next offset begins.                                              *)
AllOffsets(iter, p1) ==
  FlattenSeq([i \in 1 .. ModSz |->
    Both(ModTst(i - 1, iter, IF i % 2 = 1 THEN p1 ELSE Not(p1)))])

(* The calls for each bit in turn *)
Walking(of) == FlattenSeq([i \in 1 .. Width |-> of[i - 1]])

Calls(t) ==
  LET iter == t.iter
  IN CASE t.pat = 0 -> Both(MovInv1(iter, {}))
       [] t.pat = 1 -> Walking([b \in Bits |-> Both(MovInv1(iter, {Width - 1 - b}))])
       [] t.pat = 2 -> Walking([b \in Bits |->
                         <<MovInv32(iter, {b}, {0}, b),
                           MovInv32(iter, Not({b}), Not({0}), b)>>])
       [] t.pat = 3 -> AllOffsets(iter, {})
       [] t.pat = 4 -> Walking([b \in Bits |-> AllOffsets(iter, {Width - 1 - b})])
       [] t.pat = 5 -> <<[fn |-> "addr_tst1"]>>
       [] t.pat = 6 -> <<[fn |-> "addr_tst2"]>>
       [] t.pat = 7 -> <<[fn |-> "block_move", iter |-> iter]>>
       [] t.pat = 8 -> Both([fn |-> "bit_fade", p1 |-> {}])
       [] t.pat = 9 -> Times(iter, <<[fn |-> "movinvr"]>>)
       [] t.pat = 10 -> [i \in 1 .. iter |-> MovInv1(2, Rand(i))]
       [] t.pat = 11 -> FlattenSeq([i \in 1 .. iter |-> AllOffsets(2, Rand(i))])

(* The loops of each function *)
Loops(c) ==
  CASE c.fn = "movinv1"    -> <<"fill">> \o Times(c.iter, <<"up", "down">>)
    [] c.fn = "movinv32"   -> <<"fill">> \o Times(c.iter, <<"up", "down">>)
    [] c.fn = "movinvr"    -> <<"fill", "up", "upNot">>
    [] c.fn = "modtst"     -> <<"every">> \o Times(c.iter, <<"rest">>) \o <<"check">>
    [] c.fn = "addr_tst1"  -> <<"line", "line", "bank", "bank">>
    [] c.fn = "addr_tst2"  -> <<"own", "check">>
    [] c.fn = "block_move" -> <<"blocks", "move", "pairs">>
    [] c.fn = "bit_fade"   -> <<"fill", "sleep", "check">>

In(fn, l) == pc = "word" /\ call.fn = fn /\ loop = l

-----------------------------------------------------------------------------
(* The shape of all loops: segments, chunks, ticks.                          *)
Down == loop = "down"

(* The next segment of the loop, or the end of the loop.  p starts at the    *)
(* first word, for modtst() at its offset, downwards at the last.            *)
SegmentStart == IF call.fn = "block_move" /\ start < UsbEnd THEN UsbEnd ELSE start

FirstWord ==
  CASE Down -> (end - 1) % Space
    [] loop = "every" \/ (call.fn = "modtst" /\ loop = "check") -> start + call.off
    [] OTHER -> SegmentStart

(* Downwards movinv32() goes on with the pattern where it is, from segment   *)
(* to segment; the random numbers go on, too.                                *)
Registers ==
  IF Down \/ call.fn \in {"movinvr", "addr_tst1"} THEN UNCHANGED <<pat, k>>
  ELSE IF call.fn = "movinv32" THEN pat' = call.p1 /\ k' = call.off
  ELSE k' = 0 /\ UNCHANGED pat

EnterSegment ==
  /\ pc = "segment" /\ call.fn # "addr_tst1" /\ loop # "sleep"
  /\ p' = FirstWord
  /\ pe' = IF Down THEN (end - 1) % Space ELSE SegmentStart
  /\ done' = FALSE
  /\ Registers
  /\ pc' = "chunk"
  /\ UNCHANGED <<trial, calls, loops, j, mask, nticks, bail, mem, reported, history>>

(* Where the chunk after pe ends, and whether that is the end of the         *)
(* segment.  bit_fade() has no chunks.                                       *)
BadChunkEnd ==   \* no check for overflow
  IF Down THEN LET q == (pe - Spin) % Space IN IF q <= start THEN start ELSE q
  ELSE LET q == (pe + Spin) % Space IN IF q >= end THEN end ELSE q
ChunkEnd ==
  IF Down THEN
    LET q == (pe - Spin) % Space
    IN  IF q < pe /\ q > start THEN q ELSE start
  ELSE
    LET q == (pe + Spin) % Space
    IN  IF q > pe /\ q < end /\ call.fn # "bit_fade" THEN q ELSE end

LastChunk == IF Down THEN ChunkEnd = start ELSE ChunkEnd = end

Nothing == IF call.fn = "movinvr" THEN ChunkEnd = start ELSE ChunkEnd = p

NextSegment ==
  IF j = (IF Down THEN 1 ELSE segs) THEN pc' = "over" /\ UNCHANGED j
  ELSE pc' = "segment" /\ j' = (IF Down THEN j - 1 ELSE j + 1)

NextChunk ==
  /\ pc = "chunk"
  /\ pe' = ChunkEnd
  /\ done' = LastChunk
  /\ IF Nothing THEN NextSegment
     ELSE pc' = "word" /\ UNCHANGED j
  /\ UNCHANGED <<trial, calls, loops, p, registers, nticks, bail, mem, reported,
                 history>>

(* do_tick() polls the keyboard and may open the menu, which sets bail.      *)
Tick(more) ==
  /\ nticks' = nticks + 1
  /\ bail' \in {bail, TRUE}
  /\ IF bail' THEN pc' = "done" /\ UNCHANGED pointers ELSE more

TickChunk ==
  /\ pc = "tick" /\ loop # "move" /\ call.fn # "addr_tst1"
  /\ Tick(/\ IF done THEN NextSegment
             ELSE pc' = "chunk" /\ UNCHANGED j
          /\ UNCHANGED <<p, pe, done>>)
  /\ UNCHANGED <<trial, calls, loops, registers, mem, reported, history>>

-----------------------------------------------------------------------------
(* What a loop does with the word at p, one operator for each.               *)
Compare(a, read) ==
  reported' = IF read # NoWord /\ Load(mem, trial.fault, a) # read
              THEN reported \cup {a} ELSE reported

Write(a, write) ==
  mem' = IF write = NoWord THEN mem ELSE Store(mem, trial.fault, a, write)

(* Read before writing, then go on by step *)
ReadWrite(read, write, step) ==
  LET q == (p + step) % Space
      more == IF Down THEN p # pe ELSE q < pe
  IN
  /\ Compare(p, read)
  /\ Write(p, write)
  /\ p' = q
  /\ pc' = IF more THEN "word" ELSE "tick"
  /\ seen' = seen \cup {p}
  /\ UNCHANGED <<trial, calls, loops, j, pe, done, mask, nticks, bail, sweep>>

MovInv1Fill ==
  /\ In("movinv1", "fill")
  /\ ReadWrite(NoWord, call.p1, 1) /\ UNCHANGED <<pat, k>>

BadMovInv1Up ==   \* writes without having looked
  /\ In("movinv1", "up")
  /\ ReadWrite(NoWord, Not(call.p1), 1) /\ UNCHANGED <<pat, k>>
MovInv1Up ==
  /\ In("movinv1", "up")
  /\ ReadWrite(call.p1, Not(call.p1), 1) /\ UNCHANGED <<pat, k>>

MovInv1Down ==
  /\ In("movinv1", "down")
  /\ ReadWrite(Not(call.p1), call.p1, -1) /\ UNCHANGED <<pat, k>>

Rotate(n) == pat' = Rol(pat, n) /\ k' = (k + n) % Width

MovInv32Fill ==
  /\ In("movinv32", "fill")
  /\ ReadWrite(NoWord, pat, 1) /\ Rotate(1)

MovInv32Up ==
  /\ In("movinv32", "up")
  /\ ReadWrite(pat, Not(pat), 1) /\ Rotate(1)

MovInv32Down ==
  /\ In("movinv32", "down")
  /\ ReadWrite(Not(pat), pat, -1) /\ Rotate(-1)

(* Between up and down: back to the pattern of the last word                 *)
BadBackUp == <<Rol(call.lb, k), k>>   \* one too far
BackUp == <<Rol(call.lb, (k - 1) % Width), ((k - 1) % Width) + 1>>

(* k counts the random numbers since rand_seed() *)
MovInvRFill ==
  /\ In("movinvr", "fill")
  /\ ReadWrite(NoWord, Rand(k), 1) /\ k' = k + 1 /\ UNCHANGED pat

MovInvRUp ==
  /\ pc = "word" /\ call.fn = "movinvr" /\ loop \in {"up", "upNot"}
  /\ LET num == IF loop = "up" THEN Rand(k) ELSE Not(Rand(k))
     IN  ReadWrite(num, Not(num), 1)
  /\ k' = k + 1 /\ UNCHANGED pat

ModEvery ==
  /\ In("modtst", "every")
  /\ ReadWrite(NoWord, call.p1, ModSz) /\ UNCHANGED <<pat, k>>

BadModRest ==   \* the count starts anew in each chunk
  /\ In("modtst", "rest")
  /\ ReadWrite(NoWord, IF k = call.off THEN NoWord ELSE Not(call.p1), 1)
  /\ k' = (IF p + 1 = pe \/ k + 1 > ModSz - 1 THEN 0 ELSE k + 1) /\ UNCHANGED pat
ModRest ==
  /\ In("modtst", "rest")
  /\ ReadWrite(NoWord, IF k = call.off THEN NoWord ELSE Not(call.p1), 1)
  /\ k' = (IF k + 1 > ModSz - 1 THEN 0 ELSE k + 1) /\ UNCHANGED pat

ModCheck ==
  /\ In("modtst", "check")
  /\ ReadWrite(call.p1, NoWord, ModSz) /\ UNCHANGED <<pat, k>>

AddrOwn ==
  /\ In("addr_tst2", "own")
  /\ ReadWrite(NoWord, Own(p), 1) /\ UNCHANGED <<pat, k>>

AddrOwnCheck ==
  /\ In("addr_tst2", "check")
  /\ ReadWrite(Own(p), NoWord, 1) /\ UNCHANGED <<pat, k>>

FadeFill ==
  /\ In("bit_fade", "fill")
  /\ ReadWrite(NoWord, call.p1, 1) /\ UNCHANGED <<pat, k>>

FadeCheck ==
  /\ In("bit_fade", "check")
  /\ ReadWrite(call.p1, NoWord, 1) /\ UNCHANGED <<pat, k>>

(* sleep() polls the keyboard, too; when it returns early the check goes on  *)
(* until its first tick.                                                     *)
FadeSleep ==
  /\ pc = "segment" /\ loop = "sleep"
  /\ \/ mem' = Faded(mem, trial.fault) /\ UNCHANGED bail
     \/ bail' = TRUE /\ UNCHANGED mem
  /\ pc' = "over"
  /\ UNCHANGED <<trial, calls, loops, pointers, registers, nticks, reported, history>>

-----------------------------------------------------------------------------
(* block_move(), a chunk in one step                                         *)
Chunk(m, value) ==   \* each word of p .. pe - 1 stored in turn
  [a \in DOMAIN m |-> IF a \in p .. pe - 1
                      THEN Held(trial.fault, a, value[a]) ELSE m[a]]

Blocks ==
  LET len == ((pe - p) \div Block) * Block
      value == [a \in p .. pe - 1 |->
                  LET eax == Rol({0}, (a - p) \div Block)
                  IN  IF a - p >= len THEN mem[a]
                      ELSE IF (a - p) % Block \in Inverted THEN Not(eax) ELSE eax]
  IN
  /\ In("block_move", "blocks")
  /\ mem' = Chunk(mem, value)
  /\ p' = p + len
  /\ pc' = "tick"
  /\ UNCHANGED <<trial, calls, loops, j, pe, done, registers, nticks, bail,
                 reported, history>>

(* Up by half of the chunk, and back to half a block after where it was: the *)
(* last half block comes to the front.                                       *)
Moved ==
  LET half == (pe - p) \div 2
      up   == Chunk(mem, [a \in p .. pe - 1 |->
                            IF a < p + half THEN mem[a] ELSE mem[a - half]])
  IN  Chunk(up, [a \in p .. pe - 1 |->
                   IF a >= p + half THEN up[a]
                   ELSE up[p + half + ((a - p - (Block \div 2)) % half)]])

BlockMove ==
  /\ In("block_move", "move")
  /\ mem' = Moved
  /\ k' = k + 1
  /\ pc' = "tick"
  /\ UNCHANGED <<trial, calls, loops, pointers, pat, mask, nticks, bail, reported,
                 history>>

TickMove ==
  /\ pc = "tick" /\ loop = "move"
  /\ Tick(IF k < call.iter
          THEN pc' = "word" /\ UNCHANGED pointers
          ELSE /\ p' = pe /\ UNCHANGED <<pe, done>>
               /\ IF done THEN NextSegment
                  ELSE pc' = "chunk" /\ UNCHANGED j)
  /\ k' = IF k < call.iter THEN k ELSE 0
  /\ UNCHANGED <<trial, calls, loops, pat, mask, mem, reported, history>>

(* Adjacent words have to be the same. *)
BlockPairs ==
  /\ In("block_move", "pairs")
  /\ reported' = IF Load(mem, trial.fault, p) # Load(mem, trial.fault, p + 1)
                 THEN reported \cup {p} ELSE reported
  /\ p' = p + 2
  /\ pc' = IF p + 2 < pe THEN "word" ELSE "tick"
  /\ UNCHANGED <<trial, calls, loops, j, pe, done, registers, nticks, bail, mem,
                 history>>

-----------------------------------------------------------------------------
(* addr_tst1(): write the complement to the addresses that differ from p in  *)
(* one bit, and look at p each time.  pat is p1, k counts the tries.  pe is  *)
(* the limit: the end of the last segment, or of this one.                   *)
RoundUp(a, n) == (((a + n - 1) % Space) \div n) * n   \* wraps around, too
Or(a, bit) == IF (a \div bit) % 2 = 1 THEN a ELSE a + bit

Plant(a) ==   \* *p = p1; p1 = ~p1
  /\ p' = a
  /\ Write(a, pat)
  /\ pat' = Not(pat)
  /\ k' = 0 /\ mask' = 1
  /\ pc' = "mask"

(* The first two loops, over all address lines *)
BadAddrLines ==   \* up to the end of the first segment only
  /\ pc = "segment" /\ call.fn = "addr_tst1" /\ loop = "line"
  /\ Plant(RoundUp(trial.map[1].start, Align))
  /\ pe' = end
  /\ UNCHANGED <<trial, calls, loops, j, done, nticks, bail, reported, history>>
AddrLines ==
  /\ pc = "segment" /\ call.fn = "addr_tst1" /\ loop = "line"
  /\ Plant(RoundUp(trial.map[1].start, Align))
  /\ pe' = trial.map[segs].end
  /\ UNCHANGED <<trial, calls, loops, j, done, nticks, bail, reported, history>>

(* The other two, over the banks of each segment *)
AddrBanks ==
  /\ pc = "segment" /\ call.fn = "addr_tst1" /\ loop = "bank"
  /\ p' = RoundUp(start, Bank)
  /\ pe' = end
  /\ pc' = "bank"
  /\ UNCHANGED <<trial, calls, loops, j, done, registers, nticks, bail, mem,
                 reported, history>>

AddrBank ==
  /\ pc = "bank"
  /\ IF p < pe THEN Plant(p) /\ UNCHANGED <<j, pe>>
     ELSE /\ IF j = segs THEN pc' = "tick" /\ UNCHANGED <<j, p, pe>>
             ELSE /\ j' = j + 1 /\ pe' = trial.map[j + 1].end
                  /\ p' = RoundUp(trial.map[j + 1].start, Bank)
                  /\ UNCHANGED pc
          /\ UNCHANGED <<mem, registers>>
  /\ UNCHANGED <<trial, calls, loops, done, nticks, bail, reported, history>>

(* When all masks have been tried as often as it takes: the tick of a line,  *)
(* or the next bank                                                          *)
MasksOver ==
  IF loop = "line" THEN pc' = "tick" /\ UNCHANGED <<p, pat>>
  ELSE /\ p' = LET q == (p + Bank) % Space IN IF q > p THEN q ELSE pe
       /\ pat' = Not(pat)
       /\ pc' = "bank"

NextTry(tries) ==
  /\ k' = tries /\ mask' = 1
  /\ IF tries < Tries THEN UNCHANGED <<pc, p, pat>> ELSE MasksOver

BadSkipMask == mask' = mask   \* continue without the shift
SkipMask == mask' = 2 * mask

AddrMask ==
  LET pt == Or(p, mask) IN
  /\ pc = "mask"
  /\ IF mask >= Space \/ (pt # p /\ pt >= pe)
     THEN NextTry(k + 1) /\ UNCHANGED <<mem, reported>>
     ELSE IF pt = p
     THEN SkipMask /\ UNCHANGED <<pc, p, pat, k, mem, reported>>
     ELSE LET written == Store(mem, trial.fault, pt, pat)
              bad     == Load(written, trial.fault, p) # Not(pat)
          IN
          /\ mem' = written
          /\ reported' = IF bad THEN reported \cup {p} ELSE reported
          /\ mask' = 2 * mask
          /\ k' = IF bad THEN Tries ELSE k
          /\ UNCHANGED <<pc, p, pat>>
  /\ UNCHANGED <<trial, calls, loops, j, pe, done, nticks, bail, history>>

TickLine ==
  /\ pc = "tick" /\ call.fn = "addr_tst1"
  /\ IF loop = "bank" THEN pat' = Not(pat) ELSE UNCHANGED pat
  /\ Tick(pc' = "over" /\ UNCHANGED pointers)
  /\ UNCHANGED <<trial, calls, loops, k, mask, mem, reported, history>>

-----------------------------------------------------------------------------
(* From loop to loop and from call to call                                   *)
LoopOver ==
  /\ pc = "over"
  /\ loops' = Tail(loops)
  /\ IF Len(loops) = 1 THEN pc' = "call" /\ UNCHANGED j
     ELSE pc' = "segment" /\ j' = IF loops[2] = "down" THEN segs ELSE 1
  /\ pat' = IF call.fn = "movinv32" /\ loop = "up" THEN BackUp[1] ELSE pat
  /\ k' = CASE call.fn = "movinv32" /\ loop = "up" -> BackUp[2]
            [] call.fn = "movinvr" -> 0                        \* rand_seed()
            [] OTHER -> k
  /\ sweep' = sweep + 1 /\ seen' = {}
  /\ UNCHANGED <<trial, calls, p, pe, done, mask, nticks, bail, mem, reported>>

NextCall ==
  /\ pc = "call"
  /\ IF Len(calls) = 1 THEN pc' = "done" /\ UNCHANGED <<calls, loops, j>>
     ELSE /\ calls' = Tail(calls)
          /\ loops' = Loops(calls[2])
          /\ pc' = "segment" /\ j' = 1
  /\ UNCHANGED <<trial, p, pe, done, registers, nticks, bail, mem, reported, history>>

(* Each test is looked at by itself, with whatever is in memory before it.   *)
Init ==
  /\ pc = "segment"
  /\ trial \in Trials
  /\ calls = Calls(trial) /\ loops = Loops(Head(Calls(trial)))
  /\ j = 1 /\ p = 0 /\ pe = 0 /\ done = FALSE
  /\ pat = {} /\ k = 0 /\ mask = 0
  /\ nticks = 0 /\ bail = FALSE
  /\ mem \in {[a \in DOMAIN m |-> Held(trial.fault, a, m[a])] : m \in Contents}
  /\ reported = {}
  /\ sweep = 1 /\ seen = {}

Walk == EnterSegment \/ NextChunk \/ TickChunk \/ LoopOver \/ NextCall
MovInv == \/ MovInv1Fill \/ MovInv1Up \/ MovInv1Down
          \/ MovInv32Fill \/ MovInv32Up \/ MovInv32Down
          \/ MovInvRFill \/ MovInvRUp
Others == ModEvery \/ ModRest \/ ModCheck \/ AddrOwn \/ AddrOwnCheck
          \/ FadeFill \/ FadeSleep \/ FadeCheck
          \/ Blocks \/ BlockMove \/ TickMove \/ BlockPairs
          \/ AddrLines \/ AddrBanks \/ AddrBank \/ AddrMask \/ TickLine

Done == pc = "done" /\ UNCHANGED vars

Next == Walk \/ MovInv \/ Others \/ Done

Spec == Init /\ [][Next]_vars /\ WF_vars(Walk \/ MovInv \/ Others)

-----------------------------------------------------------------------------
(* find_ticks_for_test(): how many ticks a test is expected to take          *)
BadChunksOf(s) == (s.end - s.start) \div Spin   \* the last chunk is not counted
ChunksOf(s) == (s.end - s.start + Spin - 1) \div Spin
ChunksBefore(t) ==   \* ... before the i-th segment
  LET sum[i \in 1 .. Len(t.map) + 1] ==
        IF i = 1 THEN 0 ELSE sum[i - 1] + ChunksOf(t.map[i - 1])
  IN  sum
Chunks == ChunksBefore(trial)[segs + 1]

TicksPerChunk(pt, c) ==
  CASE pt = 0 -> 2 + 4 * c
    [] pt = 1 -> 3 * Width + 3 * Width * c
    [] pt = 2 -> ((1 + c * 2) * 5 * Width) \div 2
    [] pt = 3 -> (2 + c) * 2 * ModSz
    [] pt = 4 -> (2 + c) * 2 * ModSz * Width
    [] pt = 5 -> 4
    [] pt = 6 -> 2
    [] pt = 7 -> 2 + c
    [] pt = 8 -> 1
    [] pt = 9 -> 3 * c
    [] pt = 10 -> c + 4 * c
    [] pt = 11 -> 4 * 2 * ModSz * c

test_ticks == TicksPerChunk(trial.pat, trial.iter) * Chunks

-----------------------------------------------------------------------------
(* The code's state has the types it should have.                            *)
TypeOK ==
  /\ pc \in {"segment", "chunk", "word", "mask", "bank", "tick", "over", "call", "done"}
  /\ trial \in Trials
  /\ j \in 0 .. segs /\ {p, pe} \subseteq 0 .. Space - 1
  /\ done \in BOOLEAN /\ bail \in BOOLEAN
  /\ pat \in SUBSET Bits /\ k \in Nat /\ mask \in 0 .. 2 * Space
  /\ nticks \in Nat
  /\ DOMAIN mem = 0 .. Space - 1 /\ \A a \in DOMAIN mem : mem[a] \in Words
  /\ reported \subseteq DOMAIN mem

(* The words of a segment, and of all *)
WordsOf(t, i) == t.map[i].start .. t.map[i].end - 1
Covers(t) == UNION {WordsOf(t, i) : i \in DOMAIN t.map}
Covered == Covers(trial)

(* No error is reported in good memory: what a loop expects is what the      *)
(* loops before it have left there, for any layout, across chunks, segments, *)
(* the wrap at the end of the address space and the change of direction.     *)
NoFalseAlarm == trial.fault.kind = "none" => reported = {}

(* A test that was not interrupted has found a fault of the kinds that it is *)
(* made for, wherever it is: stuck bits by whatever compares a word with     *)
(* both values of each bit, coupled words by moving inversions, which read   *)
(* each word before they write it, in both directions, two words that are    *)
(* one by the own-address test, fading bits by the bit fade test.            *)
MadeFor(pt) ==
  CASE pt \in {0, 1, 2, 10} -> {"stuck", "couple", "alias"}
    [] pt \in {3, 4, 9, 11} -> {"stuck"}
    [] pt \in {5, 7} -> {}
    [] pt = 6 -> {"alias"}
    [] pt = 8 -> {"stuck", "fade"}

FaultsFound ==
  pc = "done" /\ ~bail /\ trial.fault.kind \in MadeFor(trial.pat) => reported # {}

(* Likewise the search for address lines finds a line that is stuck, if the  *)
(* segments have words at both of its values.                                *)
LinesFound ==
  pc = "done" /\ ~bail /\ trial.pat = 5 /\ trial.fault.kind = "line" => reported # {}

(* But for the search for address lines, which goes where the address bits   *)
(* lead, a test writes to the words of the segments only.  In a segment that *)
(* starts in the last bank of the address space the search within banks goes *)
(* astray, too: its start rounded up is 0, which is below the end (line 92). *)
Astray ==
  /\ pc \in {"segment", "bank", "mask"}
  /\ loop = "line" \/ (loop = "bank" /\ start + Bank > Space)

OnlySegmentsWritten ==
  [][Astray \/ trial.fault.kind = "line" \/
     (\A a \in DOMAIN mem : mem'[a] # mem[a] => a \in Covered)]_vars

(* The progress bar of a test is full when the test is, and not before; this *)
(* is about the tests for which the number of ticks is known exactly.        *)
TicksAsExpected ==
  pc = "done" /\ ~bail /\ trial.pat \in {0, 3, 4, 6, 7, 9, 10, 11} =>
    nticks = test_ticks

(* Each test comes to an end, also where the pointers wrap around.           *)
Ends == <>(pc = "done")

-----------------------------------------------------------------------------
(* The same tests as a program of sweeps over words, in the notation that  *)
(* memory tests are written in: in which order a sweep goes over which     *)
(* words, what it reads from each and what it writes there. Each value     *)
(* depends on the place of its word in the segment, and not on how the     *)
(* loops came there.                                                       *)
WordsBefore(t, a) == {b \in 0 .. a - 1 : \E i \in DOMAIN t.map : b \in WordsOf(t, i)}
Before(t, a) == Cardinality(WordsBefore(t, a))
Offset(t, a) == a - t.map[CHOOSE i \in DOMAIN t.map : a \in WordsOf(t, i)].start

AtOffset(t, c, a) == Offset(t, a) % ModSz = c.off

(* What a word holds between two sweeps, or the complement of what it holds  *)
Value(t, c, a) ==
  CASE c.fn = "movinv32" -> Rol(c.p1, Offset(t, a) % Width)
    [] c.fn = "movinvr" -> Rand(Before(t, a))
    [] c.fn = "addr_tst2" -> Own(a)
    [] OTHER -> c.p1

Datum(t, c, what, a) ==
  CASE what = "nothing" -> NoWord
    [] what = "value" -> Value(t, c, a)
    [] what = "complement" -> Not(Value(t, c, a))
    [] what = "rest" -> IF AtOffset(t, c, a) THEN NoWord ELSE Not(Value(t, c, a))

Up(reads, writes) == [down |-> FALSE, sparse |-> FALSE, reads |-> reads, writes |-> writes]
Downwards(reads, writes) == [Up(reads, writes) EXCEPT !.down = TRUE]
Sparse(reads, writes) == [Up(reads, writes) EXCEPT !.sparse = TRUE]

Planned(c) ==
  CASE c.fn \in {"movinv1", "movinv32"} ->
         <<Up("nothing", "value")>> \o
         Times(c.iter, <<Up("value", "complement"), Downwards("complement", "value")>>)
    [] c.fn = "movinvr" ->
         <<Up("nothing", "value"), Up("value", "complement"), Up("complement", "value")>>
    [] c.fn = "modtst" ->
         <<Sparse("nothing", "value")>> \o Times(c.iter, <<Up("nothing", "rest")>>)
         \o <<Sparse("value", "nothing")>>
    [] c.fn = "addr_tst2" -> <<Up("nothing", "value"), Up("value", "nothing")>>

Sweep(t, c, s) ==
  LET words == {a \in Covers(t) : s.sparse => AtOffset(t, c, a)}
  IN [words |-> words, down |-> s.down,
      read |-> [a \in words |-> Datum(t, c, s.reads, a)],
      write |-> [a \in words |-> Datum(t, c, s.writes, a)]]

(* Block moves, address lines and bit fade are no marches.                   *)
IsMarch == trial.pat \notin {5, 7, 8}

PerCall(t) == Len(Planned(Calls(t)[1]))
Sweeps(t) == IF t.pat \in {5, 7, 8} THEN 0 ELSE Len(Calls(t)) * PerCall(t)
NthSweep(t, nth) ==
  LET c == Calls(t)[((nth - 1) \div PerCall(t)) + 1]
  IN  Sweep(t, c, Planned(c)[((nth - 1) % PerCall(t)) + 1])

March == INSTANCE March WITH
  Sweep <- NthSweep,
  sweep <- IF IsMarch THEN sweep ELSE 1,
  dealt <- IF IsMarch THEN seen ELSE {},
  mem <- IF IsMarch THEN mem ELSE <<>>,
  reported <- IF IsMarch THEN reported ELSE {},
  status <- IF pc = "done" THEN (IF bail THEN "stopped" ELSE "finished") ELSE "running"

(* The loops of test.c implement the program of sweeps.                      *)
ImplementsMarch == March!Spec
=============================================================================
