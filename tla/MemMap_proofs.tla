--------------------------- MODULE MemMap_proofs ---------------------------
(***************************************************************************)
(* Proofs about MemMap, for tables of any size and entries, for memory of  *)
(* any pattern and address spaces of any size: the sanitized table gives   *)
(* every address the largest type reported for it, no page is listed for   *)
(* testing that the firmware does not report as usable or that the probes  *)
(* did not find to be memory, none is lost that they did, and the page     *)
(* counts are those of the pages that are listed.                          *)
(***************************************************************************)
EXTENDS MemMap, FiniteSetTheorems, WellFoundedInduction, TLAPS

-----------------------------------------------------------------------------
(* The inductive invariant. *)

SegmentType == [start : Nat, end : Nat]
NmEntry == [addr : Addresses, size : Int, type : Nat]

TypeInv ==
  /\ pc \in {"start", "sweep", "build", "fallback", "linuxbios", "wrap", "probe",
            "gap", "sort", "ready"}
  /\ firmware \in {"pcbios", "linuxbios"}
  /\ e820 \in Seq(Entry) /\ Len(e820) <= E820Max /\ decode \in Decoded
  /\ limit \in 0 .. Ptr - 1 /\ p \in 0 .. Ptr - 1 /\ gap \in Int
  /\ at \in Nat /\ msegs \in 0 .. E820Max + 1
  /\ pmap \in [-1 .. E820Max -> SegmentType]
  /\ full \in BOOLEAN /\ moved \in BOOLEAN

(* What the sanitized entries say of an address is what the firmware says. *)
KeptIn(list, a) ==
  /\ \A k \in 1 .. Len(list) :
       Covers(list[k], a) => list[k].type = CoveringType(a) /\ CoveringType(a) # 0
  /\ CoveringType(a) # 0 => \E k \in 1 .. Len(list) : Covers(list[k], a)

NmEnd(k) == nm[k].addr + nm[k].size

NmOK ==
  /\ nm \in Seq(NmEntry) /\ Len(nm) <= E820Max
  /\ \A k \in 1 .. Len(nm) : NmEnd(k) \in Addresses

Passed == Points \ points

(* The sweep up to a point: who overlaps there, and what is decided before it. *)
Going ==
  /\ overlap = {i \in 1 .. Len(e820) : <<i, "start">> \in Passed /\ <<i, "end">> \notin Passed}
  /\ lastType = TypeOf(overlap)
  /\ lastType # 0 => /\ \E x \in Passed : lastAddr = AddrOf(x)
                     /\ \A k \in 1 .. Len(nm) : NmEnd(k) <= lastAddr
  /\ \A k \in 1 .. Len(nm) : \E x \in Passed : NmEnd(k) <= AddrOf(x)
  /\ \A a \in Addresses, x \in Passed :
       a < AddrOf(x) =>
         IF lastType # 0 /\ a >= lastAddr
         THEN CoveringType(a) = lastType
         ELSE KeptIn(nm, a)

(* ... and where it ended because there was no more room *)
Stopped ==
  /\ points = {} /\ nm # <<>>
  /\ \A k \in 1 .. Len(nm) : NmEnd(k) <= NmEnd(Len(nm))
  /\ \A a \in Addresses : a < NmEnd(Len(nm)) => KeptIn(nm, a)

SweepInv ==
  pc = "sweep" =>
    /\ mode = "bios" /\ firmware = "pcbios" /\ ~Unreasonable
    /\ points \subseteq Points /\ overlap \subseteq 1 .. Len(e820)
    /\ lastType \in Nat /\ lastAddr \in Addresses
    /\ NmOK /\ (points # {} => Len(nm) < E820Max)
    /\ NonEmpty =>
         /\ \A x \in Passed, y \in points : Precedes(x, y)
         /\ Ascending
         /\ IF full THEN Stopped ELSE Going

BuildInv ==
  /\ pc = "fallback" => nm = <<>> /\ mode = "bios" /\ firmware = "pcbios"
  /\ pc = "linuxbios" => mode = "bios" /\ firmware = "linuxbios" /\ at > msegs
  /\ pc = "build" =>
       /\ mode = "bios" /\ firmware = "pcbios" /\ at > msegs /\ nm # <<>>
       /\ NmOK
       /\ NonEmpty => Ascending /\ TypesKept

(* A page that probing may list. *)
GoodPage(page) ==
  /\ page >= Up(ImageEnd) /\ page * PageSize \notin Hole
  /\ page * PageSize < decode
  /\ Sees(ProbeOf(page))

First == Up(ImageEnd) * PageSize

OnGrid(x) ==
  \/ First <= x /\ x < ResEnd /\ (x - First) % Step = 0
  \/ ResEnd <= x /\ (x - ResEnd) % Step = 0

(* The segment that is not yet closed: pages up to the next probe, or to the  *)
(* limit.                                                                     *)
OpenInv ==
  LET s == pmap[at].start
  IN  /\ s >= Up(ImageEnd)
      /\ s * PageSize <= ResStart \/ s * PageSize >= ResEnd
      /\ s * PageSize <= ResStart => p < ResEnd /\ OnGrid(p)
      /\ \A page \in Nat :
           /\ page >= s /\ page * PageSize \notin Hole /\ page * PageSize < limit
           /\ Inside => page * PageSize < p
           => GoodPage(page)

ProbeInv ==
  /\ pc = "wrap" =>
       /\ mode = "probe" /\ at = 0 /\ limit >= ResEnd /\ decode >= limit
       /\ \A d \in Decoded : d >= limit => d = limit \/ d >= 2 * limit
  /\ pc \in {"probe", "gap"} =>
       /\ mode = "probe" /\ at <= E820Max /\ limit < decode /\ limit >= ResEnd - 1
       /\ Inside => OnGrid(p)
       /\ \A k \in 0 .. at - 1 : \A page \in Segment(k) : GoodPage(page)
  /\ pc = "gap" => pmap[at].start = 0 /\ (p < ImageEnd => p < Step)
  /\ pc = "probe" =>
       /\ Inside => pmap[at].start # 0
       /\ pmap[at].start # 0 => OpenInv

(* A page that may be tested, whichever way the map was made. *)
UsableAll(page) ==
  /\ \A a \in Of(page) : CoveringType(a) \in Usable
  /\ Of(page) \cap Hole # {} => \A a \in Hole : CoveringType(a) \in Usable
Fit(page) ==
  /\ firmware = "pcbios" /\ FromTable /\ NonEmpty => UsableAll(page)
  /\ firmware = "linuxbios" /\ FromTable => UsablePage(page)
  /\ mode = "probe" => GoodPage(page)
SegmentsFit ==
  pc \in {"build", "linuxbios", "sort", "ready"} =>
    \A k \in 0 .. msegs - 1 : \A page \in Segment(k) : Fit(page)

Inv == TypeInv /\ SweepInv /\ BuildInv /\ ProbeInv /\ SegmentsFit

-----------------------------------------------------------------------------
(* Arithmetic. *)

LEMMA DivMod ==
  ASSUME NEW W \in Nat \ {0}, NEW x \in Int
  PROVE  /\ x % W \in 0 .. W - 1 /\ x \div W \in Int
         /\ x = W * (x \div W) + (x % W)
BY SMT

LEMMA Monotone ==
  ASSUME NEW W \in Nat, NEW x \in Int, NEW y \in Int
  PROVE  /\ x * W \in Int
         /\ x < y => x * W + W <= y * W
         /\ x <= y => x * W <= y * W
<1>1. x * W \in Int /\ y * W \in Int
  BY SMT
<1>2. ASSUME x < y
      PROVE  x * W + W <= y * W
  <2>1. PICK d \in Nat : y = x + 1 + d
    <3>1. y - x - 1 \in Nat /\ y = x + 1 + (y - x - 1)
      BY <1>2, SMT
    <3>2. QED
      BY <3>1
  <2>2. y * W = x * W + W + d * W /\ d * W \in Int
    BY <2>1, SMT
  <2>3. d * W >= 0
    BY SMT
  <2>4. QED
    BY ONLY <2>2, <2>3, <1>1, W \in Nat, SMT
<1>3. QED
  BY <1>1, <1>2, SMT

(* Two numbers of the same residue lie W apart, or are the same. *)
LEMMA SameResidue ==
  ASSUME NEW W \in Nat \ {0}, NEW x \in Int, NEW y \in Int, NEW b \in Int,
         (x - b) % W = 0, (y - b) % W = 0, y < x + W
  PROVE  y <= x
<1>1. PICK m \in Int : m * W = x - b /\ m = (x - b) \div W
  BY DivMod
<1>2. PICK n \in Int : n * W = y - b /\ n = (y - b) \div W
  BY DivMod
<1>3. CASE n <= m
  <2>1. n * W <= m * W
    BY <1>3, Monotone
  <2>2. QED
    BY <1>1, <1>2, <2>1, SMT
<1>4. CASE m < n
  <2>1. m * W + W <= n * W
    BY <1>4, Monotone
  <2>2. QED
    BY <1>1, <1>2, <2>1, SMT
<1>5. QED
  BY <1>3, <1>4, SMT

(* What is added to a multiple of W, being one itself, makes one. *)
LEMMA MultipleMod ==
  ASSUME NEW W \in Nat \ {0}, NEW n \in Int
  PROVE  (n * W) % W = 0
<1>1. n * W \in Int /\ (n * W) % W \in 0 .. W - 1
  BY SMT
<1>2. PICK d \in Int : n * W = W * d + ((n * W) % W)
  BY <1>1, DivMod
<1>3. CASE n <= d
  <2>1. n * W <= d * W /\ d * W \in Int /\ W * d = d * W
    BY <1>3, Monotone, SMT
  <2>2. QED
    BY <1>1, <1>2, <2>1, SMT
<1>4. CASE d < n
  <2>1. d * W + W <= n * W /\ d * W \in Int /\ W * d = d * W
    BY <1>4, Monotone, SMT
  <2>2. QED
    BY <1>1, <1>2, <2>1, SMT
<1>5. QED
  BY <1>3, <1>4, SMT

LEMMA SumMod ==
  ASSUME NEW W \in Nat \ {0}, NEW x \in Int, NEW y \in Int, x % W = 0, y % W = 0
  PROVE  (x + y) % W = 0
<1>1. PICK m \in Int : x = m * W /\ m = x \div W
  BY DivMod
<1>2. PICK n \in Int : y = n * W /\ n = y \div W
  BY DivMod
<1>3. x + y = (m + n) * W
  BY <1>1, <1>2, SMT
<1>4. QED
  BY <1>3, MultipleMod

LEMMA ModSmall ==
  ASSUME NEW W \in Nat \ {0}, NEW a \in 0 .. W - 1
  PROVE  a % W = a
BY SMT

(* A set of numbers that is not empty has a least member. *)
LEMMA LeastNat ==
  ASSUME NEW T, T \subseteq Nat, T # {}
  PROVE  \E k \in T : \A j \in T : k <= j
<1> DEFINE R == OpToRel(<, Nat)
<1>1. IsWellFoundedOn(R, Nat)
  BY NatLessThanWellFounded
<1>2. R = {ss \in Nat \X Nat : ss[1] < ss[2]}
  BY DEF OpToRel
<1> HIDE DEF R
<1>3. PICK k \in T : \A j \in T : <<j, k>> \notin R
  BY <1>1, WFMin, Zenon
<1>4. \A j \in T : <<j, k>> \in Nat \X Nat
  OBVIOUS
<1>5. \A j \in T : ~(j < k)
  BY <1>2, <1>3, <1>4
<1>6. QED
  BY <1>5

LEMMA MinOf ==
  ASSUME NEW T, T \subseteq Nat, T # {}
  PROVE  Min(T) \in T
BY LeastNat DEF Min

LEMMA MaxOf ==
  ASSUME NEW T, T \subseteq Int, T # {}, NEW b \in Int, \A x \in T : x <= b
  PROVE  Max(T) \in T /\ \A x \in T : x <= Max(T)
<1> DEFINE D == {b - x : x \in T}
<1>1. D \subseteq Nat /\ D # {}
  <2>1. \A x \in T : b - x \in Nat
    BY SMT
  <2>2. QED
    BY <2>1
<1>2. PICK d \in D : \A e \in D : d <= e
  BY <1>1, LeastNat
<1>3. PICK m \in T : d = b - m
  BY <1>2
<1>4. \A x \in T : m >= x
  <2>1. TAKE x \in T
  <2>2. b - m <= b - x
    BY <1>2, <1>3
  <2>3. m \in Int /\ x \in Int
    BY <1>3
  <2>4. QED
    BY <2>2, <2>3, SMT
<1>5. QED
  BY <1>3, <1>4 DEF Max

(* The members of a finite sequence of numbers are bounded. *)
LEMMA Bounded ==
  ASSUME NEW n \in Nat, NEW f, \A i \in 1 .. n : f[i] \in Nat
  PROVE  \E b \in Nat : \A i \in 1 .. n : f[i] <= b
<1> DEFINE B(k) == \E b \in Nat : \A i \in 1 .. k : f[i] <= b
           T == {k \in 0 .. n : ~B(k)}
<1>1. CASE T = {}
  <2>1. n \in 0 .. n
    BY SMT
  <2>2. QED
    BY <1>1, <2>1
<1>2. CASE T # {}
  <2>1. PICK k \in T : \A j \in T : k <= j
    <3>1. T \subseteq Nat
      BY SMT
    <3> HIDE DEF T
    <3>2. QED
      BY <1>2, <3>1, LeastNat
  <2>2. k # 0
    <3>1. B(0)
      <4>1. 0 \in Nat /\ \A i \in 1 .. 0 : f[i] <= 0
        BY SMT
      <4>2. QED
        BY <4>1
    <3>2. QED
      BY <2>1, <3>1
  <2>3. k - 1 \in 0 .. n /\ k - 1 < k /\ k \in 1 .. n
    BY <2>1, <2>2, SMT
  <2>4. B(k - 1)
    <3>1. k - 1 \notin T
      <4>1. k \in Int
        BY <2>3
      <4> HIDE DEF T
      <4>2. QED
        BY <2>1, <2>3, <4>1, SMT
    <3>2. QED
      BY <2>3, <3>1
  <2>5. PICK b \in Nat : \A i \in 1 .. k - 1 : f[i] <= b
    BY <2>4
  <2>6. \A i \in 1 .. k : f[i] <= b + f[k] /\ b + f[k] \in Nat
    <3>1. f[k] \in Nat
      BY <2>3
    <3>2. TAKE i \in 1 .. k
    <3>3. CASE i = k
      BY <3>1, <3>3, SMT
    <3>4. CASE i # k
      <4>1. i \in 1 .. k - 1 /\ i \in 1 .. n
        BY <2>3, <3>4, SMT
      <4>2. f[i] <= b /\ f[i] \in Nat
        BY <2>5, <4>1
      <4>3. QED
        BY <3>1, <4>2, SMT
    <3>5. QED
      BY <3>3, <3>4
  <2>7. B(k)
    <3>1. k \in 1 .. k
      BY <2>3, SMT
    <3>2. b + f[k] \in Nat
      BY <2>6, <3>1
    <3>3. QED
      BY <2>6, <3>2
  <2>8. QED
    BY <2>1, <2>7
<1>3. QED
  BY <1>1, <1>2

-----------------------------------------------------------------------------
(* Pages and addresses. *)

LEMMA DownUp ==
  ASSUME NEW a \in Nat
  PROVE  /\ Down(a) \in Nat /\ Down(a) * PageSize <= a /\ a < Down(a) * PageSize + PageSize
         /\ Up(a) \in Nat /\ a <= Up(a) * PageSize /\ Up(a) * PageSize < a + PageSize
<1>1. PageSize \in Nat \ {0}
  BY MapAssumption
<1>2. \A x \in Nat :
        /\ x \div PageSize \in Nat
        /\ (x \div PageSize) * PageSize <= x
        /\ x < (x \div PageSize) * PageSize + PageSize
  <2>1. TAKE x \in Nat
  <2>2. /\ x % PageSize \in 0 .. PageSize - 1 /\ x \div PageSize \in Int
        /\ x = PageSize * (x \div PageSize) + (x % PageSize)
    BY <1>1, DivMod
  <2>3. PICK d \in Int : d = x \div PageSize
    BY <2>2
  <2>4. PageSize * d = d * PageSize /\ d * PageSize \in Int
    BY <1>1, SMT
  <2>5. d * PageSize <= x /\ x < d * PageSize + PageSize
    BY <1>1, <2>2, <2>3, <2>4, SMT
  <2>6. d >= 0
    <3>1. CASE d < 0
      <4>1. d * PageSize + PageSize <= 0 * PageSize
        BY <1>1, <3>1, Monotone
      <4>2. QED
        BY <1>1, <2>4, <2>5, <4>1, SMT
    <3>2. QED
      BY <3>1, SMT
  <2>7. QED
    BY <2>3, <2>5, <2>6, SMT
<1>3. a + PageSize - 1 \in Nat
  BY <1>1, SMT
<1>4. Up(a) \in Nat /\ Up(a) * PageSize \in Int
  BY <1>1, <1>2, <1>3, Monotone DEF Up
<1>5. Up(a) * PageSize <= a + PageSize - 1 /\ a + PageSize - 1 < Up(a) * PageSize + PageSize
  BY <1>2, <1>3 DEF Up
<1>6. a <= Up(a) * PageSize /\ Up(a) * PageSize < a + PageSize
  BY <1>1, <1>4, <1>5, SMT
<1>7. QED
  BY <1>2, <1>4, <1>6 DEF Down

(* A multiple of the page size begins the page that it is divided to. *)
LEMMA WholePages ==
  ASSUME NEW a \in Nat, a % PageSize = 0
  PROVE  Down(a) * PageSize = a /\ Up(a) * PageSize = a
<1>1. PageSize \in Nat \ {0}
  BY MapAssumption
<1>2. PICK d \in Int : a = d * PageSize /\ d = Down(a)
  BY <1>1, DivMod DEF Down
<1>3. PICK u \in Nat : u = Up(a) /\ a <= u * PageSize /\ u * PageSize < a + PageSize
  BY DownUp
<1>4. ASSUME d < u
      PROVE  FALSE
  <2>1. d * PageSize + PageSize <= u * PageSize
    BY <1>1, <1>4, Monotone
  <2>2. u * PageSize \in Int
    BY <1>1, Monotone
  <2>3. QED
    BY <1>1, <1>2, <1>3, <2>1, <2>2, SMT
<1>5. ASSUME u < d
      PROVE  FALSE
  <2>1. u * PageSize + PageSize <= d * PageSize
    BY <1>1, <1>5, Monotone
  <2>2. u * PageSize \in Int
    BY <1>1, Monotone
  <2>3. QED
    BY <1>1, <1>2, <1>3, <2>1, <2>2, SMT
<1>6. u = d
  BY <1>4, <1>5, SMT
<1>7. QED
  BY <1>2, <1>3, <1>6

(* The pages of a segment lie between its addresses. *)
LEMMA PagesBetween ==
  ASSUME NEW a \in Nat, NEW b \in Nat, NEW page \in Up(a) .. Down(b) - 1
  PROVE  /\ page \in Nat /\ page * PageSize \in Nat
         /\ a <= page * PageSize /\ page * PageSize + PageSize <= b
<1>1. PageSize \in Nat \ {0}
  BY MapAssumption
<1>2. PICK u \in Nat : u = Up(a) /\ a <= u * PageSize
  BY DownUp
<1>3. PICK d \in Nat : d = Down(b) /\ d * PageSize <= b
  BY DownUp
<1>4. page \in Nat /\ u <= page /\ page < d
  BY <1>2, <1>3, SMT
<1>5. /\ u * PageSize <= page * PageSize /\ page * PageSize + PageSize <= d * PageSize
      /\ u * PageSize \in Int /\ page * PageSize \in Int /\ d * PageSize \in Int
  BY <1>1, <1>4, Monotone
<1>6. QED
  BY <1>1, <1>2, <1>3, <1>4, <1>5, SMT

(* A page meets the hole only if it begins there. *)
LEMMA HolePages ==
  ASSUME NEW page \in Nat, page * PageSize \notin Hole
  PROVE  Of(page) \cap Hole = {}
<1>1. PageSize \in Nat \ {0} /\ ResStart \in Nat /\ ResEnd \in Nat
  BY MapAssumption
<1>2. PICK s \in Nat : s * PageSize = ResStart
  <2>1. Down(ResStart) \in Nat /\ Down(ResStart) * PageSize = ResStart
    BY MapAssumption, WholePages, DownUp
  <2>2. QED
    BY <2>1
<1>3. page * PageSize \in Int
  BY <1>1, Monotone
<1>4. CASE page * PageSize < ResStart
  <2>1. page < s
    <3>1. CASE s <= page
      <4>1. s * PageSize <= page * PageSize
        BY <1>1, <3>1, Monotone
      <4>2. QED
        BY <1>1, <1>2, <1>3, <1>4, <4>1, SMT
    <3>2. QED
      BY <3>1, SMT
  <2>2. page * PageSize + PageSize <= s * PageSize
    BY <1>1, <2>1, Monotone
  <2>3. QED
    BY <1>1, <1>2, <1>3, <2>2, SMT DEF Of, Hole
<1>5. CASE page * PageSize >= ResEnd
  BY <1>1, <1>3, <1>5, SMT DEF Of, Hole
<1>6. QED
  BY <1>1, <1>3, <1>4, <1>5, SMT DEF Hole

-----------------------------------------------------------------------------
(* Types. *)

LEMMA TypeOfType ==
  ASSUME e820 \in Seq(Entry), NEW S, S \subseteq 1 .. Len(e820)
  PROVE  /\ TypeOf(S) \in Nat
         /\ S = {} => TypeOf(S) = 0
<1> DEFINE f == [i \in 1 .. Len(e820) |-> e820[i].type]
           T == {0} \cup {e820[i].type : i \in S}
<1>1. \A i \in 1 .. Len(e820) : e820[i].type \in Nat
  <2>1. \A i \in 1 .. Len(e820) : e820[i] \in Entry
    OBVIOUS
  <2>2. QED
    BY <2>1 DEF Entry
<1>2. PICK b \in Nat : \A i \in 1 .. Len(e820) : e820[i].type <= b
  <2>1. Len(e820) \in Nat /\ \A i \in 1 .. Len(e820) : f[i] \in Nat
    BY <1>1
  <2>2. PICK b \in Nat : \A i \in 1 .. Len(e820) : f[i] <= b
    <3> HIDE DEF f
    <3>1. QED
      BY <2>1, Bounded
  <2>3. QED
    BY <2>2
<1>3. T \subseteq Int /\ T # {} /\ T \subseteq Nat
  BY <1>1
<1>4. \A x \in T : x <= b
  BY <1>2, SMT
<1>5. Max(T) \in T
  <2>1. b \in Int
    OBVIOUS
  <2> HIDE DEF T
  <2>2. QED
    BY <1>3, <1>4, <2>1, MaxOf
<1>6. TypeOf(S) \in T
  BY <1>5 DEF TypeOf
<1>7. S = {} => T = {0}
  OBVIOUS
<1>8. QED
  BY <1>3, <1>6, <1>7

LEMMA MapType ==
  ASSUME NEW map \in Seq(Entry), NEW n \in Nat, n <= Len(map)
  PROVE  LET r == [i \in 1 .. n |->
                     [map[i] EXCEPT !.type = IF @ = RAM THEN RAM ELSE Reserve]]
         IN  r \in Seq(Entry) /\ Len(r) = n
<1> DEFINE r == [i \in 1 .. n |->
                   [map[i] EXCEPT !.type = IF @ = RAM THEN RAM ELSE Reserve]]
<1>1. ASSUME NEW i \in 1 .. n
      PROVE  [map[i] EXCEPT !.type = IF @ = RAM THEN RAM ELSE Reserve] \in Entry
  <2>1. i \in 1 .. Len(map)
    BY SMT
  <2>2. map[i] \in Entry
    BY <2>1
  <2> DEFINE t == IF map[i].type = RAM THEN RAM ELSE Reserve
  <2>3. t \in Nat \ {0}
    BY DEF RAM, Reserve
  <2> HIDE DEF t
  <2>4. [map[i] EXCEPT !.type = t] \in Entry
    BY <2>2, <2>3 DEF Entry
  <2>5. QED
    BY <2>4 DEF t
<1>2. r \in [1 .. n -> Entry]
  BY <1>1
<1>3. QED
  BY <1>2

LEMMA MemInfoType ==
  ASSUME NEW m \in Machines
  PROVE  MemInfo(m) \in Seq(Entry) /\ Len(MemInfo(m)) <= E820Max
<1> DEFINE head == IF Forwards(FindTable(m)) THEN m.forwarded ELSE FindTable(m)
           memory == {i \in Records(head) : head.records[i].tag = "memory"}
           map == head.records[Min(memory)].map
           n == Min({Len(map), E820Max})
<1>1. m \in Machine /\ m.table \in Seq(Entry) /\ Len(m.table) <= E820Max
  BY MapAssumption DEF Machine
<1>2. CASE ~QueryLinuxbios(m) \/ memory = {} \/ map = <<>>
  <2>1. MemInfo(m) = m.table
    BY <1>2 DEF MemInfo
  <2>2. QED
    BY <1>1, <2>1
<1>3. CASE QueryLinuxbios(m) /\ memory # {} /\ map # <<>>
  <2>1. head \in LbTable
    <3>1. m.forwarded \in LbTable /\ m.lb \in Seq(LbTable)
      BY <1>1 DEF Machine
    <3>2. Accepted(m) # {} /\ Accepted(m) \subseteq 1 .. Len(m.lb)
      BY <1>3 DEF QueryLinuxbios, Accepted
    <3>3. Min(Accepted(m)) \in 1 .. Len(m.lb)
      <4>1. Accepted(m) \subseteq Nat
        BY <3>2
      <4>2. QED
        BY <3>2, <4>1, MinOf
    <3>4. FindTable(m) \in LbTable
      BY <3>1, <3>3 DEF FindTable
    <3>5. QED
      BY <3>1, <3>4
  <2>2. memory \subseteq 1 .. Len(head.records)
    BY DEF Records
  <2>3. MemInfo(m) = [i \in 1 .. n |->
                       [map[i] EXCEPT !.type = IF @ = RAM THEN RAM ELSE Reserve]]
    BY <1>3 DEF MemInfo
  <2> HIDE DEF head
  <2>4. Min(memory) \in 1 .. Len(head.records)
    <3>1. memory \subseteq Nat
      BY <2>2
    <3> HIDE DEF memory
    <3>2. QED
      BY <1>3, <2>2, <3>1, MinOf
  <2> HIDE DEF memory
  <2>5. map \in Seq(Entry)
    <3>1. head.records \in Seq(LbRecord)
      BY <2>1 DEF LbTable
    <3>2. head.records[Min(memory)] \in LbRecord
      BY <2>4, <3>1
    <3>3. QED
      BY <3>2 DEF LbRecord
  <2> HIDE DEF map
  <2>6. Len(map) \in Nat /\ E820Max \in Nat
    BY <2>5, MapAssumption
  <2>7. \E x \in {Len(map), E820Max} : \A y \in {Len(map), E820Max} : x <= y
    BY <2>6, SMT
  <2>8. n \in {Len(map), E820Max} /\ \A y \in {Len(map), E820Max} : n <= y
    BY <2>7 DEF Min
  <2> HIDE DEF n
  <2>9. n \in Nat /\ n <= Len(map) /\ n <= E820Max
    BY <2>6, <2>8
  <2>10. QED
    BY <2>3, <2>5, <2>9, MapType
<1>4. QED
  BY <1>2, <1>3

LEMMA InitInv == Init => Inv
<1> SUFFICES ASSUME Init
             PROVE  Inv
  OBVIOUS
<1>1. PICK m \in Machines : e820 = MemInfo(m) /\ decode = m.decode
  BY DEF Init
<1>2. e820 \in Seq(Entry) /\ Len(e820) <= E820Max
  BY <1>1, MemInfoType
<1>3. decode \in Decoded
  <2>1. m \in Machine
    BY MapAssumption
  <2>2. QED
    BY <1>1, <2>1 DEF Machine
<1>4. Ptr \in Nat \ {0} /\ E820Max \in Nat
  BY MapAssumption
<1>5. pmap \in [-1 .. E820Max -> SegmentType]
  BY DEF SegmentType, Init
<1>6. TypeInv
  <2>1. firmware \in {"pcbios", "linuxbios"}
    BY DEF Init
  <2>2. 0 \in 0 .. Ptr - 1 /\ 0 \in 0 .. E820Max + 1
    BY <1>4, SMT
  <2>3. full \in BOOLEAN /\ moved \in BOOLEAN
    BY DEF Init
  <2>4. /\ pc = "start" /\ limit = 0 /\ p = 0 /\ gap \in Int /\ at \in Nat
        /\ msegs = 0
    BY DEF Init
  <2>5. QED
    BY <1>2, <1>3, <1>5, <2>1, <2>2, <2>3, <2>4 DEF TypeInv
<1>7. QED
  BY <1>6 DEF Init, Inv, SweepInv, BuildInv, ProbeInv, SegmentsFit

-----------------------------------------------------------------------------
(* The sweep. *)

LEMMA PointTypes ==
  ASSUME TypeInv
  PROVE  /\ Word \in Nat \ {0} /\ Len(e820) \in Nat
         /\ \A i \in 1 .. Len(e820) :
              /\ e820[i] \in Entry /\ e820[i].addr \in Addresses
              /\ e820[i].size \in Addresses /\ End(e820[i]) \in Addresses
         /\ \A x \in Points : x[1] \in 1 .. Len(e820) /\ AddrOf(x) \in Addresses
         /\ \A i \in 1 .. Len(e820) : <<i, "start">> \in Points /\ <<i, "end">> \in Points
<1>1. Word \in Nat \ {0} /\ e820 \in Seq(Entry)
  BY MapAssumption DEF TypeInv
<1>2. Len(e820) \in Nat
  BY <1>1
<1>3. ASSUME NEW i \in 1 .. Len(e820)
      PROVE  /\ e820[i] \in Entry /\ e820[i].addr \in Addresses
             /\ e820[i].size \in Addresses /\ End(e820[i]) \in Addresses
  <2>1. e820[i] \in Entry
    BY <1>1
  <2>2. e820[i].addr \in 0 .. Word - 1 /\ e820[i].size \in 0 .. Word - 1
    BY <2>1 DEF Entry
  <2>3. e820[i].addr + e820[i].size \in Int
    BY <1>1, <2>2, SMT
  <2>4. End(e820[i]) \in 0 .. Word - 1
    BY <1>1, <2>3, DivMod DEF End
  <2>5. QED
    BY <2>1, <2>2, <2>4 DEF Addresses
<1>4. QED
  BY <1>1, <1>2, <1>3 DEF Points, AddrOf

LEMMA Reasonable ==
  ASSUME TypeInv, ~Unreasonable, NonEmpty, NEW i \in 1 .. Len(e820)
  PROVE  /\ End(e820[i]) = e820[i].addr + e820[i].size
         /\ e820[i].addr < End(e820[i])
         /\ AddrOf(<<i, "start">>) = e820[i].addr /\ Starts(<<i, "start">>)
         /\ AddrOf(<<i, "end">>) = End(e820[i]) /\ ~Starts(<<i, "end">>)
<1>1. PICK a \in 0 .. Word - 1, z \in 0 .. Word - 1 : a = e820[i].addr /\ z = e820[i].size
  BY PointTypes DEF Addresses
<1>2. Word \in Nat \ {0}
  BY PointTypes
<1>3. z # 0 /\ ~((a + z) % Word < a)
  BY <1>1 DEF NonEmpty, Unreasonable, End
<1>4. (a + z) % Word = a + z
  <2>1. CASE a + z >= Word
    <3>1. (a + z) % Word = a + z - Word
      BY <1>2, <2>1, SMT
    <3>2. QED
      BY <1>1, <1>2, <1>3, <3>1, SMT
  <2>2. CASE a + z < Word
    <3>1. a + z \in 0 .. Word - 1
      BY <1>2, <2>2, SMT
    <3>2. QED
      BY <1>2, <3>1, ModSmall
  <2>3. QED
    BY <1>1, <1>2, <2>1, <2>2, SMT
<1>5. End(e820[i]) = a + z
  BY <1>1, <1>4 DEF End
<1>6. a < a + z
  BY <1>1, <1>3, SMT
<1>7. QED
  BY <1>1, <1>5, <1>6, SMT DEF AddrOf, Starts

LEMMA PrecedesAddr ==
  ASSUME TypeInv, NEW x \in Points, NEW y \in Points, Precedes(x, y)
  PROVE  AddrOf(x) <= AddrOf(y)
<1>1. AddrOf(x) \in Nat /\ AddrOf(y) \in Nat
  BY PointTypes DEF Addresses
<1>2. QED
  BY <1>1, SMT DEF Precedes

(* The next point, and those before and after it *)
LEMMA AroundNext ==
  ASSUME TypeInv, points \subseteq Points, NEW x, IsNext(x),
         \A z \in Passed, y \in points : Precedes(z, y)
  PROVE  /\ x \in points /\ x \in Points /\ AddrOf(x) \in Addresses
         /\ \A z \in Passed : AddrOf(z) <= AddrOf(x)
         /\ \A y \in points : AddrOf(x) <= AddrOf(y)
<1>1. x \in points /\ x \in Points /\ AddrOf(x) \in Addresses
  BY PointTypes DEF IsNext
<1>2. \A z \in Passed : AddrOf(z) <= AddrOf(x)
  BY <1>1, PrecedesAddr DEF Passed
<1>3. ASSUME NEW y \in points
      PROVE  AddrOf(x) <= AddrOf(y)
  <2>1. CASE y = x
    BY <1>1, <2>1 DEF Addresses
  <2>2. CASE y # x
    BY <1>1, <2>2, PrecedesAddr DEF IsNext
  <2>3. QED
    BY <2>1, <2>2
<1>4. QED
  BY <1>1, <1>2, <1>3

(* The entries that overlap after the next point *)
LEMMA NextOverlap ==
  ASSUME TypeInv, ~Unreasonable, NonEmpty, points \subseteq Points, NEW x, IsNext(x),
         \A z \in Passed, y \in points : Precedes(z, y), Going
  PROVE  (IF Starts(x) THEN overlap \cup {x[1]} ELSE overlap \ {x[1]}) =
           {i \in 1 .. Len(e820) : /\ <<i, "start">> \in Passed \cup {x}
                                   /\ <<i, "end">> \notin Passed \cup {x}}
<1>1. /\ x \in points /\ x \in Points /\ x \notin Passed
      /\ \A z \in Passed : AddrOf(z) <= AddrOf(x)
  BY AroundNext DEF Passed
<1>2. PICK i \in 1 .. Len(e820), t \in {"start", "end"} : x = <<i, t>>
  BY <1>1 DEF Points
<1>3. overlap = {k \in 1 .. Len(e820) : <<k, "start">> \in Passed /\ <<k, "end">> \notin Passed}
  BY DEF Going
<1>4. "start" # "end"
  OBVIOUS
<1>5. CASE t = "start"
  <2>1. Starts(x) /\ x[1] = i
    BY <1>2, <1>5, Reasonable
  <2>2. <<i, "end">> \notin Passed
    <3>1. AddrOf(x) < AddrOf(<<i, "end">>)
      BY <1>2, <1>5, Reasonable
    <3>2. AddrOf(x) \in Int /\ AddrOf(<<i, "end">>) \in Int
      <4>1. AddrOf(x) \in Addresses /\ AddrOf(<<i, "end">>) \in Addresses
        BY <1>1, PointTypes
      <4>2. QED
        BY <4>1 DEF Addresses
    <3>3. QED
      BY <1>1, <3>1, <3>2, SMT
  <2>3. \A k : <<k, "start">> = x <=> k = i
    BY <1>2, <1>5
  <2>4. \A k : <<k, "end">> # x
    BY <1>2, <1>5, <1>4
  <2>5. QED
    BY <1>3, <2>1, <2>2, <2>3, <2>4
<1>6. CASE t = "end"
  <2>1. ~Starts(x) /\ x[1] = i
    BY <1>2, <1>6, Reasonable
  <2>2. \A k : <<k, "end">> = x <=> k = i
    BY <1>2, <1>6
  <2>3. \A k : <<k, "start">> # x
    BY <1>2, <1>6, <1>4
  <2>4. QED
    BY <1>3, <2>1, <2>2, <2>3
<1>7. QED
  BY <1>2, <1>5, <1>6

(* An address that no point passed, but that is before the points to come, is *)
(* covered by the entries that overlap.                                       *)
LEMMA CoveredByOverlap ==
  ASSUME TypeInv, ~Unreasonable, NonEmpty, points \subseteq Points, Going,
         NEW a \in Addresses, \A z \in Passed : AddrOf(z) <= a,
         \A y \in points : a < AddrOf(y)
  PROVE  CoveringType(a) = TypeOf(overlap)
<1>1. ASSUME NEW i \in 1 .. Len(e820)
      PROVE  Covers(e820[i], a) <=> <<i, "start">> \in Passed /\ <<i, "end">> \notin Passed
  <2>1. /\ <<i, "start">> \in Passed \/ <<i, "start">> \in points
        /\ <<i, "end">> \in Passed \/ <<i, "end">> \in points
    BY PointTypes DEF Passed
  <2>2. PICK s \in Int, e \in Int : s = AddrOf(<<i, "start">>) /\ e = AddrOf(<<i, "end">>)
    BY PointTypes DEF Addresses
  <2>3. Covers(e820[i], a) <=> s <= a /\ a < e
    BY <2>2, Reasonable DEF Covers
  <2>4. a \in Int
    BY DEF Addresses
  <2>5. <<i, "start">> \in Passed <=> s <= a
    <3>1. <<i, "start">> \in Passed => s <= a
      BY <2>2
    <3>2. <<i, "start">> \in points => a < s
      BY <2>2
    <3>3. QED
      BY <2>1, <2>2, <2>4, <3>1, <3>2, SMT
  <2>6. <<i, "end">> \notin Passed <=> a < e
    <3>1. <<i, "end">> \in Passed => e <= a
      BY <2>2
    <3>2. <<i, "end">> \in points => a < e
      BY <2>2
    <3>3. QED
      BY <2>1, <2>2, <2>4, <3>1, <3>2, SMT
  <2>7. QED
    BY <2>3, <2>5, <2>6
<1>2. overlap = {k \in 1 .. Len(e820) : Covers(e820[k], a)}
  BY <1>1 DEF Going
<1>3. QED
  BY <1>2 DEF CoveringType, TypeOf

(* So every address before the next point is decided. *)
LEMMA Decided ==
  ASSUME TypeInv, ~Unreasonable, NonEmpty, NmOK, points \subseteq Points, Going,
         NEW here \in Addresses, \A y \in points : here <= AddrOf(y),
         NEW a \in Addresses, a < here \/ points = {}
  PROVE  IF lastType # 0 /\ a >= lastAddr
         THEN CoveringType(a) = lastType
         ELSE KeptIn(nm, a)
<1>1. CASE \E x \in Passed : a < AddrOf(x)
  BY <1>1 DEF Going
<1>2. CASE \A x \in Passed : ~(a < AddrOf(x))
  <2>1. a \in Int /\ here \in Int /\ \A x \in Points : AddrOf(x) \in Int
    BY PointTypes DEF Addresses
  <2>2. \A z \in Passed : AddrOf(z) <= a
    BY <1>2, <2>1, SMT DEF Passed
  <2>3. \A y \in points : a < AddrOf(y)
    <3>1. TAKE y \in points
    <3>2. a < here /\ here <= AddrOf(y) /\ AddrOf(y) \in Int
      BY <2>1
    <3>3. QED
      BY <2>1, <3>2, SMT
  <2>4. CoveringType(a) = lastType
    BY <2>2, <2>3, CoveredByOverlap DEF Going
  <2>5. CASE lastType # 0
    <3>1. lastAddr <= a
      BY <2>2, <2>5 DEF Going
    <3>2. PICK x \in Points : lastAddr = AddrOf(x)
      BY <2>5 DEF Going, Passed
    <3>3. a >= lastAddr
      BY <2>1, <3>1, <3>2, SMT
    <3>4. QED
      BY <2>4, <2>5, <3>3
  <2>6. CASE lastType = 0
    <3>1. ASSUME NEW k \in 1 .. Len(nm)
          PROVE  ~Covers(nm[k], a)
      <4>1. PICK x \in Passed : NmEnd(k) <= AddrOf(x)
        BY DEF Going
      <4>2. NmEnd(k) \in Int /\ AddrOf(x) \in Int /\ AddrOf(x) <= a
        BY <2>1, <2>2, <4>1 DEF NmOK, Addresses, Passed
      <4>3. ~(a < NmEnd(k))
        BY <2>1, <4>1, <4>2, SMT
      <4>4. QED
        BY <4>3 DEF Covers, NmEnd
    <3>2. QED
      BY <2>4, <2>6, <3>1 DEF KeptIn
  <2>7. QED
    BY <2>5, <2>6
<1>3. QED
  BY <1>1, <1>2

(* What a new entry says, and what it leaves alone *)
LEMMA AppendCovers ==
  ASSUME NEW list \in Seq(NmEntry), NEW e \in NmEntry
  PROVE  LET new == Append(list, e)
         IN  /\ new \in Seq(NmEntry) /\ Len(new) = Len(list) + 1
             /\ new[Len(list) + 1] = e
             /\ \A k \in 1 .. Len(list) : new[k] = list[k]
             /\ \A k \in 1 .. Len(new) : k \in 1 .. Len(list) \/ k = Len(list) + 1
             /\ \A k \in 1 .. Len(list) : k \in 1 .. Len(new)
             /\ Len(list) + 1 \in 1 .. Len(new)
BY SMT

LEMMA AppendKept ==
  ASSUME NEW list \in Seq(NmEntry), NEW e \in NmEntry, NEW a,
         \/ ~Covers(e, a) /\ KeptIn(list, a)
         \/ /\ Covers(e, a) /\ e.type = CoveringType(a) /\ e.type # 0
            /\ \A k \in 1 .. Len(list) : ~Covers(list[k], a)
  PROVE  KeptIn(Append(list, e), a)
<1> DEFINE new == Append(list, e)
<1>1. /\ Len(new) = Len(list) + 1 /\ new[Len(list) + 1] = e
      /\ \A k \in 1 .. Len(list) : new[k] = list[k]
      /\ \A k \in 1 .. Len(new) : k \in 1 .. Len(list) \/ k = Len(list) + 1
      /\ \A k \in 1 .. Len(list) : k \in 1 .. Len(new)
      /\ Len(list) + 1 \in 1 .. Len(new)
  BY AppendCovers
<1> HIDE DEF new
<1>2. KeptIn(new, a)
  BY <1>1 DEF KeptIn
<1>3. QED
  BY <1>2 DEF new

LEMMA SweepPointInv ==
  ASSUME TypeInv, SweepInv, SweepPoint
  PROVE  SweepInv'
<1> DEFINE Inside2(x) == IF Starts(x) THEN overlap \cup {x[1]} ELSE overlap \ {x[1]}
           Finished(x) == [addr |-> lastAddr, size |-> AddrOf(x) - lastAddr,
                           type |-> lastType]
           Done(x) == /\ TypeOf(Inside2(x)) # lastType /\ lastType # 0
                      /\ Finished(x).size # 0
           Nm(x) == IF Done(x) THEN Append(nm, Finished(x)) ELSE nm
           Stop(x) == Done(x) /\ NoRoom(Nm(x))
<1>1. PICK x \in points :
        /\ pc = "sweep" /\ IsNext(x)
        /\ overlap' = Inside2(x)
        /\ nm' = Nm(x)
        /\ full' = Stop(x)
        /\ points' = IF Stop(x) THEN {} ELSE points \ {x}
        /\ lastType' = IF Stop(x) THEN lastType ELSE TypeOf(Inside2(x))
        /\ lastAddr' = IF TypeOf(Inside2(x)) \notin {lastType, 0} /\ ~Stop(x)
                       THEN AddrOf(x) ELSE lastAddr
        /\ UNCHANGED <<pc, machine, mode>>
  BY DEF SweepPoint
<1> DEFINE here == AddrOf(x)
           inside == Inside2(x)
           type == TypeOf(inside)
           finished == Finished(x)
           done == Done(x)
           nm1 == Nm(x)
           stop == Stop(x)
<1>2. /\ mode = "bios" /\ firmware = "pcbios" /\ ~Unreasonable
      /\ points \subseteq Points /\ overlap \subseteq 1 .. Len(e820)
      /\ lastType \in Nat /\ lastAddr \in Addresses
      /\ NmOK /\ Len(nm) < E820Max
      /\ x \in Points /\ here \in Addresses /\ x[1] \in 1 .. Len(e820)
  BY <1>1, PointTypes DEF SweepInv
<1>3. inside \subseteq 1 .. Len(e820)
  BY <1>2
<1>4. type \in Nat
  BY <1>3, TypeOfType DEF TypeInv
<1>5. e820' = e820 /\ firmware' = firmware /\ mode' = mode
  BY <1>1 DEF machine
<1>6. /\ Points' = Points /\ Unreasonable' = Unreasonable /\ NonEmpty' = NonEmpty
      /\ \A y : AddrOf(y)' = AddrOf(y)
      /\ \A y, z : Precedes(y, z)' = Precedes(y, z)
      /\ \A a : CoveringType(a)' = CoveringType(a)
      /\ \A S : TypeOf(S)' = TypeOf(S)
  BY <1>5 DEF Points, Unreasonable, NonEmpty, AddrOf, Precedes, Starts, CoveringType, TypeOf
<1>7. finished \in NmEntry /\ finished.addr + finished.size = here
  BY <1>2 DEF NmEntry, Addresses
<1>8. NmOK' /\ (points' # {} => Len(nm') < E820Max)
  <2>1. CASE ~done
    BY <1>1, <1>2, <2>1 DEF NmOK, NmEnd
  <2>2. CASE done
    <3>1. nm' = Append(nm, finished)
      BY <1>1, <2>2
    <3>2. /\ nm' \in Seq(NmEntry) /\ Len(nm') = Len(nm) + 1 /\ nm'[Len(nm) + 1] = finished
          /\ \A k \in 1 .. Len(nm) : nm'[k] = nm[k]
          /\ \A k \in 1 .. Len(nm') : k \in 1 .. Len(nm) \/ k = Len(nm) + 1
      BY <1>2, <1>7, <3>1, AppendCovers DEF NmOK
    <3>3. Len(nm') <= E820Max
      BY <1>2, <3>2, MapAssumption, SMT DEF NmOK
    <3>4. \A k \in 1 .. Len(nm') : nm'[k].addr + nm'[k].size \in Addresses
      BY <1>2, <1>7, <3>2 DEF NmOK, NmEnd
    <3>5. points' # {} => Len(nm') < E820Max
      <4>1. points' # {} => ~(Len(nm') >= E820Max)
        BY <1>1, <2>2, <3>1 DEF NoRoom
      <4>2. QED
        BY <1>2, <3>2, <4>1, MapAssumption, SMT DEF NmOK
    <3>6. QED
      BY <3>2, <3>3, <3>4, <3>5 DEF NmOK, NmEnd
  <2>3. QED
    BY <2>1, <2>2
<1>9. /\ points' \subseteq Points' /\ overlap' \subseteq 1 .. Len(e820')
      /\ lastType' \in Nat /\ lastAddr' \in Addresses
  BY <1>1, <1>2, <1>3, <1>4, <1>5, <1>6
<1>10. ASSUME NonEmpty
       PROVE  /\ (\A z \in Passed, y \in points : Precedes(z, y))'
              /\ Ascending'
              /\ full' => Stopped'
              /\ ~full' => Going'
  <2>1. /\ \A z \in Passed, y \in points : Precedes(z, y)
        /\ Ascending /\ (IF full THEN Stopped ELSE Going)
    BY <1>1, <1>10 DEF SweepInv
  <2>2. ~full /\ Going
    BY <1>1, <2>1 DEF Stopped
  <2>3. /\ \A z \in Passed : AddrOf(z) <= here
        /\ \A y \in points : here <= AddrOf(y)
    BY <1>1, <1>2, <2>1, AroundNext
  <2>4. ASSUME NEW a \in Addresses, a < here
        PROVE  IF lastType # 0 /\ a >= lastAddr
               THEN CoveringType(a) = lastType
               ELSE KeptIn(nm, a)
    BY <1>2, <1>10, <2>2, <2>3, <2>4, Decided
  <2>5. inside = {i \in 1 .. Len(e820) : /\ <<i, "start">> \in Passed \cup {x}
                                         /\ <<i, "end">> \notin Passed \cup {x}}
    BY <1>1, <1>2, <1>10, <2>1, <2>2, NextOverlap
  <2>6. here \in Int /\ lastAddr \in Int /\ (lastType # 0 => lastAddr <= here)
    <3>1. here \in Int /\ lastAddr \in Int
      BY <1>2 DEF Addresses
    <3>2. lastType # 0 => \E z \in Passed : lastAddr = AddrOf(z)
      BY <2>2 DEF Going
    <3>3. QED
      BY <2>3, <3>1, <3>2
  <2>7. /\ Len(nm) \in Nat
        /\ \A k \in 1 .. Len(nm) : NmEnd(k) \in Int /\ NmEnd(k) <= here
        /\ lastType # 0 => \A k \in 1 .. Len(nm) : NmEnd(k) <= lastAddr
    <3>1. /\ Len(nm) \in Nat
          /\ \A k \in 1 .. Len(nm) : NmEnd(k) \in Int
      BY <1>2 DEF NmOK, Addresses
    <3>2. ASSUME NEW k \in 1 .. Len(nm)
          PROVE  NmEnd(k) <= here
      <4>1. PICK z \in Passed : NmEnd(k) <= AddrOf(z)
        BY <2>2 DEF Going
      <4>2. AddrOf(z) <= here /\ AddrOf(z) \in Int
        BY <2>3, <4>1, PointTypes DEF Passed, Addresses
      <4>3. QED
        BY <2>6, <3>1, <4>1, <4>2, SMT
    <3>3. QED
      BY <2>2, <3>1, <3>2 DEF Going
  (* What is finished at this point is what was found up to it. *)
  <2>8. ASSUME done
        PROVE  /\ nm' = Append(nm, finished) /\ Len(nm') = Len(nm) + 1
               /\ nm'[Len(nm) + 1] = finished
               /\ \A k \in 1 .. Len(nm) : nm'[k] = nm[k]
               /\ \A k \in 1 .. Len(nm') : k \in 1 .. Len(nm) \/ k = Len(nm) + 1
               /\ lastAddr < here
               /\ \A a \in Addresses : a < here => KeptIn(nm', a)
    <3>1. nm' = Append(nm, finished)
      BY <1>1, <2>8
    <3>2. lastAddr < here /\ lastType # 0
      BY <2>6, <2>8, SMT
    <3>3. ASSUME NEW a \in Addresses, a < here
          PROVE  KeptIn(nm', a)
      <4>1. a \in Int
        BY DEF Addresses
      <4>2. Covers(finished, a) <=> lastAddr <= a
        BY <2>6, <3>3, <4>1, SMT DEF Covers
      <4>3. CASE lastAddr <= a
        <5>1. ASSUME NEW k \in 1 .. Len(nm)
              PROVE  ~Covers(nm[k], a)
          <6>1. NmEnd(k) <= lastAddr /\ NmEnd(k) \in Int
            BY <2>7, <3>2
          <6>2. ~(a < NmEnd(k))
            BY <2>6, <4>1, <4>3, <6>1, SMT
          <6>3. QED
            BY <6>2 DEF Covers, NmEnd
        <5>2. CoveringType(a) = lastType
          BY <2>4, <2>6, <3>2, <3>3, <4>1, <4>3
        <5>3. finished.type = lastType
          OBVIOUS
        <5> HIDE DEF finished
        <5>4. QED
          BY <1>2, <1>7, <3>1, <3>2, <4>2, <4>3, <5>1, <5>2, <5>3, AppendKept DEF NmOK
      <4>4. CASE ~(lastAddr <= a)
        <5>1. KeptIn(nm, a)
          BY <2>4, <2>6, <3>3, <4>1, <4>4
        <5> HIDE DEF finished
        <5>2. QED
          BY <1>2, <1>7, <3>1, <4>2, <4>4, <5>1, AppendKept DEF NmOK
      <4>5. QED
        BY <4>3, <4>4
    <3>4. QED
      BY <1>2, <1>7, <3>1, <3>2, <3>3, AppendCovers DEF NmOK
  <2>9. ASSUME ~done
        PROVE  /\ nm' = nm /\ ~stop
               /\ type # lastType =>
                    \A a \in Addresses : a < here => KeptIn(nm', a)
    <3>1. nm' = nm /\ ~stop
      BY <1>1, <2>9
    <3>2. ASSUME type # lastType, NEW a \in Addresses, a < here
          PROVE  KeptIn(nm', a)
      <4>1. lastType = 0 \/ here = lastAddr
        BY <2>6, <2>9, <3>2, SMT
      <4>2. ~(lastType # 0 /\ a >= lastAddr)
        BY <2>6, <3>2, <4>1, SMT DEF Addresses
      <4>3. QED
        BY <2>4, <3>1, <3>2, <4>2
    <3>3. QED
      BY <3>1, <3>2
  <2>10. \A k \in 1 .. Len(nm') :
           nm'[k].addr + nm'[k].size \in Int /\ nm'[k].addr + nm'[k].size <= here
    <3>1. CASE done
      <4>1. ASSUME NEW k \in 1 .. Len(nm')
            PROVE  nm'[k].addr + nm'[k].size \in Int /\ nm'[k].addr + nm'[k].size <= here
        <5>1. CASE k \in 1 .. Len(nm)
          <6>1. nm'[k].addr + nm'[k].size = NmEnd(k)
            BY <2>8, <3>1, <5>1 DEF NmEnd
          <6>2. QED
            BY <2>7, <5>1, <6>1
        <5>2. CASE k = Len(nm) + 1
          <6>1. nm'[k].addr + nm'[k].size = here
            BY <1>7, <2>8, <3>1, <5>2
          <6>2. QED
            BY <2>6, <6>1
        <5>3. QED
          BY <2>8, <3>1, <5>1, <5>2
      <4>2. QED
        BY <4>1
    <3>2. CASE ~done
      BY <2>7, <2>9, <3>2 DEF NmEnd
    <3>3. QED
      BY <3>1, <3>2
  <2>11. Ascending'
    <3>1. CASE done
      <4>1. SUFFICES ASSUME NEW i \in 1 .. Len(nm'), NEW j \in 1 .. Len(nm'), i < j
                     PROVE  nm'[i].addr + nm'[i].size <= nm'[j].addr
        BY DEF Ascending
      <4>2. i \in 1 .. Len(nm) /\ nm'[i] = nm[i]
        BY <2>7, <2>8, <3>1, <4>1, SMT
      <4>3. CASE j \in 1 .. Len(nm)
        BY <2>1, <2>8, <3>1, <4>1, <4>2, <4>3 DEF Ascending
      <4>4. CASE j = Len(nm) + 1
        <5>1. nm'[j].addr = lastAddr
          BY <2>8, <3>1, <4>4
        <5>2. NmEnd(i) <= lastAddr
          BY <2>7, <3>1, <4>2
        <5>3. QED
          BY <4>2, <5>1, <5>2 DEF NmEnd
      <4>5. QED
        BY <2>8, <3>1, <4>3, <4>4
    <3>2. CASE ~done
      BY <2>1, <2>9, <3>2 DEF Ascending
    <3>3. QED
      BY <3>1, <3>2
  <2>12. CASE stop
    <3>1. done
      BY <2>12
    <3>2. points' = {} /\ full'
      BY <1>1, <2>12
    <3>3. nm' # <<>> /\ nm'[Len(nm')].addr + nm'[Len(nm')].size = here
      BY <1>7, <2>7, <2>8, <3>1
    <3>4. Stopped'
      BY <1>6, <2>8, <2>10, <3>1, <3>2, <3>3 DEF Stopped, NmEnd, KeptIn, Covers, Addresses
    <3>5. QED
      BY <2>11, <3>2, <3>4 DEF Passed
  <2>13. CASE ~stop
    <3>1. /\ points' = points \ {x} /\ ~full' /\ lastType' = type
          /\ lastAddr' = IF type \notin {lastType, 0} THEN here ELSE lastAddr
          /\ overlap' = inside
      BY <1>1, <2>13
    <3>2. Passed' = Passed \cup {x}
      BY <1>1, <1>2, <1>6, <3>1 DEF Passed
    <3>3. (\A z \in Passed, y \in points : Precedes(z, y))'
      <4>1. ASSUME NEW z \in Passed', NEW y \in points'
            PROVE  Precedes(z, y)
        BY <1>1, <2>1, <3>1, <3>2 DEF IsNext
      <4>2. QED
        BY <1>6, <4>1
    <3>4. Going'
      <4>1. overlap' = {i \in 1 .. Len(e820') : /\ <<i, "start">> \in Passed'
                                                /\ <<i, "end">> \notin Passed'}
        BY <1>5, <2>5, <3>1, <3>2
      <4>2. lastType' = TypeOf(overlap)'
        BY <1>6, <3>1
      <4>3. CASE type = lastType
        <5>1. nm' = nm /\ lastAddr' = lastAddr /\ lastType' = lastType
          BY <2>9, <3>1, <4>3
        <5>2. lastType # 0 => /\ \E z \in Passed' : lastAddr = AddrOf(z)
                              /\ \A k \in 1 .. Len(nm) : NmEnd(k) <= lastAddr
          BY <2>2, <3>2 DEF Going
        <5>3. \A k \in 1 .. Len(nm) : \E z \in Passed' : NmEnd(k) <= AddrOf(z)
          BY <2>2, <3>2 DEF Going
        <5>4. ASSUME NEW a \in Addresses, NEW z \in Passed', a < AddrOf(z)
              PROVE  IF lastType # 0 /\ a >= lastAddr
                     THEN CoveringType(a) = lastType
                     ELSE KeptIn(nm, a)
          <6>1. AddrOf(z) <= here /\ AddrOf(z) \in Int /\ a \in Int
            BY <1>2, <2>3, <2>6, <3>2, <5>4, PointTypes DEF Passed, Addresses
          <6>2. a < here
            BY <2>6, <5>4, <6>1, SMT
          <6>3. QED
            BY <2>4, <5>4, <6>2
        <5>5. QED
          BY <1>6, <4>1, <4>2, <5>1, <5>2, <5>3, <5>4
             DEF Going, NmEnd, KeptIn, Covers, Addresses
      <4>4. CASE type # lastType
        <5>1. \A a \in Addresses : a < here => KeptIn(nm', a)
          BY <2>8, <2>9, <4>4
        <5>2. lastType' # 0 => lastAddr' = here
          BY <3>1, <4>4
        <5>3. x \in Passed'
          BY <3>2
        <5>4. \A k \in 1 .. Len(nm') : nm'[k].addr + nm'[k].size <= here
          BY <2>10
        <5>5. ASSUME NEW a \in Addresses, NEW z \in Passed', a < AddrOf(z)
              PROVE  KeptIn(nm', a) /\ ~(a >= here)
          <6>1. AddrOf(z) <= here /\ AddrOf(z) \in Int /\ a \in Int
            BY <1>2, <2>3, <2>6, <3>2, <5>5, PointTypes DEF Passed, Addresses
          <6>2. a < here
            BY <2>6, <5>5, <6>1, SMT
          <6>3. QED
            BY <2>6, <5>1, <5>5, <6>1, <6>2
        <5>6. QED
          BY <1>6, <4>1, <4>2, <5>2, <5>3, <5>4, <5>5
             DEF Going, NmEnd, KeptIn, Covers, Addresses
      <4>5. QED
        BY <4>3, <4>4
    <3>5. QED
      BY <2>11, <3>1, <3>3, <3>4
  <2>14. QED
    BY <2>12, <2>13
<1>11. QED
  BY <1>1, <1>2, <1>5, <1>6, <1>8, <1>9, <1>10 DEF SweepInv

(* When the sweep is over, the sanitized table is what it should be. *)
LEMMA SweepDone ==
  ASSUME TypeInv, SweepInv, pc = "sweep", points = {}, NonEmpty
  PROVE  Ascending /\ TypesKept
<1>1. /\ NmOK /\ Ascending /\ ~Unreasonable /\ lastAddr \in Addresses
      /\ IF full THEN Stopped ELSE Going
  BY DEF SweepInv
<1>2. ASSUME NEW a \in Addresses, KeptIn(nm, a)
      PROVE  {nm[i].type : i \in {k \in 1 .. Len(nm) : Covers(nm[k], a)}}
               = {CoveringType(a)} \ {0}
  BY <1>2, Zenon DEF KeptIn
<1>3. CASE full
  <2>1. ASSUME NEW a \in Addresses
        PROVE  IF a >= nm[Len(nm)].addr + nm[Len(nm)].size
               THEN \A k \in 1 .. Len(nm) : ~Covers(nm[k], a)
               ELSE KeptIn(nm, a)
    <3>1. a \in Int /\ \A k \in 1 .. Len(nm) : NmEnd(k) \in Int
      BY <1>1 DEF NmOK, Addresses
    <3>2. Len(nm) \in 1 .. Len(nm)
      BY <1>1, <1>3 DEF Stopped, NmOK
    <3>3. CASE a >= NmEnd(Len(nm))
      <4>1. ASSUME NEW k \in 1 .. Len(nm)
            PROVE  ~(a < NmEnd(k))
        <5>1. NmEnd(k) <= NmEnd(Len(nm))
          BY <1>1, <1>3 DEF Stopped
        <5>2. QED
          BY <3>1, <3>2, <3>3, <5>1, SMT
      <4>2. QED
        BY <3>3, <4>1 DEF Covers, NmEnd
    <3>4. CASE ~(a >= NmEnd(Len(nm)))
      <4>1. a < NmEnd(Len(nm))
        BY <3>1, <3>2, <3>4, SMT
      <4>2. QED
        BY <1>1, <1>3, <3>4, <4>1 DEF Stopped, NmEnd
    <3>5. QED
      BY <3>3, <3>4
  <2>2. QED
    BY <1>1, <1>2, <1>3, <2>1 DEF TypesKept
<1>4. CASE ~full
  <2>1. overlap = {}
    BY <1>1, <1>4 DEF Going, Passed, Points
  <2>2. lastType = 0
    BY <1>1, <1>4, <2>1, TypeOfType DEF Going, TypeInv
  <2>3. ASSUME NEW a \in Addresses
        PROVE  KeptIn(nm, a)
    <3>1. points \subseteq Points /\ \A y \in points : lastAddr <= AddrOf(y)
      OBVIOUS
    <3>2. IF lastType # 0 /\ a >= lastAddr
          THEN CoveringType(a) = lastType
          ELSE KeptIn(nm, a)
      BY <1>1, <1>4, <3>1, Decided
    <3>3. QED
      BY <2>2, <3>2
  <2>4. QED
    BY <1>1, <1>2, <1>4, <2>3 DEF TypesKept
<1>5. QED
  BY <1>3, <1>4

-----------------------------------------------------------------------------
(* The segments. *)

LEMMA FitSame ==
  ASSUME UNCHANGED <<machine, mode, nm>>
  PROVE  \A page : Fit(page)' <=> Fit(page)
BY DEF machine, Fit, FromTable, NonEmpty, UsableAll, CoveringType, UsablePage,
       GoodPage, Sees

(* A page of a segment cut from an entry of the sanitized table is usable. *)
LEMMA BuiltUsable ==
  ASSUME TypeInv, NmOK, TypesKept, at \in 1 .. Len(nm), nm[at].type \in Usable,
         ~InHole(nm[at].addr, NmEnd(at)),
         NEW c, c = Clip(nm[at].addr, NmEnd(at)),
         NEW page \in Up(c[1]) .. Down(c[2]) - 1
  PROVE  UsableAll(page)
<1> DEFINE s == nm[at].addr
           e == NmEnd(at)
<1>1. s \in Addresses /\ e \in Addresses
  <2>1. nm[at] \in NmEntry /\ e \in Addresses
    BY DEF NmOK
  <2>2. QED
    BY <2>1 DEF NmEntry
<1>2. ASSUME NEW a \in Addresses, s <= a, a < e
      PROVE  CoveringType(a) \in Usable
  <2>1. Covers(nm[at], a)
    BY <1>2 DEF Covers, NmEnd
  <2>2. nm[at].type \in {nm[i].type : i \in {k \in 1 .. Len(nm) : Covers(nm[k], a)}}
    BY <2>1
  <2>3. nm[at].type = CoveringType(a)
    BY <2>2 DEF TypesKept
  <2>4. QED
    BY <2>3
<1>3. /\ Word \in Nat \ {0} /\ ResStart \in Nat /\ ResEnd \in Nat /\ ResStart < ResEnd
      /\ PageSize \in Nat \ {0} /\ s \in Nat /\ e \in Nat
  BY <1>1, MapAssumption DEF Addresses
<1>4. /\ c[1] = (IF s > ResStart /\ s < ResEnd THEN ResEnd ELSE s)
      /\ c[2] = (IF e > ResStart /\ e < ResEnd THEN ResStart ELSE e)
      /\ ~(s > ResStart /\ s < ResEnd /\ e < ResEnd)
  BY DEF Clip, InHole
<1> HIDE DEF s, e
<1>5. c[1] \in Nat /\ c[2] \in Nat /\ s <= c[1] /\ c[2] <= e
  BY <1>3, <1>4, SMT
<1>6. PICK b \in Nat : /\ b = page * PageSize /\ c[1] <= b /\ b + PageSize <= c[2]
  BY <1>5, PagesBetween
<1>7. \A a \in Of(page) : a \in Addresses /\ s <= a /\ a < e
  BY <1>1, <1>3, <1>5, <1>6, SMT DEF Of, Addresses
<1>8. ASSUME Of(page) \cap Hole # {}
      PROVE  \A a \in Hole : a \in Addresses /\ s <= a /\ a < e
  <2>1. PICK a \in Hole : a \in Of(page)
    BY <1>8
  <2>2. a \in Int /\ ResStart <= a /\ a < ResEnd /\ b <= a /\ a < b + PageSize
    BY <1>3, <1>6, <2>1, SMT DEF Of, Hole
  <2>3. s <= ResStart /\ e >= ResEnd
    BY <1>3, <1>4, <1>5, <1>6, <2>2, SMT
  <2>4. QED
    BY <1>1, <1>3, <2>3, SMT DEF Hole, Addresses
<1>9. QED
  BY <1>2, <1>7, <1>8 DEF UsableAll

(* ... and one cut from an entry of a linuxbios table lies in that entry. *)
LEMMA LinuxbiosUsable ==
  ASSUME TypeInv, firmware = "linuxbios", NEW i \in 1 .. Len(e820), e820[i].type = RAM,
         NEW page \in Up(e820[i].addr) .. Down(End(e820[i])) - 1
  PROVE  UsablePage(page)
<1>1. PICK s \in Nat, z \in Nat, e \in Nat :
        s = e820[i].addr /\ z = e820[i].size /\ e = End(e820[i])
  BY PointTypes DEF Addresses
<1>2. Word \in Nat \ {0} /\ PageSize \in Nat \ {0}
  BY MapAssumption
<1>3. e <= s + z
  <2>1. e = (s + z) % Word
    BY <1>1 DEF End
  <2>2. QED
    BY <1>2, <2>1, SMT
<1>4. PICK b \in Nat : b = page * PageSize /\ s <= b /\ b + PageSize <= e
  BY <1>1, PagesBetween
<1>5. \A a \in Of(page) : s <= a /\ a < s + z
  BY <1>2, <1>3, <1>4, SMT DEF Of
<1>6. \A a \in Of(page) : Covers(e820[i], a)
  BY <1>1, <1>5 DEF Covers
<1>7. QED
  BY <1>6 DEF UsablePage

LEMMA AddSegmentFit ==
  ASSUME TypeInv, msegs <= E820Max, NEW start \in Nat, NEW end \in Nat,
         AddSegment(start, end),
         \A page \in Up(start) .. Down(end) - 1 : Fit(page),
         \A k \in 0 .. msegs - 1 : \A page \in Segment(k) : Fit(page),
         UNCHANGED <<machine, mode, nm>>
  PROVE  /\ pmap' \in [-1 .. E820Max -> SegmentType] /\ msegs' \in 0 .. E820Max + 1
         /\ msegs' = msegs + 1
         /\ (\A k \in 0 .. msegs - 1 : \A page \in Segment(k) : Fit(page))'
<1>1. /\ msegs \in Nat /\ msegs \in -1 .. E820Max /\ E820Max \in Nat
      /\ pmap \in [-1 .. E820Max -> SegmentType]
  BY MapAssumption, SMT DEF TypeInv
<1>2. Up(start) \in Nat /\ Down(end) \in Nat
  BY DownUp
<1>3. /\ pmap' = [pmap EXCEPT ![msegs] = [start |-> Up(start), end |-> Down(end)]]
      /\ msegs' = msegs + 1
  BY DEF AddSegment
<1>4. pmap' \in [-1 .. E820Max -> SegmentType]
  BY <1>1, <1>2, <1>3 DEF SegmentType
<1>5. msegs' \in 0 .. E820Max + 1
  BY <1>1, <1>3, SMT
<1>6. ASSUME NEW k \in 0 .. msegs' - 1, NEW page \in pmap'[k].start .. pmap'[k].end - 1
      PROVE  Fit(page)
  <2>1. k \in 0 .. msegs - 1 \/ k = msegs
    BY <1>1, <1>3, SMT
  <2>2. CASE k = msegs
    <3>1. pmap'[k] = [start |-> Up(start), end |-> Down(end)]
      BY <1>1, <1>3, <2>2
    <3>2. QED
      BY <1>6, <3>1
  <2>3. CASE k \in 0 .. msegs - 1
    <3>1. k \in -1 .. E820Max /\ k # msegs
      BY <1>1, <2>3, SMT
    <3>2. pmap'[k] = pmap[k]
      BY <1>1, <1>3, <3>1
    <3>3. QED
      BY <1>6, <2>3, <3>2 DEF Segment
  <2>4. QED
    BY <2>1, <2>2, <2>3
<1>7. QED
  BY <1>3, <1>4, <1>5, <1>6, FitSame DEF Segment

-----------------------------------------------------------------------------
(* The steps that make the map from a table. *)

LEMMA MemSizeInv ==
  ASSUME Inv, MemSize
  PROVE  Inv'
<1>1. TypeInv
  BY DEF Inv
<1>2. /\ pc' \in {"wrap", "linuxbios", "fallback", "sweep"}
      /\ e820' = e820 /\ firmware' = firmware /\ decode' = decode /\ mode' = mode
      /\ nm' = <<>> /\ overlap' = {} /\ lastType' = 0 /\ lastAddr' = 0
      /\ points' = (IF pc' = "sweep" THEN Points ELSE {})
      /\ full' = FALSE /\ moved' = FALSE /\ limit' = ResEnd /\ p' = 0 /\ gap' = 0
      /\ at' = (IF pc' = "linuxbios" THEN 1 ELSE 0)
      /\ msegs' = (IF pc' = "linuxbios" THEN 0 ELSE msegs)
      /\ pmap' = pmap
      /\ pc' = "wrap" => mode = "probe"
      /\ pc' = "linuxbios" => mode = "bios" /\ firmware = "linuxbios"
      /\ pc' = "fallback" => mode = "bios" /\ firmware = "pcbios"
      /\ pc' = "sweep" => mode = "bios" /\ firmware = "pcbios" /\ ~Unreasonable
  BY DEF MemSize, machine
<1>3. /\ Ptr \in Nat /\ ResEnd \in Nat /\ ResEnd < Ptr /\ E820Max \in Nat /\ E820Max >= 2
      /\ Word \in Nat \ {0}
  BY MapAssumption
<1>4. TypeInv'
  <2>1. limit' \in 0 .. Ptr - 1 /\ p' \in 0 .. Ptr - 1 /\ at' \in Nat /\ gap' \in Int
    BY <1>2, <1>3, SMT
  <2>2. msegs' \in 0 .. E820Max + 1
    BY <1>1, <1>2, <1>3, SMT DEF TypeInv
  <2>3. full' \in BOOLEAN /\ moved' \in BOOLEAN
    BY <1>2
  <2>4. QED
    BY <1>1, <1>2, <2>1, <2>2, <2>3 DEF TypeInv
<1>5. SweepInv'
  <2>1. SUFFICES ASSUME pc' = "sweep"
                 PROVE  SweepInv'
    BY DEF SweepInv
  <2>2. /\ Points' = Points /\ Unreasonable' = Unreasonable
        /\ points' = Points /\ 0 \in Addresses
    BY <1>2, <1>3, <2>1 DEF Points, Unreasonable, Addresses
  <2>3. Passed' = {}
    BY <2>2 DEF Passed
  <2>4. NmOK' /\ Len(nm') < E820Max
    BY <1>2, <1>3 DEF NmOK
  <2>5. TypeOf({})' = 0
    <3>1. TypeOf({}) = 0
      BY <1>1, TypeOfType DEF TypeInv
    <3>2. QED
      BY <3>1, <1>2 DEF TypeOf
  <2>6. Ascending'
    BY <1>2 DEF Ascending
  <2>7. Going'
    BY <1>2, <2>3, <2>5 DEF Going
  <2>8. QED
    BY <1>2, <2>1, <2>2, <2>3, <2>4, <2>6, <2>7 DEF SweepInv
<1>6. BuildInv'
  BY <1>2 DEF BuildInv
<1>7. ProbeInv'
  <2>1. SUFFICES ASSUME pc' = "wrap"
                 PROVE  ProbeInv'
    BY <1>2 DEF ProbeInv
  <2>2. /\ decode \in Decoded /\ decode \in Nat /\ decode >= ResEnd
        /\ \A d \in Decoded : d \in Nat /\ (d = ResEnd \/ \E e \in Decoded : d = 2 * e)
        /\ \A d \in Decoded : d >= ResEnd
    BY <1>1, MapAssumption DEF TypeInv
  <2>3. ASSUME NEW d \in Decoded
        PROVE  d = ResEnd \/ d >= 2 * ResEnd
    <3>1. CASE \E e \in Decoded : d = 2 * e
      <4>1. PICK e \in Decoded : d = 2 * e
        BY <3>1
      <4>2. e \in Nat /\ e >= ResEnd
        BY <2>2
      <4>3. QED
        BY <1>3, <4>1, <4>2, SMT
    <3>2. QED
      BY <2>2, <3>1
  <2>4. limit' >= ResEnd /\ decode' >= limit' /\ at' = 0
    BY <1>2, <1>3, <2>1, <2>2
  <2>5. QED
    BY <1>2, <2>1, <2>3, <2>4 DEF ProbeInv
<1>8. SegmentsFit'
  <2>1. SUFFICES ASSUME pc' = "linuxbios"
                 PROVE  SegmentsFit'
    BY <1>2 DEF SegmentsFit
  <2>2. 0 .. msegs' - 1 = {}
    BY <1>2, <2>1, SMT
  <2>3. QED
    BY <2>2 DEF SegmentsFit
<1>9. QED
  BY <1>4, <1>5, <1>6, <1>7, <1>8 DEF Inv

LEMMA SweepPointStep ==
  ASSUME Inv, SweepPoint
  PROVE  Inv'
<1>1. SweepInv'
  BY SweepPointInv DEF Inv
<1>2. /\ pc = "sweep" /\ UNCHANGED <<pc, machine, mode, probing, at, pmap, msegs, moved>>
      /\ full' \in BOOLEAN
  BY DEF SweepPoint
<1>3. TypeInv'
  BY <1>2 DEF Inv, TypeInv, machine, probing
<1>4. BuildInv' /\ ProbeInv' /\ SegmentsFit'
  BY <1>2 DEF BuildInv, ProbeInv, SegmentsFit
<1>5. QED
  BY <1>1, <1>3, <1>4 DEF Inv

LEMMA SweepOverStep ==
  ASSUME Inv, SweepOver
  PROVE  Inv'
<1>1. /\ pc = "sweep" /\ points = {} /\ at' = 1 /\ msegs' = 0
      /\ pc' = (IF nm = <<>> THEN "fallback" ELSE "build")
      /\ UNCHANGED <<machine, mode, probing, sanitizing, pmap, full, moved>>
  BY DEF SweepOver
<1>2. /\ UNCHANGED <<e820, firmware, decode, nm, limit, p, gap>>
  BY <1>1 DEF machine, probing, sanitizing
<1>3. TypeInv'
  <2>1. 0 \in 0 .. E820Max + 1
    BY MapAssumption, SMT
  <2>2. QED
    BY <1>1, <1>2, <2>1 DEF Inv, TypeInv
<1>4. mode = "bios" /\ firmware = "pcbios" /\ NmOK
  BY <1>1 DEF Inv, SweepInv
<1>5. NonEmpty => Ascending /\ TypesKept
  BY <1>1, SweepDone DEF Inv
<1>6. BuildInv'
  <2>1. /\ NmOK' <=> NmOK
        /\ NonEmpty' <=> NonEmpty
        /\ Ascending' <=> Ascending
        /\ TypesKept' <=> TypesKept
    BY <1>1, <1>2 DEF NmOK, NmEnd, NonEmpty, Ascending, TypesKept, CoveringType
  <2>2. 1 > 0
    BY SMT
  <2>3. QED
    BY <1>1, <1>2, <1>4, <1>5, <2>1, <2>2 DEF BuildInv
<1>7. SegmentsFit'
  <2>1. 0 .. msegs' - 1 = {}
    BY <1>1, SMT
  <2>2. QED
    BY <2>1 DEF SegmentsFit
<1>8. SweepInv' /\ ProbeInv'
  BY <1>1 DEF SweepInv, ProbeInv
<1>9. QED
  BY <1>3, <1>6, <1>7, <1>8 DEF Inv

(* A turn of memsize_820() or memsize_linuxbios(), with a segment or without. *)
LEMMA TurnInv ==
  ASSUME Inv, pc \in {"build", "linuxbios"}, at' = at + 1,
         UNCHANGED <<pc, machine, mode, probing, sanitizing, full, moved>>,
         at <= (IF pc = "build" THEN Len(nm) ELSE Len(e820)),
         \/ UNCHANGED <<pmap, msegs>>
         \/ \E start, end \in Nat :
              /\ AddSegment(start, end)
              /\ \A page \in Up(start) .. Down(end) - 1 : Fit(page)
  PROVE  Inv'
<1>1. TypeInv /\ BuildInv /\ SegmentsFit
  BY DEF Inv
<1>2. UNCHANGED <<e820, firmware, decode, nm, limit, p, gap>>
  BY DEF machine, probing, sanitizing
<1>3. at > msegs /\ at \in Nat /\ msegs \in Nat
  BY <1>1, MapAssumption, SMT DEF BuildInv, TypeInv
<1>4. msegs <= E820Max
  <2>1. at <= E820Max
    <3>1. CASE pc = "build"
      <4>1. nm \in Seq(NmEntry) /\ Len(nm) <= E820Max /\ at <= Len(nm)
        BY <1>1, <3>1 DEF BuildInv, NmOK
      <4>2. Len(nm) \in Nat /\ E820Max \in Nat
        BY <4>1, MapAssumption
      <4>3. QED
        BY <1>3, <4>1, <4>2
    <3>2. CASE pc = "linuxbios"
      <4>1. Len(e820) \in Nat /\ Len(e820) <= E820Max /\ at <= Len(e820)
        BY <1>1, <3>2 DEF TypeInv
      <4>2. QED
        BY <1>3, <4>1, MapAssumption, SMT
    <3>3. QED
      BY <3>1, <3>2
  <2>2. QED
    BY <1>3, <2>1, MapAssumption, SMT
<1>5. \A k \in 0 .. msegs - 1 : \A page \in Segment(k) : Fit(page)
  BY <1>1 DEF SegmentsFit
<1>6. /\ pmap' \in [-1 .. E820Max -> SegmentType] /\ msegs' \in 0 .. E820Max + 1
      /\ msegs' \in {msegs, msegs + 1}
      /\ (\A k \in 0 .. msegs - 1 : \A page \in Segment(k) : Fit(page))'
  <2>1. CASE UNCHANGED <<pmap, msegs>>
    <3>1. UNCHANGED <<machine, mode, nm>>
      BY <1>2
    <3>2. QED
      BY <1>1, <1>5, <2>1, <3>1, FitSame DEF TypeInv, Segment
  <2>2. CASE \E start, end \in Nat :
               /\ AddSegment(start, end)
               /\ \A page \in Up(start) .. Down(end) - 1 : Fit(page)
    <3>1. UNCHANGED <<machine, mode, nm>>
      BY <1>2
    <3>2. PICK start \in Nat, end \in Nat :
            /\ AddSegment(start, end)
            /\ \A page \in Up(start) .. Down(end) - 1 : Fit(page)
      BY <2>2
    <3>3. QED
      BY <1>1, <1>4, <1>5, <3>1, <3>2, AddSegmentFit
  <2>3. QED
    BY <2>1, <2>2
<1>7. at' \in Nat /\ at' > msegs'
  BY <1>3, <1>6, SMT
<1>8. TypeInv'
  BY <1>1, <1>2, <1>6, <1>7 DEF TypeInv
<1>9. BuildInv'
  <2>1. /\ NmOK' <=> NmOK
        /\ NonEmpty' <=> NonEmpty
        /\ Ascending' <=> Ascending
        /\ TypesKept' <=> TypesKept
    BY <1>2 DEF NmOK, NmEnd, NonEmpty, Ascending, TypesKept, CoveringType
  <2>2. QED
    BY <1>1, <1>2, <1>7, <2>1 DEF BuildInv
<1>10. SegmentsFit'
  BY <1>6 DEF SegmentsFit
<1>11. SweepInv' /\ ProbeInv'
  BY DEF SweepInv, ProbeInv
<1>12. QED
  BY <1>8, <1>9, <1>10, <1>11 DEF Inv

LEMMA BuildUsableStep ==
  ASSUME Inv, BuildUsable
  PROVE  Inv'
<1> DEFINE s == nm[at].addr
           e == NmEnd(at)
           c == Clip(s, e)
<1>1. /\ pc = "build" /\ at <= Len(nm) /\ nm[at].type \in Usable /\ at' = at + 1
      /\ UNCHANGED <<pc, machine, mode, probing, sanitizing, full, moved>>
      /\ IF InHole(s, e)
         THEN UNCHANGED <<pmap, testPages, msegs>>
         ELSE AddSegment(c[1], c[2])
  BY DEF BuildUsable, NmEnd
<1>2. TypeInv /\ NmOK /\ mode = "bios" /\ firmware = "pcbios"
      /\ (NonEmpty => TypesKept) /\ at > msegs
  BY <1>1 DEF Inv, BuildInv
<1>3. at \in 1 .. Len(nm)
  BY <1>1, <1>2, MapAssumption, SMT DEF TypeInv, NmOK
<1>4. s \in Addresses /\ e \in Addresses
  <2>1. nm[at] \in NmEntry /\ e \in Addresses
    BY <1>2, <1>3 DEF NmOK
  <2>2. QED
    BY <2>1 DEF NmEntry
<1>5. c[1] \in Nat /\ c[2] \in Nat
  BY <1>4, MapAssumption DEF Clip, Addresses
<1>6. CASE InHole(s, e)
  BY <1>1, <1>6, TurnInv
<1>7. CASE ~InHole(s, e)
  <2>1. ASSUME NEW page \in Up(c[1]) .. Down(c[2]) - 1
        PROVE  Fit(page)
    <3>1. NonEmpty => UsableAll(page)
      BY <1>1, <1>2, <1>3, <1>7, BuiltUsable
    <3>2. QED
      BY <1>2, <3>1 DEF Fit
  <2>2. AddSegment(c[1], c[2])
    BY <1>1, <1>7
  <2> HIDE DEF c
  <2>3. \E start, end \in Nat :
          /\ AddSegment(start, end)
          /\ \A page \in Up(start) .. Down(end) - 1 : Fit(page)
    BY <1>5, <2>1, <2>2
  <2>4. QED
    BY <1>1, <2>3, TurnInv
<1>8. QED
  BY <1>6, <1>7

LEMMA BuildOtherStep ==
  ASSUME Inv, BuildOther
  PROVE  Inv'
<1>1. /\ pc = "build" /\ at <= Len(nm) /\ at' = at + 1
      /\ UNCHANGED <<pc, machine, mode, probing, sanitizing, pmap, msegs, full, moved>>
  BY DEF BuildOther
<1>2. QED
  BY <1>1, TurnInv

LEMMA LinuxbiosEntryStep ==
  ASSUME Inv, LinuxbiosEntry
  PROVE  Inv'
<1>1. /\ pc = "linuxbios" /\ at <= Len(e820) /\ at' = at + 1
      /\ UNCHANGED <<pc, machine, mode, probing, sanitizing, full, moved>>
      /\ IF e820[at].type = RAM
         THEN AddSegment(e820[at].addr, End(e820[at]))
         ELSE UNCHANGED <<pmap, testPages, msegs>>
  BY DEF LinuxbiosEntry
<1>2. TypeInv /\ mode = "bios" /\ firmware = "linuxbios" /\ at > msegs
  BY <1>1 DEF Inv, BuildInv
<1>3. at \in 1 .. Len(e820)
  BY <1>1, <1>2, PointTypes, MapAssumption, SMT DEF TypeInv
<1>4. e820[at].addr \in Nat /\ End(e820[at]) \in Nat
  BY <1>2, <1>3, PointTypes DEF Addresses
<1>5. CASE e820[at].type # RAM
  BY <1>1, <1>5, TurnInv
<1>6. CASE e820[at].type = RAM
  <2>1. ASSUME NEW page \in Up(e820[at].addr) .. Down(End(e820[at])) - 1
        PROVE  Fit(page)
    <3>1. UsablePage(page)
      BY <1>2, <1>3, <1>6, LinuxbiosUsable
    <3>2. QED
      BY <1>2, <3>1 DEF Fit
  <2>2. \E start, end \in Nat :
          /\ AddSegment(start, end)
          /\ \A page \in Up(start) .. Down(end) - 1 : Fit(page)
    BY <1>1, <1>4, <1>6, <2>1
  <2>3. QED
    BY <1>1, <2>2, TurnInv
<1>7. QED
  BY <1>5, <1>6

LEMMA FallbackStep ==
  ASSUME Inv, Fallback
  PROVE  Inv'
<1>1. /\ pc = "fallback" /\ pc' = "sort" /\ at' = 0 /\ msegs' = 2
      /\ pmap' = [pmap EXCEPT
           ![0] = [start |-> 0, end |-> Down(ResStart)],
           ![1] = [start |-> Up(ResEnd), end |-> Extended + Down(ResEnd)]]
      /\ UNCHANGED <<machine, mode, probing, sanitizing, full, moved>>
  BY DEF Fallback
<1>2. UNCHANGED <<e820, firmware, decode, nm, limit, p, gap>>
  BY <1>1 DEF machine, probing, sanitizing
<1>3. TypeInv /\ nm = <<>> /\ mode = "bios" /\ firmware = "pcbios"
  BY <1>1 DEF Inv, BuildInv
<1>4. TypeInv'
  <2>1. /\ Down(ResStart) \in Nat /\ Up(ResEnd) \in Nat /\ Down(ResEnd) \in Nat
        /\ Extended \in Nat
    BY MapAssumption, DownUp
  <2>2. pmap' \in [-1 .. E820Max -> SegmentType]
    <3>1. Extended + Down(ResEnd) \in Nat
      BY <2>1
    <3>2. pmap \in [-1 .. E820Max -> SegmentType]
      BY <1>3 DEF TypeInv
    <3>3. QED
      BY <1>1, <2>1, <3>1, <3>2 DEF SegmentType
  <2>3. 2 \in 0 .. E820Max + 1
    BY MapAssumption, SMT
  <2>4. QED
    BY <1>1, <1>2, <1>3, <2>2, <2>3 DEF TypeInv
<1>5. \A page : Fit(page)'
  BY <1>2, <1>3, <1>1 DEF Fit, FromTable
<1>6. SegmentsFit'
  BY <1>5 DEF SegmentsFit
<1>7. SweepInv' /\ ProbeInv' /\ BuildInv'
  BY <1>1 DEF SweepInv, ProbeInv, BuildInv
<1>8. QED
  BY <1>4, <1>6, <1>7 DEF Inv

(* A step to the sort, to the screen or around it: no other part of the       *)
(* invariant speaks there, and the segments are the same, or copies.          *)
LEMMA SegmentsStep ==
  ASSUME Inv, pc \in {"build", "linuxbios", "sort", "ready"}, pc' \in {"sort", "ready"},
         UNCHANGED <<machine, mode, probing, sanitizing, msegs, full>>,
         at' \in Nat, moved' \in BOOLEAN, pmap' \in [-1 .. E820Max -> SegmentType],
         \A k \in 0 .. msegs - 1 : \E i \in 0 .. msegs - 1 : pmap'[k] = pmap[i]
  PROVE  Inv'
<1>1. UNCHANGED <<e820, firmware, decode, nm, limit, p, gap>>
  BY DEF machine, probing, sanitizing
<1>2. TypeInv /\ SegmentsFit
  BY DEF Inv
<1>3. TypeInv'
  BY <1>1, <1>2 DEF TypeInv
<1>4. SegmentsFit'
  <2>1. UNCHANGED <<machine, mode, nm>>
    BY <1>1
  <2>2. \A page : Fit(page)' <=> Fit(page)
    BY <2>1, FitSame
  <2>3. ASSUME NEW k \in 0 .. msegs - 1, NEW page \in pmap'[k].start .. pmap'[k].end - 1
        PROVE  Fit(page)
    <3>1. PICK i \in 0 .. msegs - 1 : pmap'[k] = pmap[i]
      OBVIOUS
    <3>2. page \in Segment(i)
      BY <2>3, <3>1 DEF Segment
    <3>3. QED
      BY <1>2, <3>2 DEF SegmentsFit
  <2>4. QED
    BY <2>2, <2>3 DEF SegmentsFit, Segment
<1>5. SweepInv' /\ ProbeInv' /\ BuildInv'
  BY DEF SweepInv, ProbeInv, BuildInv
<1>6. QED
  BY <1>3, <1>4, <1>5 DEF Inv

LEMMA BuiltStep ==
  ASSUME Inv, Built
  PROVE  Inv'
<1>1. /\ pc \in {"build", "linuxbios"} /\ pc' = "sort" /\ at' = 0
      /\ UNCHANGED <<machine, mode, probing, sanitizing, msegs, pmap, full, moved>>
  BY DEF Built
<1>2. TypeInv /\ at' \in Nat
  BY <1>1 DEF Inv
<1>3. QED
  BY <1>1, <1>2, SegmentsStep DEF TypeInv

(* A turn of sort_pmap() copies segments. *)
LEMMA ShiftCopies ==
  ASSUME TypeInv, at \in 0 .. msegs - 1, NEW j \in Int, NEW k \in 0 .. msegs - 1
  PROVE  \E i \in 0 .. msegs - 1 : Shift(at, j)[k] = pmap[i]
<1>1. msegs \in Nat /\ at \in Nat /\ k \in Nat /\ k \in DOMAIN pmap
  <2>1. msegs \in Nat /\ msegs <= E820Max + 1 /\ E820Max \in Nat
    BY MapAssumption, SMT DEF TypeInv
  <2>2. k \in -1 .. E820Max
    BY <2>1, SMT
  <2>3. QED
    BY <2>1, <2>2 DEF TypeInv
<1>2. CASE k = j
  BY <1>1, <1>2 DEF Shift
<1>3. CASE k # j /\ k \in j .. at - 1
  <2>1. k + 1 \in 0 .. msegs - 1
    BY <1>1, <1>3, SMT
  <2>2. Shift(at, j)[k] = pmap[k + 1]
    BY <1>1, <1>3 DEF Shift
  <2>3. QED
    BY <2>1, <2>2
<1>4. CASE k # j /\ k \notin j .. at - 1
  BY <1>1, <1>4 DEF Shift
<1>5. QED
  BY <1>2, <1>3, <1>4

LEMMA PlaceType ==
  ASSUME TypeInv, at \in 0 .. msegs - 1
  PROVE  Place(at) \in -1 .. at
<1> DEFINE below == {j \in 0 .. at - 1 : pmap[at].start > pmap[j].start}
<1>1. at \in Nat
  BY DEF TypeInv
<1>2. CASE below = {}
  <2>1. Place(at) = -1
    BY <1>2 DEF Place
  <2>2. QED
    BY <1>1, <2>1, SMT
<1>3. CASE below # {}
  <2>1. Max(below) \in 0 .. at - 1
    <3>1. below \subseteq 0 .. at - 1
      OBVIOUS
    <3>2. below \subseteq Int /\ at - 1 \in Int /\ \A x \in below : x <= at - 1
      BY <1>1, SMT
    <3> HIDE DEF below
    <3>3. Max(below) \in below
      BY <1>3, <3>2, MaxOf
    <3>4. QED
      BY <3>1, <3>3
  <2>2. Place(at) = Max(below) + 1
    BY <1>3 DEF Place
  <2> HIDE DEF below
  <2>3. QED
    BY <1>1, <2>1, <2>2, SMT
<1>4. QED
  BY <1>2, <1>3

LEMMA ShiftType ==
  ASSUME TypeInv, at \in 0 .. msegs - 1, NEW j \in -1 .. at
  PROVE  Shift(at, j) \in [-1 .. E820Max -> SegmentType]
<1>1. msegs \in Nat /\ at \in Nat /\ msegs <= E820Max + 1 /\ E820Max \in Nat
  BY MapAssumption, SMT DEF TypeInv
<1>2. pmap \in [-1 .. E820Max -> SegmentType] /\ at \in -1 .. E820Max
  BY <1>1, SMT DEF TypeInv
<1>3. \A k \in -1 .. E820Max : k \in j .. at - 1 => k + 1 \in -1 .. E820Max
  BY <1>1, SMT
<1>4. QED
  BY <1>2, <1>3 DEF Shift

LEMMA SortTurnStep ==
  ASSUME Inv, SortTurn
  PROVE  Inv'
<1>1. /\ pc = "sort" /\ pc' = pc /\ at < msegs /\ at' = at + 1
      /\ pmap' = (IF at # Place(at) THEN Shift(at, Place(at)) ELSE pmap)
      /\ moved' = (moved \/ (at # 0 /\ at # Place(at)))
      /\ UNCHANGED <<machine, mode, probing, sanitizing, msegs, full>>
  BY DEF SortTurn
<1>2. TypeInv
  BY DEF Inv
<1>3. at \in 0 .. msegs - 1 /\ at' \in Nat /\ moved' \in BOOLEAN
  <2>1. at \in Nat /\ msegs \in Nat
    BY <1>2, MapAssumption, SMT DEF TypeInv
  <2>2. QED
    BY <1>1, <2>1, SMT
<1>4. Place(at) \in -1 .. at /\ Place(at) \in Int
  BY <1>2, <1>3, PlaceType
<1>5. pmap' \in [-1 .. E820Max -> SegmentType]
  <2>1. pmap \in [-1 .. E820Max -> SegmentType]
    BY <1>2 DEF TypeInv
  <2>2. QED
    BY <1>1, <1>2, <1>3, <1>4, <2>1, ShiftType
<1>6. \A k \in 0 .. msegs - 1 : \E i \in 0 .. msegs - 1 : pmap'[k] = pmap[i]
  BY <1>1, <1>2, <1>3, <1>4, ShiftCopies
<1>7. pc \in {"build", "linuxbios", "sort", "ready"} /\ pc' \in {"sort", "ready"}
  BY <1>1
<1>8. QED
  BY <1>1, <1>3, <1>5, <1>6, <1>7, SegmentsStep

(* The steps that only choose pages *)
LEMMA ReadyStep ==
  ASSUME Inv, Sorted \/ AllMemory \/ \E page \in Pages : SetLower(page) \/ SetUpper(page)
  PROVE  Inv'
<1>1. /\ pc \in {"sort", "ready"} /\ pc' = "ready"
      /\ UNCHANGED <<machine, mode, probing, sanitizing, at, pmap, msegs, full, moved>>
  BY DEF Sorted, AllMemory, SetLower, SetUpper
<1>2. TypeInv
  BY DEF Inv
<1>3. QED
  BY <1>1, <1>2, SegmentsStep DEF TypeInv

LEMMA RestartStep ==
  ASSUME Inv, Restart
  PROVE  Inv'
<1>1. /\ pc' = "start" /\ UNCHANGED <<machine, probing, at, pmap, msegs, full, moved>>
  BY DEF Restart
<1>2. TypeInv'
  BY <1>1 DEF Inv, TypeInv, machine, probing
<1>3. SweepInv' /\ BuildInv' /\ ProbeInv' /\ SegmentsFit'
  BY <1>1 DEF SweepInv, BuildInv, ProbeInv, SegmentsFit
<1>4. QED
  BY <1>2, <1>3 DEF Inv

-----------------------------------------------------------------------------
(* The addresses that are probed. *)

LEMMA GridFacts ==
  /\ PageSize \in Nat \ {0} /\ Step \in Nat \ {0} /\ Ptr \in Nat \ {0}
  /\ ResStart \in Nat /\ ResEnd \in Nat /\ ImageEnd \in Nat
  /\ Up(ImageEnd) \in Nat \ {0} /\ First \in Nat /\ ImageEnd <= First /\ First <= ResStart
  /\ ResStart + 2 <= ResEnd /\ ResEnd < Ptr /\ 0 < ImageEnd /\ Step <= ImageEnd
  /\ 2 * Step <= ImageEnd /\ ResStart + Step <= ResEnd
<1>1. /\ PageSize \in Nat \ {0} /\ PageSize >= 2 /\ Step \in Nat \ {0} /\ Ptr \in Nat \ {0}
      /\ ResStart \in Nat /\ ResEnd \in Nat /\ ImageEnd \in Nat /\ ResEnd < Ptr
      /\ ResStart < ResEnd /\ 2 * Step <= ImageEnd /\ ImageEnd <= ResStart
      /\ Step <= ResEnd - ResStart
  BY MapAssumption
<1>2. PICK u \in Nat :
        u = Up(ImageEnd) /\ ImageEnd <= u * PageSize /\ u * PageSize < ImageEnd + PageSize
  BY <1>1, DownUp
<1>3. PICK r \in Nat : r * PageSize = ResStart
  BY <1>1, MapAssumption, WholePages, DownUp
<1>4. PICK e \in Nat : e * PageSize = ResEnd
  BY <1>1, MapAssumption, WholePages, DownUp
<1>5. u * PageSize \in Int
  BY <1>1, Monotone
<1>6. u # 0
  <2>1. CASE u = 0
    <3>1. u * PageSize = 0
      BY <1>1, <2>1, SMT
    <3>2. QED
      BY <1>1, <1>2, <3>1, SMT
  <2>2. QED
    BY <2>1
<1>7. u * PageSize <= ResStart
  <2>1. CASE r < u
    <3>1. r * PageSize + PageSize <= u * PageSize
      BY <1>1, <2>1, Monotone
    <3>2. QED
      BY <1>1, <1>2, <1>3, <1>5, <3>1, SMT
  <2>2. CASE u <= r
    BY <1>1, <1>3, <2>2, Monotone
  <2>3. QED
    BY <2>1, <2>2, SMT
<1>8. ResStart + 2 <= ResEnd
  <2>1. CASE e <= r
    <3>1. e * PageSize <= r * PageSize
      BY <1>1, <2>1, Monotone
    <3>2. QED
      BY <1>1, <1>3, <1>4, <3>1, SMT
  <2>2. CASE r < e
    <3>1. r * PageSize + PageSize <= e * PageSize
      BY <1>1, <2>2, Monotone
    <3>2. QED
      BY <1>1, <1>3, <1>4, <3>1, SMT
  <2>3. QED
    BY <2>1, <2>2, SMT
<1>9. First \in Nat /\ First = u * PageSize
  <2>1. u * PageSize >= 0
    BY <1>1, <1>2, <1>5, SMT
  <2>2. QED
    BY <1>2, <1>5, <2>1, SMT DEF First
<1>10. QED
  BY <1>1, <1>2, <1>6, <1>7, <1>8, <1>9, SMT

LEMMA FromCases ==
  ASSUME NEW x \in 0 .. Ptr - 1
  PROVE  /\ From(x) \in 0 .. Ptr - 1
         /\ \/ From(x) = x + Step /\ x + Step < Ptr
            \/ From(x) < Step /\ x + Step >= Ptr
<1>1. Ptr \in Nat \ {0} /\ Step \in Nat /\ Step < Ptr
  BY GridFacts, SMT
<1>2. CASE x + Step < Ptr
  <2>1. x + Step \in 0 .. Ptr - 1
    BY <1>1, <1>2, SMT
  <2>2. From(x) = x + Step
    BY <1>1, <2>1, ModSmall DEF From
  <2>3. QED
    BY <1>2, <2>1, <2>2
<1>3. CASE x + Step >= Ptr
  <2>1. (x + Step) % Ptr = x + Step - Ptr
    BY <1>1, <1>3, SMT
  <2>2. QED
    BY <1>1, <1>3, <2>1, SMT DEF From
<1>4. QED
  BY <1>1, <1>2, <1>3, SMT

LEMMA GridPages ==
  ASSUME NEW x \in Nat, OnGrid(x)
  PROVE  x % PageSize = 0 /\ First <= x
<1>1. PageSize \in Nat \ {0} /\ Step \in Nat \ {0} /\ Step % PageSize = 0
  BY GridFacts, MapAssumption
<1>2. PICK b \in {First, ResEnd} : (x - b) % Step = 0 /\ b <= x
  BY DEF OnGrid
<1>3. b \in Nat /\ First <= b
  BY <1>2, GridFacts, SMT
<1>4. b % PageSize = 0
  <2>1. First % PageSize = 0
    BY <1>1, GridFacts, MultipleMod DEF First
  <2>2. QED
    BY <1>2, <2>1, MapAssumption
<1>5. x - b \in Int
  BY <1>3, SMT
<1>6. PICK n \in Int : x - b = n * Step
  <2>1. /\ (x - b) \div Step \in Int
        /\ x - b = Step * ((x - b) \div Step) + ((x - b) % Step)
    BY <1>1, <1>5, DivMod
  <2>2. PICK n \in Int : n = (x - b) \div Step
    BY <2>1
  <2>3. x - b = Step * n
    BY <1>1, <1>2, <2>1, <2>2, SMT
  <2>4. QED
    BY <1>1, <2>3, SMT
<1>7. PICK m \in Int : Step = m * PageSize
  <2>1. /\ Step \div PageSize \in Int
        /\ Step = PageSize * (Step \div PageSize) + (Step % PageSize)
    BY <1>1, DivMod
  <2>2. PICK m \in Int : m = Step \div PageSize
    BY <2>1
  <2>3. Step = PageSize * m
    BY <1>1, <2>1, <2>2, SMT
  <2>4. QED
    BY <1>1, <2>3, SMT
<1>8. x - b = (n * m) * PageSize /\ n * m \in Int
  BY <1>1, <1>6, <1>7, SMT
<1>9. (x - b) % PageSize = 0
  BY <1>1, <1>8, MultipleMod
<1>10. PICK d \in Int : d = x - b /\ d % PageSize = 0
  BY <1>5, <1>9
<1>11. b \in Int
  BY <1>3
<1>12. (d + b) % PageSize = 0
  BY <1>1, <1>4, <1>10, <1>11, SumMod
<1>13. d + b = x
  BY <1>3, <1>10, SMT
<1>14. QED
  BY <1>2, <1>3, <1>12, <1>13, GridFacts, SMT

(* The next address on the grid; it does not jump over the hole. *)
LEMMA NextOnGrid ==
  ASSUME NEW x \in 0 .. Ptr - 1, OnGrid(x), ~Reserved(x)
  PROVE  /\ From(x) \in 0 .. Ptr - 1
         /\ From(x) >= ImageEnd => OnGrid(From(x)) /\ From(x) = x + Step
         /\ From(x) < ImageEnd => From(x) < Step /\ x + Step >= Ptr
         /\ x < ResEnd => x < ResStart /\ From(x) = x + Step /\ From(x) < ResEnd
<1>1. /\ From(x) \in 0 .. Ptr - 1
      /\ \/ From(x) = x + Step /\ x + Step < Ptr
         \/ From(x) < Step /\ x + Step >= Ptr
  BY FromCases
<1>2. x \in Nat /\ First <= x
  <2>1. x \in Nat
    BY GridFacts
  <2>2. QED
    BY <2>1, GridPages
<1>3. x < ResEnd => x < ResStart
  BY <1>2, GridFacts DEF Reserved
<1>4. x < ResEnd => From(x) = x + Step /\ From(x) < ResEnd
  BY <1>1, <1>2, <1>3, GridFacts, SMT
<1>5. ASSUME From(x) = x + Step
      PROVE  OnGrid(From(x)) /\ From(x) >= ImageEnd
  <2>1. ASSUME NEW b \in Nat, (x - b) % Step = 0
        PROVE  ((x + Step) - b) % Step = 0
    <3>1. Step % Step = 0
      <4>1. (1 * Step) % Step = 0 /\ 1 * Step = Step
        BY GridFacts, MultipleMod
      <4>2. QED
        BY <4>1
    <3>2. PICK d \in Int : d = x - b /\ d % Step = 0
      BY <1>2, <2>1
    <3>3. (d + Step) % Step = 0 /\ d + Step = (x + Step) - b
      <4>1. Step \in Nat \ {0} /\ Step \in Int
        BY GridFacts
      <4>2. (d + Step) % Step = 0
        BY <3>1, <3>2, <4>1, SumMod
      <4>3. QED
        BY <1>2, <3>2, <4>1, <4>2, SMT
    <3>4. QED
      BY <3>3
  <2>2. CASE x < ResEnd
    <3>1. (x - First) % Step = 0
      BY <1>2, <2>2, GridFacts DEF OnGrid
    <3>2. ((x + Step) - First) % Step = 0
      BY <2>1, <3>1, GridFacts
    <3>3. First <= x + Step /\ x + Step < ResEnd /\ x + Step >= ImageEnd
      BY <1>2, <1>4, <2>2, GridFacts, SMT
    <3>4. PICK y : y = x + Step
      OBVIOUS
    <3>5. (y - First) % Step = 0 /\ First <= y /\ y < ResEnd /\ y >= ImageEnd
      BY <3>2, <3>3, <3>4
    <3>6. OnGrid(y)
      BY <3>5, Zenon DEF OnGrid
    <3>7. QED
      BY <1>5, <3>4, <3>5, <3>6
  <2>3. CASE x >= ResEnd
    <3>1. (x - ResEnd) % Step = 0
      BY <1>2, <2>3, GridFacts DEF OnGrid
    <3>2. ((x + Step) - ResEnd) % Step = 0
      BY <2>1, <3>1, GridFacts
    <3>3. ResEnd <= x + Step /\ x + Step >= ImageEnd
      BY <1>2, <2>3, GridFacts, SMT
    <3>4. PICK y : y = x + Step
      OBVIOUS
    <3>5. (y - ResEnd) % Step = 0 /\ ResEnd <= y /\ y >= ImageEnd
      BY <3>2, <3>3, <3>4
    <3>6. OnGrid(y)
      BY <3>5, Zenon DEF OnGrid
    <3>7. QED
      BY <1>5, <3>4, <3>5, <3>6
  <2>4. QED
    BY <1>2, <2>2, <2>3, GridFacts, SMT
<1>6. QED
  BY <1>1, <1>3, <1>4, <1>5, GridFacts, SMT

(* The probe that stands for an address is the last before it. *)
LEMMA ProbeOfIs ==
  ASSUME NEW x \in 0 .. Ptr - 1, OnGrid(x), ~Reserved(x), NEW page \in Nat,
         x <= page * PageSize, page * PageSize < x + Step
  PROVE  ProbeOf(page) = x
<1> DEFINE T == {z \in Probes : z <= page * PageSize}
<1>1. x \in Nat /\ page * PageSize \in Int /\ Step \in Nat \ {0}
  BY GridFacts, Monotone
<1>2. First <= x /\ (x < ResEnd => x < ResStart)
  BY <1>1, GridPages, GridFacts DEF Reserved
<1>3. /\ ProbedFrom(First, ResStart) \subseteq Probes /\ ProbedFrom(ResEnd, Ptr) \subseteq Probes
      /\ \A z \in Probes : z \in ProbedFrom(First, ResStart) \/ z \in ProbedFrom(ResEnd, Ptr)
  BY DEF Probes, First
<1>4. \A z \in Probes : z \in Int
  BY <1>3, GridFacts DEF ProbedFrom
<1>5. x \in Probes
  <2>1. CASE x < ResEnd
    <3>1. (x - First) % Step = 0 /\ x \in First .. ResStart - 1
      BY <1>1, <1>2, <2>1, GridFacts, SMT DEF OnGrid
    <3>2. QED
      BY <1>3, <3>1 DEF ProbedFrom
  <2>2. CASE x >= ResEnd
    <3>1. (x - ResEnd) % Step = 0 /\ x \in ResEnd .. Ptr - 1
      BY <1>1, <1>2, <2>2, GridFacts, SMT DEF OnGrid
    <3>2. QED
      BY <1>3, <3>1 DEF ProbedFrom
  <2>3. QED
    BY <1>1, <2>1, <2>2, GridFacts, SMT
<1>6. ASSUME NEW z \in T
      PROVE  z <= x
  <2>1. z \in Int /\ z < x + Step /\ z <= page * PageSize
    BY <1>1, <1>4, <1>6, SMT
  <2>2. CASE z \in ProbedFrom(First, ResStart)
    <3>1. z < ResStart /\ (z - First) % Step = 0
      BY <2>2, GridFacts DEF ProbedFrom
    <3>2. CASE x < ResEnd
      <4>1. (x - First) % Step = 0 /\ First \in Int /\ x \in Int
        BY <1>1, <3>2, GridFacts DEF OnGrid
      <4>2. QED
        BY <1>1, <2>1, <3>1, <4>1, SameResidue
    <3>3. CASE x >= ResEnd
      BY <1>1, <2>1, <3>1, <3>3, GridFacts, SMT
    <3>4. QED
      BY <1>1, <3>2, <3>3, GridFacts, SMT
  <2>3. CASE z \in ProbedFrom(ResEnd, Ptr)
    <3>1. z >= ResEnd /\ (z - ResEnd) % Step = 0
      BY <2>3, GridFacts DEF ProbedFrom
    <3>2. x >= ResEnd
      BY <1>1, <1>2, <2>1, <3>1, GridFacts, SMT
    <3>3. (x - ResEnd) % Step = 0 /\ ResEnd \in Int /\ x \in Int
      BY <1>1, <3>2, GridFacts DEF OnGrid
    <3>4. QED
      BY <1>1, <2>1, <3>1, <3>3, SameResidue
  <2>4. QED
    BY <1>3, <1>6, <2>2, <2>3
<1>7. T \subseteq Int /\ x \in T /\ T # {} /\ x \in Int
  BY <1>1, <1>4, <1>5
<1> HIDE DEF T
<1>8. Max(T) \in T /\ \A z \in T : z <= Max(T)
  BY <1>6, <1>7, MaxOf
<1>9. Max(T) = x
  <2>1. PICK m \in T : m = Max(T)
    BY <1>8
  <2>2. m \in Int /\ m <= x /\ x <= m
    BY <1>6, <1>7, <1>8, <2>1
  <2>3. QED
    BY <1>7, <2>1, <2>2, SMT
<1>10. QED
  BY <1>9 DEF ProbeOf, T

LEMMA SeenPage ==
  ASSUME NEW x \in 0 .. Ptr - 1, OnGrid(x), ~Reserved(x), Sees(x), NEW page \in Nat,
         x <= page * PageSize, page * PageSize < x + Step,
         page >= Up(ImageEnd), page * PageSize \notin Hole, page * PageSize < decode
  PROVE  GoodPage(page)
BY ProbeOfIs DEF GoodPage

-----------------------------------------------------------------------------
(* The steps of memsize_probe(). *)

LEMMA GoodSame ==
  ASSUME UNCHANGED machine
  PROVE  \A page : GoodPage(page)' <=> GoodPage(page)
BY DEF machine, GoodPage, Sees

LEMMA DecodeType ==
  ASSUME TypeInv
  PROVE  decode \in Nat \ {0} /\ decode >= ResEnd
BY MapAssumption DEF TypeInv

(* Where an address and the address 0 are the same, all of what is decoded is *)
(* below it.                                                                  *)
LEMMA WrapsThere ==
  ASSUME TypeInv, limit >= ResEnd, decode >= limit
  PROVE  Wraps <=> decode = limit
<1>1. decode \in Nat \ {0} /\ limit \in Nat /\ limit # 0
  BY DecodeType, GridFacts, SMT DEF TypeInv
<1>2. CASE decode = limit
  <2>1. (1 * limit) % limit = 0 /\ 1 * limit = limit
    BY <1>1, MultipleMod
  <2>2. QED
    BY <1>2, <2>1 DEF Wraps
<1>3. CASE decode # limit
  <2>1. limit \in 0 .. decode - 1
    BY <1>1, <1>3, SMT
  <2>2. limit % decode = limit
    BY <1>1, <2>1, ModSmall
  <2>3. QED
    BY <1>1, <1>3, <2>2 DEF Wraps
<1>4. QED
  BY <1>2, <1>3

LEMMA FindLimitStep ==
  ASSUME Inv, FindLimit
  PROVE  Inv'
<1>1. /\ pc = "wrap"
      /\ UNCHANGED <<machine, mode, gap, sanitizing, at, msegs, full, moved>>
  BY DEF FindLimit
<1>2. UNCHANGED <<e820, firmware, ram, decode, nm, gap>>
  BY <1>1 DEF machine, sanitizing
<1>3. /\ TypeInv /\ mode = "probe" /\ at = 0 /\ limit >= ResEnd /\ decode >= limit
      /\ \A d \in Decoded : d >= limit => d = limit \/ d >= 2 * limit
  BY <1>1 DEF Inv, ProbeInv
<1>4. /\ decode \in Nat \ {0} /\ decode \in Decoded /\ limit \in Nat /\ limit # 0
      /\ Ptr \in Nat
  BY <1>3, DecodeType, GridFacts, SMT DEF TypeInv
<1>5. Wraps <=> decode = limit
  BY <1>3, WrapsThere
<1>6. ~Wraps => decode >= 2 * limit
  BY <1>3, <1>4, <1>5
<1>7. CASE ~Wraps /\ 2 * limit < Ptr
  <2>1. limit' = 2 * limit /\ UNCHANGED <<pc, p, pmap>>
    BY <1>7 DEF FindLimit
  <2>2. TypeInv'
    <3>1. limit' \in 0 .. Ptr - 1
      BY <1>4, <1>7, <2>1, SMT
    <3>2. QED
      BY <1>1, <1>2, <1>3, <2>1, <3>1 DEF TypeInv
  <2>3. ASSUME NEW d \in Decoded, d >= 2 * limit
        PROVE  d = 2 * limit \/ d >= 2 * (2 * limit)
    <3>1. d \in Nat /\ (d = ResEnd \/ \E e \in Decoded : d = 2 * e)
      BY MapAssumption
    <3>2. CASE d = ResEnd
      BY <1>3, <1>4, <2>3, <3>1, <3>2, GridFacts, SMT
    <3>3. CASE \E e \in Decoded : d = 2 * e
      <4>1. PICK e \in Decoded : d = 2 * e
        BY <3>3
      <4>2. e \in Nat
        BY MapAssumption
      <4>3. e >= limit
        BY <1>4, <2>3, <4>1, <4>2, SMT
      <4>4. e = limit \/ e >= 2 * limit
        BY <1>3, <4>3
      <4>5. QED
        BY <1>4, <4>1, <4>2, <4>4, SMT
    <3>4. QED
      BY <3>1, <3>2, <3>3
  <2>4. limit' >= ResEnd /\ decode' >= limit'
    BY <1>2, <1>3, <1>4, <1>6, <1>7, <2>1, GridFacts, SMT
  <2>5. ProbeInv'
    BY <1>1, <1>3, <2>1, <2>3, <2>4 DEF ProbeInv
  <2>6. SweepInv' /\ BuildInv' /\ SegmentsFit'
    BY <1>1, <2>1 DEF SweepInv, BuildInv, SegmentsFit
  <2>7. QED
    BY <2>2, <2>5, <2>6 DEF Inv
<1>8. CASE ~(~Wraps /\ 2 * limit < Ptr)
  <2>1. /\ limit' = (IF Wraps THEN limit ELSE Ptr) - 1
        /\ pmap' = [pmap EXCEPT ![0].start = Up(ImageEnd)]
        /\ p' = Up(ImageEnd) * PageSize
        /\ pc' = "probe"
    BY <1>8 DEF FindLimit
  <2>2. p' = First
    BY <2>1 DEF First
  <2>3. limit' \in 0 .. Ptr - 1 /\ limit' < decode /\ limit' >= ResEnd - 1
    <3>1. CASE Wraps
      <4>1. limit' = limit - 1 /\ limit \in 0 .. Ptr - 1
        BY <1>3, <2>1, <3>1 DEF TypeInv
      <4>2. QED
        BY <1>3, <1>4, <4>1, GridFacts, SMT
    <3>2. CASE ~Wraps
      <4>1. limit' = Ptr - 1 /\ 2 * limit >= Ptr
        BY <1>4, <1>8, <2>1, <3>2, SMT
      <4>2. QED
        BY <1>4, <1>6, <3>2, <4>1, GridFacts, SMT
    <3>3. QED
      BY <3>1, <3>2
  <2>4. First \in 0 .. Ptr - 1 /\ First < limit' /\ First >= ImageEnd /\ First < ResEnd
    BY <2>3, GridFacts, SMT
  <2>5. 0 \in -1 .. E820Max /\ 0 <= E820Max
    BY MapAssumption, SMT
  <2>6. pmap'[0].start = Up(ImageEnd) /\ pmap' \in [-1 .. E820Max -> SegmentType]
    <3>1. pmap \in [-1 .. E820Max -> SegmentType]
      BY <1>3 DEF TypeInv
    <3>2. QED
      BY <2>1, <2>5, <3>1, GridFacts DEF SegmentType
  <2>7. TypeInv'
    BY <1>1, <1>2, <1>3, <2>1, <2>2, <2>3, <2>4, <2>6 DEF TypeInv
  <2>8. OnGrid(First)
    <3>1. First - First = 0 /\ 0 % Step = 0
      <4>1. 0 \in 0 .. Step - 1 /\ Step \in Nat \ {0}
        BY GridFacts, SMT
      <4>2. 0 % Step = 0
        BY <4>1, ModSmall
      <4>3. QED
        BY <4>2, GridFacts
    <3>2. QED
      BY <2>4, <3>1, GridFacts DEF OnGrid
  <2>9. OnGrid(p)' /\ Inside'
    BY <2>2, <2>4, <2>8 DEF OnGrid, Inside
  <2>10. OpenInv'
    <3>1. Up(ImageEnd) * PageSize = First /\ First <= ResStart
      BY GridFacts DEF First
    <3>2. ASSUME NEW page \in Nat, page >= Up(ImageEnd)
          PROVE  ~(page * PageSize < First)
      <4>1. Up(ImageEnd) * PageSize <= page * PageSize /\ page * PageSize \in Int
        BY <3>2, GridFacts, Monotone
      <4>2. QED
        BY <3>1, <4>1, GridFacts, SMT
    <3>3. p' < ResEnd
      BY <2>2, <2>4
    <3>4. Up(ImageEnd) >= Up(ImageEnd)
      BY GridFacts
    <3>5. QED
      BY <1>1, <1>3, <2>2, <2>6, <2>9, <3>1, <3>2, <3>3, <3>4 DEF OpenInv
  <2>11. ProbeInv'
    <3>1. 0 .. at' - 1 = {}
      BY <1>1, <1>3, SMT
    <3>2. Up(ImageEnd) # 0
      BY GridFacts
    <3>3. mode' = "probe" /\ at' = 0 /\ at' <= E820Max /\ limit' < decode'
      BY <1>1, <1>2, <1>3, <2>3, <2>5
    <3>4. QED
      BY <2>1, <2>3, <2>6, <2>9, <2>10, <3>1, <3>2, <3>3 DEF ProbeInv
  <2>12. SweepInv' /\ BuildInv' /\ SegmentsFit'
    BY <2>1 DEF SweepInv, BuildInv, SegmentsFit
  <2>13. QED
    BY <2>7, <2>11, <2>12 DEF Inv
<1>9. QED
  BY <1>7, <1>8

LEMMA CloseInv ==
  ASSUME Inv, pc = "probe", NEW last \in Nat, Close(last),
         \A page \in Nat : page >= pmap[at].start /\ page < last => GoodPage(page),
         p' \in 0 .. Ptr - 1, p' >= ImageEnd, OnGrid(p')
  PROVE  Inv'
<1>1. /\ at < E820Max /\ at' = at + 1 /\ gap' = GapSteps /\ pc' = "gap"
      /\ pmap' = [pmap EXCEPT ![at].end = last, ![at + 1].start = 0]
      /\ UNCHANGED <<machine, mode, limit, sanitizing, msegs, full, moved>>
  BY DEF Close
<1>2. UNCHANGED <<e820, firmware, ram, decode, nm>>
  BY <1>1 DEF machine, sanitizing
<1>3. /\ TypeInv /\ mode = "probe" /\ at <= E820Max /\ limit < decode /\ limit >= ResEnd - 1
      /\ \A k \in 0 .. at - 1 : \A page \in Segment(k) : GoodPage(page)
  BY DEF Inv, ProbeInv
<1>4. /\ at \in Nat /\ E820Max \in Nat /\ at \in -1 .. E820Max /\ at + 1 \in -1 .. E820Max
      /\ at + 1 <= E820Max /\ at + 1 # at
  <2>1. at \in Nat /\ E820Max \in Nat
    BY <1>3, MapAssumption DEF TypeInv
  <2>2. QED
    BY <1>1, <2>1, SMT
<1>5. pmap \in [-1 .. E820Max -> SegmentType]
  BY <1>3 DEF TypeInv
<1>6. /\ pmap' \in [-1 .. E820Max -> SegmentType]
      /\ pmap'[at + 1].start = 0
      /\ pmap'[at].start = pmap[at].start /\ pmap'[at].end = last
      /\ \A k \in -1 .. E820Max : k \notin {at, at + 1} => pmap'[k] = pmap[k]
  <2>1. pmap[at] \in SegmentType /\ pmap[at + 1] \in SegmentType
    BY <1>4, <1>5
  <2>2. QED
    BY <1>1, <1>4, <1>5, <2>1 DEF SegmentType
<1>7. TypeInv'
  <2>1. gap' \in Int /\ at' \in Nat
    <3>1. GapSteps \in Int
      BY MapAssumption
    <3>2. QED
      BY <1>1, <1>4, <3>1
  <2>2. UNCHANGED <<limit, msegs, full, moved>>
    BY <1>1
  <2>3. QED
    BY <1>1, <1>2, <1>3, <1>6, <2>1, <2>2 DEF TypeInv
<1>8. ASSUME NEW k \in 0 .. at' - 1, NEW page \in pmap'[k].start .. pmap'[k].end - 1
      PROVE  GoodPage(page)
  <2>1. k \in 0 .. at - 1 \/ k = at
    BY <1>1, <1>4, SMT
  <2>2. CASE k = at
    <3>1. pmap[at].start \in Nat
      BY <1>4, <1>5 DEF SegmentType
    <3>2. page \in Nat /\ page >= pmap[at].start /\ page < last
      BY <1>6, <1>8, <2>2, <3>1, SMT
    <3>3. QED
      BY <3>2
  <2>3. CASE k \in 0 .. at - 1
    <3>1. k \in -1 .. E820Max /\ k \notin {at, at + 1}
      BY <1>4, <2>3, SMT
    <3>2. pmap'[k] = pmap[k]
      BY <1>6, <3>1
    <3>3. QED
      BY <1>3, <1>8, <2>3, <3>2 DEF Segment
  <2>4. QED
    BY <2>1, <2>2, <2>3
<1>9. ProbeInv'
  <2>1. OnGrid(p)'
    BY DEF OnGrid
  <2>2. \A page : GoodPage(page)' <=> GoodPage(page)
    BY <1>1, GoodSame
  <2>3. ~(p' < ImageEnd)
    BY GridFacts, SMT
  <2>4. \A k \in 0 .. at' - 1 : \A page \in Segment(k)' : GoodPage(page)'
    BY <1>8, <2>2 DEF Segment
  <2>5. at' <= E820Max /\ pmap'[at'].start = 0
    BY <1>1, <1>4, <1>6
  <2>6. QED
    BY <1>1, <1>2, <1>3, <2>1, <2>3, <2>4, <2>5 DEF ProbeInv
<1>10. SweepInv' /\ BuildInv' /\ SegmentsFit'
  BY <1>1 DEF SweepInv, BuildInv, SegmentsFit
<1>11. QED
  BY <1>7, <1>9, <1>10 DEF Inv

(* What is known where a probe is looked at. *)
LEMMA AtProbe ==
  ASSUME Inv, pc \in {"probe", "gap"}
  PROVE  /\ TypeInv /\ mode = "probe" /\ at \in Nat /\ at <= E820Max
         /\ p \in Nat /\ p \in 0 .. Ptr - 1 /\ limit \in Nat /\ limit < Ptr
         /\ limit < decode /\ limit >= ResEnd - 1 /\ decode \in Nat
         /\ Inside => OnGrid(p) /\ p < limit /\ First <= p
         /\ at \in -1 .. E820Max /\ pmap[at] \in SegmentType /\ pmap[at].start \in Nat
<1>1. /\ TypeInv /\ mode = "probe" /\ at <= E820Max
      /\ limit < decode /\ limit >= ResEnd - 1 /\ (Inside => OnGrid(p))
  BY DEF Inv, ProbeInv
<1>2. p \in Nat /\ p \in 0 .. Ptr - 1 /\ limit \in Nat /\ limit < Ptr /\ at \in Nat
  BY <1>1, GridFacts, SMT DEF TypeInv
<1>3. at \in -1 .. E820Max
  BY <1>1, <1>2, MapAssumption, SMT
<1>4. pmap[at] \in SegmentType
  BY <1>1, <1>3 DEF TypeInv
<1>5. pmap[at].start \in Nat
  BY <1>4 DEF SegmentType
<1>6. Inside => First <= p /\ p < limit
  BY <1>1, <1>2, GridPages DEF Inside
<1>7. QED
  BY <1>1, <1>2, <1>3, <1>4, <1>5, <1>6, DecodeType

LEMMA ProbeReservedStep ==
  ASSUME Inv, ProbeReserved
  PROVE  Inv'
<1>1. pc = "probe" /\ Inside /\ Reserved(p) /\ p' = ResEnd /\ Close(Down(ResStart))
  BY DEF ProbeReserved
<1>2. /\ TypeInv /\ p \in Nat /\ p < limit /\ limit \in Nat /\ pmap[at].start \in Nat
  BY <1>1, AtProbe
<1>3. OpenInv
  <2>1. pmap[at].start # 0
    BY <1>1 DEF Inv, ProbeInv
  <2>2. QED
    BY <1>1, <2>1 DEF Inv, ProbeInv
<1>4. Down(ResStart) \in Nat /\ Down(ResStart) * PageSize = ResStart
  BY MapAssumption, WholePages, DownUp
<1>5. ASSUME NEW page \in Nat, page >= pmap[at].start, page < Down(ResStart)
      PROVE  GoodPage(page)
  <2>1. page * PageSize + PageSize <= ResStart /\ page * PageSize \in Int
    BY <1>4, <1>5, GridFacts, Monotone
  <2>2. ResStart <= p
    BY <1>1, <1>2, GridFacts DEF Reserved
  <2>3. page * PageSize \notin Hole /\ page * PageSize < p /\ page * PageSize < limit
    BY <1>2, <2>1, <2>2, GridFacts, SMT DEF Hole
  <2>4. QED
    BY <1>3, <1>5, <2>3 DEF OpenInv
<1>6. p' \in 0 .. Ptr - 1 /\ p' >= ImageEnd
  BY <1>1, GridFacts, SMT
<1>7. OnGrid(ResEnd)
  <2>1. 0 \in 0 .. Step - 1 /\ Step \in Nat \ {0}
    BY GridFacts, SMT
  <2>2. 0 % Step = 0 /\ ResEnd - ResEnd = 0
    BY <2>1, ModSmall, GridFacts
  <2>3. QED
    BY <2>2, GridFacts DEF OnGrid
<1>8. QED
  BY <1>1, <1>4, <1>5, <1>6, <1>7, CloseInv

LEMMA ProbeNothingStep ==
  ASSUME Inv, ProbeNothing
  PROVE  Inv'
<1>1. pc = "probe" /\ Inside /\ ~Reserved(p) /\ p' = p /\ Close(Down(p))
  BY DEF ProbeNothing
<1>2. /\ TypeInv /\ p \in Nat /\ p \in 0 .. Ptr - 1 /\ p < limit /\ limit \in Nat
      /\ pmap[at].start \in Nat /\ OnGrid(p) /\ First <= p
  BY <1>1, AtProbe
<1>3. OpenInv
  <2>1. pmap[at].start # 0
    BY <1>1 DEF Inv, ProbeInv
  <2>2. QED
    BY <1>1, <2>1 DEF Inv, ProbeInv
<1>4. Down(p) \in Nat /\ Down(p) * PageSize <= p
  BY <1>2, DownUp
<1>5. ASSUME NEW page \in Nat, page >= pmap[at].start, page < Down(p)
      PROVE  GoodPage(page)
  <2>1. /\ page * PageSize + PageSize <= Down(p) * PageSize
        /\ page * PageSize \in Int /\ Down(p) * PageSize \in Int
        /\ pmap[at].start * PageSize <= page * PageSize
        /\ pmap[at].start * PageSize \in Int
    BY <1>2, <1>4, <1>5, GridFacts, Monotone
  <2>2. page * PageSize < p /\ page * PageSize < limit
    BY <1>2, <1>4, <2>1, GridFacts, SMT
  <2>3. page * PageSize \notin Hole
    <3>1. CASE pmap[at].start * PageSize >= ResEnd
      BY <2>1, <3>1, GridFacts, SMT DEF Hole
    <3>2. CASE pmap[at].start * PageSize <= ResStart
      <4>1. p < ResEnd
        BY <1>3, <3>2 DEF OpenInv
      <4>2. p < ResStart
        BY <1>1, <1>2, <4>1, GridFacts DEF Reserved
      <4>3. QED
        BY <1>2, <2>1, <2>2, <4>2, GridFacts, SMT DEF Hole
    <3>3. QED
      BY <1>3, <3>1, <3>2 DEF OpenInv
  <2>4. QED
    BY <1>3, <1>5, <2>2, <2>3 DEF OpenInv
<1>6. p' \in 0 .. Ptr - 1 /\ p' >= ImageEnd /\ OnGrid(p')
  BY <1>1, <1>2, GridFacts, SMT
<1>7. QED
  BY <1>1, <1>4, <1>5, <1>6, CloseInv

(* The pages from a probe that found memory up to the next one, or up to the   *)
(* limit if there is no next one, are good.                                   *)
LEMMA UpToNext ==
  ASSUME NEW x \in 0 .. Ptr - 1, OnGrid(x), ~Reserved(x), Sees(x),
         limit \in Nat, limit < Ptr, decode \in Nat, limit < decode,
         NEW page \in Nat, page >= Up(ImageEnd), page * PageSize \notin Hole,
         page * PageSize < limit, x <= page * PageSize,
         From(x) < limit /\ From(x) >= ImageEnd => page * PageSize < From(x)
  PROVE  GoodPage(page)
<1>1. x \in Nat /\ page * PageSize \in Int /\ Step \in Nat \ {0} /\ Ptr \in Nat \ {0}
      /\ ImageEnd \in Nat
  BY GridFacts, Monotone
<1>2. /\ From(x) \in 0 .. Ptr - 1
      /\ From(x) >= ImageEnd => From(x) = x + Step
      /\ From(x) < ImageEnd => x + Step >= Ptr
  BY NextOnGrid
<1>3. page * PageSize < x + Step /\ page * PageSize < decode
  BY <1>1, <1>2, SMT
<1>4. QED
  BY <1>3, SeenPage

LEMMA ProbeRamStep ==
  ASSUME Inv, ProbeRam
  PROVE  Inv'
<1>1. /\ pc = "probe" /\ Inside /\ ~Reserved(p) /\ Sees(p) /\ p' = From(p)
      /\ UNCHANGED <<pc, machine, mode, limit, gap, sanitizing, at, pmap, msegs, full, moved>>
  BY DEF ProbeRam
<1>2. UNCHANGED <<e820, firmware, ram, decode, nm>>
  BY <1>1 DEF machine, sanitizing
<1>3. /\ TypeInv /\ mode = "probe" /\ at <= E820Max /\ limit \in Nat /\ limit < Ptr
      /\ p \in Nat /\ p \in 0 .. Ptr - 1 /\ p < limit /\ First <= p /\ OnGrid(p)
      /\ limit < decode /\ limit >= ResEnd - 1 /\ decode \in Nat /\ pmap[at].start \in Nat
  BY <1>1, AtProbe
<1>4. pmap[at].start # 0 /\ OpenInv
  BY <1>1 DEF Inv, ProbeInv
<1>5. /\ From(p) \in 0 .. Ptr - 1
      /\ From(p) >= ImageEnd => OnGrid(From(p))
      /\ p < ResEnd => From(p) = p + Step /\ From(p) < ResEnd
  BY <1>1, <1>3, NextOnGrid
<1>6. TypeInv'
  BY <1>1, <1>2, <1>3, <1>5 DEF TypeInv
<1>7. Inside' <=> From(p) < limit /\ From(p) >= ImageEnd
  BY <1>1 DEF Inside
<1>8. ASSUME NEW page \in Nat, page >= pmap[at].start, page * PageSize \notin Hole,
             page * PageSize < limit, Inside' => page * PageSize < From(p)
      PROVE  GoodPage(page)
  <2>1. page * PageSize \in Int
    BY GridFacts, Monotone
  <2>2. CASE page * PageSize < p
    BY <1>4, <1>8, <2>2 DEF OpenInv
  <2>3. CASE p <= page * PageSize
    <3>1. page >= Up(ImageEnd)
      BY <1>3, <1>4, <1>8, GridFacts, SMT DEF OpenInv
    <3>2. QED
      BY <1>1, <1>3, <1>7, <1>8, <2>3, <3>1, UpToNext
  <2>4. QED
    BY <1>3, <2>1, <2>2, <2>3, SMT
<1>9. \A page : GoodPage(page)' <=> GoodPage(page)
  BY <1>1, GoodSame
<1>11. OnGrid(p)' <=> OnGrid(From(p))
  BY <1>1 DEF OnGrid
<1>12. OpenInv'
  <2>1. pmap[at].start * PageSize <= ResStart => From(p) < ResEnd /\ OnGrid(From(p))
    <3>1. ASSUME pmap[at].start * PageSize <= ResStart
          PROVE  From(p) < ResEnd /\ OnGrid(From(p))
      <4>1. p < ResEnd
        BY <1>4, <3>1 DEF OpenInv
      <4>2. From(p) = p + Step /\ From(p) < ResEnd
        BY <1>5, <4>1
      <4>3. From(p) >= ImageEnd
        BY <1>3, <4>2, GridFacts, SMT
      <4>4. QED
        BY <1>5, <4>2, <4>3
    <3>2. QED
      BY <3>1
  <2>2. pmap' = pmap /\ at' = at /\ limit' = limit /\ p' = From(p)
    BY <1>1
  <2>3. /\ pmap[at].start >= Up(ImageEnd)
        /\ pmap[at].start * PageSize <= ResStart \/ pmap[at].start * PageSize >= ResEnd
    BY <1>4 DEF OpenInv
  <2>4. QED
    BY <1>8, <1>9, <1>11, <2>1, <2>2, <2>3 DEF OpenInv
<1>13. ProbeInv'
  <2>1. \A k \in 0 .. at - 1 : \A page \in Segment(k) : GoodPage(page)
    BY <1>1 DEF Inv, ProbeInv
  <2>2. (\A k \in 0 .. at - 1 : \A page \in Segment(k) : GoodPage(page))'
    BY <1>1, <1>9, <2>1 DEF Segment
  <2>3. Inside' => OnGrid(p)'
    BY <1>5, <1>7, <1>11
  <2>4. /\ pc' = "probe" /\ mode' = "probe" /\ at' <= E820Max /\ limit' < decode'
        /\ limit' >= ResEnd - 1 /\ pmap'[at'].start # 0
    BY <1>1, <1>2, <1>3, <1>4
  <2>5. QED
    BY <1>12, <2>2, <2>3, <2>4 DEF ProbeInv
<1>14. SweepInv' /\ BuildInv' /\ SegmentsFit'
  BY <1>1 DEF SweepInv, BuildInv, SegmentsFit
<1>15. QED
  BY <1>6, <1>13, <1>14 DEF Inv

(* The address that the loop over a gap looks at is on the grid and not in the *)
(* hole.                                                                       *)
LEMMA PastHoleGrid ==
  ASSUME NEW x \in 0 .. Ptr - 1, OnGrid(x)
  PROVE  /\ PastHole(x) \in 0 .. Ptr - 1 /\ PastHole(x) \in Nat
         /\ OnGrid(PastHole(x)) /\ ~Reserved(PastHole(x))
<1>1. x \in Nat /\ ResEnd \in 0 .. Ptr - 1 /\ ResEnd \in Nat
  BY GridFacts, SMT
<1>2. CASE Reserved(x)
  <2>1. PastHole(x) = ResEnd
    BY <1>2 DEF PastHole
  <2>2. OnGrid(ResEnd)
    <3>1. 0 \in 0 .. Step - 1 /\ Step \in Nat \ {0}
      BY GridFacts, SMT
    <3>2. 0 % Step = 0 /\ ResEnd - ResEnd = 0
      BY <3>1, ModSmall, GridFacts
    <3>3. QED
      BY <3>2, GridFacts DEF OnGrid
  <2>3. ~Reserved(ResEnd)
    BY GridFacts DEF Reserved
  <2>4. QED
    BY <1>1, <2>1, <2>2, <2>3
<1>3. CASE ~Reserved(x)
  BY <1>1, <1>3 DEF PastHole
<1>4. QED
  BY <1>2, <1>3

LEMMA GapEndsStep ==
  ASSUME Inv, GapEnds
  PROVE  Inv'
<1> DEFINE here == PastHole(p)
<1>1. /\ pc = "gap" /\ Inside /\ Sees(here) /\ p' = From(here) /\ pc' = "probe"
      /\ pmap' = [pmap EXCEPT ![at].start = Down(here)]
      /\ UNCHANGED <<machine, mode, limit, gap, sanitizing, at, msegs, full, moved>>
  BY DEF GapEnds
<1>2. UNCHANGED <<e820, firmware, ram, decode, nm>>
  BY <1>1 DEF machine, sanitizing
<1>3. /\ TypeInv /\ mode = "probe" /\ at \in Nat /\ at <= E820Max
      /\ limit \in Nat /\ limit < Ptr /\ p \in 0 .. Ptr - 1 /\ OnGrid(p)
      /\ limit < decode /\ limit >= ResEnd - 1 /\ decode \in Nat /\ at \in -1 .. E820Max
  BY <1>1, AtProbe
<1>4. here \in 0 .. Ptr - 1 /\ here \in Nat /\ OnGrid(here) /\ ~Reserved(here)
  BY <1>3, PastHoleGrid
<1> HIDE DEF here
<1>5. here % PageSize = 0 /\ First <= here
  BY <1>4, GridPages
<1>6. PICK s \in Nat : s = Down(here) /\ s * PageSize = here
  BY <1>4, <1>5, WholePages, DownUp
<1>7. s >= Up(ImageEnd) /\ s # 0
  <2>1. CASE s < Up(ImageEnd)
    <3>1. s * PageSize + PageSize <= Up(ImageEnd) * PageSize
      BY <2>1, GridFacts, Monotone
    <3>2. QED
      BY <1>4, <1>5, <1>6, <3>1, GridFacts, SMT DEF First
  <2>2. QED
    BY <2>1, GridFacts, SMT
<1>8. /\ From(here) \in 0 .. Ptr - 1
      /\ From(here) >= ImageEnd => OnGrid(From(here))
      /\ here < ResEnd => here < ResStart /\ From(here) = here + Step /\ From(here) < ResEnd
  BY <1>4, NextOnGrid
<1>9. /\ pmap' \in [-1 .. E820Max -> SegmentType] /\ pmap'[at].start = s
      /\ \A k \in -1 .. E820Max : k # at => pmap'[k] = pmap[k]
  <2>1. pmap \in [-1 .. E820Max -> SegmentType] /\ pmap[at] \in SegmentType
    BY <1>3 DEF TypeInv
  <2>2. pmap' = [pmap EXCEPT ![at].start = s]
    BY <1>1, <1>6
  <2>3. QED
    BY <1>3, <2>1, <2>2 DEF SegmentType
<1>10. TypeInv'
  BY <1>1, <1>2, <1>3, <1>8, <1>9 DEF TypeInv
<1>11. Inside' <=> From(here) < limit /\ From(here) >= ImageEnd
  BY <1>1 DEF Inside
<1>12. OnGrid(p)' <=> OnGrid(From(here))
  BY <1>1 DEF OnGrid
<1>13. \A page : GoodPage(page)' <=> GoodPage(page)
  BY <1>1, GoodSame
<1>14. ASSUME NEW page \in Nat, page >= s, page * PageSize \notin Hole,
              page * PageSize < limit, Inside' => page * PageSize < From(here)
       PROVE  GoodPage(page)
  <2>1. here <= page * PageSize
    BY <1>6, <1>14, GridFacts, Monotone
  <2>2. page >= Up(ImageEnd)
    BY <1>7, <1>14, GridFacts, SMT
  <2>3. QED
    BY <1>1, <1>3, <1>4, <1>11, <1>14, <2>1, <2>2, UpToNext
<1>15. OpenInv'
  <2>1. here <= ResStart \/ here >= ResEnd
    BY <1>4, GridFacts, SMT DEF Reserved
  <2>2. here <= ResStart => From(here) < ResEnd /\ OnGrid(From(here))
    <3>1. ASSUME here <= ResStart
          PROVE  From(here) < ResEnd /\ OnGrid(From(here))
      <4>1. here < ResEnd
        BY <1>4, <3>1, GridFacts, SMT
      <4>2. From(here) = here + Step /\ From(here) < ResEnd
        BY <1>8, <4>1
      <4>3. From(here) >= ImageEnd
        BY <1>4, <1>5, <4>2, GridFacts, SMT
      <4>4. QED
        BY <1>8, <4>2, <4>3
    <3>2. QED
      BY <3>1
  <2>3. at' = at /\ limit' = limit /\ p' = From(here)
    BY <1>1
  <2>4. QED
    BY <1>6, <1>7, <1>9, <1>12, <1>13, <1>14, <2>1, <2>2, <2>3 DEF OpenInv
<1>16. ProbeInv'
  <2>1. \A k \in 0 .. at - 1 : \A page \in Segment(k) : GoodPage(page)
    BY <1>1 DEF Inv, ProbeInv
  <2>2. \A k \in 0 .. at - 1 : pmap'[k] = pmap[k]
    <3>1. \A k \in 0 .. at - 1 : k \in -1 .. E820Max /\ k # at
      BY <1>3, MapAssumption, SMT
    <3>2. QED
      BY <1>9, <3>1
  <2>3. (\A k \in 0 .. at - 1 : \A page \in Segment(k) : GoodPage(page))'
    BY <1>1, <1>13, <2>1, <2>2 DEF Segment
  <2>4. Inside' => OnGrid(p)'
    BY <1>8, <1>11, <1>12
  <2>5. /\ pc' = "probe" /\ mode' = "probe" /\ at' <= E820Max /\ limit' < decode'
        /\ limit' >= ResEnd - 1 /\ pmap'[at'].start # 0
    BY <1>1, <1>2, <1>3, <1>7, <1>9
  <2>6. QED
    BY <1>15, <2>3, <2>4, <2>5 DEF ProbeInv
<1>17. SweepInv' /\ BuildInv' /\ SegmentsFit'
  BY <1>1 DEF SweepInv, BuildInv, SegmentsFit
<1>18. QED
  BY <1>10, <1>16, <1>17 DEF Inv

(* The steps that leave the segments and the gap as they are *)
LEMMA GapInv ==
  ASSUME Inv, pc = "gap", pc' \in {"probe", "gap"},
         UNCHANGED <<machine, mode, limit, sanitizing, at, pmap, msegs, full, moved>>,
         gap' \in Int, p' \in 0 .. Ptr - 1, Inside' => OnGrid(p'),
         pc' = "gap" => (p' < ImageEnd => p' < Step),
         pc' = "probe" => ~Inside'
  PROVE  Inv'
<1>1. UNCHANGED <<e820, firmware, ram, decode, nm>>
  BY DEF machine, sanitizing
<1>2. /\ TypeInv /\ mode = "probe" /\ at <= E820Max /\ limit < decode
      /\ limit >= ResEnd - 1 /\ pmap[at].start = 0
      /\ \A k \in 0 .. at - 1 : \A page \in Segment(k) : GoodPage(page)
  BY DEF Inv, ProbeInv
<1>3. TypeInv'
  BY <1>1, <1>2 DEF TypeInv
<1>4. \A page : GoodPage(page)' <=> GoodPage(page)
  BY GoodSame
<1>5. (\A k \in 0 .. at - 1 : \A page \in Segment(k) : GoodPage(page))'
  BY <1>2, <1>4 DEF Segment
<1>6. OnGrid(p)' <=> OnGrid(p')
  BY DEF OnGrid
<1>7. ProbeInv'
  BY <1>1, <1>2, <1>5, <1>6 DEF ProbeInv
<1>8. SweepInv' /\ BuildInv' /\ SegmentsFit'
  BY DEF SweepInv, BuildInv, SegmentsFit
<1>9. QED
  BY <1>3, <1>7, <1>8 DEF Inv

LEMMA GapTurnStep ==
  ASSUME Inv, GapTurn
  PROVE  Inv'
<1> DEFINE here == PastHole(p)
           long == gap - 1 <= 0
<1>1. /\ pc = "gap" /\ Inside /\ gap' = gap - 1
      /\ p' = From(IF long THEN limit ELSE here)
      /\ pc' = (IF long THEN "probe" ELSE "gap")
      /\ UNCHANGED <<machine, mode, limit, sanitizing, at, pmap, msegs, full, moved>>
  BY DEF GapTurn
<1>2. /\ TypeInv /\ limit \in Nat /\ limit < Ptr /\ p \in 0 .. Ptr - 1 /\ OnGrid(p)
  BY <1>1, AtProbe
<1>3. here \in 0 .. Ptr - 1 /\ OnGrid(here) /\ ~Reserved(here)
  BY <1>2, PastHoleGrid
<1> HIDE DEF here
<1>4. gap' \in Int
  BY <1>1, <1>2 DEF TypeInv
<1>5. CASE long
  <2>1. limit \in 0 .. Ptr - 1
    BY <1>2 DEF TypeInv
  <2>2. /\ p' = From(limit) /\ p' \in 0 .. Ptr - 1
        /\ p' = limit + Step \/ p' < Step
    BY <1>1, <1>5, <2>1, FromCases
  <2>3. ~(p' < limit /\ p' >= ImageEnd)
    BY <1>2, <2>2, GridFacts, SMT
  <2>4. ~Inside' /\ pc' = "probe"
    BY <1>1, <1>5, <2>3 DEF Inside
  <2>5. QED
    BY <1>1, <1>4, <2>2, <2>4, GapInv
<1>6. CASE ~long
  <2>1. /\ p' = From(here) /\ p' \in 0 .. Ptr - 1
        /\ p' >= ImageEnd => OnGrid(p')
        /\ p' < ImageEnd => p' < Step
    BY <1>1, <1>3, <1>6, NextOnGrid
  <2>2. Inside' => OnGrid(p')
    BY <2>1 DEF Inside
  <2>3. pc' = "gap"
    BY <1>1, <1>6
  <2>4. QED
    BY <1>1, <1>4, <2>1, <2>2, <2>3, GapInv
<1>7. QED
  BY <1>5, <1>6

LEMMA GapOverStep ==
  ASSUME Inv, GapOver
  PROVE  Inv'
<1>1. /\ pc = "gap" /\ ~Inside /\ p' = From(p) /\ pc' = "probe"
      /\ UNCHANGED <<machine, mode, limit, gap, sanitizing, at, pmap, msegs, full, moved>>
  BY DEF GapOver
<1>2. /\ TypeInv /\ limit \in Nat /\ p \in Nat /\ p \in 0 .. Ptr - 1
  BY <1>1, AtProbe
<1>3. p >= limit \/ p < Step
  BY <1>1, <1>2, GridFacts, SMT DEF Inside, Inv, ProbeInv
<1>4. p' \in 0 .. Ptr - 1 /\ (p' = p + Step \/ p' < Step)
  BY <1>1, <1>2, FromCases
<1>5. ~(p' < limit /\ p' >= ImageEnd)
  BY <1>2, <1>3, <1>4, GridFacts, SMT
<1>6. ~Inside'
  BY <1>1, <1>5 DEF Inside
<1>7. gap' \in Int
  BY <1>1, <1>2 DEF TypeInv
<1>8. QED
  BY <1>1, <1>4, <1>6, <1>7, GapInv

LEMMA ProbedStep ==
  ASSUME Inv, Probed
  PROVE  Inv'
<1> DEFINE open == pmap[at].start # 0
<1>1. /\ pc = "probe" /\ ~Inside /\ pc' = "sort" /\ at' = 0
      /\ pmap' = (IF open THEN [pmap EXCEPT ![at].end = Down(limit)] ELSE pmap)
      /\ msegs' = (IF open THEN at + 1 ELSE at)
      /\ UNCHANGED <<machine, mode, probing, sanitizing, full, moved>>
  BY DEF Probed
<1>2. UNCHANGED <<e820, firmware, ram, decode, nm, limit, p, gap>>
  BY <1>1 DEF machine, probing, sanitizing
<1>3. /\ TypeInv /\ mode = "probe" /\ at \in Nat /\ at <= E820Max
      /\ limit \in Nat /\ p \in Nat /\ limit >= ResEnd - 1
      /\ at \in -1 .. E820Max /\ pmap[at] \in SegmentType /\ pmap[at].start \in Nat
  BY <1>1, AtProbe
<1>4. \A k \in 0 .. at - 1 : \A page \in Segment(k) : GoodPage(page)
  BY <1>1 DEF Inv, ProbeInv
<1>5. Down(limit) \in Nat /\ Down(limit) * PageSize <= limit
  BY <1>3, DownUp
(* A segment that is still open lies above the hole, and all of its pages up  *)
(* to the limit are good.                                                     *)
<1>6. ASSUME open, NEW page \in pmap[at].start .. Down(limit) - 1
      PROVE  GoodPage(page)
  <2>1. OpenInv
    BY <1>1, <1>6 DEF Inv, ProbeInv
  <2>2. page \in Nat /\ page >= pmap[at].start /\ page < Down(limit)
    BY <1>3, <1>5, <1>6, SMT
  <2>3. /\ page * PageSize + PageSize <= Down(limit) * PageSize
        /\ page * PageSize \in Int /\ Down(limit) * PageSize \in Int
        /\ pmap[at].start * PageSize <= page * PageSize
        /\ pmap[at].start * PageSize \in Int
    BY <1>3, <1>5, <2>2, GridFacts, Monotone
  <2>4. page * PageSize < limit
    BY <1>3, <1>5, <2>3, GridFacts, SMT
  <2>5. ~(pmap[at].start * PageSize <= ResStart)
    <3>1. SUFFICES ASSUME pmap[at].start * PageSize <= ResStart
                   PROVE  FALSE
      OBVIOUS
    <3>2. p < ResEnd /\ OnGrid(p)
      BY <2>1, <3>1 DEF OpenInv
    <3>3. p % PageSize = 0 /\ First <= p
      BY <1>3, <3>2, GridPages
    <3>4. PICK n \in Nat : n * PageSize = p
      BY <1>3, <3>3, WholePages, DownUp
    <3>5. PICK e \in Nat : e * PageSize = ResEnd
      BY MapAssumption, WholePages, DownUp
    <3>6. PageSize \in Nat /\ PageSize >= 2
      BY MapAssumption
    <3>7. n < e
      <4>1. CASE e <= n
        <5>1. e * PageSize <= n * PageSize
          BY <3>6, <4>1, Monotone
        <5>2. QED
          BY <1>3, <3>2, <3>4, <3>5, <5>1, GridFacts, SMT
      <4>2. QED
        BY <4>1, SMT
    <3>8. n * PageSize + PageSize <= e * PageSize
      BY <3>6, <3>7, Monotone
    <3>9. p < limit
      BY <1>3, <3>4, <3>5, <3>6, <3>8, GridFacts, SMT
    <3>10. QED
      BY <1>1, <1>3, <3>3, <3>9, GridFacts, SMT DEF Inside
  <2>6. page * PageSize \notin Hole
    BY <2>1, <2>3, <2>5, GridFacts, SMT DEF OpenInv, Hole
  <2>7. QED
    BY <1>1, <2>1, <2>2, <2>4, <2>6 DEF OpenInv
<1>7. /\ pmap' \in [-1 .. E820Max -> SegmentType]
      /\ open => pmap'[at].start = pmap[at].start /\ pmap'[at].end = Down(limit)
      /\ \A k \in -1 .. E820Max : k # at => pmap'[k] = pmap[k]
  <2>1. pmap \in [-1 .. E820Max -> SegmentType]
    BY <1>3 DEF TypeInv
  <2>2. CASE open
    <3>1. pmap' = [pmap EXCEPT ![at].end = Down(limit)]
      BY <1>1, <2>2
    <3>2. QED
      BY <1>3, <1>5, <2>1, <3>1 DEF SegmentType
  <2>3. CASE ~open
    BY <1>1, <2>1, <2>3
  <2>4. QED
    BY <2>2, <2>3
<1>8. TypeInv'
  <2>1. msegs' \in 0 .. E820Max + 1
    <3>1. at \in Nat /\ at <= E820Max /\ E820Max \in Nat
      BY <1>3, MapAssumption
    <3>2. msegs' = at \/ msegs' = at + 1
      BY <1>1
    <3>3. QED
      BY <3>1, <3>2, SMT
  <2>2. QED
    BY <1>1, <1>2, <1>3, <1>7, <2>1 DEF TypeInv
<1>9. ASSUME NEW k \in 0 .. msegs' - 1, NEW page \in pmap'[k].start .. pmap'[k].end - 1
      PROVE  GoodPage(page)
  <2>1. k \in 0 .. at - 1 \/ (open /\ k = at)
    BY <1>1, <1>3, <1>9, SMT
  <2>2. CASE k \in 0 .. at - 1
    <3>1. k \in -1 .. E820Max /\ k # at
      BY <1>3, <2>2, MapAssumption, SMT
    <3>2. pmap'[k] = pmap[k]
      BY <1>7, <3>1
    <3>3. QED
      BY <1>4, <1>9, <2>2, <3>2 DEF Segment
  <2>3. CASE open /\ k = at
    BY <1>6, <1>7, <1>9, <2>3
  <2>4. QED
    BY <2>1, <2>2, <2>3
<1>10. SegmentsFit'
  <2>1. \A page : GoodPage(page)' <=> GoodPage(page)
    BY <1>1, GoodSame
  <2>2. \A page : GoodPage(page) => Fit(page)'
    BY <1>1, <1>2, <1>3, <2>1 DEF Fit, FromTable
  <2>3. QED
    BY <1>9, <2>2 DEF SegmentsFit, Segment
<1>11. SweepInv' /\ BuildInv' /\ ProbeInv'
  BY <1>1 DEF SweepInv, BuildInv, ProbeInv
<1>12. QED
  BY <1>8, <1>10, <1>11 DEF Inv

-----------------------------------------------------------------------------
LEMMA StutterStep ==
  ASSUME Inv, UNCHANGED vars
  PROVE  Inv'
<1>1. UNCHANGED <<pc, machine, firmware, e820, ram, decode, mode, limit, p, gap, points,
                  overlap, lastType, lastAddr, nm, at, pmap, msegs, full, moved>>
  BY DEF vars, machine, probing, sanitizing
<1>2. TypeInv'
  BY <1>1 DEF Inv, TypeInv
<1>3. /\ Points' = Points /\ (Unreasonable' <=> Unreasonable) /\ (NonEmpty' <=> NonEmpty)
      /\ (TypesKept' <=> TypesKept) /\ (Ascending' <=> Ascending) /\ (NmOK' <=> NmOK)
      /\ (Going' <=> Going) /\ (Stopped' <=> Stopped) /\ Passed' = Passed
      /\ \A x, y : Precedes(x, y)' <=> Precedes(x, y)
  BY <1>1 DEF Points, Unreasonable, NonEmpty, TypesKept, Ascending, NmOK, NmEnd, Going,
              Stopped, Passed, Precedes, AddrOf, Starts, CoveringType, TypeOf, KeptIn
<1>4. SweepInv'
  BY <1>1, <1>3 DEF Inv, SweepInv
<1>5. BuildInv'
  BY <1>1, <1>3 DEF Inv, BuildInv
<1>6. \A page : (GoodPage(page)' <=> GoodPage(page)) /\ (Fit(page)' <=> Fit(page))
  BY <1>1, GoodSame, FitSame
<1>7. ProbeInv'
  <2>1. OpenInv' <=> OpenInv
    BY <1>1, <1>6 DEF OpenInv, Inside, OnGrid
  <2>2. QED
    BY <1>1, <1>6, <2>1 DEF Inv, ProbeInv, Inside, OnGrid, Segment
<1>8. SegmentsFit'
  BY <1>1, <1>6 DEF Inv, SegmentsFit, Segment
<1>9. QED
  BY <1>2, <1>4, <1>5, <1>7, <1>8 DEF Inv

(* The invariant holds of every step of the program, with every memory map    *)
(* and every memory.                                                          *)
THEOREM Invariant == Spec => []Inv
<1>1. ASSUME Inv, [Next]_vars
      PROVE  Inv'
  <2>1. CASE MemSize
    BY <1>1, <2>1, MemSizeInv
  <2>2. CASE SweepPoint
    BY <1>1, <2>2, SweepPointStep
  <2>3. CASE SweepOver
    BY <1>1, <2>3, SweepOverStep
  <2>4. CASE BuildUsable
    BY <1>1, <2>4, BuildUsableStep
  <2>5. CASE BuildOther
    BY <1>1, <2>5, BuildOtherStep
  <2>6. CASE Fallback
    BY <1>1, <2>6, FallbackStep
  <2>7. CASE LinuxbiosEntry
    BY <1>1, <2>7, LinuxbiosEntryStep
  <2>8. CASE Built
    BY <1>1, <2>8, BuiltStep
  <2>9. CASE FindLimit
    BY <1>1, <2>9, FindLimitStep
  <2>10. CASE ProbeReserved
    BY <1>1, <2>10, ProbeReservedStep
  <2>11. CASE ProbeNothing
    BY <1>1, <2>11, ProbeNothingStep
  <2>12. CASE ProbeRam
    BY <1>1, <2>12, ProbeRamStep
  <2>13. CASE GapEnds
    BY <1>1, <2>13, GapEndsStep
  <2>14. CASE GapTurn
    BY <1>1, <2>14, GapTurnStep
  <2>15. CASE GapOver
    BY <1>1, <2>15, GapOverStep
  <2>16. CASE Probed
    BY <1>1, <2>16, ProbedStep
  <2>17. CASE SortTurn
    BY <1>1, <2>17, SortTurnStep
  <2>18. CASE Sorted \/ AllMemory \/ \E page \in Pages : SetLower(page) \/ SetUpper(page)
    BY <1>1, <2>18, ReadyStep
  <2>19. CASE Restart
    BY <1>1, <2>19, RestartStep
  <2>20. CASE UNCHANGED vars
    BY <1>1, <2>20, StutterStep
  <2>21. QED
    BY <1>1, <2>1, <2>2, <2>3, <2>4, <2>5, <2>6, <2>7, <2>8, <2>9, <2>10, <2>11,
       <2>12, <2>13, <2>14, <2>15, <2>16, <2>17, <2>18, <2>19, <2>20 DEF Next
<1>2. QED
  BY <1>1, InitInv, PTL DEF Spec

(* The table that memsize_820() goes over gives every address the largest type *)
(* that the firmware reports for it, and its entries do not overlap; where     *)
(* sanitize_e820_map() had no more room, this holds up to its last entry.      *)
THEOREM TableSanitized == Spec => []Sanitized
<1>1. Inv => Sanitized
  BY DEF Inv, BuildInv, Sanitized
<1>2. QED
  BY <1>1, Invariant, PTL

(* No page is tested that the firmware does not report as usable, or that the  *)
(* probes did not see; none in the hole, in the program or seen twice.         *)
THEOREM OnlyRamTested == Spec => []OnlyRamListed
<1>1. ASSUME Inv, pc = "ready"
      PROVE  OnlyRamListed
  <2>1. ASSUME NEW page \in Listed
        PROVE  page \in Int /\ Fit(page)
    <3>1. PICK k \in 0 .. msegs - 1 : page \in Segment(k)
      BY <2>1 DEF Listed
    <3>2. Fit(page)
      BY <1>1, <3>1 DEF Inv, SegmentsFit
    <3>3. page \in Int
      BY <3>1 DEF Segment
    <3>4. QED
      BY <3>2, <3>3
  <2>2. firmware = "pcbios" /\ FromTable /\ NonEmpty => OnlyUsable
    BY <2>1 DEF Fit, UsableAll, OnlyUsable
  <2>3. firmware = "linuxbios" /\ FromTable => \A page \in Listed : UsablePage(page)
    BY <2>1 DEF Fit
  <2>4. ASSUME mode = "probe"
        PROVE  OnlyProbed
    <3>1. ASSUME NEW page \in Listed
          PROVE  /\ page \in Nat /\ page * PageSize \in Nat
                 /\ page * PageSize >= First /\ page * PageSize < decode
                 /\ page * PageSize \notin Hole /\ Sees(ProbeOf(page))
      <4>1. page \in Int /\ GoodPage(page)
        BY <2>1, <2>4 DEF Fit
      <4>2. page \in Nat
        BY <4>1, GridFacts, SMT DEF GoodPage
      <4>3. First <= page * PageSize /\ page * PageSize \in Int
        BY <4>1, GridFacts, Monotone DEF GoodPage, First
      <4>4. QED
        BY <4>1, <4>2, <4>3, GridFacts, SMT DEF GoodPage
    <3>2. ASSUME NEW page \in Listed
          PROVE  Of(page) \cap (0 .. ImageEnd - 1 \cup Hole) = {}
      <4>1. Of(page) \cap Hole = {}
        BY <3>1, HolePages
      <4>2. Of(page) \cap (0 .. ImageEnd - 1) = {}
        BY <3>1, GridFacts, SMT DEF Of
      <4>3. QED
        BY <4>1, <4>2
    <3>3. ASSUME NEW page \in Listed
          PROVE  page * PageSize % decode = page * PageSize
      <4>1. decode \in Nat \ {0}
        BY <1>1, DecodeType DEF Inv
      <4>2. page * PageSize \in 0 .. decode - 1
        BY <3>1, <4>1, SMT
      <4>3. QED
        BY <4>1, <4>2, ModSmall
    <3>4. ASSUME NEW page \in Listed, NEW other \in Listed, page < other
          PROVE  page * PageSize < other * PageSize
      <4>1. page * PageSize + PageSize <= other * PageSize
        BY <3>1, <3>4, GridFacts, Monotone
      <4>2. QED
        BY <3>1, <4>1, GridFacts, SMT
    <3>5. ASSUME NEW page \in Listed, NEW other \in Listed \ {page}
          PROVE  page * PageSize % decode # other * PageSize % decode
      <4>1. page < other \/ other < page
        BY <3>1, SMT
      <4>2. page * PageSize # other * PageSize
        BY <3>1, <3>4, <4>1, SMT
      <4>3. QED
        BY <3>3, <4>2
    <3>6. QED
      BY <3>1, <3>2, <3>5 DEF OnlyProbed
  <2>5. QED
    BY <2>2, <2>3, <2>4 DEF OnlyRamListed
<1>2. Inv => OnlyRamListed
  BY <1>1 DEF OnlyRamListed
<1>3. QED
  BY <1>2, Invariant, PTL

-----------------------------------------------------------------------------
(***************************************************************************)
(* That every page of memory is listed needs more than that nothing false  *)
(* is: no entry of the sanitized table ends where one of the same type     *)
(* begins, since a page between two entries is in none of them.            *)
(***************************************************************************)
Fresh(a, t) == a > 0 => CoveringType(a - 1) # t
AllFresh == \A k \in 1 .. Len(nm) : Fresh(nm[k].addr, nm[k].type)
Unsplit ==
  NonEmpty =>
    /\ pc \in {"sweep", "build"} => AllFresh
    /\ pc = "sweep" /\ ~full /\ lastType # 0 => Fresh(lastAddr, lastType)

(* The pages of the entries that have been made into segments are listed. *)
Within(page, e) == \A a \in Of(page) : Covers(e, a)
Turned ==
  /\ pc = "build" =>
       \A k \in 1 .. Len(nm) : \A page \in Nat :
         /\ k < at /\ nm[k].type \in Usable
         /\ Within(page, nm[k]) /\ Of(page) \cap Hole = {}
         => page \in Listed
  /\ pc = "linuxbios" /\ ~Unreasonable =>
       \A k \in 1 .. Len(e820) : \A page \in Nat :
         k < at /\ e820[k].type = RAM /\ Within(page, e820[k]) => page \in Listed

(* What probing has to list, and what of it is in a segment already *)
Sought(page) ==
  /\ page \in Up(ImageEnd) .. Down(limit) - 1 /\ Of(page) \cap Hole = {}
  /\ Sees(ProbeOf(page)) /\ ~GivenUp(ProbeOf(page))
InSegment(page) ==
  \/ \E k \in 0 .. at - 1 : page \in Segment(k)
  \/ pc = "probe" /\ pmap[at].start # 0 /\ page >= pmap[at].start
SoughtFound ==
  pc \in {"probe", "gap"} =>
    /\ \A page \in Nat :
         Sought(page) /\ (Inside => ProbeOf(page) < p) => InSegment(page)
    /\ pc = "probe" /\ Inside => pmap[at].start * PageSize <= p

(* The turns of a gap are counted from a probe on that saw nothing. *)
ProbesIn(x, b) == {y \in Probes : x <= y /\ y < b}
GapCounted ==
  pc = "gap" /\ Inside =>
    /\ gap > 0
    /\ \E x \in Probes :
         /\ x <= PastHole(p)
         /\ \A y \in ProbesIn(x, PastHole(p)) : ~Sees(y)
         /\ Cardinality(ProbesIn(x, PastHole(p))) >= GapSteps - gap

TableListed ==
  FromTable /\ ~Unreasonable /\ ~full /\ (NonEmpty \/ firmware = "linuxbios") =>
    \A page \in AllPages :
      UsablePage(page) /\ (Of(page) \cap Hole = {} \/ firmware = "linuxbios")
        => page \in Listed
ProbesListed ==
  mode = "probe" =>
    \A page \in Up(ImageEnd) .. Down(limit) - 1 :
      /\ Of(page) \cap Hole = {}
      /\ Sees(ProbeOf(page)) /\ ~GivenUp(ProbeOf(page))
      => page \in Listed
AllListed == pc \in {"sort", "ready"} /\ ~moved => TableListed /\ ProbesListed

RamInv == Unsplit /\ Turned /\ SoughtFound /\ GapCounted /\ AllListed

(* The largest type is one of them, and no smaller than the others. *)
LEMMA TypeOfMember ==
  ASSUME TypeInv, NEW S, S \subseteq 1 .. Len(e820)
  PROVE  /\ TypeOf(S) \in {0} \cup {e820[i].type : i \in S}
         /\ \A i \in S : e820[i].type <= TypeOf(S)
<1> DEFINE f == [i \in 1 .. Len(e820) |-> e820[i].type]
           T == {0} \cup {e820[i].type : i \in S}
<1>1. \A i \in 1 .. Len(e820) : e820[i].type \in Nat
  <2>1. \A i \in 1 .. Len(e820) : e820[i] \in Entry
    BY PointTypes
  <2>2. QED
    BY <2>1 DEF Entry
<1>2. PICK b \in Nat : \A i \in 1 .. Len(e820) : e820[i].type <= b
  <2>1. Len(e820) \in Nat /\ \A i \in 1 .. Len(e820) : f[i] \in Nat
    BY <1>1, PointTypes
  <2>2. PICK b \in Nat : \A i \in 1 .. Len(e820) : f[i] <= b
    <3> HIDE DEF f
    <3>1. QED
      BY <2>1, Bounded
  <2>3. QED
    BY <2>2
<1>3. T \subseteq Int /\ T # {} /\ \A i \in S : e820[i].type \in T
  BY <1>1
<1>4. \A x \in T : x <= b
  BY <1>2, SMT
<1>5. Max(T) \in T /\ \A x \in T : x <= Max(T)
  <2>1. b \in Int
    OBVIOUS
  <2> HIDE DEF T
  <2>2. QED
    BY <1>3, <1>4, <2>1, MaxOf
<1>6. TypeOf(S) = Max(T)
  BY DEF TypeOf
<1>7. QED
  BY <1>3, <1>5, <1>6

LEMMA TypeOfLess ==
  ASSUME TypeInv, NEW S, NEW R, R \subseteq 1 .. Len(e820), \A k \in S : k \in R
  PROVE  TypeOf(S) <= TypeOf(R)
<1>1. S \subseteq 1 .. Len(e820)
  OBVIOUS
<1>2. TypeOf(S) \in Nat /\ TypeOf(R) \in Nat
  BY <1>1, TypeOfType DEF TypeInv
<1>3. TypeOf(S) = 0 \/ \E i \in S : TypeOf(S) = e820[i].type
  BY <1>1, TypeOfMember
<1>4. CASE TypeOf(S) = 0
  BY <1>2, <1>4
<1>5. CASE \E i \in S : TypeOf(S) = e820[i].type
  <2>1. PICK i \in R : TypeOf(S) = e820[i].type
    BY <1>5
  <2>2. QED
    BY <2>1, TypeOfMember
<1>6. QED
  BY <1>3, <1>4, <1>5

(* Where the type changes, the address before has another type. *)
LEMMA ChangeFresh ==
  ASSUME TypeInv, ~Unreasonable, NonEmpty, points \subseteq Points, Going,
         \A z \in Passed, y \in points : Precedes(z, y),
         NEW x, IsNext(x), NEW inside,
         inside = (IF Starts(x) THEN overlap \cup {x[1]} ELSE overlap \ {x[1]}),
         TypeOf(inside) # lastType, AddrOf(x) > 0
  PROVE  CoveringType(AddrOf(x) - 1) # TypeOf(inside)
<1> DEFINE here == AddrOf(x)
           over == {k \in 1 .. Len(e820) : Covers(e820[k], here - 1)}
<1>1. /\ x \in points /\ x \in Points /\ here \in Int
      /\ \A z \in Passed : AddrOf(z) <= here
      /\ \A y \in points : here <= AddrOf(y)
  BY AroundNext DEF Addresses
<1>2. PICK i \in 1 .. Len(e820), t \in {"start", "end"} : x = <<i, t>>
  BY <1>1 DEF Points
<1>3. /\ lastType = TypeOf(overlap) /\ overlap \subseteq 1 .. Len(e820)
      /\ \A k \in overlap : <<k, "start">> \in Passed /\ <<k, "end">> \notin Passed
      /\ \A k \in 1 .. Len(e820) :
           <<k, "start">> \in Passed /\ <<k, "end">> \notin Passed => k \in overlap
  BY DEF Going
<1>4. /\ inside \subseteq 1 .. Len(e820) /\ over \subseteq 1 .. Len(e820)
      /\ CoveringType(here - 1) = TypeOf(over)
  BY <1>2, <1>3 DEF CoveringType, TypeOf
<1>5. \A k \in 1 .. Len(e820) : e820[k].type \in Nat
  <2>1. \A k \in 1 .. Len(e820) : e820[k] \in Entry
    BY PointTypes
  <2>2. QED
    BY <2>1 DEF Entry
<1>6. /\ TypeOf(inside) \in Nat /\ TypeOf(overlap) \in Nat /\ TypeOf(over) \in Nat
  BY <1>3, <1>4, TypeOfType DEF TypeInv
<1>7. \A k \in 1 .. Len(e820) :
        Covers(e820[k], here - 1) =>
          AddrOf(<<k, "start">>) < here /\ here <= AddrOf(<<k, "end">>)
  <2>1. TAKE k \in 1 .. Len(e820)
  <2>2. PICK s \in Int, e \in Int : s = AddrOf(<<k, "start">>) /\ e = AddrOf(<<k, "end">>)
    BY PointTypes DEF Addresses
  <2>3. Covers(e820[k], here - 1) <=> s <= here - 1 /\ here - 1 < e
    BY <2>2, Reasonable DEF Covers
  <2> HIDE DEF here
  <2>4. QED
    BY <1>1, <2>2, <2>3, SMT
<1>8. CASE t = "start"
  <2>1. inside = overlap \cup {i}
    BY <1>2, <1>8, Reasonable
  <2>2. ASSUME NEW k \in over
        PROVE  k \in overlap
    <3>1. k \in 1 .. Len(e820) /\ AddrOf(<<k, "start">>) < here /\ here <= AddrOf(<<k, "end">>)
      BY <1>7
    <3>2. AddrOf(<<k, "start">>) \in Int
      BY <3>1, PointTypes DEF Addresses
    <3>3. <<k, "start">> \in Passed
      <4>1. <<k, "start">> \notin points
        BY <1>1, <3>1, <3>2, SMT
      <4>2. QED
        BY <3>1, <4>1, PointTypes DEF Passed
    <3>4. <<k, "end">> \notin Passed
      <4>1. SUFFICES ASSUME <<k, "end">> \in Passed PROVE FALSE
        OBVIOUS
      <4>2. Precedes(<<k, "end">>, x)
        BY <1>1, <4>1
      <4>3. AddrOf(<<k, "end">>) <= here /\ AddrOf(<<k, "end">>) \in Int
        BY <1>1, <3>1, <4>1, PointTypes DEF Addresses
      <4>4. AddrOf(<<k, "end">>) = here
        BY <1>1, <3>1, <4>3, SMT
      <4>5. ~(AddrOf(<<k, "end">>) < here)
        BY <1>1, <4>4
      <4>6. ~Starts(<<k, "end">>) /\ Starts(x)
        BY <1>2, <1>8, <3>1, Reasonable
      <4>7. QED
        BY <4>2, <4>5, <4>6, Zenon DEF Precedes
    <3>5. QED
      BY <1>3, <3>1, <3>3, <3>4
  <2>3. TypeOf(over) <= TypeOf(overlap)
    BY <1>3, <2>2, TypeOfLess
  <2>4. TypeOf(overlap) <= TypeOf(inside)
    BY <1>4, <2>1, TypeOfLess
  <2>5. QED
    BY <1>3, <1>4, <1>6, <2>3, <2>4
<1>9. CASE t = "end"
  <2>1. inside = overlap \ {i}
    BY <1>2, <1>9, Reasonable
  <2>2. i \in over
    <3>1. PICK s \in Int, e \in Int :
            s = AddrOf(<<i, "start">>) /\ e = AddrOf(<<i, "end">>) /\ s < e
      BY Reasonable, PointTypes DEF Addresses
    <3>2. here = e
      BY <1>2, <1>9, <3>1
    <3>3. Covers(e820[i], here - 1) <=> s <= here - 1 /\ here - 1 < e
      BY <3>1, Reasonable DEF Covers
    <3>4. Covers(e820[i], here - 1)
      BY <3>1, <3>2, <3>3
    <3>5. QED
      BY <3>4
  <2>3. TypeOf(inside) <= TypeOf(overlap)
    BY <1>3, <2>1, TypeOfLess
  <2>4. e820[i].type = TypeOf(overlap)
    <3>1. TypeOf(overlap) \in {0} \cup {e820[k].type : k \in overlap}
      BY <1>3, TypeOfMember
    <3>2. TypeOf(overlap) # 0
      BY <1>3, <1>6, <2>3
    <3>3. PICK k \in overlap : TypeOf(overlap) = e820[k].type
      BY <3>1, <3>2
    <3>4. CASE k = i
      BY <3>3, <3>4
    <3>5. CASE k # i
      <4>1. e820[k].type <= TypeOf(inside)
        BY <1>4, <2>1, <3>5, TypeOfMember
      <4>2. QED
        BY <1>3, <1>6, <2>3, <3>3, <4>1
    <3>6. QED
      BY <3>4, <3>5
  <2>5. e820[i].type <= TypeOf(over)
    BY <1>4, <2>2, TypeOfMember
  <2>6. QED
    BY <1>3, <1>4, <1>6, <2>3, <2>4, <2>5
<1>10. QED
  BY <1>2, <1>8, <1>9

LEMMA TypesSame ==
  ASSUME UNCHANGED e820
  PROVE  /\ Unreasonable' = Unreasonable /\ NonEmpty' = NonEmpty
         /\ \A a : CoveringType(a)' = CoveringType(a)
         /\ \A a, t : Fresh(a, t)' <=> Fresh(a, t)
BY DEF Unreasonable, NonEmpty, CoveringType, Fresh

LEMMA SweepPointFresh ==
  ASSUME Inv, Unsplit, SweepPoint
  PROVE  Unsplit'
<1> DEFINE Inside2(x) == IF Starts(x) THEN overlap \cup {x[1]} ELSE overlap \ {x[1]}
           Finished(x) == [addr |-> lastAddr, size |-> AddrOf(x) - lastAddr,
                           type |-> lastType]
           Done(x) == /\ TypeOf(Inside2(x)) # lastType /\ lastType # 0
                      /\ Finished(x).size # 0
           Nm(x) == IF Done(x) THEN Append(nm, Finished(x)) ELSE nm
           Stop(x) == Done(x) /\ NoRoom(Nm(x))
<1>1. PICK x \in points :
        /\ pc = "sweep" /\ IsNext(x)
        /\ nm' = Nm(x)
        /\ full' = Stop(x)
        /\ lastType' = IF Stop(x) THEN lastType ELSE TypeOf(Inside2(x))
        /\ lastAddr' = IF TypeOf(Inside2(x)) \notin {lastType, 0} /\ ~Stop(x)
                       THEN AddrOf(x) ELSE lastAddr
        /\ UNCHANGED <<pc, machine, mode>>
  BY DEF SweepPoint
<1>2. e820' = e820
  BY <1>1 DEF machine
<1> SUFFICES ASSUME NonEmpty
             PROVE  AllFresh' /\ (~full' /\ lastType' # 0 => Fresh(lastAddr', lastType'))
  BY <1>1, <1>2, TypesSame DEF Unsplit
<1>3. /\ TypeInv /\ ~Unreasonable /\ points \subseteq Points /\ NmOK
      /\ lastType \in Nat /\ lastAddr \in Addresses
      /\ \A z \in Passed, y \in points : Precedes(z, y)
      /\ ~full /\ Going
  <2>1. SweepInv /\ TypeInv
    BY DEF Inv
  <2>2. QED
    BY <1>1, <2>1 DEF SweepInv, Stopped
<1>4. AllFresh /\ (lastType # 0 => Fresh(lastAddr, lastType))
  BY <1>1, <1>3 DEF Unsplit
<1> DEFINE inside == Inside2(x)
<1>5. TypeOf(inside) # lastType => Fresh(AddrOf(x), TypeOf(inside))
  BY <1>1, <1>3, ChangeFresh DEF Fresh
<1>6. ~full' /\ lastType' # 0 => Fresh(lastAddr', lastType')
  <2>1. CASE Stop(x)
    BY <1>1, <2>1
  <2>2. CASE ~Stop(x)
    <3>1. lastType' = TypeOf(inside)
      BY <1>1, <2>2
    <3>2. CASE TypeOf(inside) \in {lastType, 0}
      <4>1. lastAddr' = lastAddr
        BY <1>1, <3>2
      <4>2. QED
        BY <1>4, <3>1, <3>2, <4>1
    <3>3. CASE TypeOf(inside) \notin {lastType, 0}
      <4>1. lastAddr' = AddrOf(x)
        BY <1>1, <2>2, <3>3
      <4>2. QED
        BY <1>5, <3>1, <3>3, <4>1
    <3>4. QED
      BY <3>2, <3>3
  <2>3. QED
    BY <2>1, <2>2
<1>7. AllFresh'
  <2>1. ASSUME NEW k \in 1 .. Len(nm')
        PROVE  Fresh(nm'[k].addr, nm'[k].type)
    <3>1. CASE Done(x)
      <4>1. nm' = Append(nm, Finished(x)) /\ lastType # 0
        BY <1>1, <3>1
      <4>2. Finished(x) \in NmEntry /\ nm \in Seq(NmEntry)
        <5>1. AddrOf(x) \in Addresses
          BY <1>1, <1>3, AroundNext
        <5>2. QED
          BY <1>3, <5>1 DEF NmEntry, NmOK, Addresses
      <4>3. /\ nm'[Len(nm) + 1] = Finished(x)
            /\ \A i \in 1 .. Len(nm) : nm'[i] = nm[i]
            /\ k \in 1 .. Len(nm) \/ k = Len(nm) + 1
        BY <2>1, <4>1, <4>2, AppendCovers
      <4>4. QED
        BY <1>4, <4>1, <4>3 DEF AllFresh
    <3>2. CASE ~Done(x)
      BY <1>1, <1>4, <2>1, <3>2 DEF AllFresh
    <3>3. QED
      BY <3>1, <3>2
  <2>2. QED
    BY <1>2, <2>1, TypesSame DEF AllFresh
<1>8. QED
  BY <1>6, <1>7

(* A page of one type lies in one entry of the sanitized table.              *)
LEMMA InOneEntry ==
  ASSUME TypeInv, NmOK, Ascending, AllFresh, NEW t \in Usable, NEW page \in Nat,
         \A a \in Of(page) : a \in Addresses /\ CoveringType(a) = t,
         \A a \in Addresses : a \in Of(page) =>
           {nm[i].type : i \in {k \in 1 .. Len(nm) : Covers(nm[k], a)}}
             = {CoveringType(a)} \ {0}
  PROVE  \E k \in 1 .. Len(nm) : nm[k].type = t /\ Within(page, nm[k])
<1> DEFINE b == page * PageSize
<1>1. b \in Nat /\ PageSize \in Nat \ {0} /\ Of(page) = b .. b + PageSize - 1
      /\ t # 0
  <2>1. PageSize \in Nat \ {0}
    BY MapAssumption
  <2>2. b \in Nat
    BY <2>1, Monotone, SMT
  <2>3. QED
    BY <2>1, <2>2 DEF Of, Usable, RAM, ACPI
<1> HIDE DEF b
<1>2. ASSUME NEW a \in Of(page)
      PROVE  \E k \in 1 .. Len(nm) : Covers(nm[k], a) /\ nm[k].type = t
  <2>1. t \in {nm[i].type : i \in {k \in 1 .. Len(nm) : Covers(nm[k], a)}}
    BY <1>1
  <2>2. QED
    BY <2>1
<1>3. \A k \in 1 .. Len(nm) : nm[k].addr \in Nat /\ NmEnd(k) \in Int
  <2>1. \A k \in 1 .. Len(nm) : nm[k] \in NmEntry
    BY DEF NmOK
  <2>2. QED
    BY <2>1 DEF NmOK, NmEntry, Addresses
<1>4. PICK k \in 1 .. Len(nm) : Covers(nm[k], b) /\ nm[k].type = t
  <2>1. b \in Of(page)
    BY <1>1
  <2>2. QED
    BY <1>2, <2>1
<1>5. nm[k].addr <= b /\ b < NmEnd(k)
  BY <1>4 DEF Covers, NmEnd
<1>6. SUFFICES b + PageSize <= NmEnd(k)
  <2>1. ASSUME b + PageSize <= NmEnd(k), NEW a \in Of(page)
        PROVE  nm[k].addr <= a /\ a < NmEnd(k)
    BY <1>1, <1>3, <1>5, <2>1
  <2>2. QED
    BY <1>4, <2>1 DEF Within, Covers, NmEnd
<1>7. SUFFICES ASSUME NmEnd(k) < b + PageSize
               PROVE  FALSE
  BY <1>1, <1>3
<1>8. PICK a \in Nat : a = NmEnd(k) /\ a - 1 \in Of(page) /\ a \in Of(page) /\ a > 0
  BY <1>1, <1>3, <1>5, <1>7
<1>9. PICK i \in 1 .. Len(nm) : Covers(nm[i], a) /\ nm[i].type = t
  BY <1>2, <1>8
<1>10. nm[i].addr <= a /\ a < NmEnd(i)
  BY <1>9 DEF Covers, NmEnd
<1>11. i # k
  BY <1>3, <1>8, <1>10
<1>12. CASE i < k
  <2>1. NmEnd(i) <= nm[k].addr
    BY <1>12 DEF Ascending, NmEnd
  <2>2. QED
    BY <1>1, <1>3, <1>5, <1>8, <1>10, <2>1
<1>13. CASE k < i
  <2>1. NmEnd(k) <= nm[i].addr
    BY <1>13 DEF Ascending, NmEnd
  <2>2. nm[i].addr = a
    BY <1>3, <1>8, <1>10, <2>1
  <2>3. CoveringType(a - 1) # t
    BY <1>8, <1>9, <2>2 DEF AllFresh, Fresh
  <2>4. QED
    BY <1>8, <2>3
<1>14. i \in Int /\ k \in Int
  OBVIOUS
<1>15. QED
  BY <1>11, <1>12, <1>13, <1>14

-----------------------------------------------------------------------------
(* The pages of the table. *)

LEMMA PageBetween ==
  ASSUME NEW a \in Nat, NEW b \in Nat, NEW page \in Nat,
         a <= page * PageSize, page * PageSize + PageSize <= b
  PROVE  page \in Up(a) .. Down(b) - 1
<1>1. PageSize \in Nat \ {0}
  BY MapAssumption
<1>2. PICK u \in Nat : u = Up(a) /\ u * PageSize < a + PageSize
  BY DownUp
<1>3. PICK d \in Nat : d = Down(b) /\ b < d * PageSize + PageSize
  BY DownUp
<1>4. u * PageSize \in Int /\ d * PageSize \in Int /\ page * PageSize \in Int
  BY <1>1, Monotone
<1>5. u <= page
  <2>1. CASE page < u
    <3>1. page * PageSize + PageSize <= u * PageSize
      BY <1>1, <2>1, Monotone
    <3>2. QED
      BY <1>1, <1>2, <1>4, <3>1
  <2>2. QED
    BY <2>1
<1>6. page < d
  <2>1. CASE d <= page
    <3>1. d * PageSize <= page * PageSize
      BY <1>1, <2>1, Monotone
    <3>2. QED
      BY <1>1, <1>3, <1>4, <3>1
  <2>2. QED
    BY <2>1
<1>7. QED
  BY <1>2, <1>3, <1>5, <1>6

LEMMA WithinBounds ==
  ASSUME NEW page \in Nat, NEW e, e.addr \in Nat, e.addr + e.size \in Int,
         Within(page, e)
  PROVE  /\ page * PageSize \in Nat /\ e.addr <= page * PageSize
         /\ page * PageSize + PageSize <= e.addr + e.size
<1>1. PageSize \in Nat \ {0} /\ page * PageSize \in Nat
  <2>1. PageSize \in Nat \ {0}
    BY MapAssumption
  <2>2. QED
    BY <2>1, Monotone, SMT
<1>2. PICK b \in Nat : b = page * PageSize
  BY <1>1
<1>3. b \in Of(page) /\ b + PageSize - 1 \in Of(page)
  BY <1>1, <1>2 DEF Of
<1>4. e.addr <= b /\ b + PageSize - 1 < e.addr + e.size
  BY <1>3 DEF Within, Covers
<1>5. QED
  BY <1>1, <1>2, <1>4

(* What is cut off an entry is in the hole. *)
LEMMA ClippedPages ==
  ASSUME NEW s \in Nat, NEW e \in Nat, NEW page \in Nat,
         s <= page * PageSize, page * PageSize + PageSize <= e,
         Of(page) \cap Hole = {}
  PROVE  /\ ~InHole(s, e)
         /\ page \in Up(Clip(s, e)[1]) .. Down(Clip(s, e)[2]) - 1
<1>1. /\ PageSize \in Nat \ {0} /\ ResStart \in Nat /\ ResEnd \in Nat /\ ResStart < ResEnd
      /\ page * PageSize \in Nat
  <2>1. PageSize \in Nat \ {0} /\ ResStart \in Nat /\ ResEnd \in Nat /\ ResStart < ResEnd
    BY MapAssumption
  <2>2. QED
    BY <2>1, Monotone, SMT
<1>2. PICK b \in Nat : b = page * PageSize
  BY <1>1
<1>3. b >= ResEnd \/ b + PageSize <= ResStart
  <2>1. b \notin Hole
    BY <1>1, <1>2 DEF Of
  <2>2. CASE b < ResStart
    <3>1. ResStart \notin Of(page)
      BY <1>1 DEF Hole
    <3>2. QED
      BY <1>1, <1>2, <2>2, <3>1 DEF Of
  <2>3. QED
    BY <1>1, <2>1, <2>2 DEF Hole
<1>4. ~InHole(s, e)
  BY <1>1, <1>2, <1>3 DEF InHole
<1>5. PICK c1 \in Nat, c2 \in Nat : c1 = Clip(s, e)[1] /\ c2 = Clip(s, e)[2]
  BY <1>1 DEF Clip
<1>6. c1 <= b /\ b + PageSize <= c2
  BY <1>1, <1>2, <1>3, <1>5 DEF Clip
<1>7. QED
  BY <1>2, <1>4, <1>5, <1>6, PageBetween

LEMMA AddSegmentLists ==
  ASSUME TypeInv, msegs <= E820Max, NEW start \in Nat, NEW end \in Nat,
         AddSegment(start, end)
  PROVE  /\ \A page \in Listed : page \in Listed'
         /\ \A page \in Up(start) .. Down(end) - 1 : page \in Listed'
<1>1. /\ msegs \in Nat /\ msegs \in -1 .. E820Max /\ E820Max \in Nat
      /\ pmap \in [-1 .. E820Max -> SegmentType]
  BY MapAssumption, SMT DEF TypeInv
<1>2. /\ pmap' = [pmap EXCEPT ![msegs] = [start |-> Up(start), end |-> Down(end)]]
      /\ msegs' = msegs + 1
  BY DEF AddSegment
<1>3. ASSUME NEW k \in 0 .. msegs - 1
      PROVE  k \in 0 .. msegs' - 1 /\ Segment(k)' = Segment(k)
  <2>1. k \in -1 .. E820Max /\ k # msegs /\ k \in 0 .. msegs' - 1
    BY <1>1, <1>2
  <2>2. QED
    BY <1>1, <1>2, <2>1 DEF Segment
<1>4. PICK m \in Nat : m = msegs
  BY <1>1
<1>5. m \in 0 .. msegs' - 1 /\ Segment(m)' = Up(start) .. Down(end) - 1
  <2>1. pmap'[m] = [start |-> Up(start), end |-> Down(end)]
    BY <1>1, <1>2, <1>4
  <2>2. pmap'[m].start = Up(start) /\ pmap'[m].end = Down(end)
    BY <2>1
  <2>3. m \in 0 .. msegs' - 1
    BY <1>2, <1>4
  <2>4. QED
    BY <2>2, <2>3 DEF Segment
<1>6. \A k \in 0 .. msegs' - 1 : \A page : page \in Segment(k)' => page \in Listed'
  BY DEF Listed
<1>7. \A page \in Listed : \E k \in 0 .. msegs - 1 : page \in Segment(k)
  BY DEF Listed
<1>8. QED
  BY <1>3, <1>5, <1>6, <1>7

LEMMA TurnRoom ==
  ASSUME Inv, pc \in {"build", "linuxbios"},
         at <= (IF pc = "build" THEN Len(nm) ELSE Len(e820))
  PROVE  /\ TypeInv /\ mode = "bios" /\ at \in Nat \ {0} /\ msegs \in Nat /\ msegs <= E820Max
         /\ pc = "build" => NmOK /\ at \in 1 .. Len(nm) /\ Len(nm) \in Nat
         /\ pc = "linuxbios" => at \in 1 .. Len(e820) /\ Len(e820) \in Nat
<1>1. TypeInv /\ BuildInv
  BY DEF Inv
<1>2. at > msegs /\ at \in Nat /\ msegs \in Nat /\ mode = "bios" /\ E820Max \in Nat
      /\ e820 \in Seq(Entry)
  BY <1>1, MapAssumption DEF BuildInv, TypeInv
<1>3. at >= 1
  BY <1>2
<1>4. CASE pc = "build"
  <2>1. NmOK /\ Len(nm) \in Nat /\ Len(nm) <= E820Max /\ at <= Len(nm)
    BY <1>1, <1>4 DEF BuildInv, NmOK
  <2>2. msegs <= E820Max
    BY <1>2, <2>1
  <2>3. QED
    BY <1>1, <1>2, <1>3, <1>4, <2>1, <2>2
<1>5. CASE pc = "linuxbios"
  <2>1. Len(e820) \in Nat /\ Len(e820) <= E820Max /\ at <= Len(e820)
    BY <1>1, <1>5 DEF TypeInv
  <2>2. msegs <= E820Max
    BY <1>2, <2>1
  <2>3. QED
    BY <1>1, <1>2, <1>3, <1>5, <2>1, <2>2
<1>6. QED
  BY <1>4, <1>5

LEMMA BuildUsableAll ==
  ASSUME Inv, RamInv, BuildUsable
  PROVE  RamInv'
<1> DEFINE s == nm[at].addr
           e == NmEnd(at)
           c == Clip(s, e)
<1>1. /\ pc = "build" /\ at <= Len(nm) /\ nm[at].type \in Usable /\ at' = at + 1
      /\ UNCHANGED <<pc, machine, mode, probing, sanitizing, full, moved>>
      /\ IF InHole(s, e)
         THEN UNCHANGED <<pmap, testPages, msegs>>
         ELSE AddSegment(c[1], c[2])
  BY DEF BuildUsable, NmEnd
<1>2. UNCHANGED <<e820, nm>>
  BY <1>1 DEF machine, sanitizing
<1>3. TypeInv /\ NmOK /\ at \in 1 .. Len(nm) /\ at \in Nat /\ msegs <= E820Max
  BY <1>1, TurnRoom
<1>4. s \in Nat /\ e \in Nat
  <2>1. nm[at] \in NmEntry /\ e \in Addresses
    BY <1>3 DEF NmOK
  <2>2. QED
    BY <2>1 DEF NmEntry, Addresses
<1>5. c[1] \in Nat /\ c[2] \in Nat
  BY <1>4, MapAssumption DEF Clip
<1>6. \A page \in Listed : page \in Listed'
  <2>1. CASE InHole(s, e)
    BY <1>1, <2>1 DEF Listed, Segment
  <2>2. CASE ~InHole(s, e)
    <3>1. AddSegment(c[1], c[2])
      BY <1>1, <2>2
    <3> HIDE DEF c
    <3>2. QED
      BY <1>3, <1>5, <3>1, AddSegmentLists
  <2>3. QED
    BY <2>1, <2>2
<1>7. ASSUME NEW page \in Nat, Within(page, nm[at]), Of(page) \cap Hole = {}
      PROVE  page \in Listed'
  <2>1. s <= page * PageSize /\ page * PageSize + PageSize <= e
    BY <1>4, <1>7, WithinBounds DEF NmEnd
  <2> HIDE DEF s, e
  <2>2. ~InHole(s, e) /\ page \in Up(c[1]) .. Down(c[2]) - 1
    BY <1>4, <1>7, <2>1, ClippedPages
  <2>3. AddSegment(c[1], c[2])
    BY <1>1, <2>2
  <2> HIDE DEF c
  <2>4. QED
    BY <1>3, <1>5, <2>2, <2>3, AddSegmentLists
<1>8. Turned'
  <2>1. ASSUME NEW k \in 1 .. Len(nm), NEW page \in Nat, k < at + 1,
               nm[k].type \in Usable, Within(page, nm[k]), Of(page) \cap Hole = {}
        PROVE  page \in Listed'
    <3>1. CASE k = at
      BY <1>7, <2>1, <3>1
    <3>2. CASE k # at
      <4>1. k < at
        BY <1>3, <2>1, <3>2
      <4>2. page \in Listed
        BY <1>1, <2>1, <4>1 DEF RamInv, Turned
      <4>3. QED
        BY <1>6, <4>2
    <3>3. QED
      BY <3>1, <3>2
  <2>2. QED
    BY <1>1, <1>2, <2>1 DEF Turned
<1>9. Unsplit'
  BY <1>1, <1>2, TypesSame DEF RamInv, Unsplit, AllFresh
<1>10. QED
  BY <1>1, <1>8, <1>9 DEF RamInv, SoughtFound, GapCounted, AllListed

LEMMA BuildOtherAll ==
  ASSUME Inv, RamInv, BuildOther
  PROVE  RamInv'
<1>1. /\ pc = "build" /\ at <= Len(nm) /\ nm[at].type \notin Usable /\ at' = at + 1
      /\ UNCHANGED <<pc, machine, mode, probing, sanitizing, pmap, msegs, full, moved>>
  BY DEF BuildOther
<1>2. UNCHANGED <<e820, nm>> /\ Listed' = Listed
  BY <1>1 DEF machine, sanitizing, Listed, Segment
<1>3. at \in Nat
  BY <1>1, TurnRoom
<1>4. Turned'
  <2>1. ASSUME NEW k \in 1 .. Len(nm), NEW page \in Nat, k < at + 1,
               nm[k].type \in Usable, Within(page, nm[k]), Of(page) \cap Hole = {}
        PROVE  page \in Listed
    <3>1. k # at
      BY <1>1, <2>1
    <3>2. k < at
      BY <1>3, <2>1, <3>1
    <3>3. QED
      BY <1>1, <2>1, <3>2 DEF RamInv, Turned
  <2>2. QED
    BY <1>1, <1>2, <2>1 DEF Turned
<1>5. Unsplit'
  BY <1>1, <1>2, TypesSame DEF RamInv, Unsplit, AllFresh
<1>6. QED
  BY <1>1, <1>4, <1>5 DEF RamInv, SoughtFound, GapCounted, AllListed

LEMMA LinuxbiosEntryAll ==
  ASSUME Inv, RamInv, LinuxbiosEntry
  PROVE  RamInv'
<1>1. /\ pc = "linuxbios" /\ at <= Len(e820) /\ at' = at + 1
      /\ UNCHANGED <<pc, machine, mode, probing, sanitizing, full, moved>>
      /\ IF e820[at].type = RAM
         THEN AddSegment(e820[at].addr, End(e820[at]))
         ELSE UNCHANGED <<pmap, testPages, msegs>>
  BY DEF LinuxbiosEntry
<1>2. UNCHANGED <<e820, nm>>
  BY <1>1 DEF machine, sanitizing
<1>3. TypeInv /\ at \in 1 .. Len(e820) /\ at \in Nat /\ msegs <= E820Max
  BY <1>1, TurnRoom
<1>4. PICK s \in Nat, z \in Nat, e \in Nat :
        s = e820[at].addr /\ z = e820[at].size /\ e = End(e820[at])
        /\ s < Word /\ z < Word
  <2>1. Word \in Nat \ {0}
    BY <1>3, PointTypes
  <2>2. \A a \in Addresses : a \in Nat /\ a < Word
    BY <2>1 DEF Addresses
  <2>3. e820[at].addr \in Addresses /\ e820[at].size \in Addresses /\ End(e820[at]) \in Addresses
    BY <1>3, PointTypes
  <2>4. QED
    BY <2>2, <2>3
<1>5. \A page \in Listed : page \in Listed'
  <2>1. CASE e820[at].type # RAM
    BY <1>1, <2>1 DEF Listed, Segment
  <2>2. CASE e820[at].type = RAM
    <3>1. AddSegment(s, e)
      BY <1>1, <1>4, <2>2
    <3>2. QED
      BY <1>3, <3>1, AddSegmentLists
  <2>3. QED
    BY <2>1, <2>2
<1>6. ASSUME ~Unreasonable, e820[at].type = RAM, NEW page \in Nat, Within(page, e820[at])
      PROVE  page \in Listed'
  <2>1. s <= page * PageSize /\ page * PageSize + PageSize <= s + z
    BY <1>4, <1>6, WithinBounds
  <2>2. s + z = e
    <3>1. e = (s + z) % Word /\ ~(e < s) /\ Word \in Nat \ {0}
      BY <1>3, <1>4, <1>6, PointTypes DEF Unreasonable, End
    <3>2. CASE s + z >= Word
      <4>1. (s + z) % Word = s + z - Word
        BY <1>4, <3>1, <3>2, SMT
      <4>2. QED
        BY <1>4, <3>1, <4>1
    <3>3. CASE s + z < Word
      <4>1. s + z \in 0 .. Word - 1
        BY <3>1, <3>3
      <4>2. QED
        BY <3>1, <4>1, ModSmall
    <3>4. QED
      BY <3>1, <3>2, <3>3
  <2>3. page \in Up(s) .. Down(e) - 1
    <3>1. page * PageSize + PageSize <= e
      BY <2>1, <2>2
    <3>2. QED
      BY <2>1, <3>1, PageBetween
  <2>4. AddSegment(s, e)
    BY <1>1, <1>4, <1>6
  <2>5. QED
    BY <1>3, <2>3, <2>4, AddSegmentLists
<1>7. Turned'
  <2>1. ASSUME ~Unreasonable, NEW k \in 1 .. Len(e820), NEW page \in Nat, k < at + 1,
               e820[k].type = RAM, Within(page, e820[k])
        PROVE  page \in Listed'
    <3>1. CASE k = at
      BY <1>6, <2>1, <3>1
    <3>2. CASE k # at
      <4>1. k < at
        BY <1>3, <2>1, <3>2
      <4>2. page \in Listed
        BY <1>1, <2>1, <4>1 DEF RamInv, Turned
      <4>3. QED
        BY <1>5, <4>2
    <3>3. QED
      BY <3>1, <3>2
  <2>2. QED
    BY <1>1, <1>2, <2>1, TypesSame DEF Turned
<1>8. Unsplit'
  BY <1>1 DEF Unsplit
<1>9. QED
  BY <1>1, <1>7, <1>8 DEF RamInv, SoughtFound, GapCounted, AllListed

-----------------------------------------------------------------------------
(* The steps of the table that list nothing *)

LEMMA NothingBuilt ==
  ASSUME pc' \in {"sweep", "build", "fallback", "linuxbios", "start", "wrap"},
         Unsplit', pc' \in {"build", "linuxbios"} => at' = 1
  PROVE  RamInv'
<1>1. Turned'
  <2>1. ASSUME at' = 1, NEW k \in Nat \ {0}
        PROVE  ~(k < at')
    BY <2>1
  <2>2. ASSUME NEW n, NEW k \in 1 .. n
        PROVE  k \in Int /\ k >= 1
    BY <2>2
  <2>3. at' = 1 => Turned'
    BY <2>1, <2>2 DEF Turned
  <2>4. QED
    BY <2>3 DEF Turned
<1>2. QED
  BY <1>1 DEF RamInv, SoughtFound, GapCounted, AllListed

LEMMA SweepPointAll ==
  ASSUME Inv, RamInv, SweepPoint
  PROVE  RamInv'
<1>1. pc' = "sweep"
  BY DEF SweepPoint
<1>2. Unsplit'
  BY SweepPointFresh DEF RamInv
<1>3. QED
  BY <1>1, <1>2, NothingBuilt

LEMMA SweepOverAll ==
  ASSUME Inv, RamInv, SweepOver
  PROVE  RamInv'
<1>1. /\ pc = "sweep" /\ at' = 1 /\ pc' \in {"fallback", "build"}
      /\ UNCHANGED <<machine, sanitizing, full>>
  BY DEF SweepOver
<1>2. UNCHANGED <<e820, nm, lastType, lastAddr>>
  BY <1>1 DEF machine, sanitizing
<1>3. Unsplit'
  BY <1>1, <1>2, TypesSame DEF RamInv, Unsplit, AllFresh
<1>4. QED
  BY <1>1, <1>3, NothingBuilt

LEMMA MemSizeAll ==
  ASSUME Inv, RamInv, MemSize
  PROVE  RamInv'
<1>1. /\ pc' \in {"wrap", "linuxbios", "fallback", "sweep"}
      /\ pc' = "linuxbios" => at' = 1
      /\ nm' = <<>> /\ lastType' = 0
  BY DEF MemSize
<1>2. Unsplit'
  <2>1. 1 .. Len(nm') = {}
    BY <1>1
  <2>2. QED
    BY <1>1, <2>1 DEF Unsplit, AllFresh
<1>3. QED
  BY <1>1, <1>2, NothingBuilt

LEMMA RestartAll ==
  ASSUME Inv, RamInv, Restart
  PROVE  RamInv'
<1>1. pc' = "start"
  BY DEF Restart
<1>2. Unsplit'
  BY <1>1 DEF Unsplit
<1>3. QED
  BY <1>1, <1>2, NothingBuilt

-----------------------------------------------------------------------------
(* The steps that end with the map, or leave it as it is *)

LEMMA AllIsThere ==
  ASSUME pc' \in {"sort", "ready"}, ~moved' => TableListed' /\ ProbesListed'
  PROVE  RamInv'
BY DEF RamInv, Unsplit, Turned, SoughtFound, GapCounted, AllListed

LEMMA ListedSame ==
  ASSUME UNCHANGED <<machine, mode, limit, nm, full>>,
         \A page : page \in Listed => page \in Listed'
  PROVE  (TableListed => TableListed') /\ (ProbesListed => ProbesListed')
<1>1. UNCHANGED <<e820, firmware, ram, decode>>
  BY DEF machine
<1>2. /\ FromTable' = FromTable /\ \A page : UsablePage(page)' = UsablePage(page)
      /\ \A a : Sees(a)' = Sees(a) /\ GivenUp(a)' = GivenUp(a)
  BY <1>1 DEF FromTable, UsablePage, CoveringType, Sees, GivenUp
<1>3. Unreasonable' = Unreasonable /\ NonEmpty' = NonEmpty
  BY <1>1, TypesSame
<1>4. TableListed => TableListed'
  BY <1>1, <1>2, <1>3 DEF TableListed
<1>5. ProbesListed => ProbesListed'
  BY <1>2 DEF ProbesListed
<1>6. QED
  BY <1>4, <1>5

LEMMA ReadyAll ==
  ASSUME Inv, RamInv,
         Sorted \/ AllMemory \/ \E page \in Pages : SetLower(page) \/ SetUpper(page)
  PROVE  RamInv'
<1>1. /\ pc \in {"sort", "ready"} /\ pc' = "ready"
      /\ UNCHANGED <<machine, mode, probing, sanitizing, at, pmap, msegs, full, moved>>
  BY DEF Sorted, AllMemory, SetLower, SetUpper
<1>2. UNCHANGED <<limit, nm>> /\ Listed' = Listed
  BY <1>1 DEF probing, sanitizing, Listed, Segment
<1>3. ~moved => TableListed /\ ProbesListed
  BY <1>1 DEF RamInv, AllListed
<1>4. QED
  BY <1>1, <1>2, <1>3, ListedSame, AllIsThere

LEMMA SortTurnAll ==
  ASSUME Inv, RamInv, SortTurn
  PROVE  RamInv'
<1>1. /\ pc = "sort" /\ pc' = pc /\ at < msegs /\ at' = at + 1
      /\ pmap' = (IF at # Place(at) THEN Shift(at, Place(at)) ELSE pmap)
      /\ moved' = (moved \/ (at # 0 /\ at # Place(at)))
      /\ UNCHANGED <<machine, mode, probing, sanitizing, msegs, full>>
  BY DEF SortTurn
<1>2. UNCHANGED <<limit, nm>>
  BY <1>1 DEF probing, sanitizing
<1>3. SUFFICES ASSUME ~moved'
               PROVE  TableListed' /\ ProbesListed'
  BY <1>1, AllIsThere
<1>4. TableListed /\ ProbesListed /\ (at = 0 \/ at = Place(at))
  BY <1>1, <1>3 DEF RamInv, AllListed
<1>5. /\ TypeInv /\ msegs \in Nat /\ msegs <= E820Max + 1 /\ E820Max \in Nat
      /\ DOMAIN pmap = -1 .. E820Max
  BY MapAssumption DEF Inv, TypeInv
<1>6. ASSUME NEW k \in 0 .. msegs - 1
      PROVE  pmap'[k] = pmap[k]
  <2>1. CASE at = Place(at)
    BY <1>1, <2>1
  <2>2. CASE at # Place(at)
    <3>1. at = 0 /\ pmap' = Shift(0, Place(0))
      BY <1>1, <1>4, <2>2
    <3>2. Place(0) = -1
      <4>1. 0 .. 0 - 1 = {}
        OBVIOUS
      <4>2. {j \in 0 .. 0 - 1 : pmap[0].start > pmap[j].start} = {}
        BY <4>1
      <4>3. QED
        BY <4>2 DEF Place
    <3>3. k \in DOMAIN pmap /\ k # -1 /\ k \notin -1 .. 0 - 1
      BY <1>5, <1>6
    <3>4. QED
      BY <3>1, <3>2, <3>3 DEF Shift
  <2>3. QED
    BY <2>1, <2>2
<1>7. Listed' = Listed
  BY <1>1, <1>6 DEF Listed, Segment
<1>8. QED
  BY <1>1, <1>2, <1>4, <1>7, ListedSame

LEMMA FallbackAll ==
  ASSUME Inv, RamInv, Fallback
  PROVE  RamInv'
<1>1. pc = "fallback" /\ pc' = "sort" /\ UNCHANGED <<machine, mode, sanitizing>>
  BY DEF Fallback
<1>2. nm = <<>> /\ mode = "bios" /\ firmware = "pcbios"
  BY <1>1 DEF Inv, BuildInv
<1>3. nm' = <<>> /\ mode' = "bios" /\ firmware' = "pcbios"
  BY <1>1, <1>2 DEF machine, sanitizing
<1>4. TableListed' /\ ProbesListed'
  BY <1>3 DEF TableListed, ProbesListed, FromTable
<1>5. QED
  BY <1>1, <1>4, AllIsThere

LEMMA PageAddresses ==
  ASSUME NEW page \in AllPages
  PROVE  page \in Nat /\ \A a \in Of(page) : a \in Addresses
<1>1. PageSize \in Nat \ {0} /\ Word \in Nat
  BY MapAssumption
<1>2. PICK d \in Nat : d = Down(Word) /\ d * PageSize <= Word
  BY <1>1, DownUp
<1>3. page \in Nat /\ page < d
  BY <1>2 DEF AllPages
<1>4. /\ page * PageSize + PageSize <= d * PageSize
      /\ page * PageSize \in Int /\ d * PageSize \in Int
  BY <1>1, <1>3, Monotone
<1>5. page * PageSize >= 0
  BY <1>1, <1>3, SMT
<1>6. ASSUME NEW b \in Nat, b + PageSize <= Word, NEW a \in b .. b + PageSize - 1
      PROVE  a \in 0 .. Word - 1
  BY <1>1, <1>6
<1>7. page * PageSize \in Nat /\ page * PageSize + PageSize <= Word
  BY <1>1, <1>2, <1>4, <1>5
<1>8. QED
  BY <1>3, <1>6, <1>7 DEF Of, Addresses

LEMMA BuiltAll ==
  ASSUME Inv, RamInv, Built
  PROVE  RamInv'
<1>1. /\ pc' = "sort"
      /\ UNCHANGED <<machine, mode, probing, sanitizing, msegs, pmap, full, moved>>
      /\ \/ pc = "build" /\ at > Len(nm)
         \/ pc = "linuxbios" /\ at > Len(e820)
  BY DEF Built
<1>2. UNCHANGED <<limit, nm>> /\ Listed' = Listed
  BY <1>1 DEF probing, sanitizing, Listed, Segment
<1>3. TypeInv /\ mode = "bios" /\ at \in Nat
  BY <1>1 DEF Inv, BuildInv, TypeInv
<1>4. TableListed
  <2>1. SUFFICES ASSUME ~Unreasonable, ~full, NonEmpty \/ firmware = "linuxbios",
                        NEW page \in AllPages, UsablePage(page),
                        Of(page) \cap Hole = {} \/ firmware = "linuxbios"
                 PROVE  page \in Listed
    BY DEF TableListed
  <2>2. page \in Nat /\ \A a \in Of(page) : a \in Addresses
    BY PageAddresses
  <2>3. CASE pc = "build" /\ at > Len(nm)
    <3>1. firmware = "pcbios" /\ NmOK /\ (NonEmpty => Ascending /\ TypesKept)
      BY <2>3 DEF Inv, BuildInv
    <3>2. NonEmpty /\ Of(page) \cap Hole = {} /\ Ascending /\ TypesKept
      BY <2>1, <3>1
    <3>3. PICK t \in Usable : \A a \in Of(page) : CoveringType(a) = t
      BY <2>1, <3>1 DEF UsablePage
    <3>4. AllFresh
      BY <2>3, <3>2 DEF RamInv, Unsplit
    <3>5. \A a \in Addresses :
            {nm[i].type : i \in {k \in 1 .. Len(nm) : Covers(nm[k], a)}}
              = {CoveringType(a)} \ {0}
      BY <2>1, <3>2 DEF TypesKept
    <3>6. PICK k \in 1 .. Len(nm) : nm[k].type = t /\ Within(page, nm[k])
      <4>1. \A a \in Of(page) : a \in Addresses /\ CoveringType(a) = t
        BY <2>2, <3>3
      <4>2. \A a \in Addresses : a \in Of(page) =>
              {nm[i].type : i \in {k \in 1 .. Len(nm) : Covers(nm[k], a)}}
                = {CoveringType(a)} \ {0}
        BY <3>5
      <4>3. QED
        BY <1>3, <2>2, <3>1, <3>2, <3>4, <4>1, <4>2, InOneEntry
    <3>7. k < at
      <4>1. Len(nm) \in Nat
        BY <3>1 DEF NmOK
      <4>2. QED
        BY <1>3, <2>3, <4>1
    <3>8. QED
      BY <2>2, <2>3, <3>2, <3>3, <3>6, <3>7 DEF RamInv, Turned
  <2>4. CASE pc = "linuxbios" /\ at > Len(e820)
    <3>1. firmware = "linuxbios"
      BY <2>4 DEF Inv, BuildInv
    <3>2. PICK k \in 1 .. Len(e820) : e820[k].type = RAM /\ Within(page, e820[k])
      BY <2>1, <3>1 DEF UsablePage, Within
    <3>3. k < at
      <4>1. Len(e820) \in Nat
        BY <1>3, PointTypes
      <4>2. QED
        BY <1>3, <2>4, <4>1
    <3>4. QED
      BY <2>1, <2>2, <2>4, <3>2, <3>3 DEF RamInv, Turned
  <2>5. QED
    BY <1>1, <2>3, <2>4
<1>5. ProbesListed
  BY <1>3 DEF ProbesListed
<1>6. QED
  BY <1>1, <1>2, <1>4, <1>5, ListedSame, AllIsThere

-----------------------------------------------------------------------------
(* The addresses that are probed, as a set *)

LEMMA ProbesAre ==
  \A x : x \in Probes <=> x \in 0 .. Ptr - 1 /\ OnGrid(x) /\ ~Reserved(x)
<1> SUFFICES ASSUME NEW x
             PROVE  x \in Probes <=> x \in 0 .. Ptr - 1 /\ OnGrid(x) /\ ~Reserved(x)
  OBVIOUS
<1>1. x \in Probes <=> \/ x \in First .. ResStart - 1 /\ (x - First) % Step = 0
                       \/ x \in ResEnd .. Ptr - 1 /\ (x - ResEnd) % Step = 0
  BY DEF Probes, ProbedFrom, First
<1>2. ASSUME x \in 0 .. Ptr - 1
      PROVE  /\ x \in First .. ResStart - 1 <=> First <= x /\ x < ResEnd /\ ~Reserved(x)
             /\ x \in ResEnd .. Ptr - 1 <=> ResEnd <= x
             /\ ResEnd <= x => ~Reserved(x)
  BY <1>2, GridFacts DEF Reserved
<1>3. x \in First .. ResStart - 1 \/ x \in ResEnd .. Ptr - 1 => x \in 0 .. Ptr - 1
  BY GridFacts
<1>4. CASE x \in 0 .. Ptr - 1
  BY <1>1, <1>2, <1>4, Zenon DEF OnGrid
<1>5. CASE x \notin 0 .. Ptr - 1
  BY <1>1, <1>3, <1>5, Zenon
<1>6. QED
  BY <1>4, <1>5

(* Two probes lie at least Step apart; the hole is no narrower. *)
LEMMA ProbesApart ==
  ASSUME NEW x \in Probes, NEW y \in Probes, x < y
  PROVE  x + Step <= y
<1>1. /\ x \in Nat /\ y \in Nat /\ OnGrid(x) /\ OnGrid(y) /\ Step \in Nat \ {0}
      /\ First \in Nat /\ ResEnd \in Nat
      /\ x < ResEnd => x < ResStart
      /\ y < ResEnd => y < ResStart
  BY ProbesAre, GridFacts DEF Reserved
<1>2. ASSUME NEW b \in Nat, (x - b) % Step = 0, (y - b) % Step = 0
      PROVE  x + Step <= y
  <2>1. CASE y < x + Step
    <3>1. x \in Int /\ y \in Int /\ b \in Int
      BY <1>1
    <3>2. y <= x
      BY <1>1, <1>2, <2>1, <3>1, SameResidue
    <3>3. QED
      BY <1>1, <3>2
  <2>2. QED
    BY <1>1, <2>1
<1>3. CASE y < ResEnd
  <2>1. (y - First) % Step = 0
    BY <1>1, <1>3 DEF OnGrid
  <2>2. x < ResEnd
    BY <1>1, <1>3
  <2>3. (x - First) % Step = 0
    BY <1>1, <2>2 DEF OnGrid
  <2>4. QED
    BY <1>1, <1>2, <2>1, <2>3
<1>4. CASE x >= ResEnd
  <2>1. (x - ResEnd) % Step = 0
    BY <1>1, <1>4, GridFacts DEF OnGrid
  <2>2. y >= ResEnd
    BY <1>1, <1>4
  <2>3. (y - ResEnd) % Step = 0
    BY <1>1, <2>2, GridFacts DEF OnGrid
  <2>4. QED
    BY <1>1, <1>2, <2>1, <2>3
<1>5. CASE x < ResEnd /\ y >= ResEnd
  BY <1>1, <1>5, GridFacts
<1>6. QED
  BY <1>1, <1>3, <1>4, <1>5

LEMMA ResEndProbed == ResEnd \in Probes
<1>1. ResEnd \in 0 .. Ptr - 1 /\ ~Reserved(ResEnd)
  BY GridFacts DEF Reserved
<1>2. OnGrid(ResEnd)
  <2>1. 0 \in 0 .. Step - 1 /\ Step \in Nat \ {0}
    BY GridFacts
  <2>2. 0 % Step = 0 /\ ResEnd - ResEnd = 0
    BY <2>1, ModSmall, GridFacts
  <2>3. QED
    BY <2>2, GridFacts DEF OnGrid
<1>3. QED
  BY <1>1, <1>2, ProbesAre

LEMMA FirstProbed == First < ResStart => First \in Probes
<1> SUFFICES ASSUME First < ResStart
             PROVE  First \in Probes
  OBVIOUS
<1>1. First \in 0 .. Ptr - 1 /\ ~Reserved(First) /\ First < ResEnd
  BY GridFacts DEF Reserved
<1>2. OnGrid(First)
  <2>1. 0 \in 0 .. Step - 1 /\ Step \in Nat \ {0}
    BY GridFacts
  <2>2. 0 % Step = 0 /\ First - First = 0
    BY <2>1, ModSmall, GridFacts
  <2>3. QED
    BY <1>1, <2>2, GridFacts DEF OnGrid
<1>3. QED
  BY <1>1, <1>2, ProbesAre

(* A page that probing may list has a probe that stands for it. *)
LEMMA ProbeThere ==
  ASSUME NEW page \in Nat, page >= Up(ImageEnd), page * PageSize \notin Hole
  PROVE  /\ ProbeOf(page) \in Probes /\ ProbeOf(page) <= page * PageSize
         /\ \A x \in Probes : x <= page * PageSize => x <= ProbeOf(page)
<1> DEFINE T == {x \in Probes : x <= page * PageSize}
<1>1. First <= page * PageSize /\ page * PageSize \in Int
  BY GridFacts, Monotone DEF First
<1>2. T # {}
  <2>1. CASE page * PageSize < ResStart
    <3>1. First < ResStart
      BY <1>1, <2>1, GridFacts
    <3>2. First \in T
      BY <1>1, <3>1, FirstProbed
    <3>3. QED
      BY <3>2
  <2>2. CASE page * PageSize >= ResEnd
    <3>1. ResEnd \in T
      BY <1>1, <2>2, ResEndProbed, GridFacts
    <3>2. QED
      BY <3>1
  <2>3. QED
    BY <1>1, <2>1, <2>2, GridFacts DEF Hole
<1>3. T \subseteq Int
  <2>1. \A x \in Probes : x \in Int
    BY ProbesAre
  <2>2. QED
    BY <2>1
<1>4. \A x \in T : x <= page * PageSize
  OBVIOUS
<1>5. Max(T) \in T /\ \A x \in T : x <= Max(T)
  <2> HIDE DEF T
  <2>1. QED
    BY <1>1, <1>2, <1>3, <1>4, MaxOf
<1>6. ProbeOf(page) = Max(T)
  BY DEF ProbeOf
<1>7. QED
  BY <1>5, <1>6

LEMMA SoughtProbe ==
  ASSUME limit \in Nat, NEW page \in Nat, Sought(page)
  PROVE  /\ ProbeOf(page) \in Probes /\ ProbeOf(page) \in Nat
         /\ ProbeOf(page) <= page * PageSize
         /\ \A x \in Probes : x <= page * PageSize => x <= ProbeOf(page)
         /\ page * PageSize \in Nat /\ page * PageSize \notin Hole
         /\ page * PageSize < limit /\ page >= Up(ImageEnd) /\ page < Down(limit)
<1>1. PICK d \in Nat : d = Down(limit) /\ d * PageSize <= limit
  BY DownUp
<1>2. page >= Up(ImageEnd) /\ page < d /\ Of(page) \cap Hole = {}
  BY <1>1, GridFacts DEF Sought
<1>3. /\ page * PageSize + PageSize <= d * PageSize
      /\ page * PageSize \in Int /\ d * PageSize \in Int
  BY <1>1, <1>2, GridFacts, Monotone
<1>4. page * PageSize >= 0
  BY GridFacts, SMT
<1>5. page * PageSize < limit
  BY <1>1, <1>3, GridFacts
<1>6. page * PageSize \notin Hole
  <2>1. page * PageSize \in Of(page)
    BY <1>3, GridFacts DEF Of
  <2>2. QED
    BY <1>2, <2>1
<1>7. \A x \in Probes : x \in Nat
  BY ProbesAre
<1>8. QED
  BY <1>1, <1>2, <1>3, <1>4, <1>5, <1>6, <1>7, ProbeThere

LEMMA SoughtSame ==
  ASSUME UNCHANGED <<machine, limit>>
  PROVE  \A page : Sought(page)' <=> Sought(page)
BY DEF machine, Sought, Sees, GivenUp

(* The probes from one on are finitely many. *)
LEMMA ProbesFinite ==
  ASSUME NEW x \in Nat, NEW b \in Nat
  PROVE  IsFiniteSet(ProbesIn(x, b)) /\ Cardinality(ProbesIn(x, b)) \in Nat
<1>1. ProbesIn(x, b) \subseteq x .. b
  <2>1. \A y \in Probes : y \in Nat
    BY ProbesAre
  <2>2. QED
    BY <2>1 DEF ProbesIn
<1>2. IsFiniteSet(x .. b)
  BY FS_Interval
<1>3. IsFiniteSet(ProbesIn(x, b))
  BY <1>1, <1>2, FS_Subset
<1>4. QED
  BY <1>3, FS_CardinalityType

-----------------------------------------------------------------------------
(* The steps of memsize_probe() *)

LEMMA ProbingAll ==
  ASSUME pc' \in {"probe", "gap"}, SoughtFound', GapCounted'
  PROVE  RamInv'
BY DEF RamInv, Unsplit, Turned, AllListed

LEMMA FoundThere ==
  ASSUME SoughtFound, pc \in {"probe", "gap"}, NEW page \in Nat, Sought(page),
         Inside => ProbeOf(page) < p
  PROVE  \/ \E k \in 0 .. at - 1 : page \in Segment(k)
         \/ pc = "probe" /\ pmap[at].start # 0 /\ page >= pmap[at].start
BY DEF SoughtFound, InSegment

LEMMA FindLimitAll ==
  ASSUME Inv, RamInv, FindLimit
  PROVE  RamInv'
<1>1. /\ pc = "wrap" /\ at' = at
      /\ \/ pc' = pc
         \/ /\ pc' = "probe" /\ pmap' = [pmap EXCEPT ![0].start = Up(ImageEnd)]
            /\ p' = Up(ImageEnd) * PageSize
  BY DEF FindLimit
<1>2. CASE pc' = pc
  <2>1. pc' = "wrap" /\ Unsplit'
    BY <1>1, <1>2 DEF Unsplit
  <2>2. QED
    BY <2>1, NothingBuilt
<1>3. CASE pc' # pc
  <2>1. /\ pc' = "probe" /\ pmap' = [pmap EXCEPT ![0].start = Up(ImageEnd)]
        /\ p' = Up(ImageEnd) * PageSize
    BY <1>1, <1>3
  <2>2. at' = 0 /\ pmap'[at'].start = Up(ImageEnd)
    <3>1. at = 0 /\ TypeInv
      BY <1>1 DEF Inv, ProbeInv
    <3>2. pmap \in [-1 .. E820Max -> SegmentType] /\ 0 \in -1 .. E820Max
      BY <3>1, MapAssumption DEF TypeInv
    <3>3. pmap'[0].start = Up(ImageEnd)
      BY <2>1, <3>2 DEF SegmentType
    <3>4. QED
      BY <1>1, <3>1, <3>3
  <2>3. Up(ImageEnd) # 0 /\ First \in Nat /\ p' = First
    BY <2>1, GridFacts DEF First
  <2>4. ASSUME NEW page \in Nat, Sought(page)'
        PROVE  InSegment(page)'
    <3>1. page >= Up(ImageEnd)
      BY <2>4, GridFacts DEF Sought
    <3>2. QED
      BY <2>1, <2>2, <2>3, <3>1 DEF InSegment
  <2>5. SoughtFound'
    BY <2>1, <2>2, <2>3, <2>4 DEF SoughtFound, First
  <2>6. GapCounted'
    BY <2>1 DEF GapCounted
  <2>7. QED
    BY <2>1, <2>5, <2>6, ProbingAll
<1>4. QED
  BY <1>2, <1>3

LEMMA ProbeRamAll ==
  ASSUME Inv, RamInv, ProbeRam
  PROVE  RamInv'
<1>1. /\ pc = "probe" /\ pc' = "probe" /\ Inside /\ ~Reserved(p) /\ p' = From(p)
      /\ UNCHANGED <<machine, limit, at, pmap>>
  BY DEF ProbeRam
<1>2. /\ p \in Nat /\ p \in 0 .. Ptr - 1 /\ OnGrid(p) /\ limit \in Nat
      /\ pmap[at].start \in Nat
  BY <1>1, AtProbe
<1>3. pmap[at].start # 0 /\ pmap[at].start * PageSize <= p /\ SoughtFound
  BY <1>1 DEF RamInv, SoughtFound, Inv, ProbeInv
<1>4. ASSUME NEW page \in Nat, Sought(page)
      PROVE  InSegment(page)'
  <2>1. CASE ProbeOf(page) < p
    <3>1. InSegment(page)
      BY <1>1, <1>3, <1>4, <2>1 DEF SoughtFound
    <3>2. QED
      BY <1>1, <3>1 DEF InSegment, Segment
  <2>2. CASE ~(ProbeOf(page) < p)
    <3>1. p <= page * PageSize /\ page * PageSize \in Nat
      BY <1>2, <1>4, <2>2, SoughtProbe
    <3>2. pmap[at].start <= page
      <4>1. PICK s \in Nat : s = pmap[at].start
        BY <1>2
      <4>2. CASE page < s
        <5>1. page * PageSize + PageSize <= s * PageSize /\ s * PageSize \in Int
          BY <4>2, GridFacts, Monotone
        <5>2. QED
          BY <1>2, <1>3, <3>1, <4>1, <5>1, GridFacts
      <4>3. QED
        BY <4>1, <4>2
    <3>3. QED
      BY <1>1, <1>2, <1>3, <3>2 DEF InSegment
  <2>3. QED
    BY <2>1, <2>2
<1>5. p' >= ImageEnd => p <= p'
  <2>1. p' >= ImageEnd => p' = p + Step
    BY <1>1, <1>2, NextOnGrid
  <2>2. QED
    BY <1>2, <2>1, GridFacts
<1>6. Inside' => pmap'[at'].start * PageSize <= p'
  <2>1. PICK s \in Int : s = pmap[at].start * PageSize
    BY <1>2, GridFacts, Monotone
  <2>2. Inside' => p \in Int /\ p' \in Int /\ p <= p'
    BY <1>1, <1>2, <1>5, FromCases DEF Inside
  <2>3. QED
    BY <1>1, <1>3, <2>1, <2>2
<1>7. SoughtFound'
  BY <1>1, <1>4, <1>6, SoughtSame DEF SoughtFound
<1>8. GapCounted'
  BY <1>1 DEF GapCounted
<1>9. QED
  BY <1>1, <1>7, <1>8, ProbingAll

(* A segment is closed at a page, and the search for the next one begins. *)
LEMMA CloseAll ==
  ASSUME Inv, RamInv, pc = "probe", Inside, NEW last \in Nat, Close(last), p' \in Probes,
         \A page \in Nat :
           Sought(page) /\ (Inside' => ProbeOf(page) < p') =>
             ProbeOf(page) < p /\ page < last
  PROVE  RamInv'
<1>1. /\ at < E820Max /\ at' = at + 1 /\ gap' = GapSteps /\ pc' = "gap"
      /\ pmap' = [pmap EXCEPT ![at].end = last, ![at + 1].start = 0]
      /\ UNCHANGED <<machine, limit>>
  BY DEF Close
<1>2. /\ TypeInv /\ at \in Nat /\ pmap[at].start \in Nat /\ E820Max \in Nat
      /\ at \in -1 .. E820Max /\ at + 1 \in -1 .. E820Max
  <2>1. TypeInv /\ at \in Nat /\ pmap[at].start \in Nat /\ E820Max \in Nat
    BY AtProbe, MapAssumption
  <2>2. QED
    BY <1>1, <2>1
<1>3. /\ pmap'[at].start = pmap[at].start /\ pmap'[at].end = last
      /\ \A k \in 0 .. at - 1 : pmap'[k] = pmap[k]
  <2>1. pmap \in [-1 .. E820Max -> SegmentType]
    BY <1>2 DEF TypeInv
  <2>2. \A k \in 0 .. at - 1 : k \in -1 .. E820Max /\ k # at /\ k # at + 1
    BY <1>2
  <2>3. at # at + 1
    BY <1>2
  <2>4. QED
    BY <1>1, <1>2, <2>1, <2>2, <2>3 DEF SegmentType
<1>4. PICK m \in Nat : m = at
  BY <1>2
<1>5. ASSUME NEW page \in Nat, Sought(page), Inside' => ProbeOf(page) < p'
      PROVE  InSegment(page)'
  <2>1. ProbeOf(page) < p /\ page < last
    BY <1>5
  <2>2. \/ \E k \in 0 .. at - 1 : page \in Segment(k)
        \/ page >= pmap[at].start
    BY <1>5, <2>1, FoundThere DEF RamInv
  <2>3. CASE \E k \in 0 .. at - 1 : page \in Segment(k)
    <3>1. PICK k \in 0 .. at - 1 : page \in Segment(k)
      BY <2>3
    <3>2. page \in Segment(k)'
      BY <1>3, <3>1 DEF Segment
    <3>3. k \in 0 .. at' - 1
      BY <1>1, <1>2
    <3>4. QED
      BY <3>2, <3>3 DEF InSegment
  <2>4. CASE page >= pmap[at].start
    <3>1. page \in Segment(m)'
      <4>1. Segment(m)' = pmap'[m].start .. pmap'[m].end - 1
        BY DEF Segment
      <4>2. page \in pmap[at].start .. last - 1
        BY <1>2, <2>1, <2>4
      <4>3. QED
        BY <1>3, <1>4, <4>1, <4>2
    <3>2. m \in 0 .. at' - 1
      BY <1>1, <1>4
    <3>3. QED
      BY <3>1, <3>2 DEF InSegment
  <2>5. QED
    BY <2>2, <2>3, <2>4
<1>6. SoughtFound'
  BY <1>1, <1>5, SoughtSame DEF SoughtFound
<1>7. GapCounted'
  <2>1. PICK x \in Probes : x = p' /\ x \in Nat /\ ~Reserved(x)
    BY ProbesAre
  <2>2. PastHole(x) = x
    BY <2>1 DEF PastHole
  <2>3. ProbesIn(x, x) = {}
    <3>1. \A y \in Probes : y \in Nat
      BY ProbesAre
    <3>2. \A y \in Probes : ~(x <= y /\ y < x)
      BY <2>1, <3>1
    <3>3. QED
      BY <3>2 DEF ProbesIn
  <2>4. Cardinality(ProbesIn(x, x)) = 0
    BY <2>3, FS_EmptySet
  <2>5. GapSteps \in Nat /\ GapSteps > 0 /\ 0 >= GapSteps - GapSteps
    BY MapAssumption
  <2>6. /\ x <= PastHole(x)
        /\ \A y \in ProbesIn(x, PastHole(x)) : ~Sees(y)'
        /\ Cardinality(ProbesIn(x, PastHole(x))) >= GapSteps - GapSteps
    BY <2>1, <2>2, <2>3, <2>4, <2>5
  <2>7. /\ gap' > 0
        /\ \E z \in Probes :
             /\ z <= PastHole(p')
             /\ \A y \in ProbesIn(z, PastHole(p')) : ~Sees(y)'
             /\ Cardinality(ProbesIn(z, PastHole(p'))) >= GapSteps - gap'
    BY <1>1, <2>1, <2>5, <2>6
  <2>8. PastHole(p)' = PastHole(p') /\ \A a, b : ProbesIn(a, b)' = ProbesIn(a, b)
    BY DEF PastHole, Reserved, ProbesIn
  <2>9. QED
    BY <2>7, <2>8 DEF GapCounted
<1>8. QED
  BY <1>1, <1>6, <1>7, ProbingAll

LEMMA ProbeNothingAll ==
  ASSUME Inv, RamInv, ProbeNothing
  PROVE  RamInv'
<1>1. /\ pc = "probe" /\ Inside /\ ~Reserved(p) /\ p' = p /\ Close(Down(p))
  BY DEF ProbeNothing
<1>2. /\ p \in Nat /\ p \in 0 .. Ptr - 1 /\ OnGrid(p) /\ limit \in Nat
  BY <1>1, AtProbe
<1>3. p \in Probes
  BY <1>1, <1>2, ProbesAre
<1>4. limit' = limit
  BY <1>1 DEF Close
<1>5. PICK d \in Nat : d = Down(p) /\ d * PageSize = p
  <2>1. p % PageSize = 0
    BY <1>2, GridPages
  <2>2. QED
    BY <1>2, <2>1, WholePages, DownUp
<1>6. ASSUME NEW page \in Nat, Sought(page), Inside' => ProbeOf(page) < p'
      PROVE  ProbeOf(page) < p /\ page < d
  <2>1. ProbeOf(page) < p
    BY <1>1, <1>4, <1>6 DEF Inside
  <2>2. page * PageSize < p
    <3>1. /\ page * PageSize \in Nat /\ ProbeOf(page) \in Nat
          /\ p <= page * PageSize => p <= ProbeOf(page)
      BY <1>2, <1>3, <1>6, SoughtProbe
    <3>2. QED
      BY <1>2, <2>1, <3>1
  <2>3. CASE d <= page
    <3>1. d * PageSize <= page * PageSize /\ page * PageSize \in Int
      BY <2>3, GridFacts, Monotone
    <3>2. QED
      BY <1>2, <1>5, <2>2, <3>1
  <2>4. QED
    BY <2>1, <2>3
<1>7. QED
  BY <1>1, <1>3, <1>5, <1>6, CloseAll

LEMMA ProbeReservedAll ==
  ASSUME Inv, RamInv, ProbeReserved
  PROVE  RamInv'
<1>1. /\ pc = "probe" /\ Inside /\ Reserved(p) /\ p' = ResEnd /\ Close(Down(ResStart))
  BY DEF ProbeReserved
<1>2. p \in Nat /\ limit \in Nat
  BY <1>1, AtProbe
<1>3. limit' = limit
  BY <1>1 DEF Close
<1>4. PICK r \in Nat : r = Down(ResStart) /\ r * PageSize = ResStart
  BY MapAssumption, WholePages, DownUp
<1>5. ASSUME NEW page \in Nat, Sought(page), Inside' => ProbeOf(page) < p'
      PROVE  ProbeOf(page) < p /\ page < r
  <2>1. /\ page * PageSize \in Nat /\ page * PageSize \notin Hole /\ page * PageSize < limit
        /\ ProbeOf(page) \in Nat /\ ProbeOf(page) \in Probes
        /\ ProbeOf(page) <= page * PageSize
        /\ ResEnd <= page * PageSize => ResEnd <= ProbeOf(page)
    BY <1>2, <1>5, SoughtProbe, ResEndProbed
  <2>2. ProbeOf(page) < ResEnd
    <3>1. CASE ResEnd < limit
      <4>1. Inside'
        BY <1>1, <1>3, <3>1, GridFacts DEF Inside
      <4>2. QED
        BY <1>1, <1>5, <4>1
    <3>2. CASE ~(ResEnd < limit)
      BY <1>2, <2>1, <3>2, GridFacts
    <3>3. QED
      BY <3>1, <3>2
  <2>3. ProbeOf(page) < ResStart
    <3>1. ~Reserved(ProbeOf(page))
      BY <2>1, ProbesAre
    <3>2. QED
      BY <2>1, <2>2, <3>1, GridFacts DEF Reserved
  <2>4. page * PageSize < ResStart
    BY <2>1, <2>2, GridFacts DEF Hole
  <2>5. ResStart <= p
    BY <1>1, <1>2, GridFacts DEF Reserved
  <2>6. CASE r <= page
    <3>1. r * PageSize <= page * PageSize
      BY <2>6, GridFacts, Monotone
    <3>2. QED
      BY <1>4, <2>1, <2>4, <3>1, GridFacts
  <2>7. QED
    BY <1>2, <2>1, <2>3, <2>5, <2>6, GridFacts
<1>6. QED
  BY <1>1, <1>4, <1>5, ResEndProbed, CloseAll

(* What the search through a gap has passed: the probe here saw nothing, and  *)
(* the next one is not before p'.                                             *)
LEMMA PassedOver ==
  ASSUME Inv, RamInv, pc = "gap", Inside, ~Sees(PastHole(p)),
         NEW page \in Nat, Sought(page)
  PROVE  \/ \E k \in 0 .. at - 1 : page \in Segment(k)
         \/ PastHole(p) + Step <= ProbeOf(page)
<1> DEFINE here == PastHole(p)
           a == ProbeOf(page)
<1>1. p \in Nat /\ p \in 0 .. Ptr - 1 /\ OnGrid(p) /\ limit \in Nat
  BY AtProbe
<1>2. a \in Probes /\ a \in Nat /\ ~Reserved(a) /\ Sees(a)
  BY <1>1, SoughtProbe, ProbesAre DEF Sought
<1>3. here \in Probes /\ here \in Nat
  BY <1>1, PastHoleGrid, ProbesAre
<1>4. CASE a < p
  BY <1>4, FoundThere DEF RamInv
<1>5. CASE ~(a < p)
  <2>1. here <= a
    BY <1>1, <1>2, <1>5, GridFacts DEF PastHole, Reserved
  <2>2. here # a
    BY <1>2
  <2> HIDE DEF here, a
  <2>3. here < a
    BY <1>2, <1>3, <2>1, <2>2
  <2>4. here + Step <= a
    BY <1>2, <1>3, <2>3, ProbesApart
  <2>5. QED
    BY <2>4 DEF here, a
<1>6. QED
  BY <1>4, <1>5

(* The probes from x on, with one more *)
LEMMA OneMore ==
  ASSUME NEW x \in Probes, NEW here \in Probes, x <= here, NEW b \in Nat, here < b,
         \A y \in Probes : here < y => b <= y
  PROVE  /\ ProbesIn(x, b) = ProbesIn(x, here) \cup {here}
         /\ Cardinality(ProbesIn(x, b)) = Cardinality(ProbesIn(x, here)) + 1
<1>1. \A y \in Probes : y \in Nat
  BY ProbesAre
<1>2. ASSUME NEW y \in Probes
      PROVE  y < b <=> y < here \/ y = here
  BY <1>1, <1>2
<1>3. ProbesIn(x, b) = ProbesIn(x, here) \cup {here}
  BY <1>1, <1>2 DEF ProbesIn
<1>4. here \notin ProbesIn(x, here)
  BY <1>1 DEF ProbesIn
<1>5. IsFiniteSet(ProbesIn(x, here))
  BY <1>1, ProbesFinite
<1>6. QED
  BY <1>3, <1>4, <1>5, FS_AddElement

LEMMA GapEndsAll ==
  ASSUME Inv, RamInv, GapEnds
  PROVE  RamInv'
<1> DEFINE here == PastHole(p)
<1>1. /\ pc = "gap" /\ Inside /\ Sees(here) /\ p' = From(here) /\ pc' = "probe"
      /\ pmap' = [pmap EXCEPT ![at].start = Down(here)]
      /\ UNCHANGED <<machine, limit, at>>
  BY DEF GapEnds
<1>2. /\ TypeInv /\ p \in Nat /\ p \in 0 .. Ptr - 1 /\ OnGrid(p) /\ limit \in Nat
      /\ at \in Nat /\ at \in -1 .. E820Max /\ E820Max \in Nat
  BY <1>1, AtProbe, MapAssumption
<1>3. here \in 0 .. Ptr - 1 /\ here \in Nat /\ OnGrid(here) /\ ~Reserved(here)
  BY <1>2, PastHoleGrid
<1>4. \A a \in Nat : ~Reserved(a) /\ p <= a => here <= a
  BY <1>2, GridFacts DEF PastHole, Reserved
<1> HIDE DEF here
<1>5. here % PageSize = 0 /\ First <= here
  BY <1>3, GridPages
<1>6. PICK s \in Nat : s = Down(here) /\ s * PageSize = here
  BY <1>3, <1>5, WholePages, DownUp
<1>7. s # 0
  <2>1. First > 0
    BY GridFacts
  <2>2. CASE s = 0
    <3>1. s * PageSize = 0
      BY <2>2, GridFacts
    <3>2. QED
      BY <1>3, <1>5, <1>6, <2>1, <3>1, GridFacts
  <2>3. QED
    BY <2>2
<1>8. /\ pmap'[at].start = s
      /\ \A k \in 0 .. at - 1 : pmap'[k] = pmap[k]
  <2>1. pmap \in [-1 .. E820Max -> SegmentType]
    BY <1>2 DEF TypeInv
  <2>2. \A k \in 0 .. at - 1 : k \in -1 .. E820Max /\ k # at
    BY <1>2, AtProbe, <1>1
  <2>3. QED
    BY <1>1, <1>2, <1>6, <2>1, <2>2 DEF SegmentType
<1>9. ASSUME NEW page \in Nat, Sought(page)
      PROVE  InSegment(page)'
  <2>1. /\ ProbeOf(page) \in Nat /\ ~Reserved(ProbeOf(page))
        /\ ProbeOf(page) <= page * PageSize /\ page * PageSize \in Nat
    BY <1>2, <1>9, SoughtProbe, ProbesAre
  <2>2. CASE ProbeOf(page) < p
    <3>1. PICK k \in 0 .. at - 1 : page \in Segment(k)
      BY <1>1, <1>9, <2>2, FoundThere DEF RamInv
    <3>2. page \in Segment(k)'
      BY <1>8, <3>1 DEF Segment
    <3>3. QED
      BY <1>1, <3>2 DEF InSegment
  <2>3. CASE ~(ProbeOf(page) < p)
    <3>1. here <= page * PageSize
      BY <1>2, <1>3, <1>4, <2>1, <2>3
    <3>2. CASE page < s
      <4>1. page * PageSize + PageSize <= s * PageSize
        BY <3>2, GridFacts, Monotone
      <4>2. QED
        BY <1>3, <1>6, <2>1, <3>1, <4>1, GridFacts
    <3>3. CASE s <= page
      BY <1>1, <1>7, <1>8, <3>3 DEF InSegment
    <3>4. QED
      BY <3>2, <3>3
  <2>4. QED
    BY <2>2, <2>3
<1>10. Inside' => here <= p'
  <2>1. From(here) >= ImageEnd => From(here) = here + Step
    BY <1>3, NextOnGrid
  <2>2. QED
    BY <1>1, <1>3, <2>1, GridFacts DEF Inside
<1>11. SoughtFound'
  <2>1. Inside' => pmap'[at'].start * PageSize <= p'
    BY <1>1, <1>6, <1>8, <1>10
  <2>2. QED
    BY <1>1, <1>9, <2>1, SoughtSame DEF SoughtFound
<1>12. GapCounted'
  BY <1>1 DEF GapCounted
<1>13. QED
  BY <1>1, <1>11, <1>12, ProbingAll

LEMMA GapTurnAll ==
  ASSUME Inv, RamInv, GapTurn
  PROVE  RamInv'
<1> DEFINE here == PastHole(p)
           long == gap - 1 <= 0
<1>1. /\ pc = "gap" /\ Inside /\ ~Sees(here) /\ gap' = gap - 1
      /\ p' = From(IF long THEN limit ELSE here)
      /\ pc' = (IF long THEN "probe" ELSE "gap")
      /\ UNCHANGED <<machine, limit, at, pmap>>
  BY DEF GapTurn
<1>2. /\ TypeInv /\ p \in Nat /\ p \in 0 .. Ptr - 1 /\ OnGrid(p) /\ limit \in Nat
      /\ limit < Ptr /\ gap \in Int /\ at \in Nat
  BY <1>1, AtProbe DEF TypeInv
<1>3. here \in 0 .. Ptr - 1 /\ here \in Nat /\ OnGrid(here) /\ ~Reserved(here)
      /\ here \in Probes
  BY <1>2, PastHoleGrid, ProbesAre
<1>4. ASSUME NEW page \in Nat, Sought(page)
      PROVE  InSegment(page)' \/ here + Step <= ProbeOf(page)
  <2>1. CASE \E k \in 0 .. at - 1 : page \in Segment(k)
    BY <1>1, <2>1 DEF InSegment, Segment
  <2>2. QED
    BY <1>1, <1>4, <2>1, PassedOver
<1>5. PICK x \in Probes :
        /\ x <= here
        /\ \A y \in ProbesIn(x, here) : ~Sees(y)
        /\ Cardinality(ProbesIn(x, here)) >= GapSteps - gap
  BY <1>1 DEF RamInv, GapCounted
<1>6. gap > 0 /\ GapSteps \in Nat
  BY <1>1, MapAssumption DEF RamInv, GapCounted
<1>7. x \in Nat /\ Cardinality(ProbesIn(x, here)) \in Nat
  BY <1>3, ProbesAre, ProbesFinite
<1>8. \A a : Sees(a)' <=> Sees(a)
  BY <1>1 DEF machine, Sees
<1> HIDE DEF here
<1>9. CASE long
  <2>1. pc' = "probe" /\ p' = From(limit) /\ gap = 1
    BY <1>1, <1>2, <1>6, <1>9
  <2>2. ~Inside'
    <3>1. limit \in 0 .. Ptr - 1
      BY <1>2, GridFacts
    <3>2. p' \in 0 .. Ptr - 1 /\ (p' = limit + Step \/ p' < Step)
      BY <2>1, <3>1, FromCases
    <3>3. ~(p' < limit /\ p' >= ImageEnd)
      BY <1>2, <3>2, GridFacts
    <3>4. QED
      BY <1>1, <3>3 DEF Inside
  <2>3. ASSUME NEW page \in Nat, Sought(page)
        PROVE  InSegment(page)'
    <3> DEFINE a == ProbeOf(page)
               run == {y \in Probes : x <= y /\ y < a}
    <3>1. SUFFICES ASSUME here + Step <= a
                   PROVE  GivenUp(a)
      BY <1>4, <2>3 DEF Sought
    <3>2. a \in Nat
      BY <1>2, <2>3, SoughtProbe
    <3> HIDE DEF a
    <3>3. here \in run
      BY <1>3, <1>5, <3>1, <3>2, GridFacts
    <3>4. {w \in run : w <= here} = ProbesIn(x, here + 1)
      <4>1. \A w \in Probes : w \in Nat
        BY ProbesAre
      <4>2. \A w \in Probes : w < a /\ w <= here <=> w < here + 1
        BY <1>3, <3>1, <3>2, <4>1, GridFacts
      <4>3. QED
        BY <4>2 DEF ProbesIn
    <3>5. /\ ProbesIn(x, here + 1) = ProbesIn(x, here) \cup {here}
          /\ Cardinality(ProbesIn(x, here + 1)) = Cardinality(ProbesIn(x, here)) + 1
      <4>1. \A y \in Probes : here < y => here + 1 <= y
        BY <1>3, ProbesAre
      <4>2. here + 1 \in Nat /\ here < here + 1
        BY <1>3
      <4>3. QED
        BY <1>3, <1>5, <4>1, <4>2, OneMore
    <3>6. Cardinality({w \in run : w <= here}) >= GapSteps
      BY <1>5, <1>6, <1>7, <2>1, <3>4, <3>5
    <3>7. ASSUME NEW z \in run, z <= here
          PROVE  ~Sees(z)
      <4>1. z \in ProbesIn(x, here) \cup {here}
        BY <3>4, <3>5, <3>7
      <4>2. ~Sees(here)
        BY <1>1 DEF here
      <4>3. QED
        BY <1>5, <4>1, <4>2
    <3>8. \E y \in run : \A z \in run :
            z <= y => ~Sees(z) /\ Cardinality({w \in run : w <= y}) >= GapSteps
      BY <3>3, <3>6, <3>7
    <3>9. QED
      BY <3>8 DEF GivenUp
  <2>4. SoughtFound'
    BY <1>1, <2>1, <2>2, <2>3, SoughtSame DEF SoughtFound
  <2>5. GapCounted'
    BY <2>1 DEF GapCounted
  <2>6. QED
    BY <2>1, <2>4, <2>5, ProbingAll
<1>10. CASE ~long
  <2>1. pc' = "gap" /\ p' = From(here) /\ gap' > 0 /\ gap' = gap - 1
    BY <1>1, <1>2, <1>10
  <2>2. /\ p' \in 0 .. Ptr - 1 /\ p' \in Nat
        /\ p' >= ImageEnd => OnGrid(p') /\ p' = here + Step
        /\ p' < ImageEnd => here + Step >= Ptr
    <3>1. p' \in 0 .. Ptr - 1
          /\ (p' >= ImageEnd => OnGrid(p') /\ p' = here + Step)
          /\ (p' < ImageEnd => here + Step >= Ptr)
      BY <1>3, <2>1, NextOnGrid
    <3>2. QED
      BY <3>1, GridFacts
  <2>3. ASSUME NEW page \in Nat, Sought(page), Inside' => ProbeOf(page) < p'
        PROVE  InSegment(page)'
    <3>1. /\ ProbeOf(page) \in Nat /\ ProbeOf(page) <= page * PageSize
          /\ page * PageSize \in Nat /\ page * PageSize < limit
      BY <1>2, <2>3, SoughtProbe
    <3>2. SUFFICES ASSUME here + Step <= ProbeOf(page)
                   PROVE  FALSE
      BY <1>4, <2>3
    <3>3. p' >= ImageEnd
      BY <1>2, <1>3, <2>2, <3>1, <3>2, GridFacts
    <3>4. p' < limit /\ p' <= ProbeOf(page)
      BY <1>2, <1>3, <2>2, <3>1, <3>2, <3>3, GridFacts
    <3>5. Inside'
      BY <1>1, <3>3, <3>4 DEF Inside
    <3>6. QED
      BY <2>2, <2>3, <3>1, <3>4, <3>5
  <2>4. SoughtFound'
    BY <1>1, <2>1, <2>3, SoughtSame DEF SoughtFound
  <2>5. ASSUME Inside'
        PROVE  /\ x <= PastHole(p')
               /\ \A y \in ProbesIn(x, PastHole(p')) : ~Sees(y)
               /\ Cardinality(ProbesIn(x, PastHole(p'))) >= GapSteps - gap'
    <3>1. p' = here + Step /\ OnGrid(p')
      BY <2>2, <2>5 DEF Inside
    <3>2. PICK b \in Nat : b = PastHole(p')
      BY <2>2, <3>1, PastHoleGrid
    <3>3. here < b
      BY <1>3, <2>2, <3>1, <3>2, GridFacts DEF PastHole, Reserved
    <3>4. ASSUME NEW y \in Probes, here < y
          PROVE  b <= y
      <4>1. y \in Nat /\ ~Reserved(y)
        BY ProbesAre
      <4>2. here + Step <= y
        BY <1>3, <3>4, ProbesApart
      <4>3. QED
        BY <1>3, <2>2, <3>1, <3>2, <4>1, <4>2, GridFacts DEF PastHole, Reserved
    <3>5. /\ ProbesIn(x, b) = ProbesIn(x, here) \cup {here}
          /\ Cardinality(ProbesIn(x, b)) = Cardinality(ProbesIn(x, here)) + 1
      BY <1>3, <1>5, <3>3, <3>4, OneMore
    <3>6. ~Sees(here)
      BY <1>1 DEF here
    <3>7. x <= b
      BY <1>3, <1>5, <1>7, <3>3
    <3>8. Cardinality(ProbesIn(x, b)) >= GapSteps - gap'
      BY <1>2, <1>5, <1>6, <1>7, <2>1, <3>5
    <3>9. QED
      BY <1>5, <3>2, <3>5, <3>6, <3>7, <3>8
  <2>6. GapCounted'
    <3>1. PastHole(p)' = PastHole(p') /\ \A a, b : ProbesIn(a, b)' = ProbesIn(a, b)
      BY DEF PastHole, Reserved, ProbesIn
    <3>2. QED
      BY <1>8, <2>1, <2>5, <3>1 DEF GapCounted
  <2>7. QED
    BY <2>1, <2>4, <2>6, ProbingAll
<1>11. QED
  BY <1>9, <1>10

LEMMA GapOverAll ==
  ASSUME Inv, RamInv, GapOver
  PROVE  RamInv'
<1>1. /\ pc = "gap" /\ ~Inside /\ p' = From(p) /\ pc' = "probe"
      /\ UNCHANGED <<machine, limit, at, pmap>>
  BY DEF GapOver
<1>2. /\ limit \in Nat /\ p \in Nat /\ p \in 0 .. Ptr - 1
  BY <1>1, AtProbe
<1>3. ~Inside'
  <2>1. p >= limit \/ p < Step
    BY <1>1, <1>2, GridFacts DEF Inside, Inv, ProbeInv
  <2>2. p' \in 0 .. Ptr - 1 /\ (p' = p + Step \/ p' < Step)
    BY <1>1, <1>2, FromCases
  <2>3. ~(p' < limit /\ p' >= ImageEnd)
    BY <1>2, <2>1, <2>2, GridFacts
  <2>4. QED
    BY <1>1, <2>3 DEF Inside
<1>4. ASSUME NEW page \in Nat, Sought(page)
      PROVE  InSegment(page)'
  <2>1. \E k \in 0 .. at - 1 : page \in Segment(k)
    BY <1>1, <1>4, FoundThere DEF RamInv
  <2>2. QED
    BY <1>1, <2>1 DEF InSegment, Segment
<1>5. SoughtFound'
  BY <1>1, <1>3, <1>4, SoughtSame DEF SoughtFound
<1>6. GapCounted'
  BY <1>1 DEF GapCounted
<1>7. QED
  BY <1>1, <1>5, <1>6, ProbingAll

LEMMA ProbedAll ==
  ASSUME Inv, RamInv, Probed
  PROVE  RamInv'
<1> DEFINE open == pmap[at].start # 0
<1>1. /\ pc = "probe" /\ ~Inside /\ pc' = "sort"
      /\ pmap' = (IF open THEN [pmap EXCEPT ![at].end = Down(limit)] ELSE pmap)
      /\ msegs' = (IF open THEN at + 1 ELSE at)
      /\ UNCHANGED <<machine, mode, probing>>
  BY DEF Probed
<1>2. limit' = limit
  BY <1>1 DEF probing
<1>3. /\ TypeInv /\ mode = "probe" /\ limit \in Nat /\ at \in Nat
      /\ at \in -1 .. E820Max /\ E820Max \in Nat /\ pmap[at].start \in Nat
  BY <1>1, AtProbe, MapAssumption
<1>4. /\ open => pmap'[at].start = pmap[at].start /\ pmap'[at].end = Down(limit)
      /\ \A k \in 0 .. at - 1 : pmap'[k] = pmap[k]
  <2>1. pmap \in [-1 .. E820Max -> SegmentType]
    BY <1>3 DEF TypeInv
  <2>2. \A k \in 0 .. at - 1 : k \in -1 .. E820Max /\ k # at
    BY <1>1, <1>3, AtProbe
  <2>3. CASE open
    <3>1. pmap' = [pmap EXCEPT ![at].end = Down(limit)]
      BY <1>1, <2>3
    <3>2. QED
      BY <1>3, <2>1, <2>2, <3>1 DEF SegmentType
  <2>4. CASE ~open
    BY <1>1, <2>4
  <2>5. QED
    BY <2>3, <2>4
<1>5. PICK m \in Nat : m = at
  BY <1>3
<1>6. ASSUME NEW page \in Nat, Sought(page)
      PROVE  page \in Listed'
  <2>1. \/ \E k \in 0 .. at - 1 : page \in Segment(k)
        \/ open /\ page >= pmap[at].start
    BY <1>1, <1>6, FoundThere DEF RamInv
  <2>2. SUFFICES \E k \in 0 .. msegs' - 1 : page \in Segment(k)'
    BY DEF Listed
  <2>3. CASE \E k \in 0 .. at - 1 : page \in Segment(k)
    <3>1. PICK k \in 0 .. at - 1 : page \in Segment(k)
      BY <2>3
    <3>2. page \in Segment(k)'
      BY <1>4, <3>1 DEF Segment
    <3>3. k \in 0 .. msegs' - 1
      BY <1>1, <1>3
    <3>4. QED
      BY <3>2, <3>3
  <2>4. CASE open /\ page >= pmap[at].start
    <3>1. page < Down(limit) /\ Down(limit) \in Nat
      BY <1>3, <1>6, SoughtProbe, DownUp
    <3>2. Segment(m)' = pmap'[m].start .. pmap'[m].end - 1
      BY DEF Segment
    <3>3. page \in pmap[at].start .. Down(limit) - 1
      BY <1>3, <2>4, <3>1
    <3>4. page \in Segment(m)'
      BY <1>4, <1>5, <2>4, <3>2, <3>3
    <3>5. m \in 0 .. msegs' - 1
      BY <1>1, <1>3, <1>5, <2>4
    <3>6. QED
      BY <3>4, <3>5
  <2>5. QED
    BY <2>1, <2>3, <2>4
<1>7. ProbesListed'
  <2>1. Up(ImageEnd) \in Nat /\ Down(limit) \in Nat
    BY <1>3, GridFacts, DownUp
  <2>2. ASSUME NEW page \in Up(ImageEnd) .. Down(limit) - 1, Of(page) \cap Hole = {},
               Sees(ProbeOf(page)), ~GivenUp(ProbeOf(page))
        PROVE  page \in Listed'
    <3>1. page \in Nat
      BY <2>1
    <3>2. QED
      BY <1>6, <2>2, <3>1 DEF Sought
  <2>3. \A a : (Sees(a)' <=> Sees(a)) /\ (GivenUp(a)' <=> GivenUp(a))
    BY <1>1 DEF machine, Sees, GivenUp
  <2>4. QED
    BY <1>2, <2>2, <2>3 DEF ProbesListed
<1>8. TableListed'
  BY <1>1, <1>3 DEF TableListed, FromTable
<1>9. QED
  BY <1>1, <1>7, <1>8, AllIsThere

LEMMA StutterAll ==
  ASSUME Inv, RamInv, UNCHANGED vars
  PROVE  RamInv'
<1>1. UNCHANGED <<pc, machine, firmware, e820, ram, decode, mode, limit, p, gap, lastType,
                  lastAddr, nm, at, pmap, msegs, full, moved>>
  BY DEF vars, machine, probing, sanitizing
<1>2. Unsplit'
  BY <1>1, TypesSame DEF RamInv, Unsplit, AllFresh
<1>3. Listed' = Listed /\ \A k : Segment(k)' = Segment(k)
  BY <1>1 DEF Listed, Segment
<1>4. Turned'
  BY <1>1, <1>3, TypesSame DEF RamInv, Turned
<1>5. SoughtFound'
  BY <1>1, <1>3, SoughtSame DEF RamInv, SoughtFound, InSegment, Inside
<1>6. GapCounted'
  BY <1>1 DEF RamInv, GapCounted, Inside, PastHole, Reserved, ProbesIn, Sees
<1>7. AllListed'
  BY <1>1, <1>3, ListedSame DEF RamInv, AllListed
<1>8. QED
  BY <1>2, <1>4, <1>5, <1>6, <1>7 DEF RamInv

(* Whichever way the map is made, no page is lost on the way to it.           *)
THEOREM RamInvariant == Spec => []RamInv
<1>1. Init => RamInv
  BY DEF Init, RamInv, Unsplit, Turned, SoughtFound, GapCounted, AllListed
<1>2. ASSUME Inv, RamInv, [Next]_vars
      PROVE  RamInv'
  <2>1. CASE MemSize
    BY <1>2, <2>1, MemSizeAll
  <2>2. CASE SweepPoint
    BY <1>2, <2>2, SweepPointAll
  <2>3. CASE SweepOver
    BY <1>2, <2>3, SweepOverAll
  <2>4. CASE BuildUsable
    BY <1>2, <2>4, BuildUsableAll
  <2>5. CASE BuildOther
    BY <1>2, <2>5, BuildOtherAll
  <2>6. CASE Fallback
    BY <1>2, <2>6, FallbackAll
  <2>7. CASE LinuxbiosEntry
    BY <1>2, <2>7, LinuxbiosEntryAll
  <2>8. CASE Built
    BY <1>2, <2>8, BuiltAll
  <2>9. CASE FindLimit
    BY <1>2, <2>9, FindLimitAll
  <2>10. CASE ProbeReserved
    BY <1>2, <2>10, ProbeReservedAll
  <2>11. CASE ProbeNothing
    BY <1>2, <2>11, ProbeNothingAll
  <2>12. CASE ProbeRam
    BY <1>2, <2>12, ProbeRamAll
  <2>13. CASE GapEnds
    BY <1>2, <2>13, GapEndsAll
  <2>14. CASE GapTurn
    BY <1>2, <2>14, GapTurnAll
  <2>15. CASE GapOver
    BY <1>2, <2>15, GapOverAll
  <2>16. CASE Probed
    BY <1>2, <2>16, ProbedAll
  <2>17. CASE SortTurn
    BY <1>2, <2>17, SortTurnAll
  <2>18. CASE Sorted \/ AllMemory \/ \E page \in Pages : SetLower(page) \/ SetUpper(page)
    BY <1>2, <2>18, ReadyAll
  <2>19. CASE Restart
    BY <1>2, <2>19, RestartAll
  <2>20. CASE UNCHANGED vars
    BY <1>2, <2>20, StutterAll
  <2>21. QED
    BY <1>2, <2>1, <2>2, <2>3, <2>4, <2>5, <2>6, <2>7, <2>8, <2>9, <2>10, <2>11,
       <2>12, <2>13, <2>14, <2>15, <2>16, <2>17, <2>18, <2>19, <2>20 DEF Next
<1>3. QED
  BY <1>1, <1>2, Invariant, PTL DEF Spec

(* Every page that the firmware reports as usable, in one piece, and outside  *)
(* the hole is in a segment, and where memory is probed every page whose      *)
(* probe saw memory and for which the search was not given up, as long as     *)
(* sort_pmap() moved no segment over another.                                 *)
THEOREM AllRamListed == Spec => []RamListed
<1>1. RamInv => RamListed
  BY DEF RamInv, AllListed, TableListed, ProbesListed, RamListed
<1>2. QED
  BY <1>1, RamInvariant, PTL

-----------------------------------------------------------------------------
(* The page counts, by an invariant of its own: segments come in the order of  *)
(* their addresses, so that no page is counted twice.                         *)

(* Segments of a map, their pages, and what their count is worth. *)
SegmentOf(map, i) == map[i].start .. map[i].end - 1
PagesOf(map, n) == UNION {SegmentOf(map, i) : i \in 0 .. n - 1}
Apart(map, n) == \A i, j \in 0 .. n - 1 : i < j => map[i].end <= map[j].start
NoneBackwards(map, n) == \A i \in 0 .. n - 1 : map[i].start <= map[i].end
Numbered(map, n, count) ==
  /\ Apart(map, n)
  /\ NoneBackwards(map, n) => count = Cardinality(PagesOf(map, n))

(* Change points come in their order, so that entries do.  Empty entries of    *)
(* the firmware change nothing about that.                                     *)
SweepOrder ==
  pc = "sweep" =>
    /\ testPages = 0 /\ Ascending
    /\ \A y \in points :
         /\ lastAddr <= AddrOf(y)
         /\ \A k \in 1 .. Len(nm) : NmEnd(k) <= AddrOf(y)
         /\ lastType # 0 => \A k \in 1 .. Len(nm) : NmEnd(k) <= lastAddr

(* A segment ends before the entries that are still to come. *)
BuildOrder ==
  pc = "build" =>
    /\ Ascending /\ Numbered(pmap, msegs, testPages)
    /\ \A i \in 0 .. msegs - 1, k \in at .. Len(nm) : pmap[i].end * PageSize <= nm[k].addr

(* ... and before the address that is probed, and the segment that is open. *)
ProbeOrder ==
  /\ pc = "wrap" => testPages = 0
  /\ pc \in {"probe", "gap"} => Numbered(pmap, at, testPages)
  /\ pc = "gap" /\ Inside => \A k \in 0 .. at - 1 : pmap[k].end * PageSize <= p
  /\ pc = "probe" /\ pmap[at].start # 0 =>
       \A k \in 0 .. at - 1 : pmap[k].end <= pmap[at].start

SortedOrder ==
  pc \in {"sort", "ready"} /\ ~moved /\ (firmware = "pcbios" \/ mode = "probe") =>
    Numbered(pmap, msegs, testPages)

(* What adj_mem() adds up, of n segments of a map *)
Selected(map, n, lower, upper) ==
  MapThenSumSet(LAMBDA i : SelectedOf(map[i], lower, upper), 0 .. n - 1)

SelectionRight ==
  pc = "ready" => /\ plimLower \in Nat /\ plimUpper \in Nat
                  /\ selectedPages = Selected(pmap, msegs, plimLower, plimUpper) % Ulong

CountInv == SweepOrder /\ BuildOrder /\ ProbeOrder /\ SortedOrder /\ SelectionRight

-----------------------------------------------------------------------------
(* Induction, as a fact about sets *)
LEMMA Inductive ==
  ASSUME NEW S \in SUBSET Nat, 0 \in S, \A n \in S : n + 1 \in S
  PROVE  S = Nat
<1> SUFFICES ASSUME NEW m \in Nat, m \notin S PROVE FALSE
  OBVIOUS
<1> DEFINE T == {i \in S : i < m}
           f == [i \in T |-> i + 1]
<1>1. IsFiniteSet(T)
  <2>1. IsFiniteSet(0 .. m)
    BY FS_Interval
  <2>2. \A i \in T : i \in 0 .. m
    OBVIOUS
  <2>3. T \in SUBSET (0 .. m)
    BY <2>2
  <2> QED
    BY <2>1, <2>3, FS_Subset
<1>2. IsFiniteSet(T \ {0}) /\ Cardinality(T \ {0}) < Cardinality(T)
  <2>1. 0 \in T
    OBVIOUS
  <2> HIDE DEF T
  <2>2. Cardinality(T) \in Nat
    BY <1>1, FS_CardinalityType
  <2>3. /\ IsFiniteSet(T \ {0})
        /\ Cardinality(T \ {0}) = IF 0 \in T THEN Cardinality(T) - 1 ELSE Cardinality(T)
    BY <1>1, FS_RemoveElement
  <2> QED
    BY <2>1, <2>2, <2>3
<1>3. f \in [T -> T \ {0}]
  <2>1. \A i \in T : i + 1 \in T \ {0}
    OBVIOUS
  <2> QED
    BY <2>1
<1>4. \A x, y \in T : x # y => f[x] # f[y]
  OBVIOUS
<1> HIDE DEF T, f
<1> QED
  BY <1>1, <1>2, <1>3, <1>4, FS_PigeonHole

(* Sums of the sizes of sets that have no members in common *)

Picked(s) == CHOOSE x \in s : TRUE
Members(c, s) == UNION {c[i] : i \in s}

(* h adds up the sizes as MapThenSumSet() does. *)
AddsUp(h, c, D) ==
  h = [s \in SUBSET D |->
         IF s = {} THEN 0 ELSE Cardinality(c[Picked(s)]) + h[s \ {Picked(s)}]]

Disjoint(c, D) == \A i, j \in D : i # j => c[i] \cap c[j] = {}

LEMMA Joined ==
  ASSUME NEW D, NEW c, IsFiniteSet(Members(c, D)), Disjoint(c, D),
         NEW s \in SUBSET D, NEW x \in s
  PROVE  Cardinality(Members(c, s)) = Cardinality(c[x]) + Cardinality(Members(c, s \ {x}))
<1> DEFINE rest == Members(c, s \ {x})
<1>1. Members(c, s) = c[x] \cup rest /\ c[x] \in SUBSET Members(c, D) /\ rest \in SUBSET Members(c, D)
  BY DEF Members
<1>2. c[x] \cap rest = {}
  BY DEF Members, Disjoint
<1> HIDE DEF rest
<1>3. IsFiniteSet(c[x]) /\ IsFiniteSet(rest)
  BY <1>1, FS_Subset
<1>4. Cardinality(c[x] \cup rest) = Cardinality(c[x]) + Cardinality(rest) - Cardinality(c[x] \cap rest)
  BY <1>3, FS_Union
<1>5. Cardinality(c[x] \cap rest) = 0 /\ Cardinality(c[x]) \in Nat /\ Cardinality(rest) \in Nat
  BY <1>2, <1>3, FS_EmptySet, FS_CardinalityType
<1>6. Cardinality(Members(c, s)) = Cardinality(c[x]) + Cardinality(rest)
  BY <1>1, <1>4, <1>5
<1> QED
  BY <1>6 DEF rest

LEMMA PickedThere ==
  ASSUME NEW s, s # {}
  PROVE  Picked(s) \in s
BY DEF Picked

(* There is such a sum, ... *)
LEMMA SizesAddUp ==
  ASSUME NEW D, NEW c, IsFiniteSet(Members(c, D)), Disjoint(c, D)
  PROVE  AddsUp([s \in SUBSET D |-> Cardinality(Members(c, s))], c, D)
<1> DEFINE h == [s \in SUBSET D |-> Cardinality(Members(c, s))]
<1>1. ASSUME NEW s \in SUBSET D
      PROVE  h[s] = IF s = {} THEN 0 ELSE Cardinality(c[Picked(s)]) + h[s \ {Picked(s)}]
  <2>1. CASE s = {}
    <3>1. Members(c, s) = {}
      BY <2>1 DEF Members
    <3> QED
      BY <2>1, <3>1, FS_EmptySet
  <2>2. CASE s # {}
    <3>1. Picked(s) \in s /\ s \ {Picked(s)} \in SUBSET D
      BY <2>2, PickedThere
    <3>2. Cardinality(Members(c, s))
            = Cardinality(c[Picked(s)]) + Cardinality(Members(c, s \ {Picked(s)}))
      BY <3>1, Joined
    <3> QED
      BY <2>2, <3>1, <3>2
  <2> QED
    BY <2>1, <2>2
<1> QED
  BY <1>1 DEF AddsUp

(* ... and it is the size of the union, by induction over the subsets. *)
LEMMA SumOfSizes ==
  ASSUME NEW D, IsFiniteSet(D), NEW c, IsFiniteSet(Members(c, D)), Disjoint(c, D),
         NEW h, AddsUp(h, c, D)
  PROVE  h[D] = Cardinality(Members(c, D))
<1> DEFINE S == {n \in Nat : \A s \in SUBSET D :
                   Cardinality(s) = n => h[s] = Cardinality(Members(c, s))}
<1>1. \A s \in SUBSET D : IsFiniteSet(s) /\ Cardinality(s) \in Nat /\ (Cardinality(s) = 0 <=> s = {})
  BY FS_Subset, FS_CardinalityType, FS_EmptySet
<1>2. 0 \in S
  <2>1. Members(c, {}) = {}
    BY DEF Members
  <2>2. h[{}] = 0
    BY DEF AddsUp
  <2> QED
    BY <1>1, <2>1, <2>2, FS_EmptySet
<1>3. ASSUME NEW n \in S, NEW s \in SUBSET D, Cardinality(s) = n + 1
      PROVE  h[s] = Cardinality(Members(c, s))
  <2> DEFINE q == Picked(s)
  <2>1. s # {}
    BY <1>1, <1>3
  <2>2. q \in s
    BY <2>1, PickedThere
  <2>3. h[s] = Cardinality(c[q]) + h[s \ {q}]
    BY <2>1 DEF AddsUp
  <2> HIDE DEF q
  <2>4. s \ {q} \in SUBSET D /\ Cardinality(s \ {q}) = n
    <3>1. n \in Nat
      OBVIOUS
    <3>2. Cardinality(s \ {q}) = Cardinality(s) - 1
      BY <1>1, <2>2, FS_RemoveElement
    <3> HIDE DEF S
    <3> QED
      BY <1>3, <3>1, <3>2
  <2>5. h[s \ {q}] = Cardinality(Members(c, s \ {q}))
    BY <2>4
  <2> QED
    BY <2>2, <2>3, <2>5, Joined
<1>4. S = Nat
  <2>1. ASSUME NEW n \in S
        PROVE  n + 1 \in S
    BY <1>3
  <2> HIDE DEF S
  <2>2. S \in SUBSET Nat
    BY DEF S
  <2> QED
    BY <1>2, <2>1, <2>2, Inductive
<1> QED
  BY <1>1, <1>4

-----------------------------------------------------------------------------
(* Pages of the segments of a map *)

Maps == [-1 .. E820Max -> SegmentType]

LEMMA MapFacts ==
  ASSUME NEW m \in Maps, NEW n \in 0 .. E820Max + 1, NEW i \in 0 .. n - 1
  PROVE  m[i].start \in Nat /\ m[i].end \in Nat
<1>1. i \in -1 .. E820Max
  BY MapAssumption
<1>2. m[i] \in SegmentType
  BY <1>1 DEF Maps
<1> QED
  BY <1>2 DEF SegmentType

LEMMA OnePageMore ==
  ASSUME NEW m, NEW n \in Nat
  PROVE  PagesOf(m, n + 1) = PagesOf(m, n) \cup SegmentOf(m, n)
<1>1. 0 .. n + 1 - 1 = (0 .. n - 1) \cup {n}
  OBVIOUS
<1> QED
  BY <1>1 DEF PagesOf

LEMMA NoPages ==
  ASSUME NEW m
  PROVE  PagesOf(m, 0) = {}
<1>1. 0 .. 0 - 1 = {}
  OBVIOUS
<1> QED
  BY <1>1 DEF PagesOf

LEMMA PagesFinite ==
  ASSUME NEW m \in Maps, NEW n \in 0 .. E820Max + 1
  PROVE  IsFiniteSet(PagesOf(m, n))
<1> DEFINE S == {k \in Nat : k <= n => IsFiniteSet(PagesOf(m, k))}
<1>1. 0 \in S
  BY NoPages, FS_EmptySet
<1>2. ASSUME NEW k \in S
      PROVE  k + 1 \in S
  <2>1. k \in Nat /\ E820Max \in Nat
    BY MapAssumption
  <2>2. CASE k + 1 <= n
    <3>1. k \in 0 .. n - 1
      BY <2>1, <2>2
    <3>2. m[k].start \in Nat /\ m[k].end \in Nat
      BY <3>1, MapFacts
    <3>3. IsFiniteSet(SegmentOf(m, k))
      <4>1. m[k].start \in Int /\ m[k].end - 1 \in Int
        BY <3>2
      <4> QED
        BY <4>1, FS_Interval DEF SegmentOf
    <3>4. IsFiniteSet(PagesOf(m, k))
      BY <3>1
    <3>5. PagesOf(m, k + 1) = PagesOf(m, k) \cup SegmentOf(m, k)
      BY <2>1, OnePageMore
    <3>6. IsFiniteSet(PagesOf(m, k) \cup SegmentOf(m, k))
      <4> HIDE DEF S
      <4> QED
        BY <3>3, <3>4, FS_Union
    <3> QED
      BY <2>1, <3>5, <3>6
  <2>3. CASE ~(k + 1 <= n)
    BY <2>1, <2>3
  <2> QED
    BY <2>2, <2>3
<1>3. S = Nat
  <2> HIDE DEF S
  <2>1. S \in SUBSET Nat
    BY DEF S
  <2> QED
    BY <1>1, <1>2, <2>1, Inductive
<1> QED
  BY <1>3

(* One more segment, behind the others *)
LEMMA NumberedNext ==
  ASSUME NEW m \in Maps, NEW q \in Maps, NEW n \in 0 .. E820Max, NEW t, Numbered(m, n, t),
         \A i \in 0 .. n - 1 : q[i] = m[i] /\ m[i].end <= q[n].start
  PROVE  Numbered(q, n + 1, t + (q[n].end - q[n].start))
<1>1. n \in Nat /\ n \in 0 .. E820Max + 1 /\ n + 1 \in 0 .. E820Max + 1
  BY MapAssumption
<1>2. \A i \in 0 .. n + 1 - 1 : i \in 0 .. n - 1 \/ i = n
  BY <1>1
<1>3. Apart(q, n + 1)
  <2> SUFFICES ASSUME NEW i \in 0 .. n + 1 - 1, NEW j \in 0 .. n + 1 - 1, i < j
               PROVE  q[i].end <= q[j].start
    BY DEF Apart
  <2>1. i \in 0 .. n - 1
    BY <1>1
  <2>2. CASE j = n
    BY <2>1, <2>2
  <2>3. CASE j \in 0 .. n - 1
    BY <2>1, <2>3 DEF Numbered, Apart
  <2> QED
    BY <1>2, <2>2, <2>3
<1>4. ASSUME NoneBackwards(q, n + 1)
      PROVE  t + (q[n].end - q[n].start) = Cardinality(PagesOf(q, n + 1))
  <2>1. n \in 0 .. n + 1 - 1 /\ \A i \in 0 .. n - 1 : i \in 0 .. n + 1 - 1
    BY <1>1
  <2>2. q[n].start <= q[n].end /\ q[n].start \in Nat /\ q[n].end \in Nat
    BY <1>1, <1>4, <2>1, MapFacts DEF NoneBackwards
  <2>3. NoneBackwards(m, n)
    BY <1>4, <2>1 DEF NoneBackwards
  <2>4. PagesOf(q, n) = PagesOf(m, n)
    BY DEF PagesOf, SegmentOf
  <2>5. t = Cardinality(PagesOf(q, n))
    BY <2>3, <2>4 DEF Numbered
  <2>6. IsFiniteSet(PagesOf(q, n))
    BY <1>1, PagesFinite
  <2>7. IsFiniteSet(SegmentOf(q, n)) /\ Cardinality(SegmentOf(q, n)) = q[n].end - q[n].start
    <3>1. q[n].start \in Int /\ q[n].end - 1 \in Int
      BY <2>2
    <3>2. /\ IsFiniteSet(q[n].start .. q[n].end - 1)
          /\ Cardinality(q[n].start .. q[n].end - 1)
               = IF q[n].start > q[n].end - 1 THEN 0 ELSE (q[n].end - 1) - q[n].start + 1
      BY <3>1, FS_Interval
    <3> QED
      BY <2>2, <3>2 DEF SegmentOf
  <2>8. PagesOf(q, n) \cap SegmentOf(q, n) = {}
    <3> SUFFICES ASSUME NEW i \in 0 .. n - 1, NEW page \in SegmentOf(q, i) \cap SegmentOf(q, n)
                 PROVE  FALSE
      BY DEF PagesOf
    <3>1. q[i].start \in Nat /\ q[i].end \in Nat /\ q[i].end <= q[n].start
      BY <1>1, MapFacts
    <3> QED
      BY <2>2, <3>1 DEF SegmentOf
  <2>9. Cardinality(PagesOf(q, n) \cup SegmentOf(q, n))
          = Cardinality(PagesOf(q, n)) + Cardinality(SegmentOf(q, n))
              - Cardinality(PagesOf(q, n) \cap SegmentOf(q, n))
    BY <2>6, <2>7, FS_Union
  <2>10. Cardinality(PagesOf(q, n) \cap SegmentOf(q, n)) = 0 /\ Cardinality(PagesOf(q, n)) \in Nat
    BY <2>6, <2>8, FS_EmptySet, FS_CardinalityType
  <2>11. PagesOf(q, n + 1) = PagesOf(q, n) \cup SegmentOf(q, n)
    BY <1>1, OnePageMore
  <2>12. Cardinality(PagesOf(q, n + 1)) = t + Cardinality(SegmentOf(q, n))
    <3>1. PICK x \in Nat, y \in Int, z \in Nat :
            /\ x = Cardinality(PagesOf(q, n)) /\ y = Cardinality(SegmentOf(q, n))
            /\ z = Cardinality(PagesOf(q, n) \cap SegmentOf(q, n)) /\ z = 0
      BY <2>2, <2>7, <2>10
    <3>2. Cardinality(PagesOf(q, n) \cup SegmentOf(q, n)) = x + y - z
      BY <2>9, <3>1
    <3>3. Cardinality(PagesOf(q, n + 1)) = Cardinality(PagesOf(q, n) \cup SegmentOf(q, n))
      BY ONLY <2>11
    <3>4. x + y - z = x + y /\ t = x
      BY <2>5, <3>1
    <3> QED
      BY ONLY <3>1, <3>2, <3>3, <3>4
  <2> QED
    BY <2>7, <2>12
<1> QED
  BY <1>3, <1>4 DEF Numbered

LEMMA NumberedSame ==
  ASSUME NEW m, NEW q, NEW n, NEW t, Numbered(m, n, t), \A i \in 0 .. n - 1 : q[i] = m[i]
  PROVE  Numbered(q, n, t)
BY DEF Numbered, Apart, NoneBackwards, PagesOf, SegmentOf

LEMMA NumberedNone ==
  ASSUME NEW m
  PROVE  Numbered(m, 0, 0)
<1>1. 0 .. 0 - 1 = {}
  OBVIOUS
<1> QED
  BY <1>1, NoPages, FS_EmptySet DEF Numbered, Apart

(* What adj_mem() adds up: pages inside the limits.  Between crossed ones are  *)
(* none, and it finds none unless the lower one is in a segment or at its end. *)
Sensible(s, lower, upper) == lower <= upper \/ s.end < lower \/ lower <= s.start

LEMMA SelectedPages ==
  ASSUME NEW m \in Maps, NEW n \in 0 .. E820Max + 1, NEW i \in 0 .. n - 1,
         NEW lower \in Nat, NEW upper \in Nat, NoneBackwards(m, n),
         Sensible(m[i], lower, upper)
  PROVE  SelectedOf(m[i], lower, upper)
           = Cardinality(SegmentOf(m, i) \cap (lower .. upper - 1))
<1>1. m[i].start \in Nat /\ m[i].end \in Nat /\ m[i].start <= m[i].end
  BY MapFacts DEF NoneBackwards
<1>2. PICK s \in Nat, e \in Nat : s = m[i].start /\ e = m[i].end /\ s <= e
  BY <1>1
<1>3. CASE lower <= upper
  <2>1. PICK a \in Nat, b \in Nat :
          /\ a = (IF s >= lower THEN s ELSE lower) /\ b = (IF e <= upper THEN e ELSE upper)
    OBVIOUS
  <2>2. SegmentOf(m, i) \cap (lower .. upper - 1) = a .. b - 1
    BY <1>2, <2>1 DEF SegmentOf
  <2>3. Cardinality(a .. b - 1) = IF a > b - 1 THEN 0 ELSE b - 1 - a + 1
    BY FS_Interval
  <2>4. Cardinality(a .. b - 1) = IF a > b - 1 THEN 0 ELSE b - a
    BY <2>3
  <2>5. SelectedOf(m[i], lower, upper) = IF a > b - 1 THEN 0 ELSE b - a
    BY <1>2, <1>3, <2>1 DEF SelectedOf
  <2> QED
    BY <2>2, <2>4, <2>5
<1>4. CASE upper < lower
  <2>1. SegmentOf(m, i) \cap (lower .. upper - 1) = {}
    BY <1>4
  <2>2. e < lower \/ lower <= s
    BY <1>2, <1>4 DEF Sensible
  <2>3. SelectedOf(m[i], lower, upper) = 0
    BY <1>2, <1>4, <2>2 DEF SelectedOf
  <2> QED
    BY <2>1, <2>3, FS_EmptySet
<1> QED
  BY <1>3, <1>4

LEMMA SelectedCounted ==
  ASSUME NEW m \in Maps, NEW n \in 0 .. E820Max + 1, Apart(m, n), NoneBackwards(m, n),
         NEW lower \in Nat, NEW upper \in Nat,
         \A i \in 0 .. n - 1 : Sensible(m[i], lower, upper)
  PROVE  Selected(m, n, lower, upper) = Cardinality(PagesOf(m, n) \cap (lower .. upper - 1))
<1> DEFINE D == 0 .. n - 1
           c == [i \in D |-> SegmentOf(m, i) \cap (lower .. upper - 1)]
           Sum(g) == g = [s \in SUBSET D |->
                            IF s = {} THEN 0
                            ELSE LET x == CHOOSE y \in s : TRUE
                                 IN  SelectedOf(m[x], lower, upper) + g[s \ {x}]]
<1>1. IsFiniteSet(D)
  BY FS_Interval, MapAssumption
<1>2. Members(c, D) = PagesOf(m, n) \cap (lower .. upper - 1)
  BY DEF Members, PagesOf
<1>3. IsFiniteSet(Members(c, D))
  BY <1>2, PagesFinite, FS_Subset
<1>4. Disjoint(c, D)
  <2> SUFFICES ASSUME NEW i \in D, NEW j \in D, i < j
               PROVE  c[i] \cap c[j] = {}
    <3>1. \A i, j \in D : i # j => i < j \/ j < i
      BY MapAssumption
    <3> QED
      BY <3>1 DEF Disjoint
  <2>1. /\ m[i].start \in Nat /\ m[i].end \in Nat /\ m[j].start \in Nat /\ m[j].end \in Nat
        /\ m[i].end <= m[j].start
    BY MapFacts DEF Apart
  <2> QED
    BY <2>1 DEF SegmentOf
<1>5. \A i \in D : SelectedOf(m[i], lower, upper) = Cardinality(c[i])
  BY SelectedPages
<1>6. \A h : Sum(h) <=> AddsUp(h, c, D)
  <2>1. \A s \in SUBSET D : s # {} =>
          SelectedOf(m[Picked(s)], lower, upper) = Cardinality(c[Picked(s)])
    <3> HIDE DEF c, D
    <3> QED
      BY <1>5, PickedThere
  <2> HIDE DEF c, D
  <2> QED
    BY <2>1 DEF AddsUp, Picked
<1>7. Sum(CHOOSE h : Sum(h))
  <2>1. \E h : Sum(h)
    <3> HIDE DEF Sum, c, D
    <3> QED
      BY <1>3, <1>4, <1>6, SizesAddUp
  <2> HIDE DEF Sum
  <2> QED
    BY <2>1
<1>8. Selected(m, n, lower, upper) = (CHOOSE h : Sum(h))[D]
  BY DEF Selected, MapThenSumSet, MapThenFoldSet
<1>9. PICK h : AddsUp(h, c, D) /\ Selected(m, n, lower, upper) = h[D]
  <2> HIDE DEF Sum, c, D
  <2> QED
    BY <1>6, <1>7, <1>8
<1>10. h[D] = Cardinality(Members(c, D))
  <2> HIDE DEF Sum, c, D
  <2> QED
    BY <1>1, <1>3, <1>4, <1>9, SumOfSizes
<1> QED
  BY <1>2, <1>9, <1>10

LEMMA AdjMemIs ==
  ASSUME NEW lower, NEW upper
  PROVE  AdjMem(lower, upper) = Selected(pmap, msegs, lower, upper) % Ulong
BY DEF AdjMem, Selected

-----------------------------------------------------------------------------
(* The steps *)

LEMMA MapsType ==
  ASSUME Inv
  PROVE  pmap \in Maps /\ msegs \in 0 .. E820Max + 1 /\ E820Max \in Nat
BY MapAssumption DEF Inv, TypeInv, Maps

LEMMA NmFacts ==
  ASSUME NmOK, NEW k \in 1 .. Len(nm)
  PROVE  nm[k] \in NmEntry /\ nm[k].addr \in Nat /\ NmEnd(k) \in Nat
<1>1. nm[k] \in NmEntry /\ NmEnd(k) \in Addresses
  BY DEF NmOK
<1> QED
  BY <1>1 DEF NmEntry, Addresses

LEMMA SweepPointCount ==
  ASSUME Inv, CountInv, SweepPoint
  PROVE  CountInv'
<1> DEFINE Inside2(x) == IF Starts(x) THEN overlap \cup {x[1]} ELSE overlap \ {x[1]}
           Finished(x) == [addr |-> lastAddr, size |-> AddrOf(x) - lastAddr,
                           type |-> lastType]
           Done(x) == /\ TypeOf(Inside2(x)) # lastType /\ lastType # 0
                      /\ Finished(x).size # 0
           Nm(x) == IF Done(x) THEN Append(nm, Finished(x)) ELSE nm
           Stop(x) == Done(x) /\ NoRoom(Nm(x))
<1>1. PICK x \in points :
        /\ pc = "sweep" /\ IsNext(x)
        /\ nm' = Nm(x)
        /\ points' = IF Stop(x) THEN {} ELSE points \ {x}
        /\ lastType' = IF Stop(x) THEN lastType ELSE TypeOf(Inside2(x))
        /\ lastAddr' = IF TypeOf(Inside2(x)) \notin {lastType, 0} /\ ~Stop(x)
                       THEN AddrOf(x) ELSE lastAddr
        /\ UNCHANGED <<pc, machine, testPages>>
  BY DEF SweepPoint, counts
<1>2. /\ TypeInv /\ points \subseteq Points /\ NmOK
      /\ lastType \in Nat /\ lastAddr \in Addresses
  BY <1>1 DEF Inv, SweepInv
<1>3. /\ testPages = 0 /\ Ascending /\ lastAddr <= AddrOf(x)
      /\ \A k \in 1 .. Len(nm) : NmEnd(k) <= AddrOf(x)
      /\ lastType # 0 => \A k \in 1 .. Len(nm) : NmEnd(k) <= lastAddr
  BY <1>1 DEF CountInv, SweepOrder
<1>4. AddrOf(x) \in Addresses /\ \A y \in points : AddrOf(y) \in Addresses /\ AddrOf(x) <= AddrOf(y)
  <2>1. \A y \in points : AddrOf(y) \in Addresses
    BY <1>2, PointTypes
  <2>2. \A y \in points \ {x} : AddrOf(x) <= AddrOf(y)
    BY <1>1, <1>2, PrecedesAddr DEF IsNext
  <2> QED
    BY <1>1, <2>1, <2>2 DEF Addresses
<1>5. \A y : AddrOf(y)' = AddrOf(y)
  BY <1>1 DEF machine, AddrOf, End
<1> DEFINE here == AddrOf(x)
           done == Done(x)
<1>6. /\ Len(nm) \in Nat /\ Finished(x) \in NmEntry /\ lastAddr \in Nat /\ here \in Nat
      /\ \A k \in 1 .. Len(nm) : nm[k] \in NmEntry /\ nm[k].addr \in Nat /\ NmEnd(k) \in Nat
  <2>1. Finished(x) \in NmEntry
    BY <1>2, <1>4 DEF NmEntry, Addresses
  <2>2. Len(nm) \in Nat /\ lastAddr \in Nat /\ here \in Nat
    BY <1>2, <1>4 DEF NmOK, Addresses
  <2> HIDE DEF Finished
  <2> QED
    BY <1>2, <2>1, <2>2, NmFacts
<1>7. CASE done
  <2>1. nm' = Append(nm, Finished(x)) /\ lastType # 0
    BY <1>1, <1>7
  <2>2. /\ nm'[Len(nm) + 1] = Finished(x) /\ \A k \in 1 .. Len(nm) : nm'[k] = nm[k]
        /\ \A k \in 1 .. Len(nm') : k \in 1 .. Len(nm) \/ k = Len(nm) + 1
    BY <1>2, <1>6, <2>1, AppendCovers DEF NmOK
  <2>3. Finished(x).addr = lastAddr /\ Finished(x).addr + Finished(x).size = here
    BY <1>6
  <2> HIDE DEF Finished
  <2>4. Ascending'
    <3> SUFFICES ASSUME NEW i \in 1 .. Len(nm'), NEW j \in 1 .. Len(nm'), i < j
                 PROVE  nm'[i].addr + nm'[i].size <= nm'[j].addr
      BY DEF Ascending
    <3>1. i \in 1 .. Len(nm)
      BY <1>6, <2>2
    <3>2. CASE j \in 1 .. Len(nm)
      BY <1>3, <2>2, <3>1, <3>2 DEF Ascending
    <3>3. CASE j = Len(nm) + 1
      BY <1>3, <2>1, <2>2, <2>3, <3>1, <3>3 DEF NmEnd
    <3> QED
      BY <2>2, <3>2, <3>3
  <2>5. \A k \in 1 .. Len(nm') : NmEnd(k)' <= here
    BY <1>3, <1>6, <2>2, <2>3 DEF NmEnd
  <2>6. CASE Stop(x)
    <3>1. points' = {}
      BY <1>1, <2>6
    <3> QED
      BY <1>1, <1>3, <2>4, <3>1
         DEF CountInv, SweepOrder, BuildOrder, ProbeOrder, SortedOrder, SelectionRight
  <2>7. CASE ~Stop(x)
    <3>1. points' = points \ {x} /\ lastType' = TypeOf(Inside2(x)) /\ lastType' # lastType
      BY <1>1, <1>7, <2>7
    <3>2. lastType' # 0 => lastAddr' = here
      BY <1>1, <2>7, <3>1
    <3>3. lastAddr' \in {lastAddr, here}
      BY <1>1
    <3>4. lastType' # 0 => \A k \in 1 .. Len(nm') : NmEnd(k)' <= lastAddr'
      BY <2>5, <3>2
    <3>5. ASSUME NEW y \in points'
          PROVE  lastAddr' <= AddrOf(y)' /\ \A k \in 1 .. Len(nm') : NmEnd(k)' <= AddrOf(y)'
      <4>1. AddrOf(y)' = AddrOf(y) /\ here <= AddrOf(y) /\ AddrOf(y) \in Nat
        BY <1>4, <1>5, <3>1 DEF Addresses
      <4>2. lastAddr' <= AddrOf(y)
        BY <1>3, <1>6, <3>3, <4>1
      <4>3. \A k \in 1 .. Len(nm') : NmEnd(k)' \in Int
        BY <1>6, <2>2, <2>3 DEF NmEnd
      <4> QED
        BY <1>6, <2>5, <4>1, <4>2, <4>3
    <3> QED
      BY <1>1, <1>3, <2>4, <3>4, <3>5
         DEF CountInv, SweepOrder, BuildOrder, ProbeOrder, SortedOrder, SelectionRight
  <2> QED
    BY <2>6, <2>7
<1>8. CASE ~done
  <2>1. /\ nm' = nm /\ points' = points \ {x} /\ lastType' = TypeOf(Inside2(x))
        /\ lastAddr' = IF lastType' \notin {lastType, 0} THEN here ELSE lastAddr
    BY <1>1, <1>8
  <2>2. lastType' # 0 => \A k \in 1 .. Len(nm) : NmEnd(k) <= lastAddr'
    <3>1. CASE lastType' = lastType
      BY <1>3, <2>1, <3>1
    <3>2. CASE lastType' # lastType
      BY <1>3, <2>1, <3>2
    <3> QED
      BY <3>1, <3>2
  <2>3. ASSUME NEW y \in points'
        PROVE  lastAddr' <= AddrOf(y)' /\ \A k \in 1 .. Len(nm) : NmEnd(k) <= AddrOf(y)'
    <3>1. AddrOf(y)' = AddrOf(y) /\ here <= AddrOf(y) /\ AddrOf(y) \in Nat
      BY <1>4, <1>5, <2>1 DEF Addresses
    <3>2. lastAddr' <= AddrOf(y)
      BY <1>3, <1>6, <2>1, <3>1
    <3> QED
      BY <1>3, <1>6, <3>1, <3>2
  <2>4. Ascending' /\ \A k : NmEnd(k)' = NmEnd(k)
    BY <1>3, <2>1 DEF Ascending, NmEnd
  <2> QED
    BY <1>1, <1>3, <2>1, <2>2, <2>3, <2>4
       DEF CountInv, SweepOrder, BuildOrder, ProbeOrder, SortedOrder, SelectionRight
<1> QED
  BY <1>7, <1>8

LEMMA MemSizeCount ==
  ASSUME Inv, CountInv, MemSize
  PROVE  CountInv'
<1>1. /\ pc' \in {"wrap", "linuxbios", "fallback", "sweep"} /\ testPages' = 0
      /\ points' = (IF pc' = "sweep" THEN Points ELSE {})
      /\ lastType' = 0 /\ lastAddr' = 0 /\ nm' = <<>> /\ UNCHANGED machine
  BY DEF MemSize
<1>2. \A y \in Points : AddrOf(y)' = AddrOf(y) /\ AddrOf(y) \in Nat
  BY <1>1, PointTypes DEF machine, AddrOf, End, Inv, Addresses
<1>3. 1 .. Len(nm') = {}
  <2>1. nm' = <<>> /\ Len(<<>>) = 0
    BY <1>1
  <2> QED
    BY <2>1
<1>4. SweepOrder'
  BY <1>1, <1>2, <1>3 DEF SweepOrder, Ascending
<1> QED
  BY <1>1, <1>4 DEF CountInv, BuildOrder, ProbeOrder, SortedOrder, SelectionRight

LEMMA SweepOverCount ==
  ASSUME Inv, CountInv, SweepOver
  PROVE  CountInv'
<1>1. /\ pc = "sweep" /\ msegs' = 0 /\ pc' \in {"fallback", "build"}
      /\ UNCHANGED <<sanitizing, testPages>>
  BY DEF SweepOver, counts
<1>2. testPages' = 0 /\ Ascending'
  BY <1>1 DEF CountInv, SweepOrder, sanitizing, Ascending
<1>3. Numbered(pmap', msegs', testPages')
  BY <1>1, <1>2, NumberedNone
<1>4. 0 .. msegs' - 1 = {}
  BY <1>1
<1>5. BuildOrder'
  BY <1>2, <1>3, <1>4 DEF BuildOrder
<1> QED
  BY <1>1, <1>5 DEF CountInv, SweepOrder, ProbeOrder, SortedOrder, SelectionRight

(* An entry of the table becomes a segment within its bounds. *)
LEMMA ClipWithin ==
  ASSUME NEW s \in Nat, NEW e \in Nat, ~InHole(s, e)
  PROVE  /\ Clip(s, e)[1] \in Nat /\ Clip(s, e)[2] \in Nat
         /\ s <= Clip(s, e)[1] /\ Clip(s, e)[2] <= e
BY MapAssumption DEF Clip, InHole

LEMMA UpAtLeast ==
  ASSUME NEW n \in Nat, NEW a \in Nat, n * PageSize <= a
  PROVE  n <= Up(a) /\ n <= Down(a)
<1>1. PageSize \in Nat \ {0}
  BY MapAssumption
<1>2. PICK u \in Nat, d \in Nat :
        /\ u = Up(a) /\ d = Down(a) /\ a <= u * PageSize /\ a < d * PageSize + PageSize
  BY DownUp
<1>3. n * PageSize \in Int /\ u * PageSize \in Int /\ d * PageSize \in Int
  BY <1>1, Monotone
<1>4. ~(u < n)
  <2> SUFFICES ASSUME u < n PROVE FALSE
    OBVIOUS
  <2>1. u * PageSize + PageSize <= n * PageSize
    BY <1>1, Monotone
  <2> QED
    BY <1>1, <1>2, <1>3, <2>1
<1>5. ~(d < n)
  <2> SUFFICES ASSUME d < n PROVE FALSE
    OBVIOUS
  <2>1. d * PageSize + PageSize <= n * PageSize
    BY <1>1, Monotone
  <2> QED
    BY <1>1, <1>2, <1>3, <2>1
<1> QED
  BY <1>2, <1>4, <1>5

LEMMA BuildUsableCount ==
  ASSUME Inv, CountInv, BuildUsable
  PROVE  CountInv'
<1> DEFINE s == nm[at].addr
           e == NmEnd(at)
           c == Clip(s, e)
<1>1. /\ pc = "build" /\ at <= Len(nm) /\ at' = at + 1 /\ UNCHANGED <<pc, sanitizing>>
      /\ IF InHole(s, e)
         THEN UNCHANGED <<pmap, testPages, msegs>>
         ELSE AddSegment(c[1], c[2])
  BY DEF BuildUsable, NmEnd
<1>2. UNCHANGED nm
  BY <1>1 DEF sanitizing
<1>3. /\ NmOK /\ at \in 1 .. Len(nm) /\ at \in Nat /\ Len(nm) \in Nat
      /\ msegs \in Nat /\ msegs <= E820Max /\ E820Max \in Nat
  BY <1>1, TurnRoom, MapAssumption
<1>4. \A k \in 1 .. Len(nm) : nm[k].addr \in Nat /\ NmEnd(k) \in Nat
  BY <1>3, NmFacts
<1>5. /\ Ascending /\ Numbered(pmap, msegs, testPages)
      /\ \A i \in 0 .. msegs - 1, k \in at .. Len(nm) : pmap[i].end * PageSize <= nm[k].addr
  BY <1>1 DEF CountInv, BuildOrder
<1>6. pmap \in Maps
  BY MapsType
<1>7. CASE InHole(s, e)
  <2>1. UNCHANGED <<pmap, testPages, msegs>>
    BY <1>1, <1>7
  <2>2. \A k \in at + 1 .. Len(nm) : k \in at .. Len(nm)
    BY <1>3
  <2>3. BuildOrder'
    BY <1>1, <1>2, <1>5, <2>1, <2>2 DEF BuildOrder, Ascending
  <2> QED
    BY <1>1, <2>3 DEF CountInv, SweepOrder, ProbeOrder, SortedOrder, SelectionRight
<1>8. CASE ~InHole(s, e)
  <2>1. s \in Nat /\ e \in Nat
    BY <1>3, <1>4
  <2>2. c[1] \in Nat /\ c[2] \in Nat /\ s <= c[1] /\ c[2] <= e
    <3> HIDE DEF s, e
    <3> QED
      BY <1>8, <2>1, ClipWithin
  <2>3. AddSegment(c[1], c[2])
    BY <1>1, <1>8
  <2> HIDE DEF c
  <2>4. PICK new \in SegmentType :
          /\ new = [start |-> Up(c[1]), end |-> Down(c[2])]
          /\ new.start = Up(c[1]) /\ new.end = Down(c[2])
          /\ new.end * PageSize <= c[2]
    <3>1. Up(c[1]) \in Nat /\ Down(c[2]) \in Nat /\ Down(c[2]) * PageSize <= c[2]
      BY <2>2, DownUp
    <3>2. [start |-> Up(c[1]), end |-> Down(c[2])] \in SegmentType
      BY <3>1 DEF SegmentType
    <3> QED
      BY <3>1, <3>2
  <2>5. /\ pmap' = [pmap EXCEPT ![msegs] = new] /\ msegs' = msegs + 1
        /\ testPages' = testPages + (new.end - new.start)
    BY <2>3, <2>4 DEF AddSegment
  <2>6. PICK n \in 0 .. E820Max : n = msegs
    BY <1>3
  <2>7. /\ n \in -1 .. E820Max /\ pmap' \in Maps /\ pmap'[n] = new
        /\ \A i \in 0 .. n - 1 : pmap'[i] = pmap[i] /\ i \in 0 .. n - 1
    <3>1. n \in -1 .. E820Max /\ \A i \in 0 .. n - 1 : i \in -1 .. E820Max /\ i # n
      BY <1>3, <2>6
    <3> QED
      BY <1>6, <2>5, <2>6, <3>1 DEF Maps
  <2>8. \A i \in 0 .. n - 1 : pmap[i].end \in Nat /\ pmap[i].end * PageSize <= c[1]
                               /\ pmap[i].end <= new.start
    <3> SUFFICES ASSUME NEW i \in 0 .. n - 1
                 PROVE  pmap[i].end \in Nat /\ pmap[i].end * PageSize <= c[1]
                        /\ pmap[i].end <= new.start
      OBVIOUS
    <3>1. pmap[i].end \in Nat
      <4>1. n \in 0 .. E820Max + 1
        BY <1>3
      <4> QED
        BY <1>6, <4>1, MapFacts
    <3>2. at \in at .. Len(nm)
      BY <1>3
    <3>3. pmap[i].end * PageSize <= s
      BY <1>5, <2>6, <3>2
    <3>4. pmap[i].end * PageSize \in Int
      BY <3>1, GridFacts, Monotone
    <3> HIDE DEF s
    <3>5. pmap[i].end * PageSize <= c[1]
      BY <2>1, <2>2, <3>3, <3>4
    <3> QED
      BY <2>2, <2>4, <3>1, <3>5, UpAtLeast
  <2>9. Numbered(pmap', n + 1, testPages + (pmap'[n].end - pmap'[n].start))
    BY <1>5, <1>6, <2>6, <2>7, <2>8, NumberedNext
  <2>10. Numbered(pmap', msegs', testPages')
    BY <2>5, <2>6, <2>7, <2>9
  <2>11. ASSUME NEW i \in 0 .. msegs' - 1, NEW k \in at' .. Len(nm')
         PROVE  pmap'[i].end * PageSize <= nm'[k].addr
    <3>1. k \in at .. Len(nm) /\ k \in 1 .. Len(nm) /\ at < k
      BY <1>1, <1>2, <1>3
    <3>2. CASE i \in 0 .. n - 1
      BY <1>2, <1>5, <2>6, <2>7, <3>1, <3>2
    <3>3. CASE i = n
      <4>1. e <= nm[k].addr
        BY <1>3, <1>5, <3>1 DEF Ascending, NmEnd
      <4>2. nm[k].addr \in Nat /\ new.end \in Nat
        BY <1>4, <3>1 DEF SegmentType
      <4>3. new.end * PageSize \in Int
        BY <4>2, GridFacts, Monotone
      <4> HIDE DEF e
      <4> QED
        BY <1>2, <2>1, <2>2, <2>4, <2>7, <3>3, <4>1, <4>2, <4>3
    <3>4. i \in 0 .. n - 1 \/ i = n
      BY <2>5, <2>6
    <3> QED
      BY <3>2, <3>3, <3>4
  <2>12. BuildOrder'
    BY <1>2, <1>5, <2>10, <2>11 DEF BuildOrder, Ascending
  <2> QED
    BY <1>1, <2>12 DEF CountInv, SweepOrder, ProbeOrder, SortedOrder, SelectionRight
<1> QED
  BY <1>7, <1>8

LEMMA BuildOtherCount ==
  ASSUME Inv, CountInv, BuildOther
  PROVE  CountInv'
<1>1. /\ pc = "build" /\ at <= Len(nm) /\ at' = at + 1
      /\ UNCHANGED <<pc, sanitizing, pmap, msegs, testPages>>
  BY DEF BuildOther
<1>2. UNCHANGED nm
  BY <1>1 DEF sanitizing
<1>3. at \in Nat /\ Len(nm) \in Nat
  BY <1>1, TurnRoom
<1>4. \A k \in at + 1 .. Len(nm) : k \in at .. Len(nm)
  BY <1>3
<1>5. BuildOrder'
  BY <1>1, <1>2, <1>4 DEF CountInv, BuildOrder, Ascending
<1> QED
  BY <1>1, <1>5 DEF CountInv, SweepOrder, ProbeOrder, SortedOrder, SelectionRight

LEMMA LinuxbiosEntryCount ==
  ASSUME Inv, CountInv, LinuxbiosEntry
  PROVE  CountInv'
<1>1. pc' = "linuxbios"
  BY DEF LinuxbiosEntry
<1> QED
  BY <1>1 DEF CountInv, SweepOrder, BuildOrder, ProbeOrder, SortedOrder, SelectionRight

LEMMA BuiltCount ==
  ASSUME Inv, CountInv, Built
  PROVE  CountInv'
<1>1. /\ pc \in {"build", "linuxbios"} /\ pc' = "sort"
      /\ UNCHANGED <<firmware, mode, pmap, msegs, testPages>>
  BY DEF Built, machine, counts
<1>2. pc = "linuxbios" => mode = "bios" /\ firmware = "linuxbios"
  BY DEF Inv, BuildInv
<1>3. pc = "build" => Numbered(pmap, msegs, testPages)
  BY DEF CountInv, BuildOrder
<1>4. SortedOrder'
  BY <1>1, <1>2, <1>3 DEF SortedOrder
<1> QED
  BY <1>1, <1>4 DEF CountInv, SweepOrder, BuildOrder, ProbeOrder, SelectionRight

LEMMA FallbackCount ==
  ASSUME Inv, CountInv, Fallback
  PROVE  CountInv'
<1>1. /\ pc' = "sort" /\ msegs' = 2 /\ testPages' = Down(ResStart) + Extended
      /\ pmap' = [pmap EXCEPT
           ![0] = [start |-> 0, end |-> Down(ResStart)],
           ![1] = [start |-> Up(ResEnd), end |-> Extended + Down(ResEnd)]]
  BY DEF Fallback
<1>2. pmap \in Maps /\ 0 \in 0 .. E820Max /\ 1 \in 0 .. E820Max
  BY MapsType, MapAssumption
<1>3. /\ ResStart \in Nat /\ ResEnd \in Nat /\ Extended \in Nat /\ ResStart <= ResEnd
      /\ Down(ResStart) \in Nat /\ Down(ResEnd) \in Nat /\ Up(ResEnd) \in Nat
      /\ Down(ResStart) * PageSize = ResStart
      /\ Down(ResEnd) * PageSize = ResEnd /\ Up(ResEnd) * PageSize = ResEnd
  <2>1. /\ ResStart \in Nat /\ ResEnd \in Nat /\ Extended \in Nat /\ ResStart < ResEnd
        /\ ResStart % PageSize = 0 /\ ResEnd % PageSize = 0
    BY MapAssumption
  <2>2. Down(ResStart) * PageSize = ResStart
    BY <2>1, WholePages
  <2>3. Down(ResEnd) * PageSize = ResEnd /\ Up(ResEnd) * PageSize = ResEnd
    BY <2>1, WholePages
  <2>4. Down(ResStart) \in Nat /\ Down(ResEnd) \in Nat /\ Up(ResEnd) \in Nat
    BY <2>1, DownUp
  <2> QED
    BY <2>1, <2>2, <2>3, <2>4
<1>4. PICK low \in Nat, high \in Nat, up \in Nat :
        /\ low = Down(ResStart) /\ high = Down(ResEnd) /\ up = Up(ResEnd)
        /\ low * PageSize = ResStart /\ high * PageSize = ResEnd /\ up * PageSize = ResEnd
  BY <1>3
<1>5. low <= up /\ up = high
  <2>1. low * PageSize <= ResEnd /\ up * PageSize <= ResEnd /\ high * PageSize <= ResEnd
    BY <1>3, <1>4
  <2>2. low <= Up(ResEnd) /\ up <= Down(ResEnd) /\ high <= Up(ResEnd)
    BY <1>3, <2>1, UpAtLeast
  <2> QED
    BY <1>4, <2>2
<1> DEFINE q == [pmap EXCEPT ![0] = [start |-> 0, end |-> low],
                             ![1] = [start |-> up, end |-> Extended + high]]
<1>6. q \in Maps /\ q[0] = [start |-> 0, end |-> low] /\ q[1] = [start |-> up, end |-> Extended + high]
  <2>1. /\ [start |-> 0, end |-> low] \in SegmentType
        /\ [start |-> up, end |-> Extended + high] \in SegmentType
    BY <1>3, <1>4 DEF SegmentType
  <2>2. 0 \in -1 .. E820Max /\ 1 \in -1 .. E820Max
    BY <1>2
  <2> QED
    BY <1>2, <2>1, <2>2 DEF Maps
<1>7. q[0].start = 0 /\ q[0].end = low /\ q[1].start = up /\ q[1].end = Extended + high
  BY <1>6
<1>8. pmap' = q
  BY <1>1, <1>4
<1> HIDE DEF q
<1>9. Numbered(q, 1, low)
  <2>1. Numbered(q, 0, 0) /\ \A i \in 0 .. 0 - 1 : q[i] = q[i] /\ q[i].end <= q[0].start
    BY NumberedNone
  <2>2. Numbered(q, 0 + 1, 0 + (q[0].end - q[0].start))
    BY <1>2, <1>6, <2>1, NumberedNext
  <2>3. 0 + 1 = 1 /\ 0 + (q[0].end - q[0].start) = low
    BY <1>4, <1>7
  <2> QED
    BY <2>2, <2>3
<1>10. Numbered(q, 2, low + Extended)
  <2>1. \A i \in 0 .. 1 - 1 : q[i] = q[i] /\ q[i].end <= q[1].start
    <3>1. \A i \in 0 .. 1 - 1 : i = 0
      OBVIOUS
    <3> QED
      BY <1>5, <1>7, <3>1
  <2>2. Numbered(q, 1 + 1, low + (q[1].end - q[1].start))
    BY <1>2, <1>6, <1>9, <2>1, NumberedNext
  <2>3. 1 + 1 = 2 /\ low + (q[1].end - q[1].start) = low + Extended
    BY <1>3, <1>4, <1>5, <1>7
  <2> QED
    BY <2>2, <2>3
<1>11. SortedOrder'
  BY <1>1, <1>4, <1>8, <1>10 DEF SortedOrder
<1> QED
  BY <1>1, <1>11 DEF CountInv, SweepOrder, BuildOrder, ProbeOrder, SelectionRight

LEMMA ProbingCount ==
  ASSUME pc' \in {"wrap", "probe", "gap"}, ProbeOrder'
  PROVE  CountInv'
BY DEF CountInv, SweepOrder, BuildOrder, SortedOrder, SelectionRight

LEMMA FindLimitCount ==
  ASSUME Inv, CountInv, FindLimit
  PROVE  CountInv'
<1>1. /\ pc = "wrap" /\ pc' \in {"wrap", "probe"} /\ UNCHANGED <<at, testPages>>
  BY DEF FindLimit, counts
<1>2. at = 0 /\ testPages = 0
  BY <1>1 DEF Inv, ProbeInv, CountInv, ProbeOrder
<1>3. Numbered(pmap', at', testPages')
  BY <1>1, <1>2, NumberedNone
<1>4. 0 .. at' - 1 = {}
  BY <1>1, <1>2
<1>5. ProbeOrder'
  BY <1>1, <1>2, <1>3, <1>4 DEF ProbeOrder
<1> QED
  BY <1>1, <1>5, ProbingCount

(* The segment that is closed lies behind the others. *)
LEMMA CloseCount ==
  ASSUME Inv, RamInv, CountInv, pc = "probe", Inside, NEW last \in Nat, Close(last),
         last * PageSize <= p', p' \in Nat, p <= p'
  PROVE  CountInv'
<1>1. /\ at < E820Max /\ at' = at + 1 /\ pc' = "gap"
      /\ pmap' = [pmap EXCEPT ![at].end = last, ![at + 1].start = 0]
      /\ testPages' = testPages + (last - pmap[at].start)
  BY DEF Close
<1>2. /\ TypeInv /\ at \in Nat /\ pmap[at].start \in Nat /\ E820Max \in Nat /\ p \in Nat
      /\ at \in -1 .. E820Max /\ at + 1 \in -1 .. E820Max /\ pmap \in Maps
  <2>1. TypeInv /\ at \in Nat /\ pmap[at].start \in Nat /\ E820Max \in Nat /\ p \in Nat
    BY AtProbe, MapAssumption
  <2>2. pmap \in Maps
    BY MapsType
  <2> QED
    BY <1>1, <2>1, <2>2
<1>3. /\ pmap' \in Maps /\ pmap'[at].start = pmap[at].start /\ pmap'[at].end = last
      /\ \A k \in 0 .. at - 1 : pmap'[k] = pmap[k]
  <2>1. \A k \in 0 .. at - 1 : k \in -1 .. E820Max /\ k # at /\ k # at + 1
    BY <1>2
  <2>2. at # at + 1
    BY <1>2
  <2>3. pmap \in [-1 .. E820Max -> SegmentType]
    BY <1>2 DEF Maps
  <2>4. /\ pmap'[at].start = pmap[at].start /\ pmap'[at].end = last
        /\ \A k \in 0 .. at - 1 : pmap'[k] = pmap[k]
    BY <1>1, <1>2, <2>1, <2>2, <2>3 DEF SegmentType
  <2>5. pmap' \in [-1 .. E820Max -> SegmentType]
    <3>1. [pmap[at] EXCEPT !.end = last] \in SegmentType
      BY <1>2, <2>3 DEF SegmentType
    <3>2. [pmap[at + 1] EXCEPT !.start = 0] \in SegmentType
      BY <1>2, <2>3 DEF SegmentType
    <3>3. pmap' = [[pmap EXCEPT ![at] = [pmap[at] EXCEPT !.end = last]]
                     EXCEPT ![at + 1] = [pmap[at + 1] EXCEPT !.start = 0]]
      BY <1>1, <1>2, <2>2, <2>3
    <3> QED
      BY <1>2, <2>3, <3>1, <3>2, <3>3
  <2> QED
    BY <2>4, <2>5 DEF Maps
<1>4. PICK n \in 0 .. E820Max : n = at
  BY <1>1, <1>2
<1>5. /\ Numbered(pmap, n, testPages)
      /\ \A k \in 0 .. n - 1 : pmap[k].end <= pmap[n].start
      /\ pmap[n].start * PageSize <= p /\ pmap[n].start \in Nat
  <2>1. pmap[at].start # 0 /\ pmap[at].start * PageSize <= p
    BY DEF Inv, ProbeInv, RamInv, SoughtFound
  <2> QED
    BY <1>2, <1>4, <2>1 DEF CountInv, ProbeOrder
<1>6. Numbered(pmap', n + 1, testPages + (pmap'[n].end - pmap'[n].start))
  BY <1>2, <1>3, <1>4, <1>5, NumberedNext
<1>7. Numbered(pmap', at', testPages')
  BY <1>1, <1>3, <1>4, <1>6
<1>8. ASSUME NEW k \in 0 .. at' - 1
      PROVE  pmap'[k].end * PageSize <= p'
  <2>1. CASE k = n
    BY <1>3, <1>4, <2>1
  <2>2. CASE k \in 0 .. n - 1
    <3>1. pmap[k].end \in Nat
      <4>1. n \in 0 .. E820Max + 1
        BY <1>2
      <4> QED
        BY <1>2, <2>2, <4>1, MapFacts
    <3>2. /\ pmap[k].end * PageSize <= pmap[n].start * PageSize
          /\ pmap[k].end * PageSize \in Int /\ pmap[n].start * PageSize \in Int
      BY <1>5, <2>2, <3>1, GridFacts, Monotone
    <3> QED
      BY <1>2, <1>3, <1>4, <1>5, <2>2, <3>2
  <2> QED
    BY <1>1, <1>4, <2>1, <2>2
<1>9. ProbeOrder'
  BY <1>1, <1>7, <1>8 DEF ProbeOrder
<1> QED
  BY <1>1, <1>9, ProbingCount

LEMMA ProbeReservedCount ==
  ASSUME Inv, RamInv, CountInv, ProbeReserved
  PROVE  CountInv'
<1>1. pc = "probe" /\ Inside /\ Reserved(p) /\ p' = ResEnd /\ Close(Down(ResStart))
  BY DEF ProbeReserved
<1>2. Down(ResStart) \in Nat /\ Down(ResStart) * PageSize = ResStart
  BY MapAssumption, WholePages, DownUp
<1>3. Down(ResStart) * PageSize <= p' /\ p' \in Nat /\ p <= p'
  BY <1>1, <1>2, AtProbe, GridFacts DEF Reserved
<1> QED
  BY <1>1, <1>2, <1>3, CloseCount

LEMMA ProbeNothingCount ==
  ASSUME Inv, RamInv, CountInv, ProbeNothing
  PROVE  CountInv'
<1>1. pc = "probe" /\ Inside /\ p' = p /\ Close(Down(p))
  BY DEF ProbeNothing
<1>2. p \in Nat
  BY <1>1, AtProbe
<1>3. Down(p) \in Nat /\ Down(p) * PageSize <= p
  BY <1>2, DownUp
<1>4. Down(p) * PageSize <= p' /\ p' \in Nat /\ p <= p'
  BY <1>1, <1>2, <1>3
<1> QED
  BY <1>1, <1>3, <1>4, CloseCount

LEMMA ProbeRamCount ==
  ASSUME Inv, CountInv, ProbeRam
  PROVE  CountInv'
<1>1. pc = "probe" /\ pc' = "probe" /\ UNCHANGED <<at, pmap, testPages>>
  BY DEF ProbeRam, counts
<1>2. ProbeOrder'
  BY <1>1 DEF CountInv, ProbeOrder
<1> QED
  BY <1>1, <1>2, ProbingCount

LEMMA GapEndsCount ==
  ASSUME Inv, CountInv, GapEnds
  PROVE  CountInv'
<1> DEFINE here == PastHole(p)
<1>1. /\ pc = "gap" /\ Inside /\ pc' = "probe" /\ UNCHANGED <<at, testPages>>
      /\ pmap' = [pmap EXCEPT ![at].start = Down(here)]
  BY DEF GapEnds, counts
<1>2. /\ TypeInv /\ p \in Nat /\ at \in Nat /\ at \in -1 .. E820Max /\ E820Max \in Nat
      /\ at <= E820Max /\ pmap \in Maps
  BY <1>1, AtProbe, MapAssumption, MapsType
<1>3. here \in Nat /\ p <= here
  BY <1>2, GridFacts DEF PastHole, Reserved
<1> HIDE DEF here
<1>4. /\ pmap'[at].start = Down(here)
      /\ \A k \in 0 .. at - 1 : pmap'[k] = pmap[k]
  <2>1. pmap \in [-1 .. E820Max -> SegmentType]
    BY <1>2 DEF Maps
  <2>2. \A k \in 0 .. at - 1 : k \in -1 .. E820Max /\ k # at
    BY <1>2
  <2> QED
    BY <1>1, <1>2, <2>1, <2>2 DEF SegmentType
<1>5. /\ Numbered(pmap, at, testPages)
      /\ \A k \in 0 .. at - 1 : pmap[k].end * PageSize <= p
  BY <1>1 DEF CountInv, ProbeOrder
<1>6. Numbered(pmap', at', testPages')
  BY <1>1, <1>4, <1>5, NumberedSame
<1>7. ASSUME NEW k \in 0 .. at - 1
      PROVE  pmap'[k].end <= Down(here)
  <2>1. pmap[k].end \in Nat
    <3>1. at \in 0 .. E820Max + 1
      BY <1>2
    <3> QED
      BY <1>2, <3>1, MapFacts
  <2>2. pmap[k].end * PageSize <= here
    <3>1. pmap[k].end * PageSize \in Int
      BY <2>1, GridFacts, Monotone
    <3> QED
      BY <1>2, <1>3, <1>5, <3>1
  <2> QED
    BY <1>3, <1>4, <2>1, <2>2, UpAtLeast
<1>8. ProbeOrder'
  BY <1>1, <1>4, <1>6, <1>7 DEF ProbeOrder
<1> QED
  BY <1>1, <1>8, ProbingCount

LEMMA GapTurnCount ==
  ASSUME Inv, CountInv, GapTurn
  PROVE  CountInv'
<1> DEFINE here == PastHole(p)
           long == gap - 1 <= 0
<1>1. /\ pc = "gap" /\ Inside /\ p' = From(IF long THEN limit ELSE here)
      /\ pc' = (IF long THEN "probe" ELSE "gap")
      /\ UNCHANGED <<limit, at, pmap, testPages>>
  BY DEF GapTurn, counts
<1>2. /\ p \in Nat /\ p \in 0 .. Ptr - 1 /\ OnGrid(p) /\ at \in Nat /\ at <= E820Max
      /\ E820Max \in Nat /\ pmap \in Maps
  BY <1>1, AtProbe, MapsType
<1>3. here \in 0 .. Ptr - 1 /\ here \in Nat /\ p <= here /\ OnGrid(here) /\ ~Reserved(here)
  <2>1. p <= here
    BY <1>2, GridFacts DEF PastHole, Reserved
  <2> QED
    BY <1>2, <2>1, PastHoleGrid
<1>4. /\ Numbered(pmap, at, testPages) /\ pmap[at].start = 0
      /\ \A k \in 0 .. at - 1 : pmap[k].end * PageSize <= p
  BY <1>1 DEF CountInv, ProbeOrder, Inv, ProbeInv
<1> HIDE DEF here
<1>5. CASE long
  <2>1. pc' = "probe"
    BY <1>1, <1>5
  <2>2. ProbeOrder'
    BY <1>1, <1>4, <2>1 DEF ProbeOrder
  <2> QED
    BY <2>1, <2>2, ProbingCount
<1>6. CASE ~long
  <2>1. pc' = "gap" /\ p' = From(here)
    BY <1>1, <1>6
  <2>2. ASSUME Inside'
        PROVE  p <= p' /\ p' \in Nat
    <3>1. From(here) >= ImageEnd
      BY <2>1, <2>2 DEF Inside
    <3>2. From(here) = here + Step
      BY <1>3, <3>1, NextOnGrid
    <3> QED
      BY <1>2, <1>3, <2>1, <3>2, GridFacts
  <2>3. ASSUME Inside', NEW k \in 0 .. at - 1
        PROVE  pmap[k].end * PageSize <= p'
    <3>1. pmap[k].end \in Nat
      <4>1. at \in 0 .. E820Max + 1
        BY <1>2
      <4> QED
        BY <1>2, <4>1, MapFacts
    <3>2. pmap[k].end * PageSize \in Int
      BY <3>1, GridFacts, Monotone
    <3> QED
      BY <1>2, <1>4, <2>2, <2>3, <3>2
  <2>4. ProbeOrder'
    BY <1>1, <1>4, <2>1, <2>3 DEF ProbeOrder
  <2> QED
    BY <2>1, <2>4, ProbingCount
<1> QED
  BY <1>5, <1>6

LEMMA GapOverCount ==
  ASSUME Inv, CountInv, GapOver
  PROVE  CountInv'
<1>1. pc = "gap" /\ pc' = "probe" /\ UNCHANGED <<at, pmap, testPages>>
  BY DEF GapOver, counts
<1>2. pmap[at].start = 0 /\ Numbered(pmap, at, testPages)
  BY <1>1 DEF Inv, ProbeInv, CountInv, ProbeOrder
<1>3. ProbeOrder'
  BY <1>1, <1>2 DEF ProbeOrder
<1> QED
  BY <1>1, <1>3, ProbingCount

LEMMA ProbedCount ==
  ASSUME Inv, CountInv, Probed
  PROVE  CountInv'
<1> DEFINE open == pmap[at].start # 0
<1>1. /\ pc = "probe" /\ pc' = "sort"
      /\ pmap' = (IF open THEN [pmap EXCEPT ![at].end = Down(limit)] ELSE pmap)
      /\ testPages' = testPages + (IF open THEN Down(limit) - pmap[at].start ELSE 0)
      /\ msegs' = (IF open THEN at + 1 ELSE at)
  BY DEF Probed
<1>2. /\ at \in Nat /\ at \in -1 .. E820Max /\ E820Max \in Nat /\ at <= E820Max
      /\ pmap[at].start \in Nat /\ limit \in Nat /\ pmap \in Maps
  BY <1>1, AtProbe, MapsType
<1>3. Numbered(pmap, at, testPages)
  BY <1>1 DEF CountInv, ProbeOrder
<1>4. Numbered(pmap', msegs', testPages')
  <2>1. CASE open
    <3>1. Down(limit) \in Nat
      BY <1>2, DownUp
    <3>2. pmap' = [pmap EXCEPT ![at].end = Down(limit)]
      BY <1>1, <2>1
    <3>3. pmap \in [-1 .. E820Max -> SegmentType]
      BY <1>2 DEF Maps
    <3>4. [pmap[at] EXCEPT !.end = Down(limit)] \in SegmentType
      BY <1>2, <3>1, <3>3 DEF SegmentType
    <3>5. pmap' \in Maps
      BY <1>2, <3>2, <3>3, <3>4 DEF Maps
    <3>6. \A k \in 0 .. at - 1 : k \in -1 .. E820Max /\ k # at
      BY <1>2
    <3>7. /\ pmap'[at].start = pmap[at].start /\ pmap'[at].end = Down(limit)
          /\ \A k \in 0 .. at - 1 : pmap'[k] = pmap[k]
      BY <1>2, <3>2, <3>3, <3>6 DEF SegmentType
    <3>8. \A k \in 0 .. at - 1 : pmap[k].end <= pmap[at].start
      BY <1>1, <2>1 DEF CountInv, ProbeOrder
    <3>9. at \in 0 .. E820Max
      BY <1>2
    <3>10. Numbered(pmap', at + 1, testPages + (pmap'[at].end - pmap'[at].start))
      BY <1>2, <1>3, <3>5, <3>7, <3>8, <3>9, NumberedNext
    <3> QED
      BY <1>1, <2>1, <3>7, <3>10
  <2>2. CASE ~open
    <3>1. pmap' = pmap /\ msegs' = at /\ testPages' = testPages + 0
      BY <1>1, <2>2
    <3>2. NoneBackwards(pmap, at) => testPages + 0 = testPages
      <4>1. at \in 0 .. E820Max + 1
        BY <1>2
      <4>2. IsFiniteSet(PagesOf(pmap, at))
        BY <1>2, <4>1, PagesFinite
      <4>3. Cardinality(PagesOf(pmap, at)) \in Nat
        BY <4>2, FS_CardinalityType
      <4> QED
        BY <1>3, <4>3 DEF Numbered
    <3> QED
      BY <1>3, <3>1, <3>2 DEF Numbered
  <2> QED
    BY <2>1, <2>2
<1>5. SortedOrder'
  BY <1>4 DEF SortedOrder
<1> QED
  BY <1>1, <1>5 DEF CountInv, SweepOrder, BuildOrder, ProbeOrder, SelectionRight

LEMMA SortTurnCount ==
  ASSUME Inv, CountInv, SortTurn
  PROVE  CountInv'
<1>1. /\ pc = "sort" /\ pc' = pc /\ at < msegs
      /\ pmap' = (IF at # Place(at) THEN Shift(at, Place(at)) ELSE pmap)
      /\ moved' = (moved \/ (at # 0 /\ at # Place(at)))
      /\ UNCHANGED <<firmware, mode, msegs, testPages>>
  BY DEF SortTurn, machine, counts
<1>2. ASSUME ~moved'
      PROVE  \A k \in 0 .. msegs - 1 : pmap'[k] = pmap[k]
  <2>1. CASE at = Place(at)
    BY <1>1, <2>1
  <2>2. CASE at # Place(at)
    <3>1. at = 0 /\ pmap' = Shift(0, Place(0))
      BY <1>1, <1>2, <2>2
    <3>2. Place(0) = -1
      <4>1. {j \in 0 .. 0 - 1 : pmap[0].start > pmap[j].start} = {}
        OBVIOUS
      <4> QED
        BY <4>1 DEF Place
    <3>3. \A k \in 0 .. msegs - 1 : k \in DOMAIN pmap /\ k # -1 /\ k \notin -1 .. 0 - 1
      BY MapAssumption DEF Inv, TypeInv
    <3> QED
      BY <3>1, <3>2, <3>3 DEF Shift
  <2> QED
    BY <2>1, <2>2
<1>3. ASSUME ~moved', firmware = "pcbios" \/ mode = "probe"
      PROVE  Numbered(pmap', msegs, testPages)
  <2>1. Numbered(pmap, msegs, testPages)
    BY <1>1, <1>3 DEF CountInv, SortedOrder
  <2> QED
    BY <1>2, <1>3, <2>1, NumberedSame
<1>4. SortedOrder'
  BY <1>1, <1>3 DEF SortedOrder
<1> QED
  BY <1>1, <1>4 DEF CountInv, SweepOrder, BuildOrder, ProbeOrder, SelectionRight

(* The count is taken again with each change of a limit. *)
LEMMA ReadyCount ==
  ASSUME Inv, CountInv,
         Sorted \/ AllMemory \/ \E page \in Pages : SetLower(page) \/ SetUpper(page)
  PROVE  CountInv'
<1>1. /\ pc \in {"sort", "ready"} /\ pc' = "ready"
      /\ UNCHANGED <<firmware, mode, pmap, msegs, testPages, moved>>
  BY DEF Sorted, AllMemory, SetLower, SetUpper, machine
<1>2. SortedOrder'
  BY <1>1 DEF CountInv, SortedOrder
<1>3. AdjMem(plimLower', plimUpper')
        = Selected(pmap', msegs', plimLower', plimUpper') % Ulong
  BY <1>1, AdjMemIs
<1>4. CASE Sorted \/ AllMemory
  <2>1. /\ plimLower' = 0 /\ plimUpper' = pmap[msegs - 1].end
        /\ selectedPages' = AdjMem(plimLower', plimUpper')
    BY <1>4 DEF Sorted, AllMemory
  <2>2. pmap[msegs - 1].end \in Nat
    <3>1. msegs - 1 \in -1 .. E820Max
      BY MapsType
    <3>2. pmap[msegs - 1] \in SegmentType
      BY <3>1, MapsType DEF Maps
    <3> QED
      BY <3>2 DEF SegmentType
  <2>3. SelectionRight'
    BY <1>3, <2>1, <2>2 DEF SelectionRight
  <2> QED
    BY <1>1, <1>2, <2>3 DEF CountInv, SweepOrder, BuildOrder, ProbeOrder
<1>5. CASE \E page \in Pages : SetLower(page) \/ SetUpper(page)
  <2>1. PICK page \in Pages : SetLower(page) \/ SetUpper(page)
    BY <1>5
  <2>2. page \in Nat
    BY MapAssumption
  <2>3. plimLower \in Nat /\ plimUpper \in Nat
    BY <2>1 DEF SetLower, SetUpper, CountInv, SelectionRight
  <2>4. /\ plimLower' \in Nat /\ plimUpper' \in Nat
        /\ selectedPages' = AdjMem(plimLower', plimUpper')
    <3>1. CASE SetLower(page)
      <4>1. /\ plimLower' = (IF (page + 1) % Ulong <= plimUpper THEN page ELSE plimLower)
            /\ plimUpper' = plimUpper /\ selectedPages' = AdjMem(plimLower', plimUpper)
        BY <3>1 DEF SetLower
      <4> QED
        BY <2>2, <2>3, <4>1
    <3>2. CASE SetUpper(page)
      <4>1. /\ plimUpper' = (IF (page - 1) % Ulong >= plimLower THEN page ELSE plimUpper)
            /\ plimLower' = plimLower /\ selectedPages' = AdjMem(plimLower, plimUpper')
        BY <3>2 DEF SetUpper
      <4> QED
        BY <2>2, <2>3, <4>1
    <3> QED
      BY <2>1, <3>1, <3>2
  <2>5. SelectionRight'
    BY <1>3, <2>4 DEF SelectionRight
  <2> QED
    BY <1>1, <1>2, <2>5 DEF CountInv, SweepOrder, BuildOrder, ProbeOrder
<1> QED
  BY <1>4, <1>5

LEMMA RestartCount ==
  ASSUME Inv, CountInv, Restart
  PROVE  CountInv'
<1>1. pc' = "start"
  BY DEF Restart
<1> QED
  BY <1>1 DEF CountInv, SweepOrder, BuildOrder, ProbeOrder, SortedOrder, SelectionRight

LEMMA StutterCount ==
  ASSUME CountInv, UNCHANGED vars
  PROVE  CountInv'
<1>1. UNCHANGED <<pc, machine, firmware, e820, mode, limit, p, points, lastType, lastAddr, nm, at,
                  pmap, msegs, testPages, selectedPages, plimLower, plimUpper, moved>>
  BY DEF vars, machine, probing, sanitizing, counts, limits
<1>2. Ascending' = Ascending /\ (\A k : NmEnd(k)' = NmEnd(k)) /\ \A y : AddrOf(y)' = AddrOf(y)
  BY <1>1 DEF Ascending, NmEnd, AddrOf, End
<1>3. SweepOrder' /\ BuildOrder' /\ ProbeOrder'
  BY <1>1, <1>2 DEF CountInv, SweepOrder, BuildOrder, ProbeOrder, Inside
<1>4. SortedOrder' /\ SelectionRight'
  BY <1>1 DEF CountInv, SortedOrder, SelectionRight
<1> QED
  BY <1>3, <1>4 DEF CountInv

THEOREM CountInvariant == Spec => []CountInv
<1>1. Init => CountInv
  BY DEF Init, CountInv, SweepOrder, BuildOrder, ProbeOrder, SortedOrder, SelectionRight
<1>2. ASSUME Inv, RamInv, CountInv, [Next]_vars
      PROVE  CountInv'
  <2>1. CASE MemSize
    BY <1>2, <2>1, MemSizeCount
  <2>2. CASE SweepPoint
    BY <1>2, <2>2, SweepPointCount
  <2>3. CASE SweepOver
    BY <1>2, <2>3, SweepOverCount
  <2>4. CASE BuildUsable
    BY <1>2, <2>4, BuildUsableCount
  <2>5. CASE BuildOther
    BY <1>2, <2>5, BuildOtherCount
  <2>6. CASE Fallback
    BY <1>2, <2>6, FallbackCount
  <2>7. CASE LinuxbiosEntry
    BY <1>2, <2>7, LinuxbiosEntryCount
  <2>8. CASE Built
    BY <1>2, <2>8, BuiltCount
  <2>9. CASE FindLimit
    BY <1>2, <2>9, FindLimitCount
  <2>10. CASE ProbeReserved
    BY <1>2, <2>10, ProbeReservedCount
  <2>11. CASE ProbeNothing
    BY <1>2, <2>11, ProbeNothingCount
  <2>12. CASE ProbeRam
    BY <1>2, <2>12, ProbeRamCount
  <2>13. CASE GapEnds
    BY <1>2, <2>13, GapEndsCount
  <2>14. CASE GapTurn
    BY <1>2, <2>14, GapTurnCount
  <2>15. CASE GapOver
    BY <1>2, <2>15, GapOverCount
  <2>16. CASE Probed
    BY <1>2, <2>16, ProbedCount
  <2>17. CASE SortTurn
    BY <1>2, <2>17, SortTurnCount
  <2>18. CASE Sorted \/ AllMemory \/ \E page \in Pages : SetLower(page) \/ SetUpper(page)
    BY <1>2, <2>18, ReadyCount
  <2>19. CASE Restart
    BY <1>2, <2>19, RestartCount
  <2>20. CASE UNCHANGED vars
    BY <1>2, <2>20, StutterCount
  <2>21. QED
    BY <1>2, <2>1, <2>2, <2>3, <2>4, <2>5, <2>6, <2>7, <2>8, <2>9, <2>10, <2>11,
       <2>12, <2>13, <2>14, <2>15, <2>16, <2>17, <2>18, <2>19, <2>20 DEF Next
<1>3. QED
  BY <1>1, <1>2, Invariant, RamInvariant, PTL DEF Spec

(* The pages that the screen counts are the pages that are listed, and the    *)
(* selected ones those of them inside the limits, for tables with empty       *)
(* entries too, which reach no segment, and for all limits that the unsigned  *)
(* comparisons of the menu accept, in any order; but for limits that are      *)
(* crossed with the lower one in a segment or at its end.                     *)
THEOREM CountsRight == Spec => []PagesCounted
<1>1. ASSUME Inv, CountInv
      PROVE  PagesCounted
  <2> SUFFICES ASSUME pc = "ready", firmware = "pcbios" \/ mode = "probe", ~moved,
                      \A i \in 0 .. msegs - 1 : pmap[i].start <= pmap[i].end
               PROVE  /\ testPages = Cardinality(Listed)
                      /\ ~CrossedInside =>
                           selectedPages
                             = Cardinality(Listed \cap plimLower .. plimUpper - 1) % Ulong
    BY DEF PagesCounted
  <2>1. Apart(pmap, msegs) /\ NoneBackwards(pmap, msegs)
        /\ testPages = Cardinality(PagesOf(pmap, msegs))
    BY <1>1 DEF CountInv, SortedOrder, Numbered, NoneBackwards
  <2>2. /\ plimLower \in Nat /\ plimUpper \in Nat
        /\ selectedPages = Selected(pmap, msegs, plimLower, plimUpper) % Ulong
    BY <1>1 DEF CountInv, SelectionRight
  <2>3. Listed = PagesOf(pmap, msegs)
    BY DEF Listed, Segment, PagesOf, SegmentOf
  <2>4. ASSUME ~CrossedInside
        PROVE  Selected(pmap, msegs, plimLower, plimUpper)
                 = Cardinality(PagesOf(pmap, msegs) \cap (plimLower .. plimUpper - 1))
    <3>1. \A i \in 0 .. msegs - 1 : pmap[i].start \in Nat /\ pmap[i].end \in Nat
      BY <1>1, MapsType, MapFacts
    <3>2. \A i \in 0 .. msegs - 1 : Sensible(pmap[i], plimLower, plimUpper)
      BY <2>2, <2>4, <3>1 DEF CrossedInside, Sensible
    <3> QED
      BY <1>1, <2>1, <2>2, <3>2, MapsType, SelectedCounted
  <2> QED
    BY <2>1, <2>2, <2>3, <2>4
<1> QED
  BY <1>1, Invariant, CountInvariant, PTL
=============================================================================
