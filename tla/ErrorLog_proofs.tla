-------------------------- MODULE ErrorLog_proofs --------------------------
(***************************************************************************)
(* Proofs about ErrorLog, for address spaces, words and pages of any size, *)
(* any number of runs and of reports, and any memory slots: every variable *)
(* keeps its type, the runs of failing addresses name reported addresses   *)
(* only and all of those that there was room for, they count no report     *)
(* twice, and the lowest address of the summary is the lowest.             *)
(***************************************************************************)
EXTENDS ErrorLog, FiniteSetTheorems, WellFoundedInduction, TLAPS

-----------------------------------------------------------------------------
(* Arithmetic of addresses that wrap around. *)

LEMMA DivMod ==
  ASSUME NEW W \in Nat \ {0}, NEW x \in Int
  PROVE  /\ x % W \in 0 .. W - 1 /\ x \div W \in Int
         /\ x % W = x - W * (x \div W)
BY SMT

(* A multiple of W between -W and W is 0. *)
LEMMA SmallMultiple ==
  ASSUME NEW W \in Nat \ {0}, NEW n \in Int, n * W < W, n * W > -W
  PROVE  n = 0
<1>1. CASE n >= 1
  <2>1. n * W >= W
    BY <1>1, SMT
  <2>2. QED
    BY <2>1, SMT
<1>2. CASE n <= -1
  <2>1. n * W <= -W
    BY <1>2, SMT
  <2>2. QED
    BY <2>1, SMT
<1>3. QED
  BY <1>1, <1>2, SMT

LEMMA Distributes ==
  ASSUME NEW W \in Int, NEW d \in Int, NEW e \in Int
  PROVE  /\ W * d \in Int /\ W * e \in Int
         /\ W * (d + e) = W * d + W * e
BY SMT

(* What is left when a multiple of W is taken away, and fits, is x % W. *)
LEMMA UniqueMod ==
  ASSUME NEW W \in Nat \ {0}, NEW x \in Int, NEW q \in Int, NEW r \in 0 .. W - 1,
         r = x - W * q
  PROVE  x % W = r
<1>1. PICK d \in Int : x % W \in 0 .. W - 1 /\ x % W = x - W * d
  BY DivMod
<1>2. (q - d) * W = W * q - W * d /\ q - d \in Int
  BY SMT
<1>3. W * q \in Int /\ W * d \in Int
  BY SMT
<1>4. (q - d) * W = (x % W) - r
  BY <1>1, <1>2, <1>3, SMT
<1>5. (q - d) * W < W /\ (q - d) * W > -W
  BY <1>1, <1>4, SMT
<1>6. q - d = 0
  BY <1>2, <1>5, SmallMultiple
<1>7. q = d
  BY <1>6, SMT
<1>8. QED
  BY <1>1, <1>7

LEMMA ModOfSum ==
  ASSUME NEW W \in Nat \ {0}, NEW a \in Int, NEW b \in Int
  PROVE  ((a % W) + b) % W = (a + b) % W
<1>1. W \in Int
  OBVIOUS
<1>2. PICK m \in 0 .. W - 1, d \in Int : m = a % W /\ m = a - W * d
  BY DivMod
<1>3. m + b \in Int
  BY SMT
<1>4. PICK x \in 0 .. W - 1, e \in Int : x = (m + b) % W /\ x = (m + b) - W * e
  BY <1>3, DivMod
<1>5. W * (d + e) = W * d + W * e /\ W * d \in Int /\ W * e \in Int
  BY <1>1, Distributes
<1>6. PICK wd \in Int, we \in Int : wd = W * d /\ we = W * e
  BY <1>5
<1>7. m = a - wd /\ x = (m + b) - we /\ W * (d + e) = wd + we
  BY <1>2, <1>4, <1>5, <1>6
<1>8. x = (a + b) - (wd + we)
  BY ONLY <1>7, a \in Int, b \in Int, m \in 0 .. W - 1, x \in 0 .. W - 1,
          wd \in Int, we \in Int, W \in Nat, SMT
<1>9. x = (a + b) - W * (d + e)
  BY <1>7, <1>8
<1>10. a + b \in Int /\ d + e \in Int
  BY SMT
<1>11. (a + b) % W = x
  BY <1>9, <1>10, UniqueMod
<1>12. QED
  BY <1>2, <1>4, <1>11

(* The stride that update_err_ranges() takes from the difference of two       *)
(* addresses leads from the one to the other.                                 *)
LEMMA StrideLeads ==
  ASSUME NEW W \in Nat \ {0}, NEW a \in Int, NEW b \in Int
  PROVE  (b + ((a - b) % W)) % W = a % W
<1>1. a - b \in Int
  BY SMT
<1>2. (((a - b) % W) + b) % W = ((a - b) + b) % W
  BY <1>1, ModOfSum
<1>3. (a - b) + b = a /\ ((a - b) % W) + b = b + ((a - b) % W)
  BY <1>1, DivMod, SMT
<1>4. QED
  BY <1>2, <1>3

LEMMA ModSmall ==
  ASSUME NEW W \in Nat \ {0}, NEW a \in 0 .. W - 1
  PROVE  a % W = a
BY SMT

-----------------------------------------------------------------------------
(* The assumptions, as the proofs use them. *)

LEMMA Sizes ==
  /\ Word \in Nat \ {0} /\ PageWords \in Nat \ {0} /\ HalfPages \in Nat \ {0}
  /\ RangeSize \in Nat /\ Addrs = 0 .. Word - 1 /\ Addrs \subseteq Nat
  /\ IsFiniteSet(Bits) /\ Cardinality(Bits) \in Nat
<1>1. PageWords \in Nat \ {0} /\ HalfPages \in Nat \ {0} /\ RangeSize \in Nat
  BY LogAssumption
<1>2. 2 * HalfPages * PageWords \in Nat \ {0}
  BY <1>1, SMT
<1>3. Word \in Nat \ {0}
  BY <1>2, LogAssumption
<1>4. IsFiniteSet(Bits) /\ Cardinality(Bits) \in Nat
  BY LogAssumption, FS_CardinalityType
<1>5. QED
  BY <1>1, <1>3, <1>4 DEF Addrs

LEMMA MinMaxOfTwo ==
  ASSUME NEW x \in Nat, NEW y \in Nat
  PROVE  Max({x, y}) \in {x, y} /\ Min({x, y}) \in {x, y}
<1>1. CASE x >= y
  BY <1>1 DEF Max, Min
<1>2. CASE y >= x
  BY <1>2 DEF Max, Min
<1>3. QED
  BY <1>1, <1>2

(* A set of numbers that is not empty has a least member. *)
LEMMA LeastIndex ==
  ASSUME NEW T, T \subseteq Nat, T # {}
  PROVE  Min(T) \in T
<1> DEFINE R == OpToRel(<, Nat)
<1>1. IsWellFoundedOn(R, Nat)
  BY NatLessThanWellFounded
<1>2. R = {ss \in Nat \X Nat : ss[1] < ss[2]}
  BY DEF OpToRel
<1> HIDE DEF R
<1>3. PICK k \in T : \A j \in T : <<j, k>> \notin R
  BY <1>1, WFMin, Zenon
<1>4. \A j \in T : <<j, k>> \in Nat \X Nat
  OBVIOUS
<1>5. \A j \in T : ~(j < k)
  BY <1>2, <1>3, <1>4
<1>6. \A j \in T : k <= j
  BY <1>5
<1>7. QED
  BY <1>6 DEF Min

-----------------------------------------------------------------------------
(* Runs. *)

(* The first address of a run is one of its addresses. *)
LEMMA LowIsMember ==
  ASSUME NEW r \in Run
  PROVE  r.low \in Members(r)
<1>1. r.low \in 0 .. Word - 1 /\ r.stride \in Nat /\ r.count \in Nat \ {0}
  BY Sizes DEF Run
<1>2. r.low + 0 * r.stride = r.low /\ 0 \in 0 .. r.count - 1
  BY <1>1, Sizes, SMT
<1>3. r.low % Word = r.low
  BY <1>1, Sizes, ModSmall
<1>4. QED
  BY <1>2, <1>3 DEF Members

(* A new run is its first address. *)
LEMMA HistType ==
  ASSUME NEW h \in [Bits -> Nat], NEW bits
  PROVE  Hist(h, bits) \in [Bits -> Nat]
BY DEF Hist

LEMMA NewRunRight ==
  ASSUME NEW e \in Report
  PROVE  /\ NewRun(e) \in Run
         /\ Members(NewRun(e)) = {e.adr}
         /\ NewRun(e).high = (NewRun(e).low + (NewRun(e).count - 1) * NewRun(e).stride) % Word
<1> DEFINE r == NewRun(e)
<1>1. e.adr \in 0 .. Word - 1
  BY Sizes DEF Report
<1>2. Hist([b \in Bits |-> 0], e.bits) \in [Bits -> Nat]
  BY HistType
<1>3. /\ r.low = e.adr /\ r.high = e.adr /\ r.stride = 0 /\ r.count = 1
      /\ r \in Run
  BY <1>1, <1>2, Sizes DEF NewRun, Run
<1>4. e.adr + 0 * 0 = e.adr /\ 1 - 1 = 0 /\ 0 .. 0 = {0}
  BY <1>1, Sizes, SMT
<1>5. e.adr % Word = e.adr
  BY <1>1, Sizes, ModSmall
<1>6. Members(r) = {(e.adr + k * 0) % Word : k \in 0 .. 0}
  BY <1>3, <1>4 DEF Members
<1>7. Members(r) = {e.adr}
  BY <1>4, <1>5, <1>6
<1>8. QED
  BY <1>3, <1>4, <1>5, <1>7

LEMMA ExtendFields ==
  ASSUME NEW r \in Run, NEW e \in Report
  PROVE  LET x == Extend(r, e)
         IN  /\ x.low = r.low /\ x.high = e.adr /\ x.count = r.count + 1
             /\ x.stride = IF r.count = 1 THEN (e.adr - r.low) % Word ELSE r.stride
             /\ x.hist = Hist(r.hist, e.bits)
BY DEF Extend, Run, Report

RunEnds(r) == r.high = (r.low + (r.count - 1) * r.stride) % Word

(* A run that takes an error keeps its addresses, gets the one of the error    *)
(* and no other, and ends with it.                                             *)
LEMMA ExtendRight ==
  ASSUME NEW r \in Run, NEW e \in Report, RunEnds(r), Takes(r, e.adr)
  PROVE  /\ Extend(r, e) \in Run
         /\ Members(Extend(r, e)) = Members(r) \cup {e.adr}
         /\ RunEnds(Extend(r, e))
<1> DEFINE x == Extend(r, e)
<1>1. /\ e.adr \in 0 .. Word - 1 /\ r.low \in 0 .. Word - 1
      /\ r.stride \in 0 .. Word - 1 /\ r.high \in 0 .. Word - 1
      /\ r.count \in Nat \ {0} /\ r.hist \in [Bits -> Nat]
      /\ e.adr \in Int /\ r.low \in Int /\ r.stride \in Int
  BY Sizes DEF Report, Run
<1>2. /\ x.low = r.low /\ x.high = e.adr /\ x.count = r.count + 1
      /\ x.stride = IF r.count = 1 THEN (e.adr - r.low) % Word ELSE r.stride
  BY ExtendFields
<1>3. x.stride \in 0 .. Word - 1
  <2>1. e.adr - r.low \in Int
    BY <1>1, SMT
  <2>2. (e.adr - r.low) % Word \in 0 .. Word - 1
    BY <2>1, Sizes, DivMod
  <2>3. QED
    BY <1>1, <1>2, <2>2
<1>4. Hist(r.hist, e.bits) \in [Bits -> Nat]
  BY <1>1, HistType
<1>5. x \in Run
  <2>1. PICK h \in [Bits -> Nat], s \in Addrs, c \in Nat \ {0} :
          /\ h = Hist(r.hist, e.bits) /\ c = r.count + 1
          /\ s = IF r.count = 1 THEN (e.adr - r.low) % Word ELSE r.stride
    BY <1>1, <1>2, <1>3, <1>4, Sizes
  <2>2. x = [r EXCEPT !.high = e.adr, !.count = c, !.hist = h, !.stride = s]
    BY <2>1 DEF Extend
  <2>3. QED
    BY <1>1, <2>2, Sizes DEF Run
<1>6. (x.low + r.count * x.stride) % Word = e.adr
  <2>1. CASE r.count = 1
    <3>1. x.stride = (e.adr - r.low) % Word
      BY <1>2, <2>1
    <3>2. (r.low + ((e.adr - r.low) % Word)) % Word = e.adr % Word
      BY <1>1, Sizes, StrideLeads
    <3>3. e.adr % Word = e.adr
      BY <1>1, Sizes, ModSmall
    <3>4. 1 * x.stride = x.stride
      BY <1>3, SMT
    <3>5. QED
      BY <1>2, <2>1, <3>1, <3>2, <3>3, <3>4
  <2>2. CASE r.count # 1
    <3>1. x.stride = r.stride
      BY <1>2, <2>2
    <3>2. e.adr = (r.high + r.stride) % Word
      BY <2>2 DEF Takes
    <3>3. PICK y \in Int : y = r.low + (r.count - 1) * r.stride
      <4>1. r.low + (r.count - 1) * r.stride \in Int
        BY <1>1, SMT
      <4>2. QED
        BY <4>1
    <3>4. r.high = y % Word
      BY <3>3 DEF RunEnds
    <3>5. ((y % Word) + r.stride) % Word = (y + r.stride) % Word
      BY <1>1, Sizes, ModOfSum
    <3>6. y + r.stride = r.low + r.count * r.stride
      <4>1. r.stride * ((r.count - 1) + 1) = r.stride * (r.count - 1) + r.stride * 1
        BY <1>1, Distributes
      <4>2. /\ (r.count - 1) + 1 = r.count /\ r.stride * 1 = r.stride
            /\ r.stride * r.count = r.count * r.stride
            /\ r.stride * (r.count - 1) = (r.count - 1) * r.stride
        BY <1>1, SMT
      <4>3. r.count * r.stride = (r.count - 1) * r.stride + r.stride
        BY <4>1, <4>2
      <4>4. (r.count - 1) * r.stride \in Int
        BY <1>1, SMT
      <4>5. QED
        BY <1>1, <3>3, <4>3, <4>4, SMT
    <3>7. QED
      BY <1>2, <3>1, <3>2, <3>4, <3>5, <3>6
  <2>3. QED
    BY <2>1, <2>2
<1>7. RunEnds(x)
  <2>1. (r.count + 1) - 1 = r.count
    BY <1>1, SMT
  <2>2. QED
    BY <1>2, <1>6, <2>1 DEF RunEnds
<1>8. Members(x) = {(r.low + k * x.stride) % Word : k \in 0 .. r.count}
  <2>1. (r.count + 1) - 1 = r.count
    BY <1>1, SMT
  <2>2. QED
    BY <1>2, <2>1 DEF Members
<1>9. Members(r) = {(r.low + k * x.stride) % Word : k \in 0 .. r.count - 1}
  <2>1. CASE r.count = 1
    <3>1. 0 .. r.count - 1 = {0}
      BY <2>1, SMT
    <3>2. 0 * r.stride = 0 * x.stride
      BY <1>1, <1>3, SMT
    <3>3. QED
      BY <3>1, <3>2 DEF Members
  <2>2. CASE r.count # 1
    BY <1>2, <2>2 DEF Members
  <2>3. QED
    BY <2>1, <2>2
<1>10. 0 .. r.count = (0 .. r.count - 1) \cup {r.count}
  BY <1>1, SMT
<1>11. Members(x) = Members(r) \cup {e.adr}
  BY <1>2, <1>6, <1>8, <1>9, <1>10
<1>12. QED
  BY <1>5, <1>7, <1>11

-----------------------------------------------------------------------------
(* Reports. *)

Places == [page : Nat, offset : Offsets]

LEMMA PageOfType ==
  ASSUME NEW adr \in Addrs, NEW window \in Windows
  PROVE  PageOf(adr, window) \in Nat
<1>1. adr \div PageWords \in Nat
  BY Sizes, SMT
<1>2. \A page \in Nat : page % HalfPages \in Nat
  BY Sizes, SMT
<1>3. window * HalfPages \in Nat
  BY Sizes, SMT DEF Windows
<1>4. QED
  BY <1>1, <1>2, <1>3 DEF PageOf

LEMMA OffsetType ==
  ASSUME NEW adr \in Addrs
  PROVE  adr % PageWords \in Offsets
<1>1. adr \in Int /\ PageWords \in Nat \ {0}
  BY Sizes
<1>2. QED
  BY <1>1, DivMod DEF Offsets

LEMMA PlaceType ==
  ASSUME NEW e \in Report
  PROVE  Place(e) \in Places
<1>1. e.adr \in Addrs /\ e.good \in Offsets /\ e.window \in Windows /\ e.adr \in Nat
  BY Sizes DEF Report
<1>2. PageOf(e.adr, e.window) \in Nat /\ e.adr % PageWords \in Offsets
  BY <1>1, PageOfType, OffsetType
<1>3. QED
  BY <1>1, <1>2 DEF Place, Places

(* Every step is a report, the rest of one, a change of mode or a restart.    *)
LEMMA NextCases ==
  ASSUME Next, eccCount \in Nat
  PROVE  \/ \E e \in Report : CommonErr(e) /\ eccCount' \in Nat
         \/ Reported
         \/ \E mode \in Modes : SetPrintMode(mode)
         \/ Restart
<1>1. ASSUME NEW d \in DataErrors, Data(d)
      PROVE  \E e \in Report : CommonErr(e) /\ eccCount' \in Nat
  <2> DEFINE e == [type |-> 0, adr |-> d.adr, good |-> 0, corrected |-> FALSE,
                   bits |-> d.bits, xor |-> d.bits, test |-> d.test,
                   window |-> d.window]
  <2>1. d \in DataError
    BY LogAssumption
  <2>2. 0 \in Offsets
    BY Sizes DEF Offsets
  <2>3. e \in Report
    BY <2>1, <2>2 DEF DataError, Report
  <2>4. CommonErr(e) /\ eccCount' = eccCount
    BY <1>1 DEF Data
  <2>5. QED
    BY <2>3, <2>4
<1>2. ASSUME NEW d \in AddrErrors, NEW b \in Bits, Address(d, {b})
      PROVE  \E e \in Report : CommonErr(e) /\ eccCount' \in Nat
  <2> DEFINE e == [type |-> 1, adr |-> d.adr, good |-> 0, corrected |-> FALSE,
                   bits |-> d.bits, xor |-> {b}, test |-> d.test,
                   window |-> d.window]
  <2>1. d \in DataError
    BY LogAssumption
  <2>2. 0 \in Offsets
    BY Sizes DEF Offsets
  <2>3. e \in Report
    BY <2>1, <2>2 DEF DataError, Report
  <2>4. CommonErr(e) /\ eccCount' = eccCount
    BY <1>2 DEF Address
  <2>5. QED
    BY <2>3, <2>4
<1>3. ASSUME NEW d \in EccErrors, Ecc(d)
      PROVE  \E e \in Report : CommonErr(e) /\ eccCount' \in Nat
  <2> DEFINE bits == SymDiff(OffsetBits[d.offset], Flag(d.corrected))
             e == [type |-> 2, adr |-> d.page, good |-> d.offset,
                   corrected |-> d.corrected, bits |-> bits,
                   xor |-> {}, test |-> d.test, window |-> 1]
  <2>1. d \in EccError
    BY LogAssumption
  <2>2. OffsetBits[d.offset] \subseteq Bits /\ Flag(d.corrected) \subseteq Bits
    BY <2>1, LogAssumption DEF EccError, Flag
  <2>3. bits \in SUBSET Bits
    BY <2>2 DEF SymDiff
  <2>4. e \in Report
    BY <2>1, <2>3 DEF EccError, Report, Windows
  <2>5. CommonErr(e) /\ eccCount' = eccCount + 1
    BY <1>3 DEF Ecc
  <2>6. QED
    BY <2>4, <2>5
<1>4. ASSUME NEW d \in ParityErrors, Parity(d)
      PROVE  \E e \in Report : CommonErr(e) /\ eccCount' \in Nat
  <2> DEFINE addr == IF d.test = 5 THEN d.esi ELSE d.edi
             e == [type |-> 3, adr |-> addr, good |-> addr % PageWords,
                   corrected |-> FALSE, bits |-> OffsetBits[addr % PageWords],
                   xor |-> {}, test |-> d.test, window |-> d.window]
  <2>1. d \in ParityError
    BY LogAssumption
  <2>2. addr \in Addrs
    BY <2>1 DEF ParityError
  <2>3. addr % PageWords \in Offsets
    BY <2>2, OffsetType
  <2>4. OffsetBits[addr % PageWords] \in SUBSET Bits
    BY <2>3, LogAssumption
  <2>5. e \in Report
    BY <2>1, <2>2, <2>3, <2>4 DEF ParityError, Report
  <2>6. CommonErr(e) /\ eccCount' = eccCount
    BY <1>4 DEF Parity
  <2>7. QED
    BY <2>5, <2>6
<1>5. QED
  BY <1>1, <1>2, <1>3, <1>4 DEF Next

-----------------------------------------------------------------------------
(* The runs: update_err_ranges() keeps what NothingInvented and              *)
(* NothingForgotten say of them.                                             *)

RunsOK == ranges \in Seq(Run) /\ Len(ranges) <= RangeSize
Runs == 1 .. Len(ranges)
AllMembers == UNION {Members(ranges[i]) : i \in Runs}

LEMMA RunsStep ==
  ASSUME RunsOK, NothingInvented, NothingForgotten,
         NEW e \in Report, UpdateErrRanges(e), Record(e)
  PROVE  RunsOK' /\ NothingInvented' /\ NothingForgotten'
<1> DEFINE takers == {i \in Runs : Takes(ranges[i], e.adr)}
<1>1. \A i \in Runs : ranges[i] \in Run /\ RunEnds(ranges[i]) /\ Members(ranges[i]) \subseteq reported
  BY DEF RunsOK, Runs, NothingInvented, RunEnds
<1>2. reported \ overflow \subseteq AllMembers
  BY DEF NothingForgotten, AllMembers, Runs
<1>3. reported' = reported \cup {e.adr}
  BY DEF Record
<1>4. /\ NothingInvented' <=>
           \A i \in Runs' : Members(ranges'[i]) \subseteq reported' /\ RunEnds(ranges'[i])
      /\ NothingForgotten' <=>
           reported' \ overflow' \subseteq UNION {Members(ranges'[i]) : i \in Runs'}
  BY DEF NothingInvented, NothingForgotten, Runs, RunEnds, Members
<1>5. Len(ranges) \in Nat /\ Runs \subseteq Nat
  BY DEF RunsOK, Runs
<1>6. CASE NoRoom
  <2>1. ranges' = ranges /\ overflow' = overflow \cup {e.adr}
    BY <1>6 DEF UpdateErrRanges, Record
  <2>2. RunsOK'
    BY <2>1 DEF RunsOK
  <2>3. QED
    BY <1>1, <1>2, <1>3, <1>4, <2>1, <2>2 DEF Runs, AllMembers
<1>7. CASE ~NoRoom /\ takers # {}
  <2> DEFINE m == Min(takers)
  <2>1. ranges' = [ranges EXCEPT ![m] = Extend(ranges[m], e)] /\ overflow' = overflow
    BY <1>7 DEF UpdateErrRanges, Record, Runs
  <2>2. m \in takers
    BY <1>5, <1>7, LeastIndex
  <2> HIDE DEF m
  <2>3. m \in Runs /\ Takes(ranges[m], e.adr)
    BY <2>2
  <2>4. /\ Extend(ranges[m], e) \in Run
        /\ Members(Extend(ranges[m], e)) = Members(ranges[m]) \cup {e.adr}
        /\ RunEnds(Extend(ranges[m], e))
    BY <1>1, <2>3, ExtendRight
  <2>5. ranges' \in Seq(Run) /\ Len(ranges') = Len(ranges)
    BY <2>1, <2>3, <2>4 DEF RunsOK, Runs
  <2>6. RunsOK' /\ Runs' = Runs
    BY <2>5 DEF RunsOK, Runs
  <2>7. \A i \in Runs : ranges'[i] = IF i = m THEN Extend(ranges[m], e) ELSE ranges[i]
    BY <2>1 DEF RunsOK, Runs
  <2>8. NothingInvented'
    BY <1>1, <1>3, <1>4, <2>4, <2>6, <2>7
  <2>9. AllMembers \cup {e.adr} \subseteq UNION {Members(ranges'[i]) : i \in Runs'}
    BY <2>3, <2>4, <2>6, <2>7 DEF AllMembers
  <2>10. NothingForgotten'
    BY <1>2, <1>3, <1>4, <2>1, <2>9
  <2>11. QED
    BY <2>6, <2>8, <2>10
<1>8. CASE ~NoRoom /\ takers = {} /\ Known(e.adr)
  <2>1. ranges' = ranges /\ overflow' = overflow
    BY <1>8 DEF UpdateErrRanges, Record, Runs
  <2>2. RunsOK' /\ Runs' = Runs
    BY <2>1 DEF RunsOK, Runs
  <2>3. PICK i \in Runs : ranges[i].low = e.adr
    BY <1>8 DEF Known, Runs
  <2>4. e.adr \in Members(ranges[i])
    BY <1>1, <2>3, LowIsMember
  <2>5. e.adr \in AllMembers
    BY <2>4 DEF AllMembers
  <2>6. QED
    BY <1>1, <1>2, <1>3, <1>4, <2>1, <2>2, <2>5 DEF AllMembers
<1>9. CASE ~NoRoom /\ takers = {} /\ ~Known(e.adr)
  <2>1. ranges' = Append(ranges, NewRun(e)) /\ overflow' = overflow
    BY <1>9 DEF UpdateErrRanges, Record, Runs
  <2>2. NewRun(e) \in Run /\ Members(NewRun(e)) = {e.adr} /\ RunEnds(NewRun(e))
    BY NewRunRight DEF RunEnds
  <2>3. ranges' \in Seq(Run) /\ Len(ranges') = Len(ranges) + 1
    BY <2>1, <2>2 DEF RunsOK
  <2>4. Len(ranges) < RangeSize
    BY <1>5, <1>9, Sizes DEF NoRoom
  <2>5. RunsOK'
    BY <1>5, <2>3, <2>4, Sizes DEF RunsOK
  <2>6. Runs' = Runs \cup {Len(ranges) + 1}
    BY <1>5, <2>3 DEF Runs
  <2>7. /\ \A i \in Runs : ranges'[i] = ranges[i]
        /\ ranges'[Len(ranges) + 1] = NewRun(e)
    BY <2>1 DEF RunsOK, Runs
  <2>8. NothingInvented'
    BY <1>1, <1>3, <1>4, <2>2, <2>6, <2>7
  <2>9. AllMembers \cup {e.adr} \subseteq UNION {Members(ranges'[i]) : i \in Runs'}
    BY <2>2, <2>6, <2>7 DEF AllMembers
  <2>10. NothingForgotten'
    BY <1>2, <1>3, <1>4, <2>1, <2>9
  <2>11. QED
    BY <2>5, <2>8, <2>10
<1>10. QED
  BY <1>6, <1>7, <1>8, <1>9

-----------------------------------------------------------------------------
(* The summary. *)

SummaryOK ==
  /\ summarised \subseteq Places
  /\ lowAddr \in Places /\ highAddr \in Places
  /\ ebits \subseteq Bits /\ tbits \in Nat /\ corErr \in Nat /\ maxl \in 0 .. 2
  /\ minBits \in 0 .. Cardinality(Bits) /\ maxBits \in 0 .. Cardinality(Bits)

LEMMA BeforeOrder ==
  ASSUME NEW x \in Places, NEW y \in Places, NEW z \in Places
  PROVE  ~Before(x, x) /\ (Before(x, y) /\ ~Before(z, y) => ~Before(z, x))
<1>1. /\ x.page \in Nat /\ y.page \in Nat /\ z.page \in Nat
      /\ x.offset \in Nat /\ y.offset \in Nat /\ z.offset \in Nat
  BY Sizes DEF Places, Offsets
<1>2. QED
  BY <1>1 DEF Before

LEMMA SummaryStep ==
  ASSUME SummaryOK, LowestIsLowest, eadr \in Addrs, NEW e \in Report, Summarise(e)
  PROVE  SummaryOK' /\ LowestIsLowest' /\ eadr' \in Addrs
<1> DEFINE p == Place(e)
           n == Cardinality(WrongBits(e))
<1>1. p \in Places /\ e.adr \in Addrs /\ e.bits \subseteq Bits /\ e.xor \subseteq Bits
  BY PlaceType DEF Report
<1>2. n \in 0 .. Cardinality(Bits) /\ WrongBits(e) \subseteq Bits
  <2>1. WrongBits(e) \in SUBSET Bits
    BY <1>1 DEF WrongBits
  <2>2. /\ IsFiniteSet(WrongBits(e)) /\ n <= Cardinality(Bits)
    BY <2>1, Sizes, FS_Subset
  <2>3. n \in Nat
    BY <2>2, FS_CardinalityType
  <2>4. QED
    BY <2>1, <2>2, <2>3, Sizes
<1>3. /\ lowAddr' = NewLow(p) /\ highAddr' = NewHigh(p)
      /\ tbits' = tbits + n /\ ebits' = ebits \cup WrongBits(e)
      /\ maxBits' = Max({maxBits, n}) /\ minBits' = Min({minBits, n})
      /\ eadr' = e.adr /\ summarised' = summarised \cup {p}
  BY DEF Summarise
<1>4. lowAddr' \in Places /\ summarised' \subseteq Places
  BY <1>1, <1>3 DEF NewLow, SummaryOK
<1>5. highAddr' \in Places
  <2>1. HighPage(p) \in Places
    BY <1>1 DEF HighPage, SummaryOK, Places
  <2>2. QED
    BY <1>1, <1>3, <2>1 DEF NewHigh
<1>6. corErr' \in Nat
  BY DEF Summarise, SummaryOK
<1>7. maxl' \in 0 .. 2
  <2>1. PICK length \in {1, 2} : maxl' = Max({maxl, length})
    BY DEF Summarise
  <2>2. maxl' \in {maxl, length}
    BY <2>1, MinMaxOfTwo DEF SummaryOK
  <2>3. QED
    BY <2>1, <2>2 DEF SummaryOK
<1>8. minBits' \in 0 .. Cardinality(Bits) /\ maxBits' \in 0 .. Cardinality(Bits)
  <2>1. minBits' \in {minBits, n} /\ maxBits' \in {maxBits, n}
    BY <1>2, <1>3, MinMaxOfTwo DEF SummaryOK
  <2>2. QED
    BY <1>2, <2>1 DEF SummaryOK
<1>9. ebits' \subseteq Bits /\ tbits' \in Nat
  BY <1>2, <1>3 DEF SummaryOK
<1>10. SummaryOK'
  BY <1>4, <1>5, <1>6, <1>7, <1>8, <1>9 DEF SummaryOK
<1>11. LowestIsLowest'
  <2>1. CASE Before(p, lowAddr)
    <3>1. lowAddr' = p
      BY <1>3, <2>1 DEF NewLow
    <3>2. \A q \in summarised : ~Before(q, p)
      BY <1>1, <2>1, BeforeOrder DEF LowestIsLowest, SummaryOK
    <3>3. QED
      BY <1>1, <1>3, <3>1, <3>2, BeforeOrder DEF LowestIsLowest, Before
  <2>2. CASE ~Before(p, lowAddr)
    <3>1. lowAddr' = lowAddr
      BY <1>3, <2>2 DEF NewLow
    <3>2. QED
      BY <1>3, <2>2, <3>1 DEF LowestIsLowest, Before
  <2>3. QED
    BY <2>1, <2>2
<1>12. QED
  BY <1>1, <1>3, <1>10, <1>11

-----------------------------------------------------------------------------
(* The inductive invariant. *)

IInv ==
  /\ TypeOK /\ RunsOK /\ SummaryOK
  /\ NothingInvented /\ NothingForgotten /\ LowestIsLowest

LEMMA InitIInv == Init => IInv
<1> SUFFICES ASSUME Init PROVE IInv
  OBVIOUS
<1>1. /\ Word * Word \in Nat /\ PageWords - 1 \in Offsets /\ 0 \in Offsets /\ 0 \in Addrs
  BY Sizes, SMT DEF Offsets
<1>2. Nowhere \in Places /\ [page |-> 0, offset |-> 0] \in Places
  BY <1>1 DEF Nowhere, Places
<1>3. 0 \in 0 .. Cardinality(Bits) /\ Cardinality(Bits) \in 0 .. Cardinality(Bits)
  BY Sizes
<1>4. NoPending \in Report
  BY <1>1 DEF NoPending, Report, Windows
<1>5. ranges = <<>> /\ Len(ranges) = 0 /\ 1 .. Len(ranges) = {}
  BY DEF Init
<1>6. RunsOK /\ NothingInvented /\ NothingForgotten
  BY <1>5, Sizes DEF Init, RunsOK, NothingInvented, NothingForgotten
<1>7. SummaryOK /\ LowestIsLowest
  BY <1>2, <1>3 DEF Init, SummaryOK, LowestIsLowest
<1>8. TypeOK
  BY <1>1, <1>2, <1>3, <1>4, <1>6 DEF Init, TypeOK, PrintModes, Places, RunsOK
<1>9. QED
  BY <1>6, <1>7, <1>8 DEF IInv

(* What common_err() does in any mode *)
LEMMA ReportStep ==
  ASSUME IInv, NEW e \in Report, CommonErr(e), eccCount' \in Nat
  PROVE  IInv'
<1>1. /\ UpdateErrCounts(e) /\ UpdateErrRanges(e) /\ AddDmiErr(e.adr) /\ Record(e)
      /\ printmode' = printmode
  BY DEF CommonErr, Enter
<1>2. RunsOK' /\ NothingInvented' /\ NothingForgotten'
  BY <1>1, RunsStep DEF IInv
<1>3. ecount' \in Nat /\ errors' \in [0 .. 9 -> Nat]
  <2>1. ecount \in Nat /\ errors \in [0 .. 9 -> Nat]
    BY DEF IInv, TypeOK
  <2>2. e.test \in 0 .. 9
    BY DEF Report
  <2>3. PICK n \in Nat : n = errors[e.test] + 1
    BY <2>1, <2>2
  <2>4. ecount' = ecount + 1 /\ errors' = [errors EXCEPT ![e.test] = n]
    BY <1>1, <2>3 DEF UpdateErrCounts
  <2>5. ecount' \in Nat
    BY <2>1, <2>4
  <2>6. errors' \in [0 .. 9 -> Nat]
    BY <2>1, <2>4, Zenon
  <2>7. QED
    BY <2>5, <2>6
<1>4. dmiErr' \in [Devs -> {0, 1}]
  BY <1>1 DEF AddDmiErr, IInv, TypeOK
<1>5. /\ SummaryOK' /\ LowestIsLowest' /\ eadr' \in Addrs /\ exor' \subseteq Bits
      /\ pc' \in {"ready", "reporting"} /\ pending' \in Report /\ patnFaults' \subseteq Addrs
  <2>1. CASE Summarise(e)
    <3>1. SummaryOK' /\ LowestIsLowest' /\ eadr' \in Addrs
      BY <2>1, SummaryStep DEF IInv, TypeOK
    <3>2. QED
      BY <2>1, <3>1 DEF Summarise, IInv, TypeOK
  <2>2. CASE Individual(e)
    BY <2>2 DEF Individual, IInv, TypeOK, SummaryOK, LowestIsLowest, erri, lastErr
  <2>3. CASE Patterns(e)
    BY <2>3 DEF Patterns, IInv, TypeOK, SummaryOK, LowestIsLowest, erri, lastErr, Report
  <2>4. CASE NothingMore(e)
    BY <2>4 DEF NothingMore, IInv, TypeOK, SummaryOK, LowestIsLowest, erri, lastErr
  <2>5. QED
    BY <2>1, <2>2, <2>3, <2>4 DEF CommonErr
<1>6. printmode' \in PrintModes
  BY <1>1 DEF IInv, TypeOK
<1>7. TypeOK'
  BY <1>2, <1>3, <1>4, <1>5, <1>6 DEF TypeOK, RunsOK, SummaryOK, Places
<1>8. QED
  BY <1>2, <1>5, <1>7 DEF IInv

(* The runs outlive everything, a restart included. *)
LEMMA RunsStay ==
  ASSUME RunsOK, NothingInvented, NothingForgotten,
         UNCHANGED <<ranges, reported, overflow>>
  PROVE  RunsOK' /\ NothingInvented' /\ NothingForgotten'
BY DEF RunsOK, NothingInvented, NothingForgotten, Members

LEMMA RestartStep ==
  ASSUME IInv, Restart
  PROVE  IInv'
<1>1. /\ Word * Word \in Nat /\ PageWords - 1 \in Offsets /\ 0 \in Offsets /\ 0 \in Addrs
  BY Sizes, SMT DEF Offsets
<1>2. Nowhere \in Places /\ [page |-> 0, offset |-> 0] \in Places
  BY <1>1 DEF Nowhere, Places
<1>3. 0 \in 0 .. Cardinality(Bits) /\ Cardinality(Bits) \in 0 .. Cardinality(Bits)
  BY Sizes
<1>4. NoPending \in Report
  BY <1>1 DEF NoPending, Report, Windows
<1>5. RunsOK' /\ NothingInvented' /\ NothingForgotten'
  BY RunsStay DEF Restart, IInv
<1>6. SummaryOK' /\ LowestIsLowest'
  BY <1>2, <1>3 DEF Restart, SummaryOK, LowestIsLowest
<1>7. TypeOK'
  BY <1>2, <1>3, <1>4, <1>5 DEF Restart, TypeOK, PrintModes, Places, RunsOK, IInv, lastErr
<1>8. QED
  BY <1>5, <1>6, <1>7 DEF IInv

LEMMA NextIInv ==
  ASSUME IInv, [Next]_vars
  PROVE  IInv'
<1>1. CASE Next
  <2>1. eccCount \in Nat
    BY DEF IInv, TypeOK
  <2>2. ASSUME NEW e \in Report, CommonErr(e), eccCount' \in Nat
        PROVE  IInv'
    BY <2>2, ReportStep
  <2>3. CASE Reported
    <3>1. RunsOK' /\ NothingInvented' /\ NothingForgotten'
      BY <2>3, RunsStay DEF Reported, IInv, history
    <3>2. SummaryOK' /\ LowestIsLowest'
      BY <2>3 DEF Reported, IInv, SummaryOK, LowestIsLowest, erri, history
    <3>3. pending.adr \in Addrs /\ pending.xor \subseteq Bits
      BY DEF IInv, TypeOK, Report
    <3>4. TypeOK'
      BY <2>3, <3>1, <3>3 DEF Reported, IInv, TypeOK, erri, history, RunsOK
    <3>5. QED
      BY <3>1, <3>2, <3>4 DEF IInv
  <2>4. ASSUME NEW mode \in Modes, SetPrintMode(mode)
        PROVE  IInv'
    <3>1. RunsOK' /\ NothingInvented' /\ NothingForgotten'
      BY <2>4, RunsStay DEF SetPrintMode, IInv, history
    <3>2. SummaryOK' /\ LowestIsLowest'
      BY <2>4 DEF SetPrintMode, IInv, SummaryOK, LowestIsLowest, erri, history
    <3>3. mode \in PrintModes /\ 0 \in Addrs
      BY LogAssumption, Sizes DEF PrintModes
    <3>4. TypeOK'
      BY <2>4, <3>1, <3>3 DEF SetPrintMode, IInv, TypeOK, erri, history, RunsOK
    <3>5. QED
      BY <3>1, <3>2, <3>4 DEF IInv
  <2>5. QED
    BY <1>1, <2>1, <2>2, <2>3, <2>4, NextCases, RestartStep
<1>2. CASE UNCHANGED vars
  <2>1. RunsOK' /\ NothingInvented' /\ NothingForgotten'
    BY <1>2, RunsStay DEF IInv, vars, history
  <2>2. SummaryOK' /\ LowestIsLowest'
    BY <1>2 DEF IInv, SummaryOK, LowestIsLowest, vars, erri, history
  <2>3. TypeOK'
    BY <1>2, <2>1 DEF IInv, TypeOK, vars, erri, lastErr, history, RunsOK
  <2>4. QED
    BY <2>1, <2>2, <2>3 DEF IInv
<1>3. QED
  BY <1>1, <1>2

-----------------------------------------------------------------------------
(* Sequences, by induction over their length *)

(* Induction, as a fact about sets *)
LEMMA Inductive ==
  ASSUME NEW S \in SUBSET Nat, 0 \in S, \A n \in S : n + 1 \in S
  PROVE  S = Nat
<1> SUFFICES ASSUME NEW m \in Nat, m \notin S PROVE FALSE
  OBVIOUS
<1> DEFINE T == {i \in S : i < m}
           f == [i \in T |-> i + 1]
<1>1. IsFiniteSet(T)
  <2>1. IsFiniteSet(0 .. m)
    BY FS_Interval
  <2>2. \A i \in T : i \in 0 .. m
    OBVIOUS
  <2>3. T \in SUBSET (0 .. m)
    BY <2>2
  <2> QED
    BY <2>1, <2>3, FS_Subset
<1>2. IsFiniteSet(T \ {0}) /\ Cardinality(T \ {0}) < Cardinality(T)
  <2>1. 0 \in T
    OBVIOUS
  <2> HIDE DEF T
  <2>2. Cardinality(T) \in Nat
    BY <1>1, FS_CardinalityType
  <2>3. /\ IsFiniteSet(T \ {0})
        /\ Cardinality(T \ {0}) = IF 0 \in T THEN Cardinality(T) - 1 ELSE Cardinality(T)
    BY <1>1, FS_RemoveElement
  <2> QED
    BY <2>1, <2>2, <2>3
<1>3. f \in [T -> T \ {0}]
  <2>1. \A i \in T : i + 1 \in T \ {0}
    OBVIOUS
  <2> QED
    BY <2>1
<1>4. \A x, y \in T : x # y => f[x] # f[y]
  OBVIOUS
<1> HIDE DEF T, f
<1> QED
  BY <1>1, <1>2, <1>3, <1>4, FS_PigeonHole

(* Sums over finite sets *)

(* The member that is added last *)
Picked(s) == CHOOSE x \in s : TRUE

(* g has the sums of f over the subsets of D, as MapThenSumSet() makes them. *)
IsSum(g, f, D) ==
  g = [s \in SUBSET D |-> IF s = {} THEN 0 ELSE f[Picked(s)] + g[s \ {Picked(s)}]]

LEMMA Removed ==
  ASSUME NEW D, IsFiniteSet(D), NEW s \in SUBSET D, NEW x \in s
  PROVE  /\ IsFiniteSet(s) /\ Cardinality(s) \in Nat /\ Cardinality(s) # 0
         /\ IsFiniteSet(s \ {x}) /\ Cardinality(s \ {x}) = Cardinality(s) - 1
         /\ s \ {x} \in SUBSET D
<1>1. IsFiniteSet(s)
  BY FS_Subset
<1>2. Cardinality(s) \in Nat /\ (Cardinality(s) = 0 <=> s = {})
  BY <1>1, FS_CardinalityType, FS_EmptySet
<1>3. IsFiniteSet(s \ {x}) /\ Cardinality(s \ {x}) = Cardinality(s) - 1
  BY <1>1, FS_RemoveElement
<1> QED
  BY <1>1, <1>2, <1>3

(* There are such sums: by induction over the size of the subset. *)
LEMMA SumExists ==
  ASSUME NEW D, IsFiniteSet(D), NEW f \in [D -> Int]
  PROVE  \E g \in [SUBSET D -> Int] : IsSum(g, f, D)
<1> DEFINE Small(n) == {s \in SUBSET D : Cardinality(s) <= n}
           Value(g, s) == IF s = {} THEN 0 ELSE f[Picked(s)] + g[s \ {Picked(s)}]
           Some(n) == \E g \in [Small(n) -> Int] : \A s \in Small(n) : g[s] = Value(g, s)
           S == {n \in Nat : Some(n)}
<1>1. \A s \in SUBSET D : IsFiniteSet(s) /\ Cardinality(s) \in Nat /\ (Cardinality(s) = 0 <=> s = {})
  BY FS_Subset, FS_CardinalityType, FS_EmptySet
<1>2. \A s \in SUBSET D : s # {} => /\ Picked(s) \in s /\ f[Picked(s)] \in Int
                                    /\ s \ {Picked(s)} \in SUBSET D
                                    /\ Cardinality(s \ {Picked(s)}) = Cardinality(s) - 1
  <2> SUFFICES ASSUME NEW s \in SUBSET D, s # {}
               PROVE  /\ Picked(s) \in s /\ f[Picked(s)] \in Int
                      /\ s \ {Picked(s)} \in SUBSET D
                      /\ Cardinality(s \ {Picked(s)}) = Cardinality(s) - 1
    OBVIOUS
  <2>1. Picked(s) \in s
    BY DEF Picked
  <2> QED
    BY <2>1, Removed
<1>3. 0 \in S
  <2> DEFINE g == [s \in Small(0) |-> 0]
  <2>1. \A s \in Small(0) : s = {}
    BY <1>1
  <2>2. g \in [Small(0) -> Int] /\ \A s \in Small(0) : g[s] = Value(g, s)
    BY <2>1
  <2> QED
    BY <2>2
<1>4. ASSUME NEW n \in S
      PROVE  n + 1 \in S
  <2>1. PICK h \in [Small(n) -> Int] : \A s \in Small(n) : h[s] = Value(h, s)
    OBVIOUS
  <2> DEFINE g == [s \in Small(n + 1) |-> Value(h, s)]
  <2>2. ASSUME NEW s \in Small(n + 1)
        PROVE  Value(h, s) \in Int
    <3>1. CASE s = {}
      BY <3>1
    <3>2. CASE s # {}
      <4>1. s \ {Picked(s)} \in Small(n)
        BY <1>1, <1>2, <3>2
      <4> QED
        BY <1>2, <3>2, <4>1
    <3> QED
      BY <3>1, <3>2
  <2>3. ASSUME NEW s \in Small(n)
        PROVE  s \in Small(n + 1) /\ g[s] = h[s]
    BY <2>1, <1>1
  <2>4. ASSUME NEW s \in Small(n + 1)
        PROVE  g[s] = Value(g, s)
    <3>1. CASE s = {}
      BY <3>1
    <3>2. CASE s # {}
      <4>1. s \ {Picked(s)} \in Small(n)
        BY <1>1, <1>2, <3>2
      <4>2. g[s \ {Picked(s)}] = h[s \ {Picked(s)}]
        BY <2>3, <4>1
      <4> QED
        BY <3>2, <4>2
    <3> QED
      BY <3>1, <3>2
  <2>5. g \in [Small(n + 1) -> Int]
    BY <2>2
  <2>6. Some(n + 1)
    <3> HIDE DEF g
    <3> QED
      BY <2>4, <2>5
  <2>7. n + 1 \in Nat
    OBVIOUS
  <2> HIDE DEF Some
  <2> QED
    BY <2>6, <2>7
<1>5. Some(Cardinality(D))
  <2> HIDE DEF Some
  <2>1. S = Nat
    BY <1>3, <1>4, Inductive
  <2> QED
    BY <2>1, FS_CardinalityType
<1>6. Small(Cardinality(D)) = SUBSET D
  BY FS_Subset
<1> HIDE DEF Small
<1> QED
  BY <1>5, <1>6 DEF IsSum

(* Sums of integers are integers. *)
LEMMA SumTyped ==
  ASSUME NEW D, IsFiniteSet(D), NEW f \in [D -> Int], NEW g, IsSum(g, f, D)
  PROVE  g \in [SUBSET D -> Int]
<1> DEFINE S == {n \in Nat : \A s \in SUBSET D : Cardinality(s) = n => g[s] \in Int}
<1>1. \A s \in SUBSET D : Cardinality(s) \in Nat /\ (Cardinality(s) = 0 <=> s = {})
  BY FS_Subset, FS_CardinalityType, FS_EmptySet
<1>2. 0 \in S
  BY <1>1 DEF IsSum
<1>3. ASSUME NEW n \in S, NEW s \in SUBSET D, Cardinality(s) = n + 1
      PROVE  g[s] \in Int
  <2> DEFINE p == Picked(s)
  <2>1. s # {}
    BY <1>1, <1>3
  <2>2. p \in s
    BY <2>1 DEF Picked
  <2>3. g[s] = f[p] + g[s \ {p}]
    BY <2>1 DEF IsSum
  <2> HIDE DEF p
  <2>4. s \ {p} \in SUBSET D /\ Cardinality(s \ {p}) = n
    <3>1. n \in Nat
      OBVIOUS
    <3>2. Cardinality(s \ {p}) = Cardinality(s) - 1
      BY <2>2, Removed
    <3> HIDE DEF S
    <3> QED
      BY <1>3, <3>1, <3>2
  <2> QED
    BY <2>2, <2>3, <2>4
<1>4. S = Nat
  <2>1. ASSUME NEW n \in S
        PROVE  n + 1 \in S
    BY <1>3
  <2> HIDE DEF S
  <2>2. S \in SUBSET Nat
    BY DEF S
  <2> QED
    BY <1>2, <2>1, <2>2, Inductive
<1>5. \A s \in SUBSET D : g[s] \in Int
  BY <1>1, <1>4
<1>6. g = [s \in SUBSET D |-> g[s]]
  BY DEF IsSum
<1> QED
  BY <1>5, <1>6

(* ... with their types *)
SumOf(g, f, D) ==
  IsFiniteSet(D) /\ f \in [D -> Int] /\ g \in [SUBSET D -> Int] /\ IsSum(g, f, D)

(* A sum does not depend on which member is added last. *)
LEMMA SumSplits ==
  ASSUME NEW D, NEW f, NEW g, SumOf(g, f, D)
  PROVE  \A s \in SUBSET D : \A x \in s : g[s] = f[x] + g[s \ {x}]
<1>0. IsFiniteSet(D) /\ f \in [D -> Int] /\ g \in [SUBSET D -> Int] /\ IsSum(g, f, D)
  BY DEF SumOf
<1> DEFINE Splits(s) == \A x \in s : g[s] = f[x] + g[s \ {x}]
           S == {n \in Nat : \A s \in SUBSET D : Cardinality(s) = n => Splits(s)}
<1>1. \A s \in SUBSET D : IsFiniteSet(s) /\ Cardinality(s) \in Nat /\ (Cardinality(s) = 0 <=> s = {})
  BY <1>0, FS_Subset, FS_CardinalityType, FS_EmptySet
<1>2. 0 \in S
  BY <1>1
<1>3. ASSUME NEW n \in S, NEW s \in SUBSET D, Cardinality(s) = n + 1, NEW x \in s
      PROVE  g[s] = f[x] + g[s \ {x}]
  <2> DEFINE p == Picked(s)
  <2>1. p \in s
    BY DEF Picked
  <2>2. g[s] = f[p] + g[s \ {p}]
    BY <1>0, <2>1 DEF IsSum
  <2> HIDE DEF p
  <2>3. CASE x = p
    BY <2>2, <2>3
  <2>4. CASE x # p
    <3>1. /\ s \ {p} \in SUBSET D /\ Cardinality(s \ {p}) = n
          /\ s \ {x} \in SUBSET D /\ Cardinality(s \ {x}) = n
      BY <1>0, <1>3, <2>1, Removed
    <3>2. x \in s \ {p} /\ p \in s \ {x}
      BY <2>1, <2>4
    <3>3. g[s \ {p}] = f[x] + g[(s \ {p}) \ {x}] /\ g[s \ {x}] = f[p] + g[(s \ {x}) \ {p}]
      BY <3>1, <3>2
    <3>4. (s \ {p}) \ {x} = (s \ {x}) \ {p}
      OBVIOUS
    <3>5. PICK rest \in Int : g[s \ {p}] = f[x] + rest /\ g[s \ {x}] = f[p] + rest
      BY <1>0, <3>3, <3>4
    <3>6. f[p] \in Int /\ f[x] \in Int
      BY <1>0, <2>1
    <3> QED
      BY <2>2, <3>5, <3>6
  <2> QED
    BY <2>3, <2>4
<1>4. S = Nat
  <2>1. ASSUME NEW n \in S
        PROVE  n + 1 \in S
    BY <1>3
  <2> HIDE DEF S
  <2>2. S \in SUBSET Nat
    BY DEF S
  <2> QED
    BY <1>2, <2>1, <2>2, Inductive
<1> QED
  BY <1>1, <1>4

(* Functions that agree have the same sums. *)
LEMMA SumsAgree ==
  ASSUME NEW D, NEW f, NEW g, SumOf(g, f, D), NEW E, NEW k, NEW h, SumOf(h, k, E)
  PROVE  \A s \in SUBSET (D \cap E) : (\A x \in s : f[x] = k[x]) => g[s] = h[s]
<1>0. /\ IsFiniteSet(D) /\ f \in [D -> Int] /\ g \in [SUBSET D -> Int] /\ IsSum(g, f, D)
      /\ IsFiniteSet(E) /\ k \in [E -> Int] /\ h \in [SUBSET E -> Int] /\ IsSum(h, k, E)
  BY DEF SumOf
<1> DEFINE Same(s) == (\A x \in s : f[x] = k[x]) => g[s] = h[s]
           S == {n \in Nat : \A s \in SUBSET (D \cap E) : Cardinality(s) = n => Same(s)}
<1>1. \A s \in SUBSET (D \cap E) : Cardinality(s) \in Nat /\ (Cardinality(s) = 0 <=> s = {})
  BY <1>0, FS_Subset, FS_CardinalityType, FS_EmptySet
<1>2. 0 \in S
  <2>1. g[{}] = 0 /\ h[{}] = 0
    BY <1>0 DEF IsSum
  <2> QED
    BY <1>1, <2>1
<1>3. ASSUME NEW n \in S, NEW s \in SUBSET (D \cap E), Cardinality(s) = n + 1,
             \A x \in s : f[x] = k[x]
      PROVE  g[s] = h[s]
  <2> DEFINE p == Picked(s)
  <2>1. s # {}
    BY <1>1, <1>3
  <2>2. p \in s
    BY <2>1 DEF Picked
  <2>3. g[s] = f[p] + g[s \ {p}] /\ h[s] = k[p] + h[s \ {p}]
    BY <1>0, <2>1 DEF IsSum
  <2> HIDE DEF p
  <2>4. s \in SUBSET D /\ s \ {p} \in SUBSET (D \cap E)
    OBVIOUS
  <2>5. Cardinality(s \ {p}) = n
    <3>1. n \in Nat
      OBVIOUS
    <3>2. Cardinality(s \ {p}) = Cardinality(s) - 1
      BY <1>0, <2>2, <2>4, Removed
    <3> HIDE DEF S
    <3> QED
      BY <1>3, <3>1, <3>2
  <2>6. g[s \ {p}] = h[s \ {p}]
    BY <1>3, <2>4, <2>5
  <2> QED
    BY <1>3, <2>2, <2>3, <2>6
<1>4. S = Nat
  <2>1. ASSUME NEW n \in S
        PROVE  n + 1 \in S
    BY <1>3
  <2> HIDE DEF S
  <2>2. S \in SUBSET Nat
    BY DEF S
  <2> QED
    BY <1>2, <2>1, <2>2, Inductive
<1> QED
  BY <1>1, <1>4

(* t is the sum of f over D. *)
IsTotal(t, f, D) == \E g : SumOf(g, f, D) /\ t = g[D]

LEMMA TotalChanged ==
  ASSUME NEW D, NEW f, NEW t, IsTotal(t, f, D),
         NEW m \in D, NEW k, NEW u, IsTotal(u, k, D),
         \A i \in D \ {m} : k[i] = f[i]
  PROVE  u = (t - f[m]) + k[m]
<1>1. PICK g : SumOf(g, f, D) /\ t = g[D]
  BY DEF IsTotal
<1>2. PICK h : SumOf(h, k, D) /\ u = h[D]
  BY DEF IsTotal
<1>3. D \in SUBSET D /\ D \ {m} \in SUBSET (D \cap D) /\ D \ {m} \in SUBSET D
  OBVIOUS
<1>4. t = f[m] + g[D \ {m}] /\ u = k[m] + h[D \ {m}]
  BY <1>1, <1>2, <1>3, SumSplits
<1>5. g[D \ {m}] = h[D \ {m}]
  BY <1>1, <1>2, <1>3, SumsAgree
<1>6. f[m] \in Int /\ k[m] \in Int /\ g[D \ {m}] \in Int
  BY <1>1, <1>2, <1>3 DEF SumOf
<1> QED
  BY <1>4, <1>5, <1>6

LEMMA TotalExtended ==
  ASSUME NEW D, NEW f, NEW t, IsTotal(t, f, D),
         NEW m, m \notin D, NEW k, NEW u, IsTotal(u, k, D \cup {m}),
         \A i \in D : k[i] = f[i]
  PROVE  u = t + k[m]
<1> DEFINE E == D \cup {m}
<1>1. PICK g : SumOf(g, f, D) /\ t = g[D]
  BY DEF IsTotal
<1>2. PICK h : SumOf(h, k, E) /\ u = h[E]
  BY DEF IsTotal
<1>3. /\ E \in SUBSET E /\ m \in E /\ E \ {m} = D /\ D \in SUBSET (D \cap E)
      /\ D \in SUBSET D /\ D \in SUBSET E
  OBVIOUS
<1> HIDE DEF E
<1>6. u = k[m] + h[D]
  BY <1>2, <1>3, SumSplits
<1>7. g[D] = h[D]
  BY <1>1, <1>2, <1>3, SumsAgree
<1>8. k[m] \in Int /\ h[D] \in Int
  BY <1>2, <1>3 DEF SumOf
<1> QED
  BY <1>1, <1>6, <1>7, <1>8

LEMMA TotalIsInt ==
  ASSUME NEW D, NEW f, NEW t, IsTotal(t, f, D)
  PROVE  t \in Int
BY DEF IsTotal, SumOf

LEMMA TotalOfNone ==
  ASSUME NEW f, NEW t, IsTotal(t, f, {})
  PROVE  t = 0
BY DEF IsTotal, SumOf, IsSum

(* What the next report adds to a sum over the runs *)
LEMMA TotalStep ==
  ASSUME NEW D, NEW f, NEW t, IsTotal(t, f, D), NEW m,
         NEW E, NEW k, NEW u, IsTotal(u, k, E), NEW d \in Nat,
         \/ E = D /\ m \in D /\ k[m] = f[m] + d
         \/ E = D \cup {m} /\ m \notin D /\ k[m] = d,
         \A i \in D \ {m} : k[i] = f[i]
  PROVE  u = t + d
<1>1. CASE E = D /\ m \in D /\ k[m] = f[m] + d
  <2>1. u = (t - f[m]) + k[m]
    BY <1>1, TotalChanged
  <2>2. t \in Int /\ f[m] \in Int
    BY <1>1 DEF IsTotal, SumOf
  <2> QED
    BY <1>1, <2>1, <2>2
<1>2. CASE E = D \cup {m} /\ m \notin D /\ k[m] = d
  <2>1. D \ {m} = D /\ IsTotal(u, k, D \cup {m})
    BY <1>2
  <2>2. u = t + k[m]
    BY <1>2, <2>1, TotalExtended
  <2> QED
    BY <1>2, <2>2
<1> QED
  BY <1>1, <1>2

-----------------------------------------------------------------------------
(* The counts of the runs *)

Counted(r) == MapThenSumSet(LAMBDA i : r[i].count, 1 .. Len(r))
BitCounted(r, b) == MapThenSumSet(LAMBDA i : r[i].hist[b], 1 .. Len(r))

LEMMA TotalCounted ==
  ASSUME NEW r \in Seq(Run)
  PROVE  IsTotal(Counted(r), [i \in 1 .. Len(r) |-> r[i].count], 1 .. Len(r))
<1> DEFINE D == 1 .. Len(r)
           f == [i \in D |-> r[i].count]
           Sum(g) == g = [s \in SUBSET D |->
                            IF s = {} THEN 0
                            ELSE LET x == CHOOSE y \in s : TRUE IN r[x].count + g[s \ {x}]]
<1>1. f \in [D -> Int]
  <2>1. \A i \in D : r[i] \in Run
    OBVIOUS
  <2>2. \A i \in D : r[i].count \in Int
    BY <2>1 DEF Run
  <2> QED
    BY <2>2
<1>2. IsFiniteSet(D)
  BY FS_Interval
<1>3. PICK g \in [SUBSET D -> Int] : IsSum(g, f, D)
  BY <1>1, <1>2, SumExists
<1>4. \A h : Sum(h) <=> IsSum(h, f, D)
  <2>1. \A s \in SUBSET D : s # {} => Picked(s) \in D /\ f[Picked(s)] = r[Picked(s)].count
    BY DEF Picked
  <2> QED
    BY <2>1 DEF IsSum, Picked
<1>5. Sum(CHOOSE h : Sum(h))
  <2>1. \E h : Sum(h)
    <3> HIDE DEF Sum, f, D
    <3> QED
      BY <1>3, <1>4
  <2> HIDE DEF Sum
  <2> QED
    BY <2>1
<1>6. Counted(r) = (CHOOSE h : Sum(h))[D]
  BY DEF Counted, MapThenSumSet, MapThenFoldSet
<1>7. PICK h : IsSum(h, f, D) /\ Counted(r) = h[D]
  <2> HIDE DEF Sum, f, D
  <2> QED
    BY <1>4, <1>5, <1>6
<1>8. h \in [SUBSET D -> Int]
  BY <1>1, <1>2, <1>7, SumTyped
<1> QED
  BY <1>1, <1>2, <1>7, <1>8 DEF IsTotal, SumOf

LEMMA TotalBitCounted ==
  ASSUME NEW r \in Seq(Run), NEW b \in Bits
  PROVE  IsTotal(BitCounted(r, b), [i \in 1 .. Len(r) |-> r[i].hist[b]], 1 .. Len(r))
<1> DEFINE D == 1 .. Len(r)
           f == [i \in D |-> r[i].hist[b]]
           Sum(g) == g = [s \in SUBSET D |->
                            IF s = {} THEN 0
                            ELSE LET x == CHOOSE y \in s : TRUE IN r[x].hist[b] + g[s \ {x}]]
<1>1. f \in [D -> Int]
  <2>1. \A i \in D : r[i] \in Run
    OBVIOUS
  <2>2. \A i \in D : r[i].hist[b] \in Int
    BY <2>1 DEF Run
  <2> QED
    BY <2>2
<1>2. IsFiniteSet(D)
  BY FS_Interval
<1>3. PICK g \in [SUBSET D -> Int] : IsSum(g, f, D)
  BY <1>1, <1>2, SumExists
<1>4. \A h : Sum(h) <=> IsSum(h, f, D)
  <2>1. \A s \in SUBSET D : s # {} => Picked(s) \in D /\ f[Picked(s)] = r[Picked(s)].hist[b]
    BY DEF Picked
  <2> QED
    BY <2>1 DEF IsSum, Picked
<1>5. Sum(CHOOSE h : Sum(h))
  <2>1. \E h : Sum(h)
    <3> HIDE DEF Sum, f, D
    <3> QED
      BY <1>3, <1>4
  <2> HIDE DEF Sum
  <2> QED
    BY <2>1
<1>6. BitCounted(r, b) = (CHOOSE h : Sum(h))[D]
  BY DEF BitCounted, MapThenSumSet, MapThenFoldSet
<1>7. PICK h : IsSum(h, f, D) /\ BitCounted(r, b) = h[D]
  <2> HIDE DEF Sum, f, D
  <2> QED
    BY <1>4, <1>5, <1>6
<1>8. h \in [SUBSET D -> Int]
  BY <1>1, <1>2, <1>7, SumTyped
<1> QED
  BY <1>1, <1>2, <1>7, <1>8 DEF IsTotal, SumOf

(* What NothingCountedTwice says, with sums that have names *)
CountsOK ==
  /\ reports \in Nat /\ bitReports \in [Bits -> Nat]
  /\ Counted(ranges) <= reports
  /\ \A b \in Bits : BitCounted(ranges, b) <= bitReports[b]

LEMMA CountsSay == CountsOK => NothingCountedTwice
BY DEF CountsOK, NothingCountedTwice, Counted, BitCounted

(* At most one run changes, or there is a new one; it counts one report more. *)
OneMore(m, e) ==
  /\ \/ Runs' = Runs /\ m \in Runs
        /\ ranges'[m].count = ranges[m].count + 1
        /\ ranges'[m].hist = Hist(ranges[m].hist, e.bits)
     \/ Runs' = Runs \cup {m} /\ m \notin Runs
        /\ ranges'[m].count = 1
        /\ ranges'[m].hist = Hist([b \in Bits |-> 0], e.bits)
  /\ \A i \in Runs \ {m} : ranges'[i] = ranges[i]

LEMMA RunsChange ==
  ASSUME RunsOK, NEW e \in Report, UpdateErrRanges(e)
  PROVE  ranges' = ranges \/ \E m : OneMore(m, e)
<1> DEFINE takers == {i \in Runs : Takes(ranges[i], e.adr)}
<1>1. CASE ~NoRoom /\ takers # {}
  <2> DEFINE m == Min(takers)
  <2>1. ranges' = [ranges EXCEPT ![m] = Extend(ranges[m], e)]
    BY <1>1 DEF UpdateErrRanges, Runs
  <2>2. Runs \subseteq Nat
    BY DEF Runs
  <2>3. m \in takers
    BY <1>1, <2>2, LeastIndex
  <2> HIDE DEF m
  <2>4. m \in Runs
    BY <2>3
  <2>5. \A i \in Runs : ranges'[i] = IF i = m THEN Extend(ranges[m], e) ELSE ranges[i]
    BY <2>1 DEF RunsOK, Runs
  <2>6. Runs' = Runs
    BY <2>1 DEF RunsOK, Runs
  <2>7. ranges[m] \in Run
    BY <2>4 DEF RunsOK, Runs
  <2>8. /\ ranges'[m].count = ranges[m].count + 1
        /\ ranges'[m].hist = Hist(ranges[m].hist, e.bits)
    BY <2>4, <2>5, <2>7, ExtendFields
  <2> QED
    BY <2>4, <2>5, <2>6, <2>8 DEF OneMore
<1>2. CASE ~NoRoom /\ takers = {} /\ ~Known(e.adr)
  <2> DEFINE m == Len(ranges) + 1
  <2>1. ranges' = Append(ranges, NewRun(e))
    BY <1>2 DEF UpdateErrRanges, Runs
  <2>2. /\ Len(ranges) \in Nat /\ Len(ranges') = m
        /\ \A i \in Runs : ranges'[i] = ranges[i]
        /\ ranges'[m] = NewRun(e)
    BY <2>1 DEF RunsOK, Runs
  <2>3. Runs' = Runs \cup {m} /\ m \notin Runs
    BY <2>2 DEF Runs
  <2>4. NewRun(e).count = 1 /\ NewRun(e).hist = Hist([b \in Bits |-> 0], e.bits)
    BY DEF NewRun
  <2> HIDE DEF m
  <2> QED
    BY <2>2, <2>3, <2>4 DEF OneMore
<1>3. CASE NoRoom \/ (takers = {} /\ Known(e.adr))
  BY <1>3 DEF UpdateErrRanges, Runs
<1> QED
  BY <1>1, <1>2, <1>3

LEMMA CountsStep ==
  ASSUME RunsOK, RunsOK', CountsOK, NEW e \in Report, UpdateErrRanges(e), Record(e)
  PROVE  CountsOK'
<1>1. /\ ranges \in Seq(Run) /\ ranges' \in Seq(Run)
      /\ reports' = reports + 1 /\ bitReports' = Hist(bitReports, e.bits)
  BY DEF RunsOK, Record
<1>2. reports' \in Nat /\ bitReports' \in [Bits -> Nat]
  BY <1>1, HistType DEF CountsOK
<1>3. /\ reports <= reports'
      /\ \A b \in Bits : bitReports[b] <= bitReports'[b]
  BY <1>1 DEF CountsOK, Hist
<1>4. CASE ranges' = ranges
  <2>1. Counted(ranges') <= reports'
    <3>1. Counted(ranges) \in Int
      BY <1>1, TotalCounted, TotalIsInt
    <3> QED
      BY <1>2, <1>3, <1>4, <3>1 DEF CountsOK
  <2>2. ASSUME NEW b \in Bits
        PROVE  BitCounted(ranges', b) <= bitReports'[b]
    <3>1. BitCounted(ranges, b) \in Int
      BY <1>1, TotalBitCounted, TotalIsInt
    <3> QED
      BY <1>2, <1>3, <1>4, <3>1 DEF CountsOK
  <2> QED
    BY <1>2, <2>1, <2>2 DEF CountsOK
<1>5. ASSUME NEW m, OneMore(m, e)
      PROVE  CountsOK'
  <2>1. Runs = 1 .. Len(ranges) /\ Runs' = 1 .. Len(ranges')
    BY DEF Runs
  <2>2. /\ \A i \in Runs : ranges[i] \in Run
        /\ \A i \in Runs' : ranges'[i] \in Run
    BY <1>1, <2>1
  <2>3. Counted(ranges') = Counted(ranges) + 1
    <3> DEFINE f == [i \in Runs |-> ranges[i].count]
               k == [i \in Runs' |-> ranges'[i].count]
    <3>1. IsTotal(Counted(ranges), f, Runs) /\ IsTotal(Counted(ranges'), k, Runs')
      BY <1>1, <2>1, TotalCounted
    <3>2. /\ \/ Runs' = Runs /\ m \in Runs /\ k[m] = f[m] + 1
             \/ Runs' = Runs \cup {m} /\ m \notin Runs /\ k[m] = 1
          /\ \A i \in Runs \ {m} : k[i] = f[i]
      BY <1>5 DEF OneMore
    <3> HIDE DEF f, k
    <3> QED
      BY <3>1, <3>2, TotalStep
  <2>4. ASSUME NEW b \in Bits
        PROVE  BitCounted(ranges', b) = BitCounted(ranges, b) + (IF b \in e.bits THEN 1 ELSE 0)
    <3> DEFINE f == [i \in Runs |-> ranges[i].hist[b]]
               k == [i \in Runs' |-> ranges'[i].hist[b]]
               d == IF b \in e.bits THEN 1 ELSE 0
    <3>1. IsTotal(BitCounted(ranges, b), f, Runs) /\ IsTotal(BitCounted(ranges', b), k, Runs')
      BY <1>1, <2>1, TotalBitCounted
    <3>2. \A h : Hist(h, e.bits)[b] = h[b] + d
      BY DEF Hist
    <3>3. d \in Nat /\ 0 + d = d
      OBVIOUS
    <3> HIDE DEF d
    <3>4. /\ \/ Runs' = Runs /\ m \in Runs /\ k[m] = f[m] + d
             \/ Runs' = Runs \cup {m} /\ m \notin Runs /\ k[m] = d
          /\ \A i \in Runs \ {m} : k[i] = f[i]
      BY <1>5, <3>2, <3>3 DEF OneMore
    <3> HIDE DEF f, k
    <3>5. BitCounted(ranges', b) = BitCounted(ranges, b) + d
      BY <3>1, <3>3, <3>4, TotalStep
    <3> QED
      BY <3>5 DEF d
  <2>5. Counted(ranges) \in Int /\ \A b \in Bits : BitCounted(ranges, b) \in Int
    BY <1>1, TotalCounted, TotalBitCounted, TotalIsInt
  <2>6. Counted(ranges') <= reports'
    BY <1>1, <2>3, <2>5 DEF CountsOK
  <2>7. ASSUME NEW b \in Bits
        PROVE  BitCounted(ranges', b) <= bitReports'[b]
    BY <1>1, <2>4, <2>5 DEF CountsOK, Hist
  <2> QED
    BY <1>2, <2>6, <2>7 DEF CountsOK
<1> QED
  BY <1>4, <1>5, RunsChange

(* Nothing else changes the runs or what is recorded of the reports. *)
LEMMA CountsStay ==
  ASSUME CountsOK, UNCHANGED <<ranges, reports, bitReports>>
  PROVE  CountsOK'
BY DEF CountsOK

LEMMA InitCounts == Init => CountsOK
<1> SUFFICES ASSUME Init PROVE CountsOK
  OBVIOUS
<1>1. ranges = <<>> /\ ranges \in Seq(Run) /\ Len(ranges) = 0 /\ 1 .. Len(ranges) = {}
  BY DEF Init
<1>2. Counted(ranges) = 0
  <2>1. IsTotal(Counted(ranges), [i \in 1 .. Len(ranges) |-> ranges[i].count], {})
    BY <1>1, TotalCounted
  <2> QED
    BY <2>1, TotalOfNone
<1>3. ASSUME NEW b \in Bits
      PROVE  BitCounted(ranges, b) = 0
  <2>1. IsTotal(BitCounted(ranges, b), [i \in 1 .. Len(ranges) |-> ranges[i].hist[b]], {})
    BY <1>1, TotalBitCounted
  <2> QED
    BY <2>1, TotalOfNone
<1> QED
  BY <1>2, <1>3 DEF Init, CountsOK

LEMMA NextCounts ==
  ASSUME IInv, IInv', CountsOK, [Next]_vars
  PROVE  CountsOK'
<1>1. RunsOK /\ RunsOK' /\ eccCount \in Nat
  BY DEF IInv, TypeOK
<1>2. ASSUME NEW e \in Report, CommonErr(e)
      PROVE  CountsOK'
  BY <1>1, <1>2, CountsStep DEF CommonErr, Enter
<1>3. CASE Reported
  BY <1>3, CountsStay DEF Reported, history
<1>4. ASSUME NEW mode \in Modes, SetPrintMode(mode)
      PROVE  CountsOK'
  BY <1>4, CountsStay DEF SetPrintMode, history
<1>5. CASE Restart
  BY <1>5, CountsStay DEF Restart
<1>6. CASE UNCHANGED vars
  BY <1>6, CountsStay DEF vars, history
<1> QED
  BY <1>1, <1>2, <1>3, <1>4, <1>5, <1>6, NextCases

-----------------------------------------------------------------------------
(* The invariant holds, for every size, set of slots and sequence of reports. *)
THEOREM InductiveInvariant == Spec => []IInv
<1>1. IInv /\ [Next]_vars => IInv'
  BY NextIInv
<1>2. QED
  BY InitIInv, <1>1, PTL DEF Spec

(* Every variable of the log keeps its type; there are never more than        *)
(* RangeSize runs (error.c:357).                                              *)
THEOREM TypeCorrect == Spec => []TypeOK
<1>1. IInv => TypeOK
  BY DEF IInv
<1>2. QED
  BY <1>1, InductiveInvariant, PTL

(* The runs of failing addresses name reported addresses only, and each ends   *)
(* where its stride and count say (error.c:355-403).                           *)
THEOREM RunsAreReal == Spec => []NothingInvented
<1>1. IInv => NothingInvented
  BY DEF IInv
<1>2. QED
  BY <1>1, InductiveInvariant, PTL

(* While there is room no failing address is left out of the runs.             *)
THEOREM RunsAreComplete == Spec => []NothingForgotten
<1>1. IInv => NothingForgotten
  BY DEF IInv
<1>2. QED
  BY <1>1, InductiveInvariant, PTL

(* The lowest error address of the summary is the lowest one reported since    *)
(* the start (error.c:70-77).                                                  *)
THEOREM LowestIsRight == Spec => []LowestIsLowest
<1>1. IInv => LowestIsLowest
  BY DEF IInv
<1>2. QED
  BY <1>1, InductiveInvariant, PTL

(* No report is counted in two runs, nor a bit in error of it: the counts and  *)
(* the histograms of the runs add up to no more than the reports, whatever     *)
(* number of runs there is room for (error.c:355-403).                         *)
THEOREM CountedOnce == Spec => []NothingCountedTwice
<1>1. Spec => [](IInv /\ CountsOK)
  <2>1. Init => IInv /\ CountsOK
    BY InitIInv, InitCounts
  <2>2. (IInv /\ CountsOK) /\ [Next]_vars => (IInv /\ CountsOK)'
    BY NextIInv, NextCounts
  <2> QED
    BY <2>1, <2>2, PTL DEF Spec
<1>2. IInv /\ CountsOK => NothingCountedTwice
  BY CountsSay
<1> QED
  BY <1>1, <1>2, PTL
=============================================================================
