--------------------------- MODULE BadRam_proofs ---------------------------
(***************************************************************************)
(* Proofs about BadRam: its type invariant, of which the hard part is that *)
(* a full array always has a pattern to extend, and that no reported       *)
(* address is lost while no pattern is merged with itself or with the last *)
(* one.                                                                    *)
(***************************************************************************)
EXTENDS BadRam, FiniteSetTheorems, WellFoundedInduction, TLAPS

-----------------------------------------------------------------------------
(* Patterns and what they capture. *)

(* Capturing, bit by bit. *)
LEMMA CapturesBits ==
  ASSUME NEW p, NEW a
  PROVE  Captures(p, a) <=> \A b \in p.mask : b \in a <=> b \in p.adr
BY DEF Captures

(* A combination captures what either of its parts captures. *)
LEMMA CombineCaptures ==
  ASSUME NEW p, NEW q, NEW a, Captures(p, a) \/ Captures(q, a)
  PROVE  Captures(Combine(p, q), a)
<1> DEFINE c == Combine(p, q)
<1>1. c.mask = CombineMask(p.adr, p.mask, q.adr, q.mask)
  BY DEF Combine
<1>2. c.adr = (p.adr \cup q.adr) \cap c.mask
  BY DEF Combine
<1>3. ASSUME NEW b \in c.mask
      PROVE  b \in a <=> b \in c.adr
  <2>1. b \in p.mask /\ b \in q.mask /\ (b \in p.adr <=> b \in q.adr)
    BY <1>1 DEF CombineMask
  <2>2. b \in c.adr <=> b \in p.adr
    BY <1>2, <2>1
  <2>3. CASE Captures(p, a)
    BY <2>1, <2>2, <2>3, CapturesBits
  <2>4. CASE Captures(q, a)
    BY <2>1, <2>2, <2>4, CapturesBits
  <2>5. QED
    BY <2>3, <2>4
<1>4. QED
  BY <1>3, CapturesBits

(* Masks are sets of bits, and no mask grows. *)
LEMMA CombineType ==
  ASSUME NEW p \in Pair, NEW q \in Pair
  PROVE  /\ Combine(p, q) \in Pair
         /\ Combine(p, q).mask \subseteq p.mask
         /\ Combine(p, q).mask \subseteq q.mask
BY DEF Combine, CombineMask, Pair, Words

LEMMA NewPairType ==
  ASSUME NEW adr \in Faulty
  PROVE  /\ NewPair(adr) \in Pair
         /\ NewPair(adr).mask = DefaultMask
         /\ adr \in Longwords
<1>1. adr \subseteq 2 .. Width - 1
  BY InputAssumption
<1>2. ASSUME NEW b \in adr
      PROVE  b \in DefaultMask
  <2>1. b \in 2 .. Width - 1
    BY <1>1
  <2>2. Width \in Nat /\ Width >= 2
    BY WidthAssumption
  <2>3. b \in 0 .. Width - 1 /\ b \notin {0, 1}
    BY <2>1, <2>2
  <2>4. QED
    BY <2>3 DEF DefaultMask, Bits
<1>3. DefaultMask \subseteq Bits
  BY DEF DefaultMask
<1>4. adr \subseteq Bits
  BY <1>2, <1>3
<1>5. QED
  BY <1>2, <1>3, <1>4 DEF NewPair, Pair, Words, Longwords

-----------------------------------------------------------------------------
(* Costs. *)

LEMMA BitsFinite == IsFiniteSet(Bits) /\ Cardinality(Bits) = Width
<1>1. Width \in Nat /\ Width >= 2
  BY WidthAssumption
<1>2. QED
  BY <1>1, FS_Interval DEF Bits

(* The number of addresses of a nonempty mask without bits 0 and 1 is even   *)
(* and does not wrap.                                                        *)
LEMMA AddressesType ==
  ASSUME NEW mask \in Words
  PROVE  /\ Addresses(mask) \in Nat
         /\ Addresses(mask) < Pow2[Width]
         /\ mask \subseteq DefaultMask =>
              \E k \in Nat : Addresses(mask) = 2 * k
<1> DEFINE n == Cardinality(Bits \ mask)
<1>1. IsFiniteSet(Bits \ mask) /\ n <= Width /\ n \in Nat
  BY BitsFinite, FS_Subset, FS_CardinalityType
<1>2. Pow2[Width] \in Nat \ {0}
  BY WidthAssumption
<1>3. CASE mask = {}
  BY <1>2, <1>3 DEF Addresses
<1>4. CASE mask # {}
  <2>1. n # Width
    BY <1>4, BitsFinite, FS_Subset DEF Words
  <2>2. n \in 0 .. Width /\ n < Width
    BY <1>1, <2>1, WidthAssumption
  <2>3. Pow2[n] \in Nat /\ Pow2[n] < Pow2[Width]
    BY <2>2, WidthAssumption
  <2>4. ASSUME mask \subseteq DefaultMask
        PROVE  \E k \in Nat : Pow2[n] = 2 * k
    <3>1. 0 \in Bits \ mask
      <4>1. Width \in Nat /\ Width >= 2
        BY WidthAssumption
      <4>2. QED
        BY <2>4, <4>1 DEF DefaultMask, Bits
    <3>2. n # 0
      BY <1>1, <3>1, FS_EmptySet
    <3>3. n \in 1 .. Width /\ n - 1 \in 0 .. Width
      <4>1. n \in Nat /\ n # 0 /\ Width \in Nat /\ n < Width
        BY <1>1, <2>2, <3>2, WidthAssumption
      <4> HIDE DEF n
      <4>2. QED
        BY <4>1
    <3>4. Pow2[n] = Pow2[n - 1] + Pow2[n - 1] /\ Pow2[n - 1] \in Nat
      BY <3>3, WidthAssumption
    <3>5. QED
      BY <3>4
  <2>5. QED
    BY <1>4, <2>3, <2>4 DEF Addresses
<1>5. QED
  BY <1>3, <1>4

LEMMA CombiCostType ==
  ASSUME NEW p \in Pair, NEW q \in Pair
  PROVE  CombiCost(p, q) \in Nat
<1>1. p.mask \in Words /\ Combine(p, q).mask \in Words
  BY CombineType DEF Pair
<1>2. Pow2[Width] \in Nat
  BY WidthAssumption
<1>3. QED
  BY <1>1, <1>2, AddressesType DEF CombiCost

(* Extending a pattern never has the cost that stands for "none". *)
LEMMA CombiCostBelowMax ==
  ASSUME NEW p \in Pair, NEW q \in Pair,
         p.mask \subseteq DefaultMask, q.mask \subseteq DefaultMask
  PROVE  CombiCost(p, q) < Pow2[Width] - 1
<1> DEFINE before == Addresses(p.mask)
           after  == Addresses(Combine(p, q).mask)
<1>1. p.mask \in Words /\ Combine(p, q).mask \in Words
  BY CombineType DEF Pair
<1>2. Combine(p, q).mask \subseteq DefaultMask
  BY CombineType
<1>3. PICK k \in Nat : before = 2 * k
  BY <1>1, AddressesType
<1>4. PICK m \in Nat : after = 2 * m
  BY <1>1, <1>2, AddressesType
<1>5. PICK h \in Nat : Pow2[Width] = 2 * h
  <2>1. /\ Width \in 1 .. Width /\ Width - 1 \in 0 .. Width
    BY WidthAssumption
  <2>2. Pow2[Width] = Pow2[Width - 1] + Pow2[Width - 1] /\ Pow2[Width - 1] \in Nat
    BY <2>1, WidthAssumption
  <2>3. QED
    BY <2>2
<1>6. before < Pow2[Width] /\ after < Pow2[Width]
  BY <1>1, AddressesType
<1>7. CombiCost(p, q) = IF after >= before THEN after - before
                        ELSE after - before + Pow2[Width]
  BY DEF CombiCost
<1>8. QED
  BY <1>3, <1>4, <1>5, <1>6, <1>7
(* A set of numbers that is not empty has a least member. *)
LEMMA LeastNumber ==
  ASSUME NEW T, T \subseteq Nat, T # {}
  PROVE  \E k \in T : \A j \in T : k <= j
<1> DEFINE R == OpToRel(<, Nat)
<1>1. IsWellFoundedOn(R, Nat)
  BY NatLessThanWellFounded
<1>2. R = {ss \in Nat \X Nat : ss[1] < ss[2]}
  BY DEF OpToRel
<1> HIDE DEF R
<1>3. PICK k \in T : \A j \in T : <<j, k>> \notin R
  BY <1>1, WFMin, Zenon
<1>4. \A j \in T : <<j, k>> \in Nat \X Nat
  OBVIOUS
<1>5. \A j \in T : ~(j < k)
  BY <1>2, <1>3, <1>4
<1>6. QED
  BY <1>5

(* cheapindex() finds an index below n exactly if there is one that costs    *)
(* less than mincost.                                                        *)
LEMMA CheapIndexFinds ==
  ASSUME NEW n \in Nat, NEW pats, NEW p \in Pair, NEW mincost,
         \A i \in 0 .. n - 1 : pats[i] \in Pair
  PROVE  LET r == CheapIndex(pats, n, p, mincost)
         IN  \/ /\ r = -1
                /\ \A i \in 0 .. n - 1 : ~(CombiCost(pats[i], p) < mincost)
             \/ /\ r \in 0 .. n - 1
                /\ CombiCost(pats[r], p) < mincost
<1> DEFINE Cost(i) == CombiCost(pats[i], p)
           cheap == {i \in 0 .. n - 1 : Cost(i) < mincost}
           Best(i) == \A j \in cheap :
                        Cost(i) < Cost(j) \/ (Cost(i) = Cost(j) /\ i >= j)
<1>1. CheapIndex(pats, n, p, mincost) =
        IF cheap = {} THEN -1 ELSE CHOOSE i \in cheap : Best(i)
  BY DEF CheapIndex
<1>2. CASE cheap = {}
  BY <1>1, <1>2
<1>3. CASE cheap # {}
  <2>1. \A i \in cheap : Cost(i) \in Nat
    BY CombiCostType
  <2> DEFINE costs == {Cost(i) : i \in cheap}
  <2>2. costs \subseteq Nat /\ costs # {}
    BY <1>3, <2>1
  <2>3. PICK c \in costs : \A d \in costs : c <= d
    <3> HIDE DEF costs
    <3> QED
      BY <2>2, LeastNumber
  <2> DEFINE ties == {i \in cheap : Cost(i) = c}
             below == {n - i : i \in ties}
  <2>4. ties # {} /\ \A i \in ties : i \in 0 .. n - 1
    BY <2>3
  <2>5. below \subseteq Nat /\ below # {}
    <3> HIDE DEF ties
    <3> QED
      BY <2>4
  <2>6. PICK b \in below : \A e \in below : b <= e
    <3> HIDE DEF below
    <3> QED
      BY <2>5, LeastNumber
  <2>7. PICK i \in ties : \A j \in ties : i >= j
    <3> HIDE DEF ties
    <3>1. PICK i \in ties : b = n - i
      BY <2>6
    <3>2. \A j \in ties : n - i <= n - j
      BY <2>6, <3>1
    <3>3. \A j \in ties : i >= j
      BY <2>4, <3>2
    <3>4. QED
      BY <3>3
  <2>8. Best(i)
    <3>1. SUFFICES ASSUME NEW j \in cheap
                   PROVE  Cost(i) < Cost(j) \/ (Cost(i) = Cost(j) /\ i >= j)
      OBVIOUS
    <3>2. Cost(i) = c /\ c <= Cost(j) /\ c \in Nat /\ Cost(j) \in Nat
      BY <2>1, <2>2, <2>3
    <3>3. CASE Cost(j) = c
      BY <2>7, <3>2, <3>3
    <3>4. CASE Cost(j) # c
      BY <3>2, <3>4
    <3>5. QED
      BY <3>3, <3>4
  <2>9. (CHOOSE k \in cheap : Best(k)) \in cheap
    <3> HIDE DEF cheap, Best
    <3>1. i \in cheap
      BY DEF cheap
    <3>2. QED
      BY <2>8, <3>1
  <2>10. QED
    BY <1>1, <1>3, <2>9
<1>4. QED
  BY <1>2, <1>3

(* What costs nothing is captured already. *)
LEMMA FreeIsCaptured ==
  ASSUME NEW p \in Pair, NEW adr \in Faulty, CombiCost(p, NewPair(adr)) < 1,
         p.mask \subseteq DefaultMask
  PROVE  Captures(p, adr)
<1> DEFINE q == Combine(p, NewPair(adr))
<1>1. q \in Pair /\ q.mask \subseteq p.mask
  BY NewPairType, CombineType
<1>2. p.mask \in Words /\ q.mask \in Words /\ Pow2[Width] \in Nat
  BY <1>1, WidthAssumption DEF Pair
<1>3. Addresses(q.mask) = Addresses(p.mask)
  <2> DEFINE before == Addresses(p.mask)
             after  == Addresses(q.mask)
  <2>1. /\ before \in Nat /\ before < Pow2[Width]
        /\ after \in Nat
    BY <1>2, AddressesType
  <2>2. CombiCost(p, NewPair(adr)) =
          IF after >= before THEN after - before
          ELSE after - before + Pow2[Width]
    BY DEF CombiCost
  <2> HIDE DEF before, after
  <2>3. after = before
    BY <1>2, <2>1, <2>2
  <2>4. QED
    BY <2>3 DEF before, after
<1>4. CASE p.mask = {}
  BY <1>4, CapturesBits
<1>5. CASE p.mask # {}
  <2> DEFINE P == Bits \ p.mask
             Q == Bits \ q.mask
  <2>1. /\ IsFiniteSet(P) /\ Cardinality(P) \in 0 .. Width
        /\ IsFiniteSet(Q) /\ Cardinality(Q) \in 0 .. Width
    BY BitsFinite, FS_Subset, FS_CardinalityType, WidthAssumption
  <2>2. q.mask # {}
    <3>1. Addresses(p.mask) # 0
      BY <1>5, <2>1, WidthAssumption DEF Addresses
    <3>2. QED
      BY <1>3, <3>1 DEF Addresses
  <2>3. Pow2[Cardinality(P)] = Pow2[Cardinality(Q)]
    BY <1>3, <1>5, <2>2 DEF Addresses
  <2>4. Cardinality(P) = Cardinality(Q)
    <3> DEFINE c == Cardinality(P)
               d == Cardinality(Q)
    <3>1. c \in 0 .. Width /\ d \in 0 .. Width /\ Pow2[c] = Pow2[d]
      BY <2>1, <2>3
    <3> HIDE DEF c, d
    <3>2. ~(c < d) /\ ~(d < c)
      <4>1. \A i \in 0 .. Width : Pow2[i] \in Nat
        BY WidthAssumption
      <4>2. \A i, j \in 0 .. Width : i < j => Pow2[i] < Pow2[j]
        BY WidthAssumption
      <4>3. QED
        BY <3>1, <4>1, <4>2
    <3>3. c = d
      BY <3>1, <3>2
    <3>4. QED
      BY <3>3 DEF c, d
  <2>5. P \subseteq Q
    BY <1>1
  <2>6. P = Q
    BY <2>1, <2>4, <2>5, FS_Subset
  <2>7. q.mask = p.mask
    BY <1>2, <2>6 DEF Words
  <2>8. \A b \in p.mask : b \in adr <=> b \in p.adr
    BY <2>7 DEF Combine, CombineMask, NewPair
  <2>9. QED
    BY <2>8, CapturesBits
<1>6. QED
  BY <1>4, <1>5
-----------------------------------------------------------------------------
(* The inductive invariant: besides the type, no pattern looks at bits 0 and *)
(* 1, which bounds its cost, and relocateiffree() works on a pattern of the  *)
(* array as long as it did not slip.                                         *)
LongwordMasks == \A i \in Indices : patn[i].mask \subseteq DefaultMask
InArray == pc = "relocate" /\ ~slipped => idx < numpatn

IInv == TypeOK /\ LongwordMasks /\ InArray /\ CapturedUnlessSlipped

(* The patterns in use are pairs. *)
LEMMA InUse ==
  ASSUME TypeOK
  PROVE  /\ numpatn \in Nat /\ MaxPatns \in Nat
         /\ \A i \in 0 .. numpatn - 1 : i \in Indices /\ patn[i] \in Pair
BY InputAssumption DEF TypeOK, Indices

(* A new fault that is not inserted is captured by some pattern. *)
LEMMA KnownCaptured ==
  ASSUME TypeOK, LongwordMasks, NEW adr \in Faulty, InsertKnown(adr)
  PROVE  adr \in Captured(patn, numpatn)
<1> DEFINE r == CheapIndex(patn, numpatn, NewPair(adr), 1)
<1>1. r \in 0 .. numpatn - 1 /\ CombiCost(patn[r], NewPair(adr)) < 1
  BY InUse, NewPairType, CheapIndexFinds DEF InsertKnown
<1>2. Captures(patn[r], adr)
  BY <1>1, InUse, FreeIsCaptured DEF LongwordMasks
<1>3. QED
  BY <1>1, <1>2, NewPairType DEF Captured

(* A full array has a pattern to extend. *)
LEMMA CheapestExists ==
  ASSUME TypeOK, LongwordMasks, NEW adr \in Faulty, numpatn >= MaxPatns
  PROVE  Cheapest(adr) \in 0 .. numpatn - 1 /\ numpatn = MaxPatns
<1>1. numpatn = MaxPatns /\ 0 \in 0 .. numpatn - 1
  BY InputAssumption DEF TypeOK
<1>2. CombiCost(patn[0], NewPair(adr)) < Pow2[Width] - 1
  BY <1>1, InUse, NewPairType, CombiCostBelowMax DEF LongwordMasks
<1>3. QED
  BY <1>1, <1>2, InUse, NewPairType, CheapIndexFinds DEF Cheapest

(* relocateidx() returns a pattern in use, if any. *)
LEMMA RelocateIdxType ==
  ASSUME TypeOK
  PROVE  RelocateIdx(idx) = -1 \/ RelocateIdx(idx) \in 0 .. numpatn - 1
<1> DEFINE pats == [patn EXCEPT ![idx].adr = Bits \ @]
<1>1. idx \in Indices /\ patn[idx] \in Pair
  BY DEF TypeOK
<1>2. ASSUME NEW i \in 0 .. numpatn - 1
      PROVE  pats[i] \in Pair
  <2>1. patn[i] \in Pair /\ i \in Indices
    BY <1>2, InUse
  <2>2. pats[i] = IF i = idx THEN [patn[i] EXCEPT !.adr = Bits \ @] ELSE patn[i]
    BY <2>1 DEF TypeOK
  <2>3. QED
    BY <2>1, <2>2 DEF Pair, Words
<1> HIDE DEF pats
<1>3. LET r == CheapIndex(pats, numpatn, patn[idx], 1 + Addresses(patn[idx].mask))
      IN  r = -1 \/ r \in 0 .. numpatn - 1
  BY <1>1, <1>2, InUse, CheapIndexFinds
<1>4. QED
  BY <1>3 DEF RelocateIdx, pats

-----------------------------------------------------------------------------
(* What each step does to the patterns and to what they capture. *)

LEMMA InsertNewStep ==
  ASSUME TypeOK, LongwordMasks, NEW adr \in Faulty, InsertNew(adr)
  PROVE  /\ TypeOK' /\ LongwordMasks' /\ InArray'
         /\ Captured(patn, numpatn) \subseteq Captured(patn, numpatn)'
         /\ adr \in Captured(patn, numpatn)'
<1>1. /\ numpatn \in Indices /\ numpatn' = numpatn + 1
      /\ patn' = [patn EXCEPT ![numpatn] = NewPair(adr)]
      /\ pc' = "relocate" /\ idx' = numpatn
      /\ faults' = faults \cup {adr} /\ slipped' = slipped
  BY InUse DEF TypeOK, InsertNew, Indices
<1>2. NewPair(adr) \in Pair /\ NewPair(adr).mask = DefaultMask /\ adr \in Longwords
  BY NewPairType
<1>3. TypeOK'
  BY <1>1, <1>2, InUse DEF TypeOK, Indices
<1>4. LongwordMasks'
  BY <1>1, <1>2 DEF TypeOK, LongwordMasks
<1>5. InArray'
  BY <1>1, InUse DEF InArray
<1>6. ASSUME NEW a \in Captured(patn, numpatn)
      PROVE  a \in Captured(patn, numpatn)'
  <2>1. PICK i \in 0 .. numpatn - 1 : Captures(patn[i], a) /\ a \in Longwords
    BY <1>6 DEF Captured
  <2>2. i \in 0 .. numpatn' - 1 /\ patn'[i] = patn[i]
    BY <1>1, <2>1, InUse DEF TypeOK
  <2>3. QED
    BY <2>1, <2>2 DEF Captured
<1>7. adr \in Captured(patn, numpatn)'
  <2>1. numpatn \in 0 .. numpatn' - 1 /\ patn'[numpatn] = NewPair(adr)
    BY <1>1, InUse DEF TypeOK
  <2>2. Captures(NewPair(adr), adr)
    BY DEF Captures, NewPair
  <2>3. QED
    BY <1>2, <2>1, <2>2 DEF Captured
<1>8. QED
  BY <1>3, <1>4, <1>5, <1>6, <1>7

LEMMA InsertFullStep ==
  ASSUME TypeOK, LongwordMasks, NEW adr \in Faulty, InsertFull(adr)
  PROVE  /\ TypeOK' /\ LongwordMasks' /\ InArray'
         /\ Captured(patn, numpatn) \subseteq Captured(patn, numpatn)'
         /\ adr \in Captured(patn, numpatn)'
<1> DEFINE c == Cheapest(adr)
           q == Combine(patn[c], NewPair(adr))
<1>1. c \in 0 .. numpatn - 1 /\ numpatn = MaxPatns
  BY CheapestExists DEF InsertFull
<1>2. c \in Indices /\ patn[c] \in Pair
  BY <1>1, InUse
<1> HIDE DEF c
<1>3. /\ patn' = [patn EXCEPT ![c] = q]
      /\ numpatn' = numpatn
      /\ pc' = "relocate" /\ idx' = c
      /\ faults' = faults \cup {adr} /\ slipped' = slipped
  BY DEF InsertFull, c
<1>4. q \in Pair /\ q.mask \subseteq patn[c].mask /\ adr \in Longwords
  BY <1>2, NewPairType, CombineType
<1>5. \A a : Captures(patn[c], a) \/ a = adr => Captures(q, a)
  <2>1. Captures(NewPair(adr), adr)
    BY DEF Captures, NewPair
  <2>2. QED
    BY <2>1, CombineCaptures
<1> HIDE DEF q
<1>6. TypeOK'
  BY <1>2, <1>3, <1>4 DEF TypeOK
<1>7. LongwordMasks'
  BY <1>2, <1>3, <1>4 DEF TypeOK, LongwordMasks
<1>8. InArray'
  BY <1>1, <1>3, InUse DEF InArray
<1>9. ASSUME NEW a \in Captured(patn, numpatn)
      PROVE  a \in Captured(patn, numpatn)'
  <2>1. PICK i \in 0 .. numpatn - 1 : Captures(patn[i], a) /\ a \in Longwords
    BY <1>9 DEF Captured
  <2>2. patn'[i] = IF i = c THEN q ELSE patn[i]
    BY <1>3, <2>1, InUse DEF TypeOK
  <2>3. Captures(patn'[i], a)
    BY <1>5, <2>1, <2>2
  <2>4. QED
    BY <1>3, <2>1, <2>3 DEF Captured
<1>10. adr \in Captured(patn, numpatn)'
  <2>1. patn'[c] = q
    BY <1>2, <1>3 DEF TypeOK
  <2>2. QED
    BY <1>1, <1>3, <1>4, <1>5, <2>1 DEF Captured
<1>11. QED
  BY <1>6, <1>7, <1>8, <1>9, <1>10

LEMMA RelocateStep ==
  ASSUME TypeOK, LongwordMasks, InArray, Relocate
  PROVE  /\ TypeOK' /\ LongwordMasks' /\ InArray'
         /\ ~slipped' => Captured(patn, numpatn) \subseteq Captured(patn, numpatn)'
<1> DEFINE new == RelocateIdx(idx)
           last == numpatn - 1
           q == Combine(patn[new], patn[idx])
           merged == [patn EXCEPT ![new] = q]
<1>1. new \in 0 .. last
  BY RelocateIdxType DEF Relocate
<1>2. /\ patn' = IF idx < last THEN [merged EXCEPT ![idx] = merged[last]] ELSE merged
      /\ numpatn' = last /\ idx' = new
      /\ pc = "relocate" /\ pc' = pc /\ faults' = faults
      /\ slipped' = (slipped \/ new \in {idx, last})
  BY DEF Relocate
<1> HIDE DEF new
<1>3. /\ new \in Indices /\ last \in Indices /\ idx \in Indices
      /\ patn[new] \in Pair /\ patn[idx] \in Pair /\ last \in Nat
  BY <1>1, InUse DEF TypeOK
<1>4. q \in Pair /\ q.mask \subseteq patn[new].mask
  BY <1>3, CombineType
<1>5. \A a : Captures(patn[new], a) \/ Captures(patn[idx], a) => Captures(q, a)
  BY CombineCaptures
<1> HIDE DEF q
<1>6. merged \in [Indices -> Pair] /\ \A i \in Indices : merged[i].mask \subseteq DefaultMask
  BY <1>3, <1>4 DEF TypeOK, LongwordMasks
<1>7. /\ patn' \in [Indices -> Pair]
      /\ \A i \in Indices : patn'[i] = IF idx < last /\ i = idx THEN merged[last]
                                       ELSE merged[i]
  <2> HIDE DEF merged, last
  <2> QED
    BY <1>2, <1>3, <1>6
<1>8. numpatn' \in 0 .. MaxPatns
  BY <1>1, <1>2, InUse DEF TypeOK
<1>9. TypeOK'
  BY <1>2, <1>3, <1>7, <1>8 DEF TypeOK
<1>10. LongwordMasks'
  <2> HIDE DEF merged, last
  <2> QED
    BY <1>3, <1>6, <1>7 DEF LongwordMasks
<1>11. ~slipped' => idx < numpatn /\ new < last /\ new # idx
  <2>1. SUFFICES ASSUME ~slipped'
                 PROVE  idx < numpatn /\ new < last /\ new # idx
    OBVIOUS
  <2>2. ~slipped /\ new # idx /\ new # last
    BY <1>2, <2>1, Zenon
  <2>3. idx < numpatn
    BY <1>2, <2>2 DEF InArray
  <2>4. new < last
    <3> HIDE DEF last
    <3> QED
      BY <1>1, <1>3, <2>2
  <2>5. QED
    BY <2>2, <2>3, <2>4
<1>12. ASSUME ~slipped', NEW a \in Captured(patn, numpatn)
       PROVE  a \in Captured(patn, numpatn)'
  <2>1. idx < numpatn /\ new < last /\ new # idx
    BY <1>11, <1>12
  <2>2. PICK i \in 0 .. numpatn - 1 : Captures(patn[i], a) /\ a \in Longwords
    BY <1>12 DEF Captured
  <2>3. i \in Indices /\ idx \in 0 .. last /\ new \in 0 .. last - 1
    BY <1>1, <1>3, <2>1, <2>2, InUse DEF Indices
  <2>4. CASE i = idx \/ i = new
    <3>1. patn'[new] = q
      BY <1>3, <1>7, <2>1 DEF TypeOK
    <3>2. QED
      BY <1>2, <1>5, <2>2, <2>3, <2>4, <3>1 DEF Captured
  <2>5. CASE i = last /\ i # idx
    <3>1. patn'[idx] = patn[i] /\ idx \in 0 .. last - 1
      BY <1>3, <1>7, <2>1, <2>3, <2>5 DEF TypeOK
    <3>2. QED
      BY <1>2, <2>2, <3>1 DEF Captured
  <2>6. CASE i # idx /\ i # new /\ i # last
    <3>1. patn'[i] = patn[i] /\ i \in 0 .. last - 1
      BY <1>7, <2>2, <2>3, <2>6 DEF TypeOK
    <3>2. QED
      BY <1>2, <2>2, <3>1 DEF Captured
  <2>7. QED
    BY <2>4, <2>5, <2>6
<1>13. InArray'
  <2> HIDE DEF last
  <2> QED
    BY <1>2, <1>11 DEF InArray
<1>14. QED
  BY <1>9, <1>10, <1>12, <1>13

-----------------------------------------------------------------------------
LEMMA InitIInv == Init => IInv
<1> SUFFICES ASSUME Init PROVE IInv
  OBVIOUS
<1>1. TypeOK
  <2>1. patn \in [Indices -> Pair] /\ faults \subseteq Longwords
    BY DEF Init, Pair, Words
  <2>2. numpatn \in 0 .. MaxPatns /\ idx \in Indices
    BY InputAssumption DEF Init, Indices
  <2>3. pc \in {"ready", "relocate"} /\ slipped \in BOOLEAN
    BY DEF Init
  <2>4. QED
    BY <2>1, <2>2, <2>3 DEF TypeOK
<1>2. LongwordMasks /\ InArray /\ CapturedUnlessSlipped
  BY DEF Init, LongwordMasks, InArray, CapturedUnlessSlipped, Captured
<1>3. QED
  BY <1>1, <1>2 DEF IInv

LEMMA NextIInv == IInv /\ [Next]_vars => IInv'
<1> SUFFICES ASSUME IInv, [Next]_vars PROVE IInv'
  OBVIOUS
<1>1. TypeOK /\ LongwordMasks /\ InArray /\ CapturedUnlessSlipped
  BY DEF IInv
<1>2. CASE Clear
  <2>1. TypeOK'
    <3>1. numpatn' \in 0 .. MaxPatns
      BY <1>2, InputAssumption DEF Clear
    <3>2. slipped' \in BOOLEAN /\ faults' \subseteq Longwords
      BY <1>2 DEF Clear
    <3>3. QED
      BY <1>1, <1>2, <3>1, <3>2 DEF Clear, TypeOK
  <2>2. LongwordMasks' /\ InArray' /\ CapturedUnlessSlipped'
    BY <1>1, <1>2 DEF Clear, LongwordMasks, InArray, CapturedUnlessSlipped
  <2>3. QED
    BY <2>1, <2>2 DEF IInv
<1>3. ASSUME NEW adr \in Faulty, InsertKnown(adr)
      PROVE  IInv'
  <2>1. adr \in Captured(patn, numpatn) /\ adr \in Longwords
    BY <1>1, <1>3, KnownCaptured, NewPairType
  <2>2. TypeOK'
    BY <1>1, <1>3, <2>1 DEF InsertKnown, TypeOK
  <2>3. LongwordMasks' /\ InArray'
    BY <1>1, <1>3 DEF InsertKnown, LongwordMasks, InArray
  <2>4. CapturedUnlessSlipped'
    BY <1>1, <1>3, <2>1 DEF InsertKnown, CapturedUnlessSlipped, Captured
  <2>5. QED
    BY <2>2, <2>3, <2>4 DEF IInv
<1>4. ASSUME NEW adr \in Faulty, InsertNew(adr)
      PROVE  IInv'
  <2>1. CapturedUnlessSlipped'
    BY <1>1, <1>4, InsertNewStep DEF InsertNew, CapturedUnlessSlipped
  <2>2. QED
    BY <1>1, <1>4, <2>1, InsertNewStep DEF IInv
<1>5. ASSUME NEW adr \in Faulty, InsertFull(adr)
      PROVE  IInv'
  <2>1. CapturedUnlessSlipped'
    BY <1>1, <1>5, InsertFullStep DEF InsertFull, CapturedUnlessSlipped
  <2>2. QED
    BY <1>1, <1>5, <2>1, InsertFullStep DEF IInv
<1>6. CASE Relocate
  <2>1. CapturedUnlessSlipped'
    <3>1. faults' = faults /\ (~slipped' => ~slipped)
      BY <1>6 DEF Relocate
    <3>2. QED
      BY <1>1, <1>6, <3>1, RelocateStep DEF CapturedUnlessSlipped
  <2>2. QED
    BY <1>1, <1>6, <2>1, RelocateStep DEF IInv
<1>7. CASE Settle
  BY <1>7 DEF IInv, Settle, TypeOK, LongwordMasks, InArray,
              CapturedUnlessSlipped, Captured
<1>8. CASE UNCHANGED vars
  BY <1>8 DEF vars, IInv, TypeOK, LongwordMasks, InArray,
              CapturedUnlessSlipped, Captured
<1>9. QED
  BY <1>2, <1>3, <1>4, <1>5, <1>6, <1>7, <1>8 DEF Next, Insert

LEMMA InductiveInvariant == Spec => []IInv
BY InitIInv, NextIInv, PTL DEF Spec

(* The variables keep their types: the array is never overrun, and a full    *)
(* array always has a pattern to extend (patn.c:134-143).                    *)
THEOREM TypeCorrect == Spec => []TypeOK
<1>1. IInv => TypeOK
  BY DEF IInv
<1>2. QED
  BY <1>1, InductiveInvariant, PTL

(* Every fault stays captured as long as no pattern was merged with itself   *)
(* or with the last one, for words of any width and any number of patterns.  *)
THEOREM FaultsCaptured == Spec => []CapturedUnlessSlipped
<1>1. IInv => CapturedUnlessSlipped
  BY DEF IInv
<1>2. QED
  BY <1>1, InductiveInvariant, PTL

(* No step but Clear uncovers an address that was covered, under the same    *)
(* condition.                                                                *)
THEOREM CoverageKept == Spec => NothingUncovered
<1>1. IInv /\ [Next]_vars =>
        [numpatn' # 0 /\ ~slipped' =>
           Captured(patn, numpatn) \subseteq Captured(patn, numpatn)']_vars
  <2> SUFFICES ASSUME IInv, Next, numpatn' # 0, ~slipped'
               PROVE  Captured(patn, numpatn) \subseteq Captured(patn, numpatn)'
    OBVIOUS
  <2>1. CASE Clear
    BY <2>1 DEF Clear
  <2>2. ASSUME NEW adr \in Faulty, Insert(adr)
        PROVE  Captured(patn, numpatn) \subseteq Captured(patn, numpatn)'
    <3>1. CASE InsertKnown(adr)
      BY <3>1 DEF InsertKnown, Captured
    <3>2. CASE InsertNew(adr)
      BY <3>2, InsertNewStep DEF IInv
    <3>3. CASE InsertFull(adr)
      BY <3>3, InsertFullStep DEF IInv
    <3>4. QED
      BY <2>2, <3>1, <3>2, <3>3 DEF Insert
  <2>3. CASE Relocate
    BY <2>3, RelocateStep DEF IInv
  <2>4. CASE Settle
    BY <2>4 DEF Settle, Captured
  <2>5. QED
    BY <2>1, <2>2, <2>3, <2>4 DEF Next
<1>2. QED
  BY <1>1, InductiveInvariant, PTL DEF Spec, NothingUncovered
=============================================================================
